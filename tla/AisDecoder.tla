----------------------------- MODULE AisDecoder -----------------------------
(***************************************************************************)
(* The decoder of AIS lines (lib/aisparser/ais_decoder.cpp) and the N2K    *)
(* messages made of what it decodes                                        *)
(* (lib/nmea0183ton2k/NMEA0183AIStoNMEA2000.h).  A message comes in one to *)
(* five fragments, those of one message with the same sequence id, and     *)
(* there is one slot for every id, whatever channel its lines come from.   *)
(*                                                                         *)
(* A line s has valid (checksum, talker and layout are right), count, num, *)
(* seq, and frag, its part of the payload: a record of the ship it is      *)
(* about, the type the message has if this is its first part, its number   *)
(* in its message, its size in bits.                                       *)
(***************************************************************************)
EXTENDS Integers, Sequences, SequencesExt, TLC

MAX_MSG_SEQUENCE_IDS == 10
MAX_MSG_FRAGMENTS == 5

Empty == [count |-> 0, frags |-> <<>>]        (* a slot without message *)
NoMultiSentences == [seq \in 0 .. (MAX_MSG_SEQUENCE_IDS - 1) |-> Empty]
-----------------------------------------------------------------------------
(* The bits a message must have (decodeType...); other types are not       *)
(* decoded.                                                                *)
mobileBits == [type \in {"1", "2", "3", "4", "9", "11"} |-> 168] @@ ("5" :> 420) @@ ("14" :> 41)
stationBits == ("18" :> 168) @@ ("19" :> 312) @@ ("21" :> 272)
staticBits == ("24A" :> 160) @@ ("24B" :> 168) @@ ("27" :> 96)
minBits == mobileBits @@ stationBits @@ staticBits
maxBits(type) == IF type = "14" THEN 1008 ELSE MAX_MSG_FRAGMENTS * 82 * 6

(* The N2K message a message becomes; the others become none.              *)
onMobile(type) ==
  CASE type \in {"1", "2", "3"} -> <<"129038">> [] type = "5" -> <<"129794">>
    [] type = "14" -> <<"129802">> [] OTHER -> <<>>
onClassB(type) ==
  CASE type = "18" -> <<"129039">> [] type = "19" -> <<"129040">>
    [] type = "24A" -> <<"129809">> [] type = "24B" -> <<"129810">> [] OTHER -> <<>>
onType(type) == IF onMobile(type) # <<>> THEN onMobile(type) ELSE onClassB(type)

Size(frags) == FoldLeft(LAMBDA n, frag : n + frag.bits, 0, frags)

decodeMobileAisMsg(frags) ==
  LET type == frags[1].type
  IN IF type \in DOMAIN minBits /\ Size(frags) \in minBits[type] .. maxBits(type) THEN onType(type) ELSE <<>>
-----------------------------------------------------------------------------
(* Faulty variant: a fragment is taken whatever came before it. *)
FitsAny(slot, s) == slot # Empty /\ s.num <= slot.count
-----------------------------------------------------------------------------
(* decodeMsg: the slots after a line, and the message that is complete     *)
(* with it.  Fragments are taken in order only; any error empties the slot.*)
Fits(slot, s) == slot # Empty /\ s.num <= slot.count /\ Len(slot.frags) = s.num - 1

usable(s) ==
  /\ s.valid /\ s.count \in 1 .. MAX_MSG_FRAGMENTS
  /\ s.count > 1 => s.seq < MAX_MSG_SEQUENCE_IDS /\ s.num \in 1 .. s.count

addFragment(slot, s) == [slot EXCEPT !.frags = Append(@, s.frag)]
isComplete(slot) == Len(slot.frags) = slot.count

slotAfter(slot, s) ==
  CASE s.num = 1 -> [count |-> s.count, frags |-> <<s.frag>>]
    [] s.num > 1 /\ Fits(slot, s) /\ ~isComplete(addFragment(slot, s)) -> addFragment(slot, s)
    [] OTHER -> Empty

slotsAfter(slots, s) ==
  IF ~usable(s) \/ s.count = 1 THEN slots ELSE [slots EXCEPT ![s.seq] = slotAfter(@, s)]

(* The fragments of the message that is decoded now. *)
decoded(slots, s) ==
  IF ~usable(s) THEN <<>>
  ELSE IF s.count = 1 THEN <<s.frag>>
  ELSE LET slot == slots[s.seq]
       IN IF s.num > 1 /\ Fits(slot, s) /\ isComplete(addFragment(slot, s))
          THEN Append(slot.frags, s.frag) ELSE <<>>
=============================================================================

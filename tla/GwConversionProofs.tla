------------------------- MODULE GwConversionProofs -------------------------
(***************************************************************************)
(* Proofs about GwConversion, for all settings, timeouts and messages, any *)
(* number of them and any times between them.                              *)
(*                                                                         *)
(* A handler is made of a few operations on the context: store, send, note *)
(* an unknown reading, fill the XDR line.  Follows says what any sequence  *)
(* of them may do to the context (Evolves adds what the handlers of most   *)
(* lines do not do, Converts what those of N2K messages do not do), so that*)
(* it is reflexive and transitive; it is proved of the operations first,   *)
(* and then of the handlers as the operations they are made of.  The state *)
(* of the specification is a context; its inductive invariants, MembersInv *)
(* and, while millis() is far from its end, TimesInv, are at the end.      *)
(*                                                                         *)
(* Strings are opaque to the provers: that a name that begins with xdr is  *)
(* not SatInfo is the hypothesis XdrNamesDiffer of the theorems.           *)
(***************************************************************************)
EXTENDS GwConversion, TLAPS, NaturalsInduction, FiniteSetTheorems

IsSeq(s) == s \in Seq({s[k] : k \in DOMAIN s})

Entry(e) ==
  DOMAIN e = {"lastSet", "src", "data"} /\ e.lastSet \in 0 .. (Wrap - 1) /\ e.src \in Int

IsContext(c) ==
  /\ DOMAIN c = {"now", "bd", "unknown", "n183", "n2k", "out", "memory"}
  /\ c.now \in 0 .. (Wrap - 1)
  /\ DOMAIN c.bd = Item /\ \A i \in Item : Entry(c.bd[i])
  /\ DOMAIN c.n183 = {"sourceId", "lastSendTransducers", "xdrOpened", "xdrMessage", "lastRmcSent",
                      "vships", "endless"}
  /\ DOMAIN c.n2k = {"lastSends", "waypointMap", "waypointId", "lastRmc", "slots"}
  /\ \A k \in DOMAIN c.n2k.lastSends : c.n2k.lastSends[k] \in 0 .. (Wrap - 1)
  /\ IsSeq(c.out)

(* What happens to the store: an item is left alone or set now by s, and   *)
(* then s was allowed to.                                                  *)
StoreFollows(c, d, s) ==
  \A i \in Item :
    \/ d.bd[i] = c.bd[i]
    \/ d.bd[i].lastSet = c.now /\ d.bd[i].src = s /\ (i \notin Kept => accepts(c.bd, i, s, c.now))

(* What was read for the messages is in time. *)
FreshIn(c, i) ==
  c.bd[i].lastSet # 0 /\ (invalidTime(i) = 0 \/ c.now - c.bd[i].lastSet <= invalidTime(i))
Fresh(c) == \A k \in DOMAIN c.out : \A i \in c.out[k].reads : i \in Item /\ FreshIn(c, i)
KeepsFresh(c, d) == c.now # 0 /\ Fresh(c) => Fresh(d)

(* The throttle: sends are the times before the step. *)
Throttle(c, sends) ==
  /\ DOMAIN c.n2k.lastSends = DOMAIN sends \cup keysOf(c.out)
  /\ \A k \in keysOf(c.out) : c.n2k.lastSends[k] = c.now
  /\ \A k \in DOMAIN sends \ keysOf(c.out) : c.n2k.lastSends[k] = sends[k]
  /\ \A k \in DOMAIN sends \cap keysOf(c.out) : Plus(sends[k], config.min2KInterval) <= c.now
  /\ \A j, k \in Telling(c.out, "key") : c.out[j].more.key = c.out[k].more.key => j = k
KeepsThrottle(c, d) ==
  \A sends : c.now + config.min2KInterval < Wrap /\ Throttle(c, sends) => Throttle(d, sends)

(* Types.  No transducer's item has the name of the list of satellites:    *)
(* its name begins with xdr.                                               *)
XdrNamesDiffer == \A t : getBoatItemName(t) # "SatInfo"
SatList(sats) ==
  sats \in Seq({sats[k] : k \in DOMAIN sats}) /\ \A k \in DOMAIN sats : sats[k].validTill \in 0 .. (Wrap - 1)
Typed(c) ==
  /\ \A i \in Item \ {"SatInfo"} : c.bd[i].data \in Int
  /\ SatList(c.bd["SatInfo"].data)
  /\ IsFiniteSet(c.unknown) /\ Cardinality(c.unknown) <= MaxUnknown
  /\ c.n183.endless \in BOOLEAN /\ c.n183.xdrOpened \in BOOLEAN
  /\ IsSeq(c.n183.xdrMessage) /\ Len(c.n183.xdrMessage) <= XdrRoom
KeepsType(c, d) == XdrNamesDiffer /\ Typed(c) => Typed(d)

Ready(c) == IsContext(c) /\ XdrNamesDiffer /\ Typed(c)

Leads(c, d, s) ==
  Ready(c) =>
    /\ IsContext(d) /\ d.now = c.now
    /\ StoreFollows(c, d, s) /\ KeepsFresh(c, d) /\ KeepsThrottle(c, d) /\ KeepsType(c, d)

(* The transducers of a step: each of those that were noted since last is  *)
(* at one place j, of the line that is filled (k = 0) or of line k that was*)
(* sent, and it was not held back.                                         *)
Holds(sent, xs, k, j, t) ==
  \/ k = 0 /\ j \in DOMAIN xs /\ xs[j] = t
  \/ /\ k # 0 /\ k \in Telling(sent, "transducers")
     /\ j \in DOMAIN sent[k].more.transducers /\ sent[k].more.transducers[j] = t
Places(sent, xs, notes, time, last) ==
  /\ DOMAIN last \subseteq DOMAIN notes
  /\ \A k, j, t : Holds(sent, xs, k, j, t) =>
        /\ t \in DOMAIN notes /\ notes[t] = time
        /\ t \in DOMAIN last => ~ (Plus(last[t], config.minXdrInterval) > time)
  /\ \A t \in DOMAIN notes : (t \in DOMAIN last /\ notes[t] = last[t]) \/ \E k, j : Holds(sent, xs, k, j, t)
  /\ \A t, k, j, k1, j1 : Holds(sent, xs, k, j, t) /\ Holds(sent, xs, k1, j1, t) => k = k1 /\ j = j1
Pending(n) == IF n.xdrOpened THEN n.xdrMessage ELSE << >>
XdrPlaced(c, last) == Places(c.out, Pending(c.n183), c.n183.lastSendTransducers, c.now, last)
XdrIntervalFits(time) == config.minXdrInterval \in Nat \ {0} /\ time + config.minXdrInterval < Wrap
KeepsPlaces(c, d) == \A last : XdrIntervalFits(c.now) /\ XdrPlaced(c, last) => XdrPlaced(d, last)

(* Between messages no line is being filled. *)
KeepsXdr(c, d) == KeepsPlaces(c, d) /\ (~c.n183.xdrOpened => ~d.n183.xdrOpened)

Follows(c, d, s) == Leads(c, d, s) /\ (Ready(c) => KeepsXdr(c, d))

(* Messages that are no RMC of the gateway, no leg and no AIS message. *)
Plain(e) == e.what # "RMC" /\ "dest" \notin DOMAIN e.more /\ "frags" \notin DOMAIN e.more
SendsPlain(c, d) ==
  \A k \in DOMAIN d.out : (k \in DOMAIN c.out /\ d.out[k] = c.out[k]) \/ Plain(d.out[k])
SameRest(c, d) ==
  /\ d.n2k.waypointMap = c.n2k.waypointMap /\ d.n2k.waypointId = c.n2k.waypointId
  /\ d.n2k.lastRmc = c.n2k.lastRmc /\ d.n2k.slots = c.n2k.slots

Evolves(c, d, s) ==
  Follows(c, d, s) /\ (Ready(c) => SendsPlain(c, d) /\ SameRest(c, d))

(* What an N2K message does: it leaves the other converter alone. *)
Converts(c, d, s) ==
  Evolves(c, d, s) /\ (Ready(c) => d.n2k = c.n2k)

(* While it fills an XDR line; Moves is for the steps in between, in which *)
(* a transducer may be noted and at no place yet.                          *)
Moves(c, d, s) ==
  Leads(c, d, s) /\ (Ready(c) => SendsPlain(c, d) /\ SameRest(c, d) /\ d.n2k = c.n2k)
Collects(c, d, s) == Moves(c, d, s) /\ (Ready(c) => KeepsPlaces(c, d))

LEMMA ReadyFollows == ASSUME NEW c, NEW d, NEW s, Ready(c), Follows(c, d, s) PROVE Ready(d) /\ d.now = c.now
BY DEF Ready, Follows, Leads, KeepsType
-----------------------------------------------------------------------------
(* The relations are reflexive and transitive. *)
LEMMA LeadsSelf == ASSUME NEW c, NEW s PROVE Leads(c, c, s)
BY DEF Leads, Ready, StoreFollows, KeepsFresh, KeepsThrottle, KeepsType

LEMMA FollowsSelf == ASSUME NEW c, NEW s PROVE Follows(c, c, s)
BY LeadsSelf DEF Follows, KeepsXdr, KeepsPlaces

LEMMA EvolvesSelf == ASSUME NEW c, NEW s PROVE Evolves(c, c, s)
BY FollowsSelf DEF Evolves, SendsPlain, SameRest

LEMMA AcceptsOfEntry ==
  ASSUME NEW a, NEW b, NEW i, NEW s, NEW t, a[i] = b[i]
  PROVE  accepts(a, i, s, t) <=> accepts(b, i, s, t)
BY DEF accepts, isValid

LEMMA StoreFollowsOn ==
  ASSUME NEW c, NEW d, NEW e, NEW s, StoreFollows(c, d, s), StoreFollows(d, e, s), d.now = c.now
  PROVE  StoreFollows(c, e, s)
<1> SUFFICES ASSUME NEW i \in Item, e.bd[i] # c.bd[i]
             PROVE  /\ e.bd[i].lastSet = c.now /\ e.bd[i].src = s
                    /\ i \notin Kept => accepts(c.bd, i, s, c.now)
  BY DEF StoreFollows
<1>1. CASE e.bd[i] = d.bd[i]
  BY <1>1 DEF StoreFollows
<1>2. CASE e.bd[i] # d.bd[i]
  <2>1. e.bd[i].lastSet = c.now /\ e.bd[i].src = s /\ (i \notin Kept => accepts(d.bd, i, s, c.now))
    BY <1>2 DEF StoreFollows
  <2>2. CASE d.bd[i] = c.bd[i]
    BY <2>1, <2>2, AcceptsOfEntry
  <2>3. CASE d.bd[i] # c.bd[i]
    BY <2>1, <2>3 DEF StoreFollows
  <2> QED
    BY <2>2, <2>3
<1> QED
  BY <1>1, <1>2

LEMMA LeadsOn ==
  ASSUME NEW c, NEW d, NEW e, NEW s, Leads(c, d, s), Leads(d, e, s)
  PROVE  Leads(c, e, s)
<1> SUFFICES ASSUME Ready(c)
             PROVE  /\ IsContext(e) /\ e.now = c.now
                    /\ StoreFollows(c, e, s) /\ KeepsFresh(c, e) /\ KeepsThrottle(c, e) /\ KeepsType(c, e)
  BY DEF Leads
<1>0. Ready(d)
  BY DEF Leads, Ready, KeepsType
<1>1. /\ IsContext(d) /\ d.now = c.now
      /\ StoreFollows(c, d, s) /\ KeepsFresh(c, d) /\ KeepsThrottle(c, d) /\ KeepsType(c, d)
  BY DEF Leads
<1>2. /\ IsContext(e) /\ e.now = d.now
      /\ StoreFollows(d, e, s) /\ KeepsFresh(d, e) /\ KeepsThrottle(d, e) /\ KeepsType(d, e)
  BY <1>0 DEF Leads
<1>3. StoreFollows(c, e, s)
  BY <1>1, <1>2, StoreFollowsOn
<1>4. KeepsFresh(c, e) /\ KeepsType(c, e)
  BY <1>1, <1>2 DEF KeepsFresh, KeepsType
<1>5. KeepsThrottle(c, e)
  BY <1>1, <1>2 DEF KeepsThrottle
<1> QED
  BY <1>1, <1>2, <1>3, <1>4, <1>5

LEMMA FollowsOn ==
  ASSUME NEW c, NEW d, NEW e, NEW s, Follows(c, d, s), Follows(d, e, s)
  PROVE  Follows(c, e, s)
<1>1. Leads(c, e, s)
  BY LeadsOn DEF Follows
<1>2. ASSUME Ready(c) PROVE KeepsXdr(c, e)
  <2>1. Ready(d) /\ d.now = c.now
    BY <1>2, ReadyFollows
  <2> QED
    BY <1>2, <2>1 DEF Follows, KeepsXdr, KeepsPlaces
<1> QED
  BY <1>1, <1>2 DEF Follows

LEMMA EvolvesOn ==
  ASSUME NEW c, NEW d, NEW e, NEW s, Evolves(c, d, s), Evolves(d, e, s)
  PROVE  Evolves(c, e, s)
<1>1. Follows(c, e, s)
  BY FollowsOn DEF Evolves
<1>2. ASSUME Ready(c) PROVE SendsPlain(c, e) /\ SameRest(c, e)
  <2>1. Ready(d) /\ SendsPlain(c, d) /\ SameRest(c, d)
    BY <1>2, ReadyFollows DEF Evolves
  <2>2. SendsPlain(d, e) /\ SameRest(d, e)
    BY <2>1 DEF Evolves
  <2>3. SameRest(c, e)
    BY <2>1, <2>2 DEF SameRest
  <2>4. SendsPlain(c, e)
    BY <2>1, <2>2 DEF SendsPlain
  <2> QED
    BY <2>3, <2>4
<1> QED
  BY <1>1, <1>2 DEF Evolves

LEMMA ConvertsEvolves == ASSUME NEW c, NEW d, NEW s, Converts(c, d, s) PROVE Evolves(c, d, s)
BY DEF Converts

LEMMA ConvertsSelf == ASSUME NEW c, NEW s PROVE Converts(c, c, s)
BY EvolvesSelf DEF Converts

LEMMA ConvertsOn ==
  ASSUME NEW c, NEW d, NEW e, NEW s, Converts(c, d, s), Converts(d, e, s)
  PROVE  Converts(c, e, s)
<1>1. Evolves(c, e, s)
  BY EvolvesOn DEF Converts
<1>2. ASSUME Ready(c) PROVE e.n2k = c.n2k
  <2>1. Ready(d)
    BY <1>2, ReadyFollows DEF Converts, Evolves
  <2> QED
    BY <1>2, <2>1 DEF Converts
<1> QED
  BY <1>1, <1>2 DEF Converts

LEMMA MovesSelf == ASSUME NEW c, NEW s PROVE Moves(c, c, s)
BY LeadsSelf DEF Moves, SendsPlain, SameRest

LEMMA MovesOn ==
  ASSUME NEW c, NEW d, NEW e, NEW s, Moves(c, d, s), Moves(d, e, s)
  PROVE  Moves(c, e, s) /\ (Ready(c) => Ready(d) /\ d.now = c.now)
<1>1. Leads(c, e, s)
  BY LeadsOn DEF Moves
<1>2. ASSUME Ready(c) PROVE SendsPlain(c, e) /\ SameRest(c, e) /\ e.n2k = c.n2k /\ Ready(d) /\ d.now = c.now
  <2>1. Ready(d) /\ d.now = c.now
    BY <1>2 DEF Moves, Leads, Ready, KeepsType
  <2>2. /\ SendsPlain(c, d) /\ SameRest(c, d) /\ d.n2k = c.n2k
        /\ SendsPlain(d, e) /\ SameRest(d, e) /\ e.n2k = d.n2k
    BY <1>2, <2>1 DEF Moves
  <2>3. SameRest(c, e)
    BY <2>2 DEF SameRest
  <2>4. SendsPlain(c, e)
    BY <2>2 DEF SendsPlain
  <2> QED
    BY <2>1, <2>2, <2>3, <2>4
<1> QED
  BY <1>1, <1>2 DEF Moves

LEMMA CollectsSelf == ASSUME NEW c, NEW s PROVE Collects(c, c, s)
BY MovesSelf DEF Collects, KeepsPlaces

LEMMA CollectsOn ==
  ASSUME NEW c, NEW d, NEW e, NEW s, Collects(c, d, s), Collects(d, e, s)
  PROVE  Collects(c, e, s)
<1>1. Moves(c, e, s) /\ (Ready(c) => Ready(d) /\ d.now = c.now)
  BY MovesOn DEF Collects
<1>2. ASSUME Ready(c) PROVE KeepsPlaces(c, e)
  BY <1>1, <1>2 DEF Collects, KeepsPlaces
<1> QED
  BY <1>1, <1>2 DEF Collects

LEMMA ConvertsCollects ==
  ASSUME NEW c, NEW d, NEW s
  PROVE  Converts(c, d, s) <=> Collects(c, d, s) /\ (Ready(c) /\ ~c.n183.xdrOpened => ~d.n183.xdrOpened)
BY DEF Converts, Evolves, Follows, Collects, Moves, KeepsXdr
-----------------------------------------------------------------------------
(* Sequences. *)
LEMMA AppendSeq ==
  ASSUME NEW s, NEW x, IsSeq(s)
  PROVE  /\ IsSeq(Append(s, x)) /\ Len(s) \in Nat /\ DOMAIN s = 1 .. Len(s)
         /\ Len(Append(s, x)) = Len(s) + 1 /\ DOMAIN Append(s, x) = 1 .. (Len(s) + 1)
         /\ \A k \in 1 .. Len(s) : Append(s, x)[k] = s[k]
         /\ Append(s, x)[Len(s) + 1] = x
<1> DEFINE S == {s[k] : k \in DOMAIN s} \cup {x}
<1>1. s \in Seq(S) /\ x \in S
  <2> DEFINE R == {s[k] : k \in DOMAIN s}
  <2>1. s \in Seq(R) /\ R \subseteq S /\ x \in S
    BY DEF IsSeq
  <2> HIDE DEF R, S
  <2>2. \A k \in 1 .. Len(s) : s[k] \in S
    BY <2>1
  <2> QED
    BY <2>1, <2>2
<1> HIDE DEF S
<1>2. /\ Append(s, x) \in Seq(S) /\ Len(s) \in Nat /\ DOMAIN s = 1 .. Len(s)
      /\ Len(Append(s, x)) = Len(s) + 1 /\ DOMAIN Append(s, x) = 1 .. (Len(s) + 1)
      /\ \A k \in 1 .. Len(s) : Append(s, x)[k] = s[k]
      /\ Append(s, x)[Len(s) + 1] = x
  BY <1>1
<1>3. IsSeq(Append(s, x))
  <2>1. \A k \in 1 .. Len(Append(s, x)) : Append(s, x)[k] \in {Append(s, x)[j] : j \in DOMAIN Append(s, x)}
    BY <1>2
  <2> QED
    BY <1>2, <2>1 DEF IsSeq
<1> QED
  BY <1>2, <1>3

LEMMA OneIsSeq == ASSUME NEW x PROVE IsSeq(<< x >>) /\ Len(<< x >>) = 1
<1>1. << x >> \in Seq({x}) /\ {<< x >>[k] : k \in DOMAIN << x >>} = {x} /\ Len(<< x >>) = 1
  OBVIOUS
<1> QED
  BY <1>1 DEF IsSeq

LEMMA EmptyIsSeq == ASSUME NEW s, s = << >> PROVE IsSeq(s)
<1> DEFINE R == {s[k] : k \in DOMAIN s}
<1>1. s \in Seq(R)
  <2> HIDE DEF R
  <2> QED
    OBVIOUS
<1>2. IsSeq(s) <=> s \in Seq(R)
  BY DEF IsSeq
<1> HIDE DEF R
<1> QED
  BY <1>1, <1>2

(* A function with one value more. *)
LEMMA WithOne ==
  ASSUME NEW f, NEW k, NEW v
  PROVE  /\ DOMAIN With(f, k, v) = DOMAIN f \cup {k} /\ With(f, k, v)[k] = v
         /\ \A x \in DOMAIN f \ {k} : With(f, k, v)[x] = f[x]
BY DEF With
-----------------------------------------------------------------------------
(* What does not concern the XDR lines. *)
LEMMA SameXdr ==
  ASSUME NEW c, NEW d, d.out = c.out, d.now = c.now,
         d.n183.lastSendTransducers = c.n183.lastSendTransducers,
         d.n183.xdrOpened = c.n183.xdrOpened, d.n183.xdrMessage = c.n183.xdrMessage
  PROVE  KeepsXdr(c, d)
BY DEF KeepsXdr, KeepsPlaces, XdrPlaced, Pending

LEMMA OtherSent ==
  ASSUME NEW c, NEW d, NEW n \in Nat, DOMAIN c.out = 1 .. n, DOMAIN d.out = 1 .. (n + 1),
         \A k \in 1 .. n : d.out[k] = c.out[k],
         "transducers" \notin DOMAIN d.out[n + 1].more, d.now = c.now, d.n183 = c.n183
  PROVE  KeepsXdr(c, d)
<1>1. \A k : k \in DOMAIN d.out <=> k \in DOMAIN c.out \/ k = n + 1
  OBVIOUS
<1>2. \A k : k \in Telling(d.out, "transducers") <=> k \in Telling(c.out, "transducers")
  BY <1>1 DEF Telling
<1>3. \A k \in Telling(c.out, "transducers") : d.out[k] = c.out[k]
  BY DEF Telling
<1>4. ASSUME NEW xs, NEW k, NEW j, NEW t PROVE Holds(d.out, xs, k, j, t) <=> Holds(c.out, xs, k, j, t)
  BY <1>2, <1>3 DEF Holds
<1>5. ASSUME NEW xs, NEW notes, NEW time, NEW last, Places(c.out, xs, notes, time, last)
      PROVE  Places(d.out, xs, notes, time, last)
  BY <1>4, <1>5 DEF Places
<1> QED
  BY <1>5 DEF KeepsXdr, KeepsPlaces, XdrPlaced
-----------------------------------------------------------------------------
(* The store. *)
LEMMA TimesAreNat == \A i \in Item : invalidTime(i) \in Nat
BY BoatDataAssumption DEF invalidTime

LEMMA StoreConverts ==
  ASSUME NEW c, NEW b, NEW s,
         IsContext(c) /\ XdrNamesDiffer /\ Typed(c) =>
           /\ DOMAIN b = Item
           /\ \A i \in Item :
                \/ b[i] = c.bd[i]
                \/ /\ Entry(b[i]) /\ b[i].lastSet = c.now /\ b[i].src = s
                   /\ i \notin Kept => accepts(c.bd, i, s, c.now),
         IsContext(c) /\ XdrNamesDiffer /\ Typed(c) =>
           (\A i \in Item \ {"SatInfo"} : b[i].data \in Int) /\ SatList(b["SatInfo"].data)
  PROVE  Converts(c, [c EXCEPT !.bd = b], s)
<1> DEFINE d == [c EXCEPT !.bd = b]
<1> SUFFICES ASSUME Ready(c) PROVE Converts(c, d, s)
  BY DEF Converts, Evolves, Follows, Leads, Ready
<1>0. IsContext(c) /\ XdrNamesDiffer /\ Typed(c)
  BY DEF Ready
<1>1. /\ DOMAIN d = DOMAIN c /\ d.bd = b /\ d.now = c.now /\ d.out = c.out /\ d.unknown = c.unknown
      /\ d.n183 = c.n183 /\ d.n2k = c.n2k
  BY <1>0 DEF IsContext
<1> HIDE DEF d
<1>2. IsContext(d)
  BY <1>0, <1>1 DEF IsContext
<1>3. StoreFollows(c, d, s)
  BY <1>0, <1>1 DEF StoreFollows
<1>4. KeepsFresh(c, d)
  <2> SUFFICES ASSUME c.now # 0, NEW i \in Item, FreshIn(c, i) PROVE FreshIn(d, i)
    BY <1>0, <1>1 DEF KeepsFresh, Fresh
  <2>1. CASE b[i] = c.bd[i]
    BY <1>0, <1>1, <2>1 DEF FreshIn
  <2>2. CASE b[i].lastSet = c.now
    <3>1. invalidTime(i) \in Nat /\ c.now - c.now = 0
      BY <1>0, TimesAreNat DEF IsContext
    <3> QED
      BY <1>0, <1>1, <2>2, <3>1 DEF FreshIn
  <2>3. b[i] = c.bd[i] \/ b[i].lastSet = c.now
    BY <1>0
  <2> QED
    BY <2>1, <2>2, <2>3
<1>5. KeepsThrottle(c, d)
  BY <1>0, <1>1 DEF KeepsThrottle, Throttle
<1>6. KeepsType(c, d)
  BY <1>0, <1>1 DEF KeepsType, Typed
<1>7. SendsPlain(c, d) /\ SameRest(c, d)
  BY <1>0, <1>1 DEF SendsPlain, SameRest
<1>8. KeepsXdr(c, d)
  BY <1>1, SameXdr
<1> QED
  BY <1>0, <1>1, <1>2, <1>3, <1>4, <1>5, <1>6, <1>7, <1>8 DEF Converts, Evolves, Follows, Leads

(* A value that can be stored as item i. *)
CanBe(i, v) == v \in Int /\ (XdrNamesDiffer => i # "SatInfo")

LEMMA NoItem == NA \in Int
BY DEF NA

LEMMA ValueIsInt == ASSUME NEW m, HasFields(m), NEW i PROVE V(m, i) \in Int
BY NoItem DEF V, HasFields

LEMMA EntryOfNow ==
  ASSUME NEW c, IsContext(c), NEW s \in Int, NEW v
  PROVE  Entry([lastSet |-> c.now, src |-> s, data |-> v])
BY DEF IsContext, Entry

LEMMA updateConverts ==
  ASSUME NEW c, NEW i, NEW v, NEW s \in Int, CanBe(i, v)
  PROVE  Converts(c, [c EXCEPT !.bd = update(c.bd, i, v, s, c.now)], s)
<1> DEFINE e == [lastSet |-> c.now, src |-> s, data |-> v]
           b == update(c.bd, i, v, s, c.now)
<1>1. ASSUME IsContext(c)
      PROVE  /\ DOMAIN b = Item
             /\ \A j \in Item :
                  \/ b[j] = c.bd[j]
                  \/ Entry(b[j]) /\ b[j].lastSet = c.now /\ b[j].src = s /\ accepts(c.bd, j, s, c.now) /\ j = i /\ b[j].data = v
  <2>1. Entry(e) /\ e.lastSet = c.now /\ e.src = s /\ e.data = v
    BY <1>1, EntryOfNow
  <2> HIDE DEF e
  <2>2. b = IF accepts(c.bd, i, s, c.now) THEN [c.bd EXCEPT ![i] = e] ELSE c.bd
    BY DEF update, e
  <2>3. DOMAIN c.bd = Item
    BY <1>1 DEF IsContext
  <2> QED
    BY <2>1, <2>2, <2>3
<1>2. ASSUME IsContext(c), XdrNamesDiffer, Typed(c)
      PROVE  (\A j \in Item \ {"SatInfo"} : b[j].data \in Int) /\ SatList(b["SatInfo"].data)
  <2>1. i # "SatInfo" /\ v \in Int
    BY <1>2 DEF CanBe
  <2>2. "SatInfo" \in Item
    BY DEF Item, Fixed
  <2> HIDE DEF b
  <2> QED
    BY <1>1, <1>2, <2>1, <2>2 DEF Typed
<1> HIDE DEF b
<1>3. Converts(c, [c EXCEPT !.bd = b], s)
  BY <1>1, <1>2, StoreConverts
<1> QED
  BY <1>3 DEF b

LEMMA UpdateConverts ==
  ASSUME NEW c, NEW m, HasFields(m), NEW i, NEW v, CanBe(i, v)
  PROVE  Converts(c, Update(c, m, i, v), m.src)
<1>1. m.src \in Int
  BY DEF HasFields
<1>2. CASE v = NA
  BY <1>2, ConvertsSelf DEF Update
<1>3. CASE v # NA
  BY <1>1, <1>3, updateConverts DEF Update
<1> QED
  BY <1>2, <1>3

LEMMA updateMaxConverts ==
  ASSUME NEW c, NEW i \in Kept, NEW v, NEW s \in Int,
         IsContext(c) /\ XdrNamesDiffer /\ Typed(c) => v \in Int
  PROVE  Converts(c, [c EXCEPT !.bd = updateMax(c.bd, i, v, s, c.now)], s)
<1> DEFINE e == [lastSet |-> c.now, src |-> s, data |-> v]
           b == updateMax(c.bd, i, v, s, c.now)
<1>0. i \in Item /\ i # "SatInfo" /\ "SatInfo" \in Item
  BY DEF Kept, Item, Fixed
<1>1. ASSUME IsContext(c)
      PROVE  /\ DOMAIN b = Item
             /\ \A j \in Item :
                  \/ b[j] = c.bd[j]
                  \/ Entry(b[j]) /\ b[j].lastSet = c.now /\ b[j].src = s /\ j \in Kept /\ j = i /\ b[j].data = v
  <2>1. Entry(e) /\ e.lastSet = c.now /\ e.src = s /\ e.data = v
    BY <1>1, EntryOfNow
  <2> HIDE DEF e
  <2>2. b = c.bd \/ b = [c.bd EXCEPT ![i] = e]
    BY DEF update, updateMax, e
  <2>3. DOMAIN c.bd = Item
    BY <1>1 DEF IsContext
  <2> QED
    BY <2>1, <2>2, <2>3
<1>2. ASSUME IsContext(c), XdrNamesDiffer, Typed(c)
      PROVE  (\A j \in Item \ {"SatInfo"} : b[j].data \in Int) /\ SatList(b["SatInfo"].data)
  <2> HIDE DEF b
  <2> QED
    BY <1>0, <1>1, <1>2 DEF Typed
<1> HIDE DEF b
<1>3. Converts(c, [c EXCEPT !.bd = b], s)
  BY <1>1, <1>2, StoreConverts
<1> QED
  BY <1>3 DEF b

LEMMA UpdateEachConverts ==
  ASSUME NEW c, NEW m, HasFields(m), NEW items
  PROVE  Converts(c, UpdateEach(c, m, items), m.src)
<1> DEFINE e(i) == [lastSet |-> c.now, src |-> m.src, data |-> V(m, i)]
           b == [i \in Item |-> IF i \in items /\ Takes(c, m, i) THEN e(i) ELSE c.bd[i]]
<1>1. UpdateEach(c, m, items) = [c EXCEPT !.bd = b]
  BY DEF UpdateEach
<1>2. m.src \in Int /\ "SatInfo" \in Item
  BY DEF HasFields, Item, Fixed
<1>3. ASSUME IsContext(c), NEW i \in Item
      PROVE  \/ b[i] = c.bd[i]
             \/ /\ Entry(b[i]) /\ b[i].lastSet = c.now /\ b[i].src = m.src
                /\ accepts(c.bd, i, m.src, c.now) /\ i # "SatInfo" /\ b[i].data \in Int
  <2>1. Entry(e(i)) /\ e(i).lastSet = c.now /\ e(i).src = m.src /\ e(i).data = V(m, i)
    BY <1>2, <1>3, EntryOfNow
  <2>2. V(m, i) \in Int
    BY ValueIsInt
  <2>3. Takes(c, m, i) => accepts(c.bd, i, m.src, c.now) /\ i # "SatInfo"
    BY DEF Takes, Accepts, V, HasFields
  <2> HIDE DEF e
  <2> QED
    BY <2>1, <2>2, <2>3
<1>4. DOMAIN b = Item
  OBVIOUS
<1> HIDE DEF b
<1>5. ASSUME IsContext(c), XdrNamesDiffer, Typed(c)
      PROVE  (\A j \in Item \ {"SatInfo"} : b[j].data \in Int) /\ SatList(b["SatInfo"].data)
  BY <1>2, <1>3, <1>5 DEF Typed
<1>6. Converts(c, [c EXCEPT !.bd = b], m.src)
  BY <1>3, <1>4, <1>5, StoreConverts
<1> QED
  BY <1>1, <1>6

LEMMA UpdateWhileConverts ==
  ASSUME NEW c, NEW m, HasFields(m), NEW is
  PROVE  Converts(c, UpdateWhile(c, m, is), m.src)
BY UpdateEachConverts DEF UpdateWhile
-----------------------------------------------------------------------------
(* The values that are read for a message, and that they stay in time. *)
Readable(c, reads) == IsContext(c) /\ c.now # 0 => \A i \in reads : i \in Item /\ FreshIn(c, i)

LEMMA updateEvolves ==
  ASSUME NEW c, NEW i, NEW v, NEW s \in Int, CanBe(i, v)
  PROVE  Evolves(c, [c EXCEPT !.bd = update(c.bd, i, v, s, c.now)], s)
BY updateConverts, ConvertsEvolves

LEMMA UpdateEvolves ==
  ASSUME NEW c, NEW m, HasFields(m), NEW i, NEW v, CanBe(i, v)
  PROVE  Evolves(c, Update(c, m, i, v), m.src)
BY UpdateConverts, ConvertsEvolves

LEMMA updateMaxEvolves ==
  ASSUME NEW c, NEW i \in Kept, NEW v, NEW s \in Int,
         IsContext(c) /\ XdrNamesDiffer /\ Typed(c) => v \in Int
  PROVE  Evolves(c, [c EXCEPT !.bd = updateMax(c.bd, i, v, s, c.now)], s)
BY updateMaxConverts, ConvertsEvolves

LEMMA UpdateEachEvolves ==
  ASSUME NEW c, NEW m, HasFields(m), NEW items
  PROVE  Evolves(c, UpdateEach(c, m, items), m.src)
BY UpdateEachConverts, ConvertsEvolves

LEMMA UpdateWhileEvolves ==
  ASSUME NEW c, NEW m, HasFields(m), NEW is
  PROVE  Evolves(c, UpdateWhile(c, m, is), m.src)
BY UpdateWhileConverts, ConvertsEvolves

LEMMA PlusIsLess ==
  ASSUME NEW t \in Nat, NEW d \in Nat
  PROVE  Plus(t, d) \in 0 .. (Wrap - 1) /\ Plus(t, d) <= t + d /\ (t + d < Wrap => Plus(t, d) = t + d)
BY BoatDataAssumption DEF Plus

LEMMA ValidIsFresh ==
  ASSUME NEW c, IsContext(c), NEW i \in Item, Valid(c, i)
  PROVE  FreshIn(c, i)
<1>1. /\ c.bd[i].lastSet # 0 /\ c.bd[i].lastSet \in Nat /\ invalidTime(i) \in Nat /\ c.now \in Int
      /\ invalidTime(i) = 0 \/ Plus(c.bd[i].lastSet, invalidTime(i)) >= c.now
  BY TimesAreNat, BoatDataAssumption DEF IsContext, Entry, Valid, isValid
<1> DEFINE t == c.bd[i].lastSet
           d == invalidTime(i)
<1>2. t \in Nat /\ d \in Nat /\ c.now \in Int /\ (d = 0 \/ Plus(t, d) >= c.now)
  BY <1>1
<1>3. d = 0 \/ c.now - t <= d
  <2> HIDE DEF t, d
  <2>1. Plus(t, d) <= t + d /\ Plus(t, d) \in Int
    BY <1>2, PlusIsLess, BoatDataAssumption
  <2> QED
    BY <1>2, <2>1
<1> QED
  BY <1>1, <1>3 DEF FreshIn

LEMMA ReadableValid ==
  ASSUME NEW c, NEW reads, \A i \in reads : i \in Item /\ Valid(c, i)
  PROVE  Readable(c, reads)
BY ValidIsFresh DEF Readable

LEMMA ReadableUsed ==
  ASSUME NEW c, NEW items, items \subseteq Item
  PROVE  Readable(c, Used(c, items)) /\ Readable(c, Used2k(c, items))
BY ReadableValid DEF Used, Used2k

LEMMA ReadableNone == ASSUME NEW c PROVE Readable(c, {})
BY DEF Readable

LEMMA ReadableBoth ==
  ASSUME NEW c, NEW a, NEW b, Readable(c, a), Readable(c, b) PROVE Readable(c, a \cup b)
BY DEF Readable

LEMMA ReadableLater ==
  ASSUME NEW c, NEW d, NEW s, NEW reads, Ready(c), Evolves(c, d, s) \/ Converts(c, d, s), Readable(c, reads)
  PROVE  Readable(d, reads)
<1>1. IsContext(c) /\ IsContext(d) /\ d.now = c.now /\ StoreFollows(c, d, s)
  BY DEF Converts, Evolves, Follows, Leads, Ready
<1> SUFFICES ASSUME d.now # 0, NEW i \in reads PROVE i \in Item /\ FreshIn(d, i)
  BY DEF Readable
<1>2. i \in Item /\ FreshIn(c, i)
  BY <1>1 DEF Readable
<1>3. CASE d.bd[i] = c.bd[i]
  BY <1>1, <1>2, <1>3 DEF FreshIn
<1>4. CASE d.bd[i].lastSet = c.now
  <2>1. invalidTime(i) \in Nat /\ c.now - c.now = 0
    BY <1>1, <1>2, TimesAreNat DEF IsContext
  <2> QED
    BY <1>1, <1>2, <1>4, <2>1 DEF FreshIn
<1> QED
  BY <1>1, <1>2, <1>3, <1>4 DEF StoreFollows
-----------------------------------------------------------------------------
(* What is sent. *)
Adds(c, d, e) ==
  /\ IsContext(d) /\ d.now = c.now /\ d.bd = c.bd /\ d.unknown = c.unknown
  /\ d.n183 = c.n183 /\ d.n2k = c.n2k
  /\ Len(c.out) \in Nat /\ DOMAIN c.out = 1 .. Len(c.out) /\ DOMAIN d.out = 1 .. (Len(c.out) + 1)
  /\ \A k \in 1 .. Len(c.out) : d.out[k] = c.out[k]
  /\ d.out[Len(c.out) + 1] = e

LEMMA EmitAdds ==
  ASSUME NEW c, NEW what, NEW source, NEW reads, NEW more, IsContext(c)
  PROVE  \E e : /\ Adds(c, Emit(c, what, source, reads, more), e)
                /\ e.what = what /\ e.reads = reads /\ e.more = more
<1> DEFINE e == [what |-> what, src |-> source, reads |-> reads, more |-> more]
           d == [c EXCEPT !.out = Append(c.out, e)]
<1>1. e.what = what /\ e.reads = reads /\ e.more = more
  OBVIOUS
<1>2. d = Emit(c, what, source, reads, more)
  BY DEF Emit
<1> HIDE DEF e
<1>3. IsSeq(c.out)
  BY DEF IsContext
<1>4. /\ DOMAIN d = DOMAIN c /\ d.out = Append(c.out, e)
      /\ d.now = c.now /\ d.bd = c.bd /\ d.unknown = c.unknown /\ d.n183 = c.n183 /\ d.n2k = c.n2k
  BY DEF IsContext
<1> HIDE DEF d
<1>5. /\ IsSeq(d.out) /\ Len(c.out) \in Nat /\ DOMAIN c.out = 1 .. Len(c.out)
      /\ DOMAIN d.out = 1 .. (Len(c.out) + 1)
      /\ \A k \in 1 .. Len(c.out) : d.out[k] = c.out[k]
      /\ d.out[Len(c.out) + 1] = e
  BY <1>3, <1>4, AppendSeq
<1>6. IsContext(d)
  BY <1>4, <1>5 DEF IsContext
<1>7. Adds(c, d, e)
  BY <1>4, <1>5, <1>6 DEF Adds
<1> QED
  BY <1>1, <1>2, <1>7

(* A message without a key for the throttle. *)
LEMMA EmitLeads ==
  ASSUME NEW c, NEW what, NEW source, NEW reads, NEW more, NEW s,
         Readable(c, reads), "key" \notin DOMAIN more
  PROVE  Leads(c, Emit(c, what, source, reads, more), s)
<1> SUFFICES ASSUME IsContext(c) PROVE Leads(c, Emit(c, what, source, reads, more), s)
  BY DEF Leads, Ready
<1> DEFINE n == Len(c.out)
<1>0. PICK d : d = Emit(c, what, source, reads, more)
  OBVIOUS
<1>1. PICK e : Adds(c, d, e) /\ e.what = what /\ e.reads = reads /\ e.more = more
  BY <1>0, EmitAdds
<1>a. /\ IsContext(d) /\ d.now = c.now /\ d.bd = c.bd /\ d.unknown = c.unknown
      /\ d.n183 = c.n183 /\ d.n2k = c.n2k
      /\ n \in Nat /\ DOMAIN c.out = 1 .. n /\ DOMAIN d.out = 1 .. (n + 1)
      /\ (\A k \in 1 .. n : d.out[k] = c.out[k]) /\ d.out[n + 1] = e
  BY <1>1 DEF Adds
<1> HIDE DEF n
<1>2. StoreFollows(c, d, s) /\ KeepsType(c, d)
  BY <1>1, <1>a DEF StoreFollows, KeepsType, Typed
<1>3. KeepsFresh(c, d)
  <2> SUFFICES ASSUME c.now # 0, Fresh(c), NEW k \in DOMAIN d.out, NEW i \in d.out[k].reads
               PROVE  i \in Item /\ FreshIn(c, i)
    BY <1>1, <1>a DEF KeepsFresh, Fresh, FreshIn
  <2>1. CASE k = n + 1
    BY <1>1, <1>a, <2>1 DEF Readable
  <2>2. CASE k \in 1 .. n
    BY <1>1, <1>a, <2>2 DEF Fresh
  <2> QED
    BY <1>1, <1>a, <2>1, <2>2
<1>4. Telling(d.out, "key") = Telling(c.out, "key")
  <2>1. ASSUME NEW k \in 1 .. (n + 1) PROVE "key" \in DOMAIN d.out[k].more <=> k \in 1 .. n /\ "key" \in DOMAIN c.out[k].more
    <3>1. CASE k = n + 1
      BY <1>1, <1>a, <3>1
    <3>2. CASE k \in 1 .. n
      BY <1>1, <1>a, <3>2
    <3> QED
      BY <1>1, <1>a, <3>1, <3>2
  <2>2. 1 .. n \subseteq 1 .. (n + 1)
    BY <1>1, <1>a
  <2> QED
    BY <1>1, <1>a, <2>1, <2>2 DEF Telling
<1>5. \A k \in Telling(c.out, "key") : d.out[k] = c.out[k]
  BY <1>1, <1>a DEF Telling
<1>6. keysOf(d.out) = keysOf(c.out)
  BY <1>4, <1>5 DEF keysOf
<1>7. KeepsThrottle(c, d)
  BY <1>1, <1>a, <1>4, <1>5, <1>6 DEF KeepsThrottle, Throttle
<1> QED
  BY <1>0, <1>1, <1>a, <1>2, <1>3, <1>7 DEF Leads

LEMMA EmitFollows ==
  ASSUME NEW c, NEW what, NEW source, NEW reads, NEW more, NEW s,
         Readable(c, reads), "key" \notin DOMAIN more, "transducers" \notin DOMAIN more
  PROVE  Follows(c, Emit(c, what, source, reads, more), s)
<1>1. Leads(c, Emit(c, what, source, reads, more), s)
  BY EmitLeads
<1>2. ASSUME IsContext(c) PROVE KeepsXdr(c, Emit(c, what, source, reads, more))
  <2>1. PICK d : d = Emit(c, what, source, reads, more)
    OBVIOUS
  <2>2. PICK e : Adds(c, d, e) /\ e.more = more
    BY <1>2, <2>1, EmitAdds
  <2>3. PICK n : n = Len(c.out)
    OBVIOUS
  <2>4. /\ d.now = c.now /\ d.n183 = c.n183
        /\ n \in Nat /\ DOMAIN c.out = 1 .. n /\ DOMAIN d.out = 1 .. (n + 1)
        /\ (\A k \in 1 .. n : d.out[k] = c.out[k]) /\ d.out[n + 1] = e
    BY <2>2, <2>3 DEF Adds
  <2>5. KeepsXdr(c, d)
    BY <2>2, <2>4, OtherSent
  <2> QED
    BY <2>1, <2>5
<1> QED
  BY <1>1, <1>2 DEF Follows, Ready

LEMMA EmitPlain ==
  ASSUME NEW c, NEW what, NEW source, NEW reads, NEW more, NEW s, IsContext(c),
         what # "RMC", "dest" \notin DOMAIN more, "frags" \notin DOMAIN more
  PROVE  /\ SendsPlain(c, Emit(c, what, source, reads, more))
         /\ SameRest(c, Emit(c, what, source, reads, more))
<1> DEFINE n == Len(c.out)
<1>0. PICK d : d = Emit(c, what, source, reads, more)
  OBVIOUS
<1>1. PICK e : Adds(c, d, e) /\ e.what = what /\ e.more = more
  BY <1>0, EmitAdds
<1>a. /\ d.n2k = c.n2k
      /\ n \in Nat /\ DOMAIN c.out = 1 .. n /\ DOMAIN d.out = 1 .. (n + 1)
      /\ (\A k \in 1 .. n : d.out[k] = c.out[k]) /\ d.out[n + 1] = e
  BY <1>1 DEF Adds
<1> HIDE DEF n
<1>2. ASSUME NEW k \in DOMAIN d.out PROVE (k \in DOMAIN c.out /\ d.out[k] = c.out[k]) \/ Plain(d.out[k])
  <2>1. CASE k = n + 1
    BY <1>1, <1>a, <2>1 DEF Plain
  <2>2. CASE k \in 1 .. n
    BY <1>1, <1>a, <2>2
  <2> QED
    BY <1>1, <1>a, <2>1, <2>2
<1> QED
  BY <1>0, <1>1, <1>a, <1>2 DEF SendsPlain, SameRest

LEMMA EmitConverts ==
  ASSUME NEW c, NEW what, NEW source, NEW reads, NEW more, NEW s, Readable(c, reads),
         what # "RMC", {"key", "dest", "frags", "transducers"} \cap DOMAIN more = {}
  PROVE  Converts(c, Emit(c, what, source, reads, more), s)
<1>1. Evolves(c, Emit(c, what, source, reads, more), s)
  BY EmitFollows, EmitPlain DEF Evolves, Ready
<1>2. Ready(c) => Emit(c, what, source, reads, more).n2k = c.n2k
  BY EmitAdds DEF Adds, Ready
<1> QED
  BY <1>1, <1>2 DEF Converts

LEMMA EmitMoves ==
  ASSUME NEW c, NEW what, NEW source, NEW reads, NEW more, NEW s, Readable(c, reads),
         what # "RMC", {"key", "dest", "frags"} \cap DOMAIN more = {}
  PROVE  Moves(c, Emit(c, what, source, reads, more), s)
<1>1. Leads(c, Emit(c, what, source, reads, more), s)
  BY EmitLeads
<1>2. Ready(c) => /\ SendsPlain(c, Emit(c, what, source, reads, more))
                  /\ SameRest(c, Emit(c, what, source, reads, more))
  BY EmitPlain DEF Ready
<1>3. Ready(c) => Emit(c, what, source, reads, more).n2k = c.n2k
  BY EmitAdds DEF Adds, Ready
<1> QED
  BY <1>1, <1>2, <1>3 DEF Moves

LEMMA NoMoreIsNone == DOMAIN NoMore = {}
BY DEF NoMore

LEMMA SendMessageOn ==
  ASSUME NEW c, NEW d, NEW s, Converts(c, d, s), NEW what, what # "RMC", NEW reads, Readable(d, reads)
  PROVE  Converts(c, SendMessage(d, what, reads), s)
<1>1. Converts(d, SendMessage(d, what, reads), s)
  BY EmitConverts, NoMoreIsNone DEF SendMessage
<1> QED
  BY <1>1, ConvertsOn

LEMMA SendVdmOn ==
  ASSUME NEW c, NEW d, NEW s, Converts(c, d, s), NEW what, what # "RMC", NEW line
  PROVE  Converts(c, SendVdm(d, what, line), s)
<1>1. Converts(d, SendVdm(d, what, line), s)
  BY EmitConverts, ReadableNone DEF SendVdm
<1> QED
  BY <1>1, ConvertsOn
-----------------------------------------------------------------------------
(* What the throttle sends. *)
LEMMA IntervalIsSet == config.min2KInterval \in Nat /\ config.min2KInterval >= 10
<1>1. ConverterSettings.min2KInterval \in Int
  BY ConverterAssumption
<1> DEFINE v == ConverterSettings.min2KInterval
<1>2. AtLeast(v, 10) \in Nat /\ AtLeast(v, 10) >= 10
  <2>1. v \in Int
    BY <1>1
  <2> HIDE DEF v
  <2> QED
    BY <2>1 DEF AtLeast
<1>3. config.min2KInterval = AtLeast(v, 10)
  BY DEF config
<1> QED
  BY <1>2, <1>3

LEMMA sendFollows ==
  ASSUME NEW c, NEW m, NEW what, NEW key, NEW reads, NEW more, NEW s, Readable(c, reads),
         "transducers" \notin DOMAIN more
  PROVE  Follows(c, send(c, m, what, key, reads, more), s)
<1> SUFFICES ASSUME IsContext(c), maySend(c, key)
             PROVE  Follows(c, send(c, m, what, key, reads, more), s)
  BY FollowsSelf DEF Follows, Leads, send, Ready
<1> DEFINE n == Len(c.out)
           sends == With(c.n2k.lastSends, key, c.now)
           all == With(more, "key", key)
           n2ka == [c.n2k EXCEPT !.lastSends = sends]
           c0 == [c EXCEPT !.n2k = n2ka]
<1>0. PICK d : d = Emit(c0, what, m.src, reads, all)
  OBVIOUS
<1>1. d = send(c, m, what, key, reads, more)
  BY <1>0 DEF send
<1>2. /\ DOMAIN sends = DOMAIN c.n2k.lastSends \cup {key} /\ sends[key] = c.now
      /\ \A k \in DOMAIN c.n2k.lastSends \ {key} : sends[k] = c.n2k.lastSends[k]
      /\ "key" \in DOMAIN all /\ all.key = key /\ "transducers" \notin DOMAIN all
  <2>1. /\ DOMAIN sends = DOMAIN c.n2k.lastSends \cup {key} /\ sends[key] = c.now
        /\ \A k \in DOMAIN c.n2k.lastSends \ {key} : sends[k] = c.n2k.lastSends[k]
    BY DEF With
  <2>2. DOMAIN all = DOMAIN more \cup {"key"} /\ all["key"] = key
    BY DEF With
  <2> QED
    BY <2>1, <2>2
<1> HIDE DEF sends, all
<1>3. /\ DOMAIN n2ka = DOMAIN c.n2k /\ n2ka.lastSends = sends
      /\ DOMAIN c0 = DOMAIN c /\ c0.n2k = n2ka /\ c0.n183 = c.n183 /\ c0.bd = c.bd /\ c0.now = c.now
      /\ c0.unknown = c.unknown /\ c0.out = c.out
  BY DEF IsContext
<1> HIDE DEF c0, n2ka
<1>4. IsContext(c0)
  <2>1. \A k \in DOMAIN sends : sends[k] \in 0 .. (Wrap - 1)
    BY <1>2 DEF IsContext
  <2> QED
    BY <1>3, <2>1 DEF IsContext
<1>5. PICK e : Adds(c0, d, e) /\ e.what = what /\ e.reads = reads /\ e.more = all
  BY <1>0, <1>4, EmitAdds
<1>6. /\ IsContext(d) /\ d.now = c.now /\ d.bd = c.bd /\ d.unknown = c.unknown
      /\ d.n183 = c.n183 /\ d.n2k.lastSends = sends
      /\ n \in Nat /\ DOMAIN c.out = 1 .. n /\ DOMAIN d.out = 1 .. (n + 1)
      /\ (\A k \in 1 .. n : d.out[k] = c.out[k]) /\ d.out[n + 1] = e
  BY <1>3, <1>5 DEF Adds
<1> HIDE DEF n
<1>7. StoreFollows(c, d, s) /\ KeepsType(c, d)
  BY <1>6 DEF StoreFollows, KeepsType, Typed
<1>8. KeepsFresh(c, d)
  <2> SUFFICES ASSUME c.now # 0, Fresh(c), NEW k \in DOMAIN d.out, NEW i \in d.out[k].reads
               PROVE  i \in Item /\ FreshIn(c, i)
    BY <1>6 DEF KeepsFresh, Fresh, FreshIn
  <2>1. CASE k = n + 1
    BY <1>5, <1>6, <2>1 DEF Readable
  <2>2. CASE k \in 1 .. n
    BY <1>6, <2>2 DEF Fresh
  <2> QED
    BY <1>6, <2>1, <2>2
<1>9. Telling(d.out, "key") = Telling(c.out, "key") \cup {n + 1}
  <2>1. ASSUME NEW k \in 1 .. (n + 1)
        PROVE  "key" \in DOMAIN d.out[k].more <=> k = n + 1 \/ (k \in 1 .. n /\ "key" \in DOMAIN c.out[k].more)
    <3>1. CASE k = n + 1
      BY <1>2, <1>5, <1>6, <3>1
    <3>2. CASE k \in 1 .. n
      BY <1>6, <3>2
    <3> QED
      BY <1>6, <3>1, <3>2
  <2>2. 1 .. n \subseteq 1 .. (n + 1) /\ n + 1 \in 1 .. (n + 1)
    BY <1>6
  <2> QED
    BY <1>6, <2>1, <2>2 DEF Telling
<1>10. /\ \A k \in Telling(c.out, "key") : d.out[k] = c.out[k] /\ k # n + 1
       /\ d.out[n + 1].more.key = key
  BY <1>2, <1>5, <1>6 DEF Telling
<1>11. keysOf(d.out) = keysOf(c.out) \cup {key}
  BY <1>9, <1>10 DEF keysOf
<1>12. ASSUME NEW old, c.now + config.min2KInterval < Wrap, Throttle(c, old) PROVE Throttle(d, old)
  <2>1. /\ DOMAIN c.n2k.lastSends = DOMAIN old \cup keysOf(c.out)
        /\ \A k \in keysOf(c.out) : c.n2k.lastSends[k] = c.now
        /\ \A k \in DOMAIN old \ keysOf(c.out) : c.n2k.lastSends[k] = old[k]
        /\ \A k \in DOMAIN old \cap keysOf(c.out) : Plus(old[k], config.min2KInterval) <= c.now
        /\ \A j, k \in Telling(c.out, "key") : c.out[j].more.key = c.out[k].more.key => j = k
    BY <1>12 DEF Throttle
  <2>2. key \notin keysOf(c.out)
    <3> SUFFICES ASSUME key \in keysOf(c.out) PROVE FALSE
      OBVIOUS
    <3>1. key \in DOMAIN c.n2k.lastSends /\ c.n2k.lastSends[key] = c.now
      BY <2>1
    <3>2. Plus(c.now, config.min2KInterval) <= c.now
      BY <3>1 DEF maySend
    <3>3. c.now \in Nat /\ config.min2KInterval \in Nat /\ config.min2KInterval >= 10
      BY IntervalIsSet, BoatDataAssumption DEF IsContext
    <3>4. Plus(c.now, config.min2KInterval) = c.now + config.min2KInterval
      BY <1>12, <3>3, PlusIsLess
    <3> QED
      BY <3>2, <3>3, <3>4
  <2>3. key \in DOMAIN old => Plus(old[key], config.min2KInterval) <= c.now
    BY <2>1, <2>2 DEF maySend
  <2>4. DOMAIN d.n2k.lastSends = DOMAIN old \cup keysOf(d.out)
    BY <1>2, <1>6, <1>11, <2>1
  <2>5. \A k \in keysOf(d.out) : d.n2k.lastSends[k] = d.now
    BY <1>2, <1>6, <1>11, <2>1
  <2>6. \A k \in DOMAIN old \ keysOf(d.out) : d.n2k.lastSends[k] = old[k]
    BY <1>2, <1>6, <1>11, <2>1
  <2>7. \A k \in DOMAIN old \cap keysOf(d.out) : Plus(old[k], config.min2KInterval) <= d.now
    BY <1>6, <1>11, <2>1, <2>3
  <2>8. ASSUME NEW j \in Telling(d.out, "key"), NEW k \in Telling(d.out, "key"),
               d.out[j].more.key = d.out[k].more.key
        PROVE  j = k
    <3>1. \A i \in Telling(c.out, "key") : c.out[i].more.key # key
      BY <2>2 DEF keysOf
    <3> QED
      BY <1>9, <1>10, <2>1, <2>8, <3>1
  <2> QED
    BY <2>4, <2>5, <2>6, <2>7, <2>8 DEF Throttle
<1>13. KeepsThrottle(c, d)
  BY <1>12 DEF KeepsThrottle
<1>14. KeepsXdr(c, d)
  <2>1. PICK l : l = n
    OBVIOUS
  <2>2. /\ d.now = c.now /\ d.n183 = c.n183 /\ l \in Nat /\ DOMAIN c.out = 1 .. l /\ DOMAIN d.out = 1 .. (l + 1)
        /\ (\A k \in 1 .. l : d.out[k] = c.out[k]) /\ "transducers" \notin DOMAIN d.out[l + 1].more
    BY <1>2, <1>5, <1>6, <2>1
  <2> QED
    BY <2>2, OtherSent
<1> QED
  BY <1>1, <1>6, <1>7, <1>8, <1>13, <1>14 DEF Follows, Leads

LEMMA sendPlain ==
  ASSUME NEW c, NEW m, NEW what, NEW key, NEW reads, NEW more, IsContext(c),
         what # "RMC", "dest" \notin DOMAIN more, "frags" \notin DOMAIN more
  PROVE  /\ SendsPlain(c, send(c, m, what, key, reads, more))
         /\ SameRest(c, send(c, m, what, key, reads, more))
<1> SUFFICES ASSUME maySend(c, key)
             PROVE  /\ SendsPlain(c, send(c, m, what, key, reads, more))
                    /\ SameRest(c, send(c, m, what, key, reads, more))
  BY DEF SendsPlain, SameRest, send
<1> DEFINE sends == With(c.n2k.lastSends, key, c.now)
           all == With(more, "key", key)
           n2ka == [c.n2k EXCEPT !.lastSends = sends]
           c0 == [c EXCEPT !.n2k = n2ka]
<1>1. Emit(c0, what, m.src, reads, all) = send(c, m, what, key, reads, more)
  BY DEF send
<1>2. /\ DOMAIN sends = DOMAIN c.n2k.lastSends \cup {key} /\ sends[key] = c.now
      /\ \A k \in DOMAIN c.n2k.lastSends \ {key} : sends[k] = c.n2k.lastSends[k]
      /\ DOMAIN all = DOMAIN more \cup {"key"}
  <2>1. /\ DOMAIN sends = DOMAIN c.n2k.lastSends \cup {key} /\ sends[key] = c.now
        /\ \A k \in DOMAIN c.n2k.lastSends \ {key} : sends[k] = c.n2k.lastSends[k]
    BY DEF With
  <2>2. DOMAIN all = DOMAIN more \cup {"key"} /\ all["key"] = key
    BY DEF With
  <2> QED
    BY <2>1, <2>2
<1> HIDE DEF sends, all
<1>3. /\ DOMAIN n2ka = DOMAIN c.n2k /\ n2ka.lastSends = sends
      /\ DOMAIN c0 = DOMAIN c /\ c0.n2k = n2ka /\ c0.n183 = c.n183 /\ c0.bd = c.bd /\ c0.now = c.now
      /\ c0.unknown = c.unknown /\ c0.out = c.out
      /\ n2ka.waypointMap = c.n2k.waypointMap /\ n2ka.waypointId = c.n2k.waypointId
      /\ n2ka.lastRmc = c.n2k.lastRmc /\ n2ka.slots = c.n2k.slots
  BY DEF IsContext
<1> HIDE DEF c0, n2ka
<1>4. IsContext(c0)
  <2>1. \A k \in DOMAIN sends : sends[k] \in 0 .. (Wrap - 1)
    BY <1>2 DEF IsContext
  <2> QED
    BY <1>3, <2>1 DEF IsContext
<1>5. PICK d : d = Emit(c0, what, m.src, reads, all)
  OBVIOUS
<1>6. SendsPlain(c0, d) /\ SameRest(c0, d)
  BY <1>2, <1>4, <1>5, EmitPlain
<1>7. SendsPlain(c, d) /\ SameRest(c, d)
  BY <1>3, <1>6 DEF SendsPlain, SameRest
<1> QED
  BY <1>1, <1>5, <1>7

LEMMA sendOn ==
  ASSUME NEW c, NEW d, NEW s, Evolves(c, d, s), NEW m, NEW what, NEW key, NEW reads, NEW more,
         Readable(d, reads), what # "RMC", "dest" \notin DOMAIN more, "frags" \notin DOMAIN more,
         "transducers" \notin DOMAIN more
  PROVE  Evolves(c, send(d, m, what, key, reads, more), s)
<1>1. Evolves(d, send(d, m, what, key, reads, more), s)
  BY sendFollows, sendPlain DEF Evolves, Ready
<1> QED
  BY <1>1, EvolvesOn

LEMMA SendOn ==
  ASSUME NEW c, NEW d, NEW s, Evolves(c, d, s), NEW m, NEW pgn, NEW reads, Readable(d, reads), pgn # "RMC"
  PROVE  Evolves(c, Send(d, m, pgn, reads), s)
BY sendOn, NoMoreIsNone DEF Send

LEMMA SendAsOn ==
  ASSUME NEW c, NEW d, NEW s, Evolves(c, d, s), NEW m, NEW pgn, NEW key, NEW reads, Readable(d, reads),
         pgn # "RMC"
  PROVE  Evolves(c, SendAs(d, m, pgn, key, reads), s)
BY sendOn, NoMoreIsNone DEF SendAs
-----------------------------------------------------------------------------
(* The members of the converters, and the unknown readings. *)
LEMMA N183Moves ==
  ASSUME NEW c, NEW n, NEW s,
         IsContext(c) => DOMAIN n = DOMAIN c.n183,
         IsContext(c) /\ Typed(c) =>
           /\ n.endless \in BOOLEAN /\ n.xdrOpened \in BOOLEAN
           /\ IsSeq(n.xdrMessage) /\ Len(n.xdrMessage) <= XdrRoom
  PROVE  Moves(c, [c EXCEPT !.n183 = n], s)
<1> SUFFICES ASSUME IsContext(c) PROVE Moves(c, [c EXCEPT !.n183 = n], s)
  BY DEF Moves, Leads, Ready
<1> DEFINE d == [c EXCEPT !.n183 = n]
<1>1. /\ DOMAIN d = DOMAIN c /\ d.bd = c.bd /\ d.now = c.now /\ d.out = c.out /\ d.unknown = c.unknown
      /\ d.n183 = n /\ d.n2k = c.n2k
  BY DEF IsContext
<1> HIDE DEF d
<1>2. IsContext(d)
  BY <1>1 DEF IsContext
<1>3. StoreFollows(c, d, s) /\ KeepsFresh(c, d) /\ KeepsThrottle(c, d)
  BY <1>1 DEF StoreFollows, KeepsFresh, Fresh, FreshIn, KeepsThrottle, Throttle
<1>4. KeepsType(c, d)
  BY <1>1 DEF KeepsType, Typed
<1>5. SendsPlain(c, d) /\ SameRest(c, d)
  BY <1>1 DEF SendsPlain, SameRest
<1>6. Moves(c, d, s)
  BY <1>1, <1>2, <1>3, <1>4, <1>5 DEF Moves, Leads
<1> QED
  BY <1>6 DEF d

LEMMA N183Converts ==
  ASSUME NEW c, NEW n, NEW s,
         IsContext(c) =>
           /\ DOMAIN n = DOMAIN c.n183 /\ n.lastSendTransducers = c.n183.lastSendTransducers
           /\ n.xdrOpened = c.n183.xdrOpened /\ n.xdrMessage = c.n183.xdrMessage,
         IsContext(c) /\ Typed(c) => n.endless \in BOOLEAN
  PROVE  Converts(c, [c EXCEPT !.n183 = n], s)
<1>1. PICK d : d = [c EXCEPT !.n183 = n]
  OBVIOUS
<1>2. Moves(c, d, s)
  BY <1>1, N183Moves DEF Typed
<1>3. ASSUME IsContext(c) PROVE KeepsXdr(c, d)
  <2>1. d.n183 = n /\ d.out = c.out /\ d.now = c.now
    BY <1>1, <1>3 DEF IsContext
  <2> QED
    BY <1>3, <2>1, SameXdr
<1> QED
  BY <1>1, <1>2, <1>3 DEF Converts, Evolves, Follows, Moves, Ready

LEMMA UnknownConverts ==
  ASSUME NEW c, NEW u, NEW s,
         IsContext(c) /\ Typed(c) => IsFiniteSet(u) /\ Cardinality(u) <= MaxUnknown
  PROVE  Converts(c, [c EXCEPT !.unknown = u], s)
<1> SUFFICES ASSUME IsContext(c) PROVE Converts(c, [c EXCEPT !.unknown = u], s)
  BY DEF Converts, Evolves, Follows, Leads, Ready
<1> DEFINE d == [c EXCEPT !.unknown = u]
<1>1. /\ DOMAIN d = DOMAIN c /\ d.bd = c.bd /\ d.now = c.now /\ d.out = c.out /\ d.unknown = u
      /\ d.n183 = c.n183 /\ d.n2k = c.n2k
  BY DEF IsContext
<1> HIDE DEF d
<1>2. IsContext(d)
  BY <1>1 DEF IsContext
<1>3. StoreFollows(c, d, s) /\ KeepsFresh(c, d) /\ KeepsThrottle(c, d)
  BY <1>1 DEF StoreFollows, KeepsFresh, Fresh, FreshIn, KeepsThrottle, Throttle
<1>4. KeepsType(c, d)
  BY <1>1 DEF KeepsType, Typed
<1>5. SendsPlain(c, d) /\ SameRest(c, d)
  BY <1>1 DEF SendsPlain, SameRest
<1>6. KeepsXdr(c, d)
  BY <1>1, SameXdr
<1>7. Converts(c, d, s)
  BY <1>1, <1>2, <1>3, <1>4, <1>5, <1>6 DEF Converts, Evolves, Follows, Leads
<1> QED
  BY <1>7 DEF d

LEMMA UnknownEvolves ==
  ASSUME NEW c, NEW u, NEW s,
         IsContext(c) /\ Typed(c) => IsFiniteSet(u) /\ Cardinality(u) <= MaxUnknown
  PROVE  Evolves(c, [c EXCEPT !.unknown = u], s)
BY UnknownConverts, ConvertsEvolves

LEMMA N2kFollows ==
  ASSUME NEW c, NEW n, NEW s,
         IsContext(c) => DOMAIN n = DOMAIN c.n2k /\ n.lastSends = c.n2k.lastSends
  PROVE  /\ Follows(c, [c EXCEPT !.n2k = n], s)
         /\ IsContext(c) => [c EXCEPT !.n2k = n].out = c.out /\ [c EXCEPT !.n2k = n].n2k = n
<1> SUFFICES ASSUME IsContext(c)
             PROVE  /\ Follows(c, [c EXCEPT !.n2k = n], s)
                    /\ [c EXCEPT !.n2k = n].out = c.out /\ [c EXCEPT !.n2k = n].n2k = n
  BY DEF Follows, Leads, Ready
<1> DEFINE d == [c EXCEPT !.n2k = n]
<1>1. /\ DOMAIN d = DOMAIN c /\ d.bd = c.bd /\ d.now = c.now /\ d.out = c.out /\ d.unknown = c.unknown
      /\ d.n183 = c.n183 /\ d.n2k = n
  BY DEF IsContext
<1> HIDE DEF d
<1>2. IsContext(d)
  BY <1>1 DEF IsContext
<1>3. StoreFollows(c, d, s) /\ KeepsFresh(c, d) /\ KeepsThrottle(c, d)
  BY <1>1 DEF StoreFollows, KeepsFresh, Fresh, FreshIn, KeepsThrottle, Throttle, IsContext
<1>4. KeepsType(c, d)
  BY <1>1 DEF KeepsType, Typed
<1>5. KeepsXdr(c, d)
  BY <1>1, SameXdr
<1>6. Follows(c, d, s)
  BY <1>1, <1>2, <1>3, <1>4, <1>5 DEF Follows, Leads
<1> QED
  BY <1>1, <1>6 DEF d

LEMMA addUnknownKeeps ==
  ASSUME NEW u, IsFiniteSet(u), Cardinality(u) <= MaxUnknown, NEW cat, NEW sel, NEW field, NEW instance
  PROVE  /\ IsFiniteSet(addUnknown(u, cat, sel, field, instance))
         /\ Cardinality(addUnknown(u, cat, sel, field, instance)) <= MaxUnknown
<1> DEFINE x == <<cat, IF sel < 0 THEN 0 ELSE sel % 128, IF field < 0 THEN 0 ELSE field % 128,
                  IF instance \in 0 .. 255 THEN instance ELSE 256>>
<1>1. addUnknown(u, cat, sel, field, instance) = IF Cardinality(u) >= MaxUnknown THEN u ELSE u \cup {x}
  BY DEF addUnknown
<1> HIDE DEF x
<1>2. /\ IsFiniteSet(u \cup {x}) /\ Cardinality(u) \in Nat
      /\ Cardinality(u \cup {x}) <= Cardinality(u) + 1 /\ Cardinality(u \cup {x}) \in Nat
  <2>1. /\ IsFiniteSet(u \cup {x})
        /\ Cardinality(u \cup {x}) = IF x \in u THEN Cardinality(u) ELSE Cardinality(u) + 1
    BY FS_AddElement
  <2>2. Cardinality(u) \in Nat
    BY FS_CardinalityType
  <2> QED
    BY <2>1, <2>2
<1>3. MaxUnknown \in Nat
  BY XdrAssumption
<1> QED
  BY <1>1, <1>2, <1>3

(* What becomes of the places when a transducer is added to the line that  *)
(* is filled, and when this line is sent.                                  *)
LEMMA PlaceAdded ==
  ASSUME NEW sent, NEW xs, IsSeq(xs), NEW notes, NEW time, NEW last, NEW t,
         Places(sent, xs, notes, time, last),
         ~ (t \in DOMAIN notes /\ Plus(notes[t], config.minXdrInterval) > time),
         Plus(time, config.minXdrInterval) > time
  PROVE  Places(sent, Append(xs, t), With(notes, t, time), time, last)
<1>1. PICK ys, new : ys = Append(xs, t) /\ new = With(notes, t, time)
  OBVIOUS
<1>2. PICK l : l = Len(xs)
  OBVIOUS
<1>3. /\ l \in Nat /\ DOMAIN xs = 1 .. l /\ DOMAIN ys = 1 .. (l + 1)
      /\ (\A j \in 1 .. l : ys[j] = xs[j]) /\ ys[l + 1] = t
  BY <1>1, <1>2, AppendSeq
<1>4. /\ DOMAIN new = DOMAIN notes \cup {t} /\ new[t] = time
      /\ \A u \in DOMAIN notes \ {t} : new[u] = notes[u]
  BY <1>1 DEF With
<1>5. ASSUME NEW k, NEW j, NEW u
      PROVE  Holds(sent, ys, k, j, u) <=> Holds(sent, xs, k, j, u) \/ (k = 0 /\ j = l + 1 /\ u = t)
  <2>1. /\ j \in DOMAIN ys <=> j \in DOMAIN xs \/ j = l + 1
        /\ j \in DOMAIN xs => j # l + 1 /\ ys[j] = xs[j]
    BY <1>3
  <2> QED
    BY <1>3, <2>1 DEF Holds
<1>6. /\ DOMAIN last \subseteq DOMAIN notes
      /\ \A k, j, u : Holds(sent, xs, k, j, u) =>
            /\ u \in DOMAIN notes /\ notes[u] = time
            /\ u \in DOMAIN last => ~ (Plus(last[u], config.minXdrInterval) > time)
      /\ \A u \in DOMAIN notes : (u \in DOMAIN last /\ notes[u] = last[u]) \/ \E k, j : Holds(sent, xs, k, j, u)
      /\ \A u, k, j, k1, j1 : Holds(sent, xs, k, j, u) /\ Holds(sent, xs, k1, j1, u) => k = k1 /\ j = j1
  BY DEF Places
<1>7. \A k, j : ~Holds(sent, xs, k, j, t)
  BY <1>6
<1>8. t \in DOMAIN last => ~ (Plus(last[t], config.minXdrInterval) > time)
  BY <1>6, <1>7
<1>9. DOMAIN last \subseteq DOMAIN new
  BY <1>4, <1>6
<1>10. ASSUME NEW k, NEW j, NEW u, Holds(sent, ys, k, j, u)
       PROVE  /\ u \in DOMAIN new /\ new[u] = time
              /\ u \in DOMAIN last => ~ (Plus(last[u], config.minXdrInterval) > time)
  <2>1. CASE u = t
    BY <1>4, <1>8, <2>1
  <2>2. CASE u # t
    BY <1>4, <1>5, <1>6, <1>10, <2>2
  <2> QED
    BY <2>1, <2>2
<1>11. ASSUME NEW u \in DOMAIN new
       PROVE  (u \in DOMAIN last /\ new[u] = last[u]) \/ \E k, j : Holds(sent, ys, k, j, u)
  <2>1. CASE u = t
    BY <1>5, <2>1
  <2>2. CASE u # t
    BY <1>4, <1>5, <1>6, <2>2
  <2> QED
    BY <2>1, <2>2
<1>12. ASSUME NEW u, NEW k, NEW j, NEW k1, NEW j1, Holds(sent, ys, k, j, u), Holds(sent, ys, k1, j1, u)
       PROVE  k = k1 /\ j = j1
  BY <1>5, <1>6, <1>7, <1>12
<1>13. Places(sent, ys, new, time, last)
  BY <1>9, <1>10, <1>11, <1>12 DEF Places
<1> QED
  BY <1>1, <1>13

LEMMA LineSent ==
  ASSUME NEW sent, NEW all, NEW n \in Nat, DOMAIN sent = 1 .. n, DOMAIN all = 1 .. (n + 1),
         \A k \in 1 .. n : all[k] = sent[k], NEW xs, all[n + 1].more = [transducers |-> xs],
         NEW notes, NEW time, NEW last, Places(sent, xs, notes, time, last)
  PROVE  Places(all, << >>, notes, time, last)
<1>1. DOMAIN << >> = {}
  OBVIOUS
<1>2. "transducers" \in DOMAIN all[n + 1].more /\ all[n + 1].more.transducers = xs
  OBVIOUS
<1>3. /\ \A k : k \in Telling(all, "transducers") <=> k \in Telling(sent, "transducers") \/ k = n + 1
      /\ \A k \in Telling(sent, "transducers") : k \in 1 .. n /\ all[k] = sent[k] /\ k # 0 /\ k # n + 1
  <2>1. \A k : k \in 1 .. (n + 1) <=> k \in 1 .. n \/ k = n + 1
    OBVIOUS
  <2>2. \A k \in 1 .. n : k # 0 /\ k # n + 1
    OBVIOUS
  <2> QED
    BY <1>2, <2>1, <2>2 DEF Telling
<1>4. ASSUME NEW k, NEW j, NEW u
      PROVE  Holds(all, << >>, k, j, u) <=>
               (k # 0 /\ k # n + 1 /\ Holds(sent, xs, k, j, u)) \/ (k = n + 1 /\ Holds(sent, xs, 0, j, u))
  <2>1. n + 1 # 0
    OBVIOUS
  <2>2. CASE k = n + 1
    BY <1>1, <1>2, <1>3, <2>1, <2>2 DEF Holds
  <2>3. CASE k # n + 1
    BY <1>1, <1>3, <2>3 DEF Holds
  <2> QED
    BY <2>2, <2>3
<1>5. \A k, j, u : Holds(sent, xs, k, j, u) => k # n + 1
  <2>1. n + 1 # 0
    OBVIOUS
  <2> QED
    BY <1>3, <2>1 DEF Holds
<1>6. /\ DOMAIN last \subseteq DOMAIN notes
      /\ \A k, j, u : Holds(sent, xs, k, j, u) =>
            /\ u \in DOMAIN notes /\ notes[u] = time
            /\ u \in DOMAIN last => ~ (Plus(last[u], config.minXdrInterval) > time)
      /\ \A u \in DOMAIN notes : (u \in DOMAIN last /\ notes[u] = last[u]) \/ \E k, j : Holds(sent, xs, k, j, u)
      /\ \A u, k, j, k1, j1 : Holds(sent, xs, k, j, u) /\ Holds(sent, xs, k1, j1, u) => k = k1 /\ j = j1
  BY DEF Places
<1>7. ASSUME NEW u \in DOMAIN notes
      PROVE  (u \in DOMAIN last /\ notes[u] = last[u]) \/ \E k, j : Holds(all, << >>, k, j, u)
  <2> SUFFICES ASSUME NEW k, NEW j, Holds(sent, xs, k, j, u) PROVE \E i : Holds(all, << >>, i, j, u)
    BY <1>6
  <2>1. CASE k = 0
    BY <1>4, <2>1
  <2>2. CASE k # 0
    BY <1>4, <1>5, <2>2
  <2> QED
    BY <2>1, <2>2
<1>8. ASSUME NEW u, NEW k, NEW j, NEW k1, NEW j1, Holds(all, << >>, k, j, u), Holds(all, << >>, k1, j1, u)
      PROVE  k = k1 /\ j = j1
  BY <1>4, <1>6, <1>8
<1>9. ASSUME NEW k, NEW j, NEW u, Holds(all, << >>, k, j, u)
      PROVE  /\ u \in DOMAIN notes /\ notes[u] = time
             /\ u \in DOMAIN last => ~ (Plus(last[u], config.minXdrInterval) > time)
  BY <1>4, <1>6, <1>9
<1> QED
  BY <1>6, <1>7, <1>8, <1>9 DEF Places

(* The line that is filled is sent, with members n and a line xs after it. *)
LEMMA SendXdrAdds ==
  ASSUME NEW c, IsContext(c)
  PROVE  \E e : Adds(c, SendXdr(c), e) /\ e.more = [transducers |-> c.n183.xdrMessage]
BY EmitAdds DEF SendXdr

LEMMA SendXdrMoves == ASSUME NEW c, NEW s PROVE Moves(c, SendXdr(c), s)
BY EmitMoves, ReadableNone DEF SendXdr

LEMMA nextXdrMoves ==
  ASSUME NEW c, NEW t, NEW s PROVE Moves(c, nextXdr(c, t), s)
<1>1. Moves(c, SendXdr(c), s)
  BY SendXdrMoves
<1>2. PICK d : d = SendXdr(c)
  OBVIOUS
<1> DEFINE n == [d.n183 EXCEPT !.xdrMessage = << t >>]
<1>3. [d EXCEPT !.n183 = n] = nextXdr(c, t)
  BY <1>2 DEF nextXdr
<1>4. XdrRoom \in Nat \ {0} /\ IsSeq(<< t >>) /\ Len(<< t >>) = 1
  BY OneIsSeq, N2kConverterAssumption
<1>5. IsContext(d) => DOMAIN n = DOMAIN d.n183
  OBVIOUS
<1>6. ASSUME IsContext(d), Typed(d)
      PROVE  /\ n.endless \in BOOLEAN /\ n.xdrOpened \in BOOLEAN
             /\ IsSeq(n.xdrMessage) /\ Len(n.xdrMessage) <= XdrRoom
  <2>1. n.endless = d.n183.endless /\ n.xdrOpened = d.n183.xdrOpened /\ n.xdrMessage = << t >>
    BY <1>6 DEF IsContext
  <2> HIDE DEF n
  <2> QED
    BY <1>4, <1>6, <2>1 DEF Typed
<1> HIDE DEF n
<1>7. Moves(d, [d EXCEPT !.n183 = n], s)
  BY <1>5, <1>6, N183Moves
<1> QED
  BY <1>1, <1>2, <1>3, <1>7, MovesOn

Noted(c, t, xs) ==
  [c.n183 EXCEPT !.lastSendTransducers = With(c.n183.lastSendTransducers, t, c.now),
                 !.xdrOpened = TRUE, !.xdrMessage = xs]

LEMMA addToXdrIs ==
  ASSUME NEW c, IsContext(c), NEW t, addToXdr(c, t) # c
  PROVE  /\ ~ (/\ t \in DOMAIN c.n183.lastSendTransducers
               /\ Plus(c.n183.lastSendTransducers[t], config.minXdrInterval) > c.now)
         /\ addToXdr(c, t) =
              IF Len(Pending(c.n183)) < XdrRoom
              THEN [c EXCEPT !.n183 = Noted(c, t, Append(Pending(c.n183), t))]
              ELSE nextXdr([c EXCEPT !.n183 = Noted(c, t, Pending(c.n183))], t)
<1> DEFINE xs == Pending(c.n183)
           d == [c EXCEPT !.n183 = Noted(c, t, xs)]
           d1 == [c EXCEPT !.n183 = Noted(c, t, Append(xs, t))]
           w == With(c.n183.lastSendTransducers, t, c.now)
           N == [c EXCEPT !.n183.lastSendTransducers = w, !.n183.xdrOpened = TRUE, !.n183.xdrMessage = xs]
<1>1. d = N
  BY DEF IsContext, Noted
<1>2. \/ addToXdr(c, t) = c
      \/ addToXdr(c, t) = IF Len(N.n183.xdrMessage) < XdrRoom
                          THEN [N EXCEPT !.n183.xdrMessage = Append(@, t)] ELSE nextXdr(N, t)
  BY Zenon DEF addToXdr, Pending
<1>3. d.n183.xdrMessage = xs /\ d1 = [d EXCEPT !.n183.xdrMessage = Append(@, t)]
  BY DEF IsContext, Noted
<1>4. addToXdr(c, t) = IF Len(d.n183.xdrMessage) < XdrRoom
                       THEN [d EXCEPT !.n183.xdrMessage = Append(@, t)] ELSE nextXdr(d, t)
  <2> HIDE DEF d, N
  <2> QED
    BY <1>1, <1>2
<1>5. addToXdr(c, t) = IF Len(xs) < XdrRoom THEN d1 ELSE nextXdr(d, t)
  BY <1>3, <1>4
<1>6. ~ (/\ t \in DOMAIN c.n183.lastSendTransducers
        /\ Plus(c.n183.lastSendTransducers[t], config.minXdrInterval) > c.now)
  BY Zenon DEF addToXdr
<1> QED
  BY <1>5, <1>6

LEMMA PendingIsSeq == ASSUME NEW c, Typed(c) PROVE IsSeq(Pending(c.n183)) /\ Len(Pending(c.n183)) <= XdrRoom
<1>1. IsSeq(<< >>) /\ Len(<< >>) = 0 /\ XdrRoom >= 0
  BY EmptyIsSeq, N2kConverterAssumption
<1> QED
  BY <1>1 DEF Typed, Pending

LEMMA addToXdrMoves ==
  ASSUME NEW c, NEW t, NEW s PROVE Moves(c, addToXdr(c, t), s)
<1> SUFFICES ASSUME IsContext(c), addToXdr(c, t) # c PROVE Moves(c, addToXdr(c, t), s)
  BY MovesSelf DEF Moves, Leads, Ready
<1>1. PICK xs : xs = Pending(c.n183)
  OBVIOUS
<1>2. PICK n, n1 : n = Noted(c, t, xs) /\ n1 = Noted(c, t, Append(xs, t))
  OBVIOUS
<1>3. /\ DOMAIN n = DOMAIN c.n183 /\ n.endless = c.n183.endless /\ n.xdrOpened /\ n.xdrMessage = xs
      /\ DOMAIN n1 = DOMAIN c.n183 /\ n1.endless = c.n183.endless /\ n1.xdrOpened /\ n1.xdrMessage = Append(xs, t)
  BY <1>2 DEF Noted, IsContext
<1>4. addToXdr(c, t) = IF Len(xs) < XdrRoom THEN [c EXCEPT !.n183 = n1] ELSE nextXdr([c EXCEPT !.n183 = n], t)
  BY <1>1, <1>2, addToXdrIs
<1>5. Typed(c) => IsSeq(xs) /\ Len(xs) <= XdrRoom
  BY <1>1, PendingIsSeq
<1>6. Moves(c, [c EXCEPT !.n183 = n], s)
  BY <1>3, <1>5, N183Moves DEF Typed
<1>7. CASE Len(xs) < XdrRoom
  <2>1. ASSUME Typed(c) PROVE IsSeq(Append(xs, t)) /\ Len(Append(xs, t)) <= XdrRoom
    <3>1. Len(Append(xs, t)) = Len(xs) + 1 /\ Len(xs) \in Nat /\ XdrRoom \in Nat /\ IsSeq(Append(xs, t))
      BY <1>5, <2>1, AppendSeq, N2kConverterAssumption
    <3> QED
      BY <1>7, <3>1
  <2>2. Moves(c, [c EXCEPT !.n183 = n1], s)
    BY <1>3, <2>1, N183Moves DEF Typed
  <2> QED
    BY <1>4, <1>7, <2>2
<1>8. CASE ~ (Len(xs) < XdrRoom)
  BY <1>4, <1>6, <1>8, nextXdrMoves, MovesOn
<1> QED
  BY <1>7, <1>8

LEMMA addToXdrPlaces ==
  ASSUME NEW c, Ready(c), NEW t PROVE KeepsPlaces(c, addToXdr(c, t))
<1> SUFFICES ASSUME addToXdr(c, t) # c, NEW last, XdrIntervalFits(c.now), XdrPlaced(c, last)
             PROVE  XdrPlaced(addToXdr(c, t), last)
  BY DEF KeepsPlaces
<1>0. IsContext(c) /\ Typed(c)
  BY DEF Ready
<1>1. PICK xs, notes, r : xs = Pending(c.n183) /\ notes = c.n183.lastSendTransducers /\ r = addToXdr(c, t)
  OBVIOUS
<1>2. PICK n, n1 : n = Noted(c, t, xs) /\ n1 = Noted(c, t, Append(xs, t))
  OBVIOUS
<1>3. /\ DOMAIN n = DOMAIN c.n183 /\ n.xdrOpened /\ n.xdrMessage = xs
      /\ n1.xdrOpened /\ n1.xdrMessage = Append(xs, t)
      /\ n.lastSendTransducers = With(notes, t, c.now) /\ n1.lastSendTransducers = With(notes, t, c.now)
  BY <1>0, <1>1, <1>2 DEF Noted, IsContext
<1>4. r = IF Len(xs) < XdrRoom THEN [c EXCEPT !.n183 = n1] ELSE nextXdr([c EXCEPT !.n183 = n], t)
  BY <1>0, <1>1, <1>2, addToXdrIs
<1>5. ~ (t \in DOMAIN notes /\ Plus(notes[t], config.minXdrInterval) > c.now)
  BY <1>0, <1>1, addToXdrIs
<1>6. Plus(c.now, config.minXdrInterval) > c.now
  <2>1. c.now \in Nat /\ config.minXdrInterval \in Nat \ {0} /\ c.now + config.minXdrInterval < Wrap
    BY <1>0, BoatDataAssumption DEF XdrIntervalFits, IsContext
  <2>2. Plus(c.now, config.minXdrInterval) = c.now + config.minXdrInterval
    BY <2>1, PlusIsLess
  <2> QED
    BY <2>1, <2>2
<1>7. IsSeq(xs) /\ Places(c.out, xs, notes, c.now, last)
  BY <1>0, <1>1, PendingIsSeq DEF XdrPlaced
<1>8. CASE Len(xs) < XdrRoom
  <2>1. r.out = c.out /\ r.now = c.now /\ r.n183 = n1
    BY <1>0, <1>4, <1>8 DEF IsContext
  <2>2. Places(c.out, Append(xs, t), With(notes, t, c.now), c.now, last)
    BY <1>5, <1>6, <1>7, PlaceAdded
  <2> QED
    BY <1>1, <1>3, <2>1, <2>2 DEF XdrPlaced, Pending
<1>9. CASE ~ (Len(xs) < XdrRoom)
  <2>1. PICK d : d = [c EXCEPT !.n183 = n]
    OBVIOUS
  <2>2. /\ DOMAIN d = DOMAIN c /\ d.bd = c.bd /\ d.now = c.now /\ d.out = c.out /\ d.unknown = c.unknown
        /\ d.n183 = n /\ d.n2k = c.n2k
    BY <1>0, <2>1 DEF IsContext
  <2>3. IsContext(d)
    BY <1>0, <1>3, <2>2 DEF IsContext
  <2>4. PICK e, f : f = SendXdr(d) /\ Adds(d, f, e) /\ e.more = [transducers |-> xs]
    BY <1>3, <2>2, <2>3, SendXdrAdds
  <2>5. r = [f EXCEPT !.n183.xdrMessage = << t >>]
    BY <1>4, <1>9, <2>1, <2>4 DEF nextXdr
  <2>6. PICK m : m = Len(c.out)
    OBVIOUS
  <2>7. /\ f.now = c.now /\ f.n183 = n /\ m \in Nat /\ DOMAIN c.out = 1 .. m /\ DOMAIN f.out = 1 .. (m + 1)
        /\ (\A k \in 1 .. m : f.out[k] = c.out[k]) /\ f.out[m + 1] = e /\ IsContext(f)
    BY <2>2, <2>4, <2>6 DEF Adds
  <2>8. /\ r.out = f.out /\ r.now = c.now /\ r.n183.xdrOpened /\ r.n183.xdrMessage = << t >>
        /\ r.n183.lastSendTransducers = With(notes, t, c.now)
    BY <1>3, <2>5, <2>7 DEF IsContext
  <2>9. Places(f.out, << >>, notes, c.now, last)
    BY <1>7, <2>4, <2>7, LineSent
  <2>10. IsSeq(<< >>) /\ Append(<< >>, t) = << t >>
    BY EmptyIsSeq
  <2>11. Places(f.out, << t >>, With(notes, t, c.now), c.now, last)
    BY <1>5, <1>6, <2>9, <2>10, PlaceAdded
  <2> QED
    BY <1>1, <2>8, <2>11 DEF XdrPlaced, Pending
<1> QED
  BY <1>8, <1>9

LEMMA addToXdrCollects ==
  ASSUME NEW c, NEW t, NEW s PROVE Collects(c, addToXdr(c, t), s)
BY addToXdrMoves, addToXdrPlaces DEF Collects

LEMMA finalizeXdrMoves == ASSUME NEW c, NEW s PROVE Moves(c, finalizeXdr(c), s)
<1>1. PICK d : d = IF c.n183.xdrMessage = <<>> THEN c ELSE SendXdr(c)
  OBVIOUS
<1>2. Moves(c, d, s)
  BY <1>1, MovesSelf, SendXdrMoves
<1> DEFINE n == [d.n183 EXCEPT !.xdrOpened = FALSE]
<1>3. finalizeXdr(c) = IF ~c.n183.xdrOpened THEN c ELSE [d EXCEPT !.n183 = n]
  BY <1>1 DEF finalizeXdr
<1>4. Moves(d, [d EXCEPT !.n183 = n], s)
  <2>1. IsContext(d) => DOMAIN n = DOMAIN d.n183 /\ n.endless = d.n183.endless /\ ~n.xdrOpened /\ n.xdrMessage = d.n183.xdrMessage
    BY DEF IsContext
  <2>2. IsContext(d) /\ Typed(d) => n.xdrOpened \in BOOLEAN
    BY DEF IsContext
  <2> HIDE DEF n
  <2> QED
    BY <2>1, <2>2, N183Moves DEF Typed
<1> QED
  BY <1>2, <1>3, <1>4, MovesSelf, MovesOn

LEMMA finalizeXdrPlaces ==
  ASSUME NEW c, IsContext(c)
  PROVE  KeepsPlaces(c, finalizeXdr(c)) /\ ~finalizeXdr(c).n183.xdrOpened
<1>1. CASE ~c.n183.xdrOpened
  BY <1>1 DEF finalizeXdr, KeepsPlaces
<1>2. CASE c.n183.xdrOpened
  <2>1. PICK xs, d, r : /\ xs = c.n183.xdrMessage /\ r = finalizeXdr(c)
                        /\ d = IF c.n183.xdrMessage = <<>> THEN c ELSE SendXdr(c)
    OBVIOUS
  <2>2. r = [d EXCEPT !.n183.xdrOpened = FALSE]
    BY <1>2, <2>1 DEF finalizeXdr
  <2>3. PICK m : m = Len(c.out)
    OBVIOUS
  <2>4. CASE xs = << >>
    <3>1. /\ r.out = c.out /\ r.now = c.now /\ ~r.n183.xdrOpened
          /\ r.n183.lastSendTransducers = c.n183.lastSendTransducers
      BY <2>1, <2>2, <2>4 DEF IsContext
    <3> QED
      BY <1>2, <2>1, <2>4, <3>1 DEF KeepsPlaces, XdrPlaced, Pending
  <2>5. CASE xs # << >>
    <3>1. PICK e : Adds(c, d, e) /\ e.more = [transducers |-> xs]
      BY <2>1, <2>5, SendXdrAdds
    <3>2. /\ d.now = c.now /\ d.n183 = c.n183 /\ m \in Nat /\ DOMAIN c.out = 1 .. m /\ DOMAIN d.out = 1 .. (m + 1)
          /\ (\A k \in 1 .. m : d.out[k] = c.out[k]) /\ d.out[m + 1] = e /\ IsContext(d)
      BY <2>3, <3>1 DEF Adds
    <3>3. /\ r.out = d.out /\ r.now = c.now /\ ~r.n183.xdrOpened
          /\ r.n183.lastSendTransducers = c.n183.lastSendTransducers
      BY <2>2, <3>2 DEF IsContext
    <3>4. ASSUME NEW last, XdrPlaced(c, last) PROVE XdrPlaced(r, last)
      <4>1. Places(c.out, xs, c.n183.lastSendTransducers, c.now, last)
        BY <1>2, <2>1, <3>4 DEF XdrPlaced, Pending
      <4>2. PICK notes, time : notes = c.n183.lastSendTransducers /\ time = c.now
        OBVIOUS
      <4>3. d.out[m + 1].more = [transducers |-> xs] /\ Places(c.out, xs, notes, time, last)
        BY <3>1, <3>2, <4>1, <4>2
      <4>4. Places(d.out, << >>, notes, time, last)
        BY <3>2, <4>3, LineSent
      <4> QED
        BY <3>3, <4>2, <4>4 DEF XdrPlaced, Pending
    <3> QED
      BY <2>1, <3>3, <3>4 DEF KeepsPlaces
  <2> QED
    BY <2>4, <2>5
<1> QED
  BY <1>1, <1>2

LEMMA finalizeXdrCloses ==
  ASSUME NEW c, NEW d, NEW s, Collects(c, d, s) PROVE Converts(c, finalizeXdr(d), s)
<1>1. Collects(d, finalizeXdr(d), s)
  BY finalizeXdrMoves, finalizeXdrPlaces DEF Collects, Ready
<1>2. Ready(c) => Ready(d)
  BY DEF Collects, Moves, Leads, Ready, KeepsType
<1>3. Ready(c) => ~finalizeXdr(d).n183.xdrOpened
  BY <1>2, finalizeXdrPlaces DEF Ready
<1> QED
  BY <1>1, <1>3, CollectsOn, ConvertsCollects
-----------------------------------------------------------------------------
(* Folds.  The steps of all that the handlers use are cases of one operator*)
(* of a kind and a parameter, so that what a fold is has to be shown once: *)
(* the last of a trace of contexts, each the step of the one before.       *)
Step(kind, p, a, x) ==
  CASE kind = "reading" -> xdrReading(a, p, x)
    [] kind = "gsv" -> SendMessage(a, "GSV", {"SatInfo"})
    [] kind = "take" -> takeXdr(a, p, x)
    [] kind = "send" -> sendXdr(a, p, x)
    [] kind = "field" -> noteField(a, p, x)
    [] kind = "unit" -> useUnit(a, p.m, p.dt, x)
    [] kind = "satellite" -> satUpdate(a, x, p.source, p.now)
    [] kind = "keep" -> IF x.validTill >= p THEN Append(a, x) ELSE a

Iterates(g, kind, p, c, seq) ==
  g = [s \in SUBSET (DOMAIN seq) |->
         IF s = {} THEN c ELSE Step(kind, p, g[s \ {Max(s)}], seq[Max(s)])]

Fold(kind, p, c, seq) == (CHOOSE g : Iterates(g, kind, p, c, seq))[DOMAIN seq]

(* A trace: A[0] is where it starts, A[n] where it ends. *)
Runs(A, kind, p, c, seq, n) ==
  A[0] = c /\ A[n] = Fold(kind, p, c, seq) /\ \A k \in 1 .. n : A[k] = Step(kind, p, A[k - 1], seq[k])

LEMMA EveryNatural ==
  ASSUME NEW T, 0 \in T, \A n \in Nat : n \in T => n + 1 \in T
  PROVE  Nat \subseteq T
<1> SUFFICES ASSUME NEW x \in Nat, x \notin T PROVE FALSE
  OBVIOUS
<1> DEFINE U == Nat \ T
           Rel == {ss \in Nat \X Nat : ss[1] < ss[2]}
<1>1. IsWellFoundedOn(Rel, Nat)
  BY NatLessThanWellFounded DEF OpToRel
<1>2. U \subseteq Nat /\ U # {}
  OBVIOUS
<1>3. PICK n \in U : \A i \in U : ~ (<<i, n>> \in Rel)
  <2> HIDE DEF Rel, U
  <2> QED
    BY <1>1, <1>2, WFMin
<1>4. n \in Nat /\ n # 0 /\ n - 1 \in Nat /\ n - 1 < n /\ n = (n - 1) + 1
  BY <1>3
<1>5. n - 1 \notin U
  BY <1>3, <1>4
<1>6. n - 1 \in T
  BY <1>4, <1>5
<1> QED
  BY <1>3, <1>4, <1>6

LEMMA MaxOf ==
  ASSUME NEW n \in Nat, NEW s \in SUBSET (1 .. n), s # {}
  PROVE  Max(s) \in s /\ \A y \in s : Max(s) >= y
<1> DEFINE T == {k \in Nat : \A z \in SUBSET (1 .. k) : z # {} => \E x \in z : \A y \in z : x >= y}
<1>1. 0 \in T
  <2>1. \A z \in SUBSET (1 .. 0) : z = {}
    OBVIOUS
  <2> QED
    BY <2>1
<1>2. ASSUME NEW k \in Nat, k \in T PROVE k + 1 \in T
  <2> SUFFICES ASSUME NEW z \in SUBSET (1 .. (k + 1)), z # {} PROVE \E x \in z : \A y \in z : x >= y
    OBVIOUS
  <2>1. CASE k + 1 \in z
    BY <2>1
  <2>2. CASE k + 1 \notin z
    <3>1. z \in SUBSET (1 .. k)
      BY <2>2
    <3> QED
      BY <1>2, <3>1
  <2> QED
    BY <2>1, <2>2
<1>3. n \in T
  <2> HIDE DEF T
  <2> QED
    BY <1>1, <1>2, EveryNatural
<1>4. \E x \in s : \A y \in s : x >= y
  BY <1>3
<1> QED
  BY <1>4 DEF Max

LEMMA MaxOfAll == ASSUME NEW n \in Nat, n # 0 PROVE Max(1 .. n) = n
<1>1. 1 .. n \in SUBSET (1 .. n) /\ n \in 1 .. n
  OBVIOUS
<1>2. Max(1 .. n) \in 1 .. n /\ Max(1 .. n) >= n
  BY <1>1, MaxOf
<1> QED
  BY <1>2

(* One more of a sequence, for the functions that Iterates is about. *)
LEMMA IteratesOn ==
  ASSUME NEW k \in Nat, NEW g, NEW v,
         NEW h, h = [s \in SUBSET (1 .. (k + 1)) |-> IF k + 1 \in s THEN v[s \ {k + 1}] ELSE g[s]],
         NEW s \in SUBSET (1 .. (k + 1)), s # {}
  PROVE  /\ k + 1 \in s => Max(s) = k + 1 /\ h[s] = v[s \ {Max(s)}] /\ h[s \ {Max(s)}] = g[s \ {Max(s)}]
                            /\ s \ {Max(s)} \in SUBSET (1 .. k)
         /\ k + 1 \notin s => h[s] = g[s] /\ h[s \ {Max(s)}] = g[s \ {Max(s)}] /\ s \in SUBSET (1 .. k)
<1>1. Max(s) \in s /\ \A y \in s : Max(s) >= y
  <2>1. k + 1 \in Nat
    OBVIOUS
  <2> QED
    BY <2>1, MaxOf
<1>2. s \ {Max(s)} \in SUBSET (1 .. (k + 1))
  OBVIOUS
<1>3. CASE k + 1 \in s
  <2>1. Max(s) = k + 1
    <3>1. Max(s) \in 1 .. (k + 1) /\ Max(s) >= k + 1
      BY <1>1, <1>3
    <3> QED
      BY <3>1
  <2>2. k + 1 \notin s \ {k + 1} /\ s \ {k + 1} \in SUBSET (1 .. k)
    OBVIOUS
  <2> QED
    BY <1>2, <1>3, <2>1, <2>2
<1>4. CASE k + 1 \notin s
  <2>1. k + 1 \notin s \ {Max(s)} /\ s \in SUBSET (1 .. k)
    BY <1>4
  <2> QED
    BY <1>2, <1>4, <2>1
<1> QED
  BY <1>3, <1>4

LEMMA IteratesExists ==
  ASSUME NEW kind, NEW p, NEW c, NEW seq, NEW n \in Nat, DOMAIN seq = 1 .. n
  PROVE  \E g : Iterates(g, kind, p, c, seq)
<1> DEFINE F(g, s) == IF s = {} THEN c ELSE Step(kind, p, g[s \ {Max(s)}], seq[Max(s)])
           T == {k \in Nat : \E g : g = [s \in SUBSET (1 .. k) |-> F(g, s)]}
<1>1. 0 \in T
  <2> DEFINE g == [s \in SUBSET (1 .. 0) |-> c]
  <2>1. g = [s \in SUBSET (1 .. 0) |-> F(g, s)]
    OBVIOUS
  <2> HIDE DEF g, F
  <2> QED
    BY <2>1
<1>2. ASSUME NEW k \in Nat, k \in T PROVE k + 1 \in T
  <2>1. PICK g : g = [s \in SUBSET (1 .. k) |-> F(g, s)]
    <3> HIDE DEF F
    <3> QED
      BY <1>2
  <2> DEFINE v == [s \in SUBSET (1 .. k) |-> Step(kind, p, g[s], seq[k + 1])]
             h == [s \in SUBSET (1 .. (k + 1)) |-> IF k + 1 \in s THEN v[s \ {k + 1}] ELSE g[s]]
  <2>2. ASSUME NEW s \in SUBSET (1 .. (k + 1)) PROVE h[s] = F(h, s)
    <3>1. CASE s = {}
      BY <2>1, <3>1
    <3>2. CASE s # {} /\ k + 1 \in s
      <4>1. Max(s) = k + 1 /\ h[s] = v[s \ {Max(s)}] /\ h[s \ {Max(s)}] = g[s \ {Max(s)}]
            /\ s \ {Max(s)} \in SUBSET (1 .. k)
        <5> HIDE DEF v
        <5> QED
          BY <3>2, IteratesOn
      <4>2. v[s \ {Max(s)}] = Step(kind, p, g[s \ {Max(s)}], seq[k + 1])
        BY <4>1
      <4> HIDE DEF h, v
      <4> QED
        BY <3>2, <4>1, <4>2
    <3>3. CASE s # {} /\ k + 1 \notin s
      <4>1. h[s] = g[s] /\ h[s \ {Max(s)}] = g[s \ {Max(s)}] /\ s \in SUBSET (1 .. k)
        <5> HIDE DEF v
        <5> QED
          BY <3>3, IteratesOn
      <4>2. g[s] = F(g, s)
        BY <2>1, <4>1
      <4> HIDE DEF h, v
      <4> QED
        BY <3>3, <4>1, <4>2
    <3> QED
      BY <3>1, <3>2, <3>3
  <2>3. h = [s \in SUBSET (1 .. (k + 1)) |-> F(h, s)]
    <3>1. h = [s \in SUBSET (1 .. (k + 1)) |-> h[s]]
      OBVIOUS
    <3> HIDE DEF h, F
    <3> QED
      BY <2>2, <3>1
  <2> HIDE DEF h, F
  <2> QED
    BY <2>3
<1>3. n \in T
  <2> HIDE DEF T
  <2> QED
    BY <1>1, <1>2, EveryNatural
<1> QED
  BY <1>3 DEF Iterates

LEMMA TraceOf ==
  ASSUME NEW kind, NEW p, NEW c, NEW seq, NEW n \in Nat, DOMAIN seq = 1 .. n
  PROVE  \E A : Runs(A, kind, p, c, seq, n)
<1>1. PICK g : Iterates(g, kind, p, c, seq) /\ g = CHOOSE h : Iterates(h, kind, p, c, seq)
  BY IteratesExists
<1> DEFINE A == [k \in 0 .. n |-> g[1 .. k]]
<1>2. \A s \in SUBSET (1 .. n) :
        g[s] = IF s = {} THEN c ELSE Step(kind, p, g[s \ {Max(s)}], seq[Max(s)])
  BY <1>1 DEF Iterates
<1>3. A[0] = c
  <2>1. 1 .. 0 = {} /\ {} \in SUBSET (1 .. n) /\ 0 \in 0 .. n
    OBVIOUS
  <2> QED
    BY <1>2, <2>1
<1>4. A[n] = Fold(kind, p, c, seq)
  <2>1. A[n] = g[DOMAIN seq]
    OBVIOUS
  <2> HIDE DEF A
  <2> QED
    BY <1>1, <2>1 DEF Fold
<1>5. ASSUME NEW k \in 1 .. n PROVE A[k] = Step(kind, p, A[k - 1], seq[k])
  <2>1. k \in Nat /\ k # 0 /\ k \in 0 .. n /\ k - 1 \in 0 .. n
    OBVIOUS
  <2>2. Max(1 .. k) = k
    BY <2>1, MaxOfAll
  <2>3. (1 .. k) \ {k} = 1 .. (k - 1) /\ 1 .. k # {} /\ 1 .. k \in SUBSET (1 .. n)
    OBVIOUS
  <2>4. g[1 .. k] = Step(kind, p, g[1 .. (k - 1)], seq[k])
    BY <1>2, <2>2, <2>3
  <2> QED
    BY <2>1, <2>4
<1> HIDE DEF A
<1> QED
  BY <1>3, <1>4, <1>5 DEF Runs

(* What holds between the contexts of a trace that evolves. *)
LEMMA EvolvesAlong ==
  ASSUME NEW A, NEW n \in Nat, NEW s, \A k \in 1 .. n : Evolves(A[k - 1], A[k], s)
  PROVE  Evolves(A[0], A[n], s)
<1> DEFINE T == {k \in Nat : k <= n => Evolves(A[0], A[k], s)}
<1>1. 0 \in T
  BY EvolvesSelf
<1>2. ASSUME NEW k \in Nat, k \in T PROVE k + 1 \in T
  <2> SUFFICES ASSUME k + 1 <= n PROVE Evolves(A[0], A[k + 1], s)
    OBVIOUS
  <2>1. Evolves(A[0], A[k], s)
    BY <1>2
  <2>2. k + 1 \in 1 .. n /\ (k + 1) - 1 = k
    OBVIOUS
  <2>3. Evolves(A[k], A[k + 1], s)
    BY <2>2
  <2> QED
    BY <2>1, <2>3, EvolvesOn
<1>3. n \in T
  <2> HIDE DEF T
  <2> QED
    BY <1>1, <1>2, EveryNatural
<1> QED
  BY <1>3

LEMMA FoldEvolves ==
  ASSUME NEW kind, NEW p, NEW c, NEW seq, NEW n \in Nat, DOMAIN seq = 1 .. n, NEW s,
         \A a : \A k \in 1 .. n : Evolves(a, Step(kind, p, a, seq[k]), s)
  PROVE  Evolves(c, Fold(kind, p, c, seq), s)
<1>1. PICK A : Runs(A, kind, p, c, seq, n)
  BY TraceOf
<1>2. \A k \in 1 .. n : Evolves(A[k - 1], A[k], s)
  BY <1>1 DEF Runs
<1> QED
  BY <1>1, <1>2, EvolvesAlong DEF Runs
LEMMA ConvertsAlong ==
  ASSUME NEW A, NEW n \in Nat, NEW s, \A k \in 1 .. n : Converts(A[k - 1], A[k], s)
  PROVE  Converts(A[0], A[n], s)
<1> DEFINE T == {k \in Nat : k <= n => Converts(A[0], A[k], s)}
<1>1. 0 \in T
  BY ConvertsSelf
<1>2. ASSUME NEW k \in Nat, k \in T PROVE k + 1 \in T
  <2> SUFFICES ASSUME k + 1 <= n PROVE Converts(A[0], A[k + 1], s)
    OBVIOUS
  <2>1. Converts(A[0], A[k], s)
    BY <1>2
  <2>2. k + 1 \in 1 .. n /\ (k + 1) - 1 = k
    OBVIOUS
  <2>3. Converts(A[k], A[k + 1], s)
    BY <2>2
  <2> QED
    BY <2>1, <2>3, ConvertsOn
<1>3. n \in T
  <2> HIDE DEF T
  <2> QED
    BY <1>1, <1>2, EveryNatural
<1> QED
  BY <1>3

LEMMA FoldConverts ==
  ASSUME NEW kind, NEW p, NEW c, NEW seq, NEW n \in Nat, DOMAIN seq = 1 .. n, NEW s,
         \A a : \A k \in 1 .. n : Converts(a, Step(kind, p, a, seq[k]), s)
  PROVE  Converts(c, Fold(kind, p, c, seq), s)
<1>1. PICK A : Runs(A, kind, p, c, seq, n)
  BY TraceOf
<1>2. \A k \in 1 .. n : Converts(A[k - 1], A[k], s)
  BY <1>1 DEF Runs
<1> QED
  BY <1>1, <1>2, ConvertsAlong DEF Runs

LEMMA CollectsAlong ==
  ASSUME NEW A, NEW n \in Nat, NEW s, \A k \in 1 .. n : Collects(A[k - 1], A[k], s)
  PROVE  Collects(A[0], A[n], s)
<1> DEFINE T == {k \in Nat : k <= n => Collects(A[0], A[k], s)}
<1>1. 0 \in T
  BY CollectsSelf
<1>2. ASSUME NEW k \in Nat, k \in T PROVE k + 1 \in T
  <2> SUFFICES ASSUME k + 1 <= n PROVE Collects(A[0], A[k + 1], s)
    OBVIOUS
  <2>1. Collects(A[0], A[k], s)
    BY <1>2
  <2>2. k + 1 \in 1 .. n /\ (k + 1) - 1 = k
    OBVIOUS
  <2>3. Collects(A[k], A[k + 1], s)
    BY <2>2
  <2> QED
    BY <2>1, <2>3, CollectsOn
<1>3. n \in T
  <2> HIDE DEF T
  <2> QED
    BY <1>1, <1>2, EveryNatural
<1> QED
  BY <1>3

LEMMA FoldCollects ==
  ASSUME NEW kind, NEW p, NEW c, NEW seq, NEW n \in Nat, DOMAIN seq = 1 .. n, NEW s,
         \A a : \A k \in 1 .. n : Collects(a, Step(kind, p, a, seq[k]), s)
  PROVE  Collects(c, Fold(kind, p, c, seq), s)
<1>1. PICK A : Runs(A, kind, p, c, seq, n)
  BY TraceOf
<1>2. \A k \in 1 .. n : Collects(A[k - 1], A[k], s)
  BY <1>1 DEF Runs
<1> QED
  BY <1>1, <1>2, CollectsAlong DEF Runs
-----------------------------------------------------------------------------
(* XDR lines out of N2K messages. *)
LEMMA xdrReadingCollects ==
  ASSUME NEW c, NEW m, HasFields(m), NEW r, r[5] \in Int
  PROVE  Collects(c, xdrReading(c, m, r), m.src)
<1> DEFINE mapping == getMapping(r[1], r[2], r[3], r[4])
           transducer == getTransducerName(mapping, mapping.instance)
           item == getBoatItemName(transducer)
           u == addUnknown(c.unknown, r[1], r[2], r[3], r[4])
<1>1. \/ xdrReading(c, m, r) = [c EXCEPT !.unknown = u]
      \/ xdrReading(c, m, r) = c
      \/ xdrReading(c, m, r) = addToXdr(Update(c, m, item, r[5]), transducer)
  BY DEF xdrReading
<1>2. CanBe(item, r[5])
  BY DEF CanBe, XdrNamesDiffer
<1>3. Typed(c) => IsFiniteSet(u) /\ Cardinality(u) <= MaxUnknown
  BY addUnknownKeeps DEF Typed
<1> HIDE DEF item, transducer, u
<1>4. Collects(c, [c EXCEPT !.unknown = u], m.src)
  BY <1>3, UnknownConverts, ConvertsCollects
<1>5. Collects(c, addToXdr(Update(c, m, item, r[5]), transducer), m.src)
  BY <1>2, UpdateConverts, ConvertsCollects, addToXdrCollects, CollectsOn
<1> QED
  BY <1>1, <1>4, <1>5, CollectsSelf

LEMMA toXdrIsFold ==
  ASSUME NEW c, NEW m, NEW readings
  PROVE  toXdr(c, m, readings) = finalizeXdr(Fold("reading", m, c, readings))
<1> DEFINE P(g) == g = [s \in SUBSET (DOMAIN readings) |->
                          IF s = {} THEN c ELSE xdrReading(g[s \ {Max(s)}], m, readings[Max(s)])]
<1>1. ASSUME NEW g PROVE P(g) <=> Iterates(g, "reading", m, c, readings)
  BY DEF Iterates, Step
<1>2. toXdr(c, m, readings) = finalizeXdr((CHOOSE g : P(g))[DOMAIN readings])
  BY DEF toXdr, FoldLeft, MapThenFoldSet
<1> HIDE DEF P
<1>3. (CHOOSE g : P(g)) = (CHOOSE g : Iterates(g, "reading", m, c, readings))
  BY <1>1
<1> QED
  BY <1>2, <1>3 DEF Fold

LEMMA toXdrConverts ==
  ASSUME NEW c, NEW m, HasFields(m), NEW readings, NEW n \in Nat, DOMAIN readings = 1 .. n,
         \A k \in 1 .. n : readings[k][5] \in Int
  PROVE  Converts(c, toXdr(c, m, readings), m.src)
<1>1. \A a : \A k \in 1 .. n : Collects(a, Step("reading", m, a, readings[k]), m.src)
  BY xdrReadingCollects DEF Step
<1>2. Collects(c, Fold("reading", m, c, readings), m.src)
  BY <1>1, FoldCollects
<1> QED
  BY <1>2, toXdrIsFold, finalizeXdrCloses

LEMMA toXdrOn ==
  ASSUME NEW c, NEW d, NEW m, HasFields(m), Converts(c, d, m.src),
         NEW readings, NEW n \in Nat, DOMAIN readings = 1 .. n,
         \A k \in 1 .. n : readings[k][5] \in Int
  PROVE  Converts(c, toXdr(d, m, readings), m.src)
BY toXdrConverts, ConvertsOn
-----------------------------------------------------------------------------
(* Satellites. *)
LEMMA Along ==
  ASSUME NEW n \in Nat, NEW K, 0 \in K, \A k \in 1 .. n : k - 1 \in K => k \in K
  PROVE  n \in K
<1> DEFINE T == {k \in Nat : k <= n => k \in K}
<1>1. 0 \in T
  OBVIOUS
<1>2. ASSUME NEW k \in Nat, k \in T PROVE k + 1 \in T
  <2> SUFFICES ASSUME k + 1 <= n PROVE k + 1 \in K
    OBVIOUS
  <2>1. k \in K /\ k + 1 \in 1 .. n /\ (k + 1) - 1 = k
    BY <1>2
  <2> QED
    BY <2>1
<1>3. n \in T
  <2> HIDE DEF T
  <2> QED
    BY <1>1, <1>2, EveryNatural
<1> QED
  BY <1>3

LEMMA SatListMore ==
  ASSUME NEW sats, SatList(sats), NEW x, x.validTill \in 0 .. (Wrap - 1)
  PROVE  SatList(Append(sats, x))
<1>1. IsSeq(sats) /\ \A k \in DOMAIN sats : sats[k].validTill \in 0 .. (Wrap - 1)
  BY DEF SatList, IsSeq
<1>2. PICK t : t = Append(sats, x)
  OBVIOUS
<1>3. /\ IsSeq(t) /\ Len(sats) \in Nat /\ DOMAIN sats = 1 .. Len(sats)
      /\ DOMAIN t = 1 .. (Len(sats) + 1)
      /\ \A k \in 1 .. Len(sats) : t[k] = sats[k]
      /\ t[Len(sats) + 1] = x
  BY <1>1, <1>2, AppendSeq
<1>4. ASSUME NEW k \in DOMAIN t PROVE t[k].validTill \in 0 .. (Wrap - 1)
  <2>1. CASE k = Len(sats) + 1
    BY <1>3, <2>1
  <2>2. CASE k \in 1 .. Len(sats)
    BY <1>1, <1>3, <2>2
  <2> QED
    BY <1>3, <2>1, <2>2
<1> QED
  BY <1>2, <1>3, <1>4 DEF SatList, IsSeq

LEMMA houseKeepingIsFold ==
  ASSUME NEW sats, NEW t
  PROVE  houseKeeping(sats, t) = Fold("keep", t, << >>, sats)
<1> DEFINE P(g) == g = [s \in SUBSET (DOMAIN sats) |->
                          IF s = {} THEN << >>
                          ELSE IF sats[Max(s)].validTill >= t THEN Append(g[s \ {Max(s)}], sats[Max(s)])
                               ELSE g[s \ {Max(s)}]]
<1>1. ASSUME NEW g PROVE P(g) <=> Iterates(g, "keep", t, << >>, sats)
  BY DEF Iterates, Step
<1>2. houseKeeping(sats, t) = (CHOOSE g : P(g))[DOMAIN sats]
  BY DEF houseKeeping, FoldLeft, MapThenFoldSet
<1> HIDE DEF P
<1>3. (CHOOSE g : P(g)) = (CHOOSE g : Iterates(g, "keep", t, << >>, sats))
  BY <1>1
<1> QED
  BY <1>2, <1>3 DEF Fold

LEMMA EmptySatList == ASSUME NEW s, s = << >> PROVE SatList(s)
<1>1. IsSeq(s) /\ DOMAIN s = {}
  BY EmptyIsSeq
<1> QED
  BY <1>1 DEF SatList, IsSeq

LEMMA SatListDomain == ASSUME NEW s, SatList(s) PROVE Len(s) \in Nat /\ DOMAIN s = 1 .. Len(s) /\ IsSeq(s)
<1>1. IsSeq(s)
  BY DEF SatList, IsSeq
<1> QED
  BY <1>1, AppendSeq

LEMMA houseKeepingKeeps ==
  ASSUME NEW sats, SatList(sats), NEW t
  PROVE  SatList(houseKeeping(sats, t))
<1>1. Len(sats) \in Nat /\ DOMAIN sats = 1 .. Len(sats)
  BY SatListDomain
<1> DEFINE n == Len(sats)
<1> HIDE DEF n
<1>2. n \in Nat /\ DOMAIN sats = 1 .. n
  BY <1>1 DEF n
<1>3. PICK A : Runs(A, "keep", t, << >>, sats, n)
  BY <1>2, TraceOf
<1> DEFINE K == {k \in 0 .. n : SatList(A[k])}
<1>4. 0 \in K
  BY <1>2, <1>3, EmptySatList DEF Runs
<1>5. ASSUME NEW k \in 1 .. n, k - 1 \in K PROVE k \in K
  <2>1. SatList(A[k - 1])
    BY <1>5
  <2>2. A[k] = IF sats[k].validTill >= t THEN Append(A[k - 1], sats[k]) ELSE A[k - 1]
    BY <1>3 DEF Runs, Step
  <2>3. sats[k].validTill \in 0 .. (Wrap - 1)
    BY <1>2 DEF SatList
  <2>4. SatList(A[k])
    BY <2>1, <2>2, <2>3, SatListMore
  <2> QED
    BY <1>2, <2>4
<1>6. n \in K
  <2> HIDE DEF K
  <2> QED
    BY <1>2, <1>4, <1>5, Along
<1> QED
  BY <1>3, <1>6, houseKeepingIsFold DEF Runs

LEMMA listUpdateKeeps ==
  ASSUME NEW sats, SatList(sats), NEW prn, NEW till \in 0 .. (Wrap - 1), NEW t
  PROVE  SatList(listUpdate(sats, prn, till, t))
<1> DEFINE x == [prn |-> prn, validTill |-> till]
           new == [k \in DOMAIN sats |->
                     IF sats[k].prn = prn /\ \A j \in 1 .. (k - 1) : sats[j].prn # prn THEN x ELSE sats[k]]
<1>1. x.validTill \in 0 .. (Wrap - 1)
  OBVIOUS
<1>2. \/ listUpdate(sats, prn, till, t) = houseKeeping(new, t)
      \/ listUpdate(sats, prn, till, t) = Append(houseKeeping(sats, t), x)
  BY DEF listUpdate
<1>3. DOMAIN new = DOMAIN sats /\ \A k \in DOMAIN sats : new[k] = x \/ new[k] = sats[k]
  OBVIOUS
<1>a. new = [k \in 1 .. Len(sats) |-> new[k]]
  BY SatListDomain
<1> HIDE DEF x, new
<1>4. SatList(new)
  <2>1. Len(sats) \in Nat /\ DOMAIN sats = 1 .. Len(sats)
    BY SatListDomain
  <2> DEFINE R == {new[k] : k \in DOMAIN new}
  <2>2. \A k \in 1 .. Len(sats) : new[k] \in R
    BY <1>3, <2>1
  <2>3. new \in Seq(R)
    <3> HIDE DEF R
    <3> QED
      BY <1>a, <2>1, <2>2
  <2>4. \A k \in DOMAIN new : new[k].validTill \in 0 .. (Wrap - 1)
    BY <1>1, <1>3 DEF SatList
  <2> QED
    BY <2>3, <2>4 DEF SatList
<1>5. SatList(houseKeeping(new, t)) /\ SatList(Append(houseKeeping(sats, t), x))
  BY <1>1, <1>4, houseKeepingKeeps, SatListMore
<1> QED
  BY <1>2, <1>5

(* What updates with the satellites of one message may do to the store. *)
SatStep(c, b, s) ==
  /\ DOMAIN b = Item /\ SatList(b["SatInfo"].data)
  /\ \A i \in Item \ {"SatInfo"} : b[i] = c.bd[i]
  /\ \/ b["SatInfo"] = c.bd["SatInfo"]
     \/ /\ Entry(b["SatInfo"]) /\ b["SatInfo"].lastSet = c.now /\ b["SatInfo"].src = s
        /\ accepts(c.bd, "SatInfo", s, c.now)

LEMMA satUpdateSteps ==
  ASSUME NEW c, Ready(c), NEW b, NEW s \in Int, SatStep(c, b, s), NEW prn
  PROVE  SatStep(c, satUpdate(b, prn, s, c.now), s)
<1> SUFFICES ASSUME satAccepts(b, s, c.now) PROVE SatStep(c, satUpdate(b, prn, s, c.now), s)
  BY DEF satUpdate
<1> DEFINE till == Plus(c.now, invalidTime("SatInfo"))
           list == listUpdate(b["SatInfo"].data, prn, till, c.now)
           e == [lastSet |-> c.now, src |-> s, data |-> list]
<1>0. "SatInfo" \in Item /\ IsContext(c) /\ c.now \in Nat
  BY BoatDataAssumption DEF Item, Fixed, Ready, IsContext
<1>1. till \in 0 .. (Wrap - 1)
  BY <1>0, TimesAreNat, PlusIsLess
<1>2. satUpdate(b, prn, s, c.now) = [b EXCEPT !["SatInfo"] = e]
  BY DEF satUpdate
<1> HIDE DEF till
<1>3. SatList(list)
  BY <1>1, listUpdateKeeps DEF SatStep
<1> HIDE DEF list
<1>4. Entry(e) /\ e.lastSet = c.now /\ e.src = s /\ e.data = list
  BY <1>0, EntryOfNow
<1> HIDE DEF e
<1>5. accepts(c.bd, "SatInfo", s, c.now)
  <2>1. accepts(b, "SatInfo", s, c.now)
    BY DEF satAccepts, accepts
  <2> QED
    BY <2>1, AcceptsOfEntry DEF SatStep
<1>6. PICK d : d = [b EXCEPT !["SatInfo"] = e]
  OBVIOUS
<1>7. DOMAIN d = Item /\ d["SatInfo"] = e /\ \A i \in Item \ {"SatInfo"} : d[i] = b[i]
  BY <1>0, <1>6 DEF SatStep
<1>8. SatStep(c, d, s)
  BY <1>3, <1>4, <1>5, <1>7 DEF SatStep
<1> QED
  BY <1>2, <1>6, <1>8

LEMMA satUpdatesIsFold ==
  ASSUME NEW b, NEW prns, NEW s, NEW t
  PROVE  satUpdates(b, prns, s, t) = Fold("satellite", [source |-> s, now |-> t], b, prns)
<1> DEFINE p == [source |-> s, now |-> t]
           P(g) == g = [z \in SUBSET (DOMAIN prns) |->
                          IF z = {} THEN b ELSE satUpdate(g[z \ {Max(z)}], prns[Max(z)], s, t)]
<1>1. ASSUME NEW g PROVE P(g) <=> Iterates(g, "satellite", p, b, prns)
  BY DEF Iterates, Step
<1>2. satUpdates(b, prns, s, t) = (CHOOSE g : P(g))[DOMAIN prns]
  BY DEF satUpdates, FoldLeft, MapThenFoldSet
<1> HIDE DEF P
<1>3. (CHOOSE g : P(g)) = (CHOOSE g : Iterates(g, "satellite", p, b, prns))
  BY <1>1
<1> QED
  BY <1>2, <1>3 DEF Fold

LEMMA satUpdatesConverts ==
  ASSUME NEW c, NEW s \in Int, NEW prns, NEW n \in Nat, DOMAIN prns = 1 .. n
  PROVE  Converts(c, [c EXCEPT !.bd = satUpdates(c.bd, prns, s, c.now)], s)
<1> DEFINE p == [source |-> s, now |-> c.now]
           b == satUpdates(c.bd, prns, s, c.now)
<1>1. ASSUME Ready(c) PROVE SatStep(c, b, s)
  <2>1. PICK A : Runs(A, "satellite", p, c.bd, prns, n)
    BY TraceOf
  <2>a. p.source = s /\ p.now = c.now
    OBVIOUS
  <2>b. b = Fold("satellite", p, c.bd, prns)
    BY satUpdatesIsFold
  <2> HIDE DEF p, b
  <2> DEFINE K == {k \in 0 .. n : SatStep(c, A[k], s)}
  <2>2. 0 \in K
    <3>1. SatStep(c, c.bd, s)
      BY <1>1 DEF Ready, IsContext, Typed, SatStep
    <3> QED
      BY <2>1, <3>1 DEF Runs
  <2>3. ASSUME NEW k \in 1 .. n, k - 1 \in K PROVE k \in K
    <3>1. A[k] = satUpdate(A[k - 1], prns[k], s, c.now)
      BY <2>1, <2>a DEF Runs, Step
    <3>2. SatStep(c, A[k - 1], s)
      BY <2>3
    <3>3. SatStep(c, A[k], s)
      BY <1>1, <3>1, <3>2, satUpdateSteps
    <3> QED
      BY <3>3
  <2>4. n \in K
    <3> HIDE DEF K
    <3> QED
      BY <2>2, <2>3, Along
  <2> QED
    BY <2>1, <2>4, <2>b DEF Runs
<1> HIDE DEF b
<1>2. ASSUME Ready(c), SatStep(c, b, s)
      PROVE  /\ DOMAIN b = Item
             /\ \A i \in Item :
                  \/ b[i] = c.bd[i]
                  \/ /\ Entry(b[i]) /\ b[i].lastSet = c.now /\ b[i].src = s
                     /\ i \notin Kept => accepts(c.bd, i, s, c.now)
             /\ (\A i \in Item \ {"SatInfo"} : b[i].data \in Int) /\ SatList(b["SatInfo"].data)
  BY <1>2 DEF SatStep, Ready, Typed
<1>3. Converts(c, [c EXCEPT !.bd = b], s)
  BY <1>1, <1>2, StoreConverts DEF Ready
<1> QED
  BY <1>3 DEF b
-----------------------------------------------------------------------------
(* The handlers of N2K messages. *)
LEMMA satUpdatesEvolves ==
  ASSUME NEW c, NEW s \in Int, NEW prns, NEW n \in Nat, DOMAIN prns = 1 .. n
  PROVE  Evolves(c, [c EXCEPT !.bd = satUpdates(c.bd, prns, s, c.now)], s)
BY satUpdatesConverts, ConvertsEvolves

LEMMA EvolvesReady ==
  ASSUME NEW c, NEW d, NEW s, Ready(c) => Evolves(c, d, s) PROVE Evolves(c, d, s)
BY DEF Evolves, Follows, Leads
LEMMA ConvertsReady ==
  ASSUME NEW c, NEW d, NEW s, Ready(c) => Converts(c, d, s) PROVE Converts(c, d, s)
BY DEF Converts, Evolves, Follows, Leads

LEMMA UpdateOn ==
  ASSUME NEW c, NEW d, NEW m, HasFields(m), Converts(c, d, m.src), NEW i, NEW v, CanBe(i, v)
  PROVE  Converts(c, Update(d, m, i, v), m.src)
BY UpdateConverts, ConvertsOn

LEMMA ComputedIsInt == ASSUME NEW a \in Int, NEW b PROVE Computed(a, b) \in Int
BY DEF Computed, Garbage

LEMMA NotSatInfo == ASSUME NEW i, NEW v \in Int, i # "SatInfo" PROVE CanBe(i, v)
BY DEF CanBe

LEMMA StoredIsValid == ASSUME NEW c, NEW i, Stored(c, i) # NA PROVE Valid(c, i)
BY DEF Stored, getDataWithDefault, Valid

LEMMA HandleHeadingConverts ==
  ASSUME NEW c, NEW m, HasFields(m) PROVE Converts(c, HandleHeading(c, m), m.src)
<1> SUFFICES ASSUME Ready(c) PROVE Converts(c, HandleHeading(c, m), m.src)
  BY ConvertsReady
<1> DEFINE heading == V(m, "Heading")
           c1 == UpdateEach(c, m, {"VAR", "DEV"})
           variation == IF Has(m, "VAR") THEN V(m, "VAR") ELSE Stored(c1, "VAR")
           used == IF Has(m, "VAR") THEN {} ELSE {"VAR"}
           magnetic == CASE m.ref = "magnetic" -> heading
                         [] m.ref = "true" -> Computed(heading, variation)
                         [] OTHER -> NA
           true == IF m.ref = "magnetic" THEN Computed(heading, variation) ELSE heading
           both == Update(Update(c1, m, "HDM", magnetic), m, "HDT", true)
           hdg == IF magnetic = NA THEN both ELSE SendMessage(both, "HDG", used)
<1>1. \/ /\ variation # NA
         /\ HandleHeading(c, m) = hdg \/ HandleHeading(c, m) = SendMessage(hdg, "HDT", used)
      \/ HandleHeading(c, m) = SendMessage(Update(c1, m, "HDM", heading), "HDM", {})
      \/ HandleHeading(c, m) = SendMessage(Update(c1, m, "HDT", heading), "HDT", {})
      \/ HandleHeading(c, m) = c1
  BY Zenon DEF HandleHeading
<1>2. heading \in Int /\ magnetic \in Int /\ true \in Int
  BY ValueIsInt, ComputedIsInt, NoItem
<1>3. CanBe("HDM", magnetic) /\ CanBe("HDT", true) /\ CanBe("HDM", heading) /\ CanBe("HDT", heading)
  BY <1>2, NotSatInfo
<1>4. variation # NA => Readable(c1, used)
  BY StoredIsValid, ReadableValid DEF Item, Fixed
<1>5. Converts(c, c1, m.src)
  BY UpdateEachConverts
<1> HIDE DEF heading, c1, variation, used, magnetic, true
<1>6. Ready(c1) /\ Converts(c1, c1, m.src)
  BY <1>5, ReadyFollows, ConvertsSelf DEF Converts, Evolves
<1>7. Converts(c1, both, m.src)
  BY <1>3, <1>6, UpdateOn
<1> HIDE DEF both
<1>8. CASE variation # NA
  <2>1. Readable(both, used)
    BY <1>4, <1>6, <1>7, <1>8, ReadableLater
  <2>2. Converts(c1, hdg, m.src)
    BY <1>7, <2>1, SendMessageOn
  <2> HIDE DEF hdg
  <2>3. Readable(hdg, used)
    BY <1>4, <1>6, <1>8, <2>2, ReadableLater
  <2>4. Converts(c1, SendMessage(hdg, "HDT", used), m.src)
    BY <2>2, <2>3, SendMessageOn
  <2>5. Converts(c, hdg, m.src) /\ Converts(c, SendMessage(hdg, "HDT", used), m.src)
    BY <1>5, <2>2, <2>4, ConvertsOn
  <2>6. /\ Converts(c, SendMessage(Update(c1, m, "HDM", heading), "HDM", {}), m.src)
        /\ Converts(c, SendMessage(Update(c1, m, "HDT", heading), "HDT", {}), m.src)
    BY <1>3, <1>5, UpdateOn, SendMessageOn, ReadableNone
  <2> QED
    BY <1>1, <1>5, <2>5, <2>6
<1>9. CASE variation = NA
  <2>1. /\ Converts(c, SendMessage(Update(c1, m, "HDM", heading), "HDM", {}), m.src)
        /\ Converts(c, SendMessage(Update(c1, m, "HDT", heading), "HDT", {}), m.src)
    BY <1>3, <1>5, UpdateOn, SendMessageOn, ReadableNone
  <2> QED
    BY <1>1, <1>5, <1>9, <2>1
<1> QED
  BY <1>8, <1>9

LEMMA HandleVariationConverts ==
  ASSUME NEW c, NEW m, HasFields(m) PROVE Converts(c, HandleVariation(c, m), m.src)
BY UpdateEachConverts DEF HandleVariation

LEMMA HandleBoatSpeedConverts ==
  ASSUME NEW c, NEW m, HasFields(m) PROVE Converts(c, HandleBoatSpeed(c, m), m.src)
<1> DEFINE c1 == UpdateEach(c, m, {"STW"})
           both == Used(c1, {"HDT", "VAR"}) = {"HDT", "VAR"}
           reads == Used(c1, {"HDT"}) \cup (IF both THEN {"VAR"} ELSE {})
<1>1. HandleBoatSpeed(c, m) = SendMessage(c1, "VHW", reads)
  BY DEF HandleBoatSpeed
<1>2. {"HDT"} \subseteq Item /\ {"VAR"} \subseteq Item
  BY DEF Item, Fixed
<1>3. Converts(c, c1, m.src)
  BY UpdateEachConverts
<1>4. both => Valid(c1, "VAR")
  BY DEF Used
<1> HIDE DEF c1
<1>5. Readable(c1, IF both THEN {"VAR"} ELSE {})
  BY <1>2, <1>4, ReadableValid, ReadableNone
<1> HIDE DEF both
<1>6. Readable(c1, reads)
  BY <1>2, <1>5, ReadableUsed, ReadableBoth
<1> QED
  BY <1>1, <1>3, <1>6, SendMessageOn

LEMMA HandleDepthConverts ==
  ASSUME NEW c, NEW m, HasFields(m) PROVE Converts(c, HandleDepth(c, m), m.src)
<1> DEFINE c1 == SendMessage(UpdateEach(c, m, {"DBT"}), "DPT", {})
           c2 == IF Has(m, "Offset") THEN Update(c1, m, "DBS", V(m, "DBT") + V(m, "Offset")) ELSE c1
<1>1. HandleDepth(c, m) = IF Takes(c, m, "DBT") THEN SendMessage(c2, "DBx", {}) ELSE c
  BY DEF HandleDepth
<1>2. CanBe("DBS", V(m, "DBT") + V(m, "Offset"))
  <2>1. V(m, "DBT") + V(m, "Offset") \in Int
    BY ValueIsInt
  <2> QED
    BY <2>1, NotSatInfo
<1>3. Converts(c, c1, m.src)
  BY UpdateEachConverts, SendMessageOn, ReadableNone
<1> HIDE DEF c1
<1>4. Converts(c, c2, m.src)
  BY <1>2, <1>3, UpdateOn
<1> HIDE DEF c2
<1> QED
  BY <1>1, <1>4, SendMessageOn, ReadableNone, ConvertsSelf

LEMMA HandlePositionConverts ==
  ASSUME NEW c, NEW m, HasFields(m) PROVE Converts(c, HandlePosition(c, m), m.src)
BY UpdateEachConverts DEF HandlePosition

LEMMA HandleCOGSOGConverts ==
  ASSUME NEW c, NEW m, HasFields(m) PROVE Converts(c, HandleCOGSOG(c, m), m.src)
<1> SUFFICES ASSUME Ready(c) PROVE Converts(c, HandleCOGSOG(c, m), m.src)
  BY ConvertsReady
<1> DEFINE c1 == UpdateEach(c, m, {"COG", "SOG"})
           turned == m.ref = "magnetic" /\ Valid(c1, "VAR")
           v == Computed(V(m, "COG"), Stored(c1, "VAR"))
           c2 == IF turned THEN Update(c1, m, "COG", v) ELSE c1
           used == IF turned \/ (Has(m, "COG") /\ m.ref # "magnetic") THEN Used(c1, {"VAR"}) ELSE {}
<1>1. HandleCOGSOG(c, m) = SendMessage(c2, "VTG", used)
  BY DEF HandleCOGSOG
<1>2. CanBe("COG", v)
  BY ValueIsInt, ComputedIsInt, NotSatInfo
<1>3. {"VAR"} \subseteq Item
  BY DEF Item, Fixed
<1>4. Converts(c, c1, m.src)
  BY UpdateEachConverts
<1> HIDE DEF c1, turned, v
<1>5. Ready(c1) /\ Converts(c1, c1, m.src)
  BY <1>4, ReadyFollows, ConvertsSelf DEF Converts, Evolves
<1>6. Converts(c1, c2, m.src)
  BY <1>2, <1>5, UpdateOn
<1>7. Readable(c1, used)
  BY <1>3, ReadableUsed, ReadableNone
<1> HIDE DEF c2, used
<1>8. Readable(c2, used)
  BY <1>5, <1>6, <1>7, ReadableLater
<1> QED
  BY <1>1, <1>4, <1>6, <1>8, SendMessageOn, ConvertsOn

LEMMA sendGSAConverts == ASSUME NEW c, NEW s PROVE Converts(c, sendGSA(c), s)
<1>1. {"SatInfo"} \subseteq Item /\ {"PDOP", "HDOP", "VDOP"} \subseteq Item
  BY DEF Item, Fixed
<1> DEFINE reads == {"SatInfo"} \cup Used(c, {"PDOP", "HDOP", "VDOP"})
<1>2. sendGSA(c) = IF Valid(c, "SatInfo") THEN SendMessage(c, "GSA", reads) ELSE c
  BY DEF sendGSA
<1>3. Valid(c, "SatInfo") => Readable(c, reads)
  <2>1. Valid(c, "SatInfo") => Readable(c, {"SatInfo"})
    BY <1>1, ReadableValid
  <2>2. Readable(c, Used(c, {"PDOP", "HDOP", "VDOP"}))
    BY <1>1, ReadableUsed
  <2> QED
    BY <2>1, <2>2, ReadableBoth
<1> HIDE DEF reads
<1> QED
  BY <1>2, <1>3, SendMessageOn, ConvertsSelf

LEMMA HandleGNSSConverts ==
  ASSUME NEW c, NEW m, HasFields(m) PROVE Converts(c, HandleGNSS(c, m), m.src)
BY UpdateEachConverts, SendMessageOn, ReadableNone DEF HandleGNSS

LEMMA HandleDopConverts ==
  ASSUME NEW c, NEW m, HasFields(m) PROVE Converts(c, HandleDop(c, m), m.src)
BY UpdateEachConverts, sendGSAConverts, ConvertsOn DEF HandleDop

LEMMA HandleLogConverts ==
  ASSUME NEW c, NEW m, HasFields(m) PROVE Converts(c, HandleLog(c, m), m.src)
BY UpdateEachConverts, SendMessageOn, ReadableNone DEF HandleLog

LEMMA HandleTimeOffsetConverts ==
  ASSUME NEW c, NEW m, HasFields(m) PROVE Converts(c, HandleTimeOffset(c, m), m.src)
BY UpdateEachConverts DEF HandleTimeOffset

LEMMA HandleROTConverts ==
  ASSUME NEW c, NEW m, HasFields(m) PROVE Converts(c, HandleROT(c, m), m.src)
BY UpdateEachConverts, SendMessageOn, ReadableNone, ConvertsSelf DEF HandleROT

LEMMA HandleXTEConverts ==
  ASSUME NEW c, NEW m, HasFields(m) PROVE Converts(c, HandleXTE(c, m), m.src)
BY UpdateEachConverts, SendMessageOn, ReadableNone, ConvertsSelf DEF HandleXTE

LEMMA HandleSystemTimeConverts ==
  ASSUME NEW c, NEW m, HasFields(m) PROVE Converts(c, HandleSystemTime(c, m), m.src)
<1> DEFINE c1 == UpdateEach(c, m, {"GPST", "GPSD"})
           reads == {"GPST", "GPSD"} \cup Used(c1, {"TZ"})
<1>1. HandleSystemTime(c, m) = IF Valid(c1, "GPSD") /\ Valid(c1, "GPST") THEN SendMessage(c1, "ZDA", reads) ELSE c1
  BY DEF HandleSystemTime
<1>2. Converts(c, c1, m.src)
  BY UpdateEachConverts
<1> HIDE DEF c1
<1>3. {"GPST", "GPSD"} \subseteq Item /\ {"TZ"} \subseteq Item
  BY DEF Item, Fixed
<1>4. ASSUME Valid(c1, "GPSD"), Valid(c1, "GPST") PROVE Readable(c1, reads)
  <2>1. Readable(c1, {"GPST", "GPSD"})
    BY <1>3, <1>4, ReadableValid
  <2> QED
    BY <1>3, <2>1, ReadableUsed, ReadableBoth
<1> HIDE DEF reads
<1> QED
  BY <1>1, <1>2, <1>4, SendMessageOn

(* The list of satellites is sent in so many lines as it needs. *)
LEMMA HandleSatsIsFold ==
  ASSUME NEW c, NEW m
  PROVE  LET c1 == [c EXCEPT !.bd = satUpdates(c.bd, m.sats, m.src, c.now)]
             lines == (getNumSats(c1.bd, c.now) + 3) \div 4
             n == IF lines > 9 THEN 9 ELSE lines
         IN \/ HandleSats(c, m) = c
            \/ HandleSats(c, m) = Fold("gsv", m, c1, [k \in 1 .. n |-> k])
<1> DEFINE c1 == [c EXCEPT !.bd = satUpdates(c.bd, m.sats, m.src, c.now)]
           lines == (getNumSats(c1.bd, c.now) + 3) \div 4
           n == IF lines > 9 THEN 9 ELSE lines
           all == [k \in 1 .. n |-> k]
           P(g) == g = [z \in SUBSET (DOMAIN all) |->
                          IF z = {} THEN c1 ELSE SendMessage(g[z \ {Max(z)}], "GSV", {"SatInfo"})]
<1>1. HandleSats(c, m) = c \/ HandleSats(c, m) = (CHOOSE g : P(g))[DOMAIN all]
  BY DEF HandleSats, FoldLeft, MapThenFoldSet
<1> HIDE DEF c1, all
<1>2. ASSUME NEW g PROVE P(g) <=> Iterates(g, "gsv", m, c1, all)
  BY DEF Iterates, Step
<1> HIDE DEF P
<1>3. (CHOOSE g : P(g)) = (CHOOSE g : Iterates(g, "gsv", m, c1, all))
  BY <1>2
<1>4. HandleSats(c, m) = c \/ HandleSats(c, m) = Fold("gsv", m, c1, all)
  BY <1>1, <1>3 DEF Fold
<1> QED
  BY <1>4 DEF c1, all

LEMMA HandleSatsConverts ==
  ASSUME NEW c, NEW m, HasFields(m), m.sats \in Seq(Int) PROVE Converts(c, HandleSats(c, m), m.src)
<1> SUFFICES ASSUME Ready(c) PROVE Converts(c, HandleSats(c, m), m.src)
  BY ConvertsReady
<1> DEFINE c1 == [c EXCEPT !.bd = satUpdates(c.bd, m.sats, m.src, c.now)]
           lines == (getNumSats(c1.bd, c.now) + 3) \div 4
           n == IF lines > 9 THEN 9 ELSE lines
           all == [k \in 1 .. n |-> k]
<1>1. HandleSats(c, m) = c \/ HandleSats(c, m) = Fold("gsv", m, c1, all)
  BY HandleSatsIsFold
<1>2. Converts(c, c1, m.src)
  <2>1. Len(m.sats) \in Nat /\ DOMAIN m.sats = 1 .. Len(m.sats) /\ m.src \in Int
    BY DEF HasFields
  <2> QED
    BY <2>1, satUpdatesConverts
<1> HIDE DEF c1
<1>3. Ready(c1) /\ c1.now = c.now
  BY <1>2, ReadyFollows DEF Converts, Evolves
<1>4. getNumSats(c1.bd, c.now) \in Nat /\ (getNumSats(c1.bd, c.now) > 0 => Valid(c1, "SatInfo"))
  <2>1. Len(c1.bd["SatInfo"].data) \in Nat
    BY <1>3, SatListDomain DEF Ready, Typed
  <2> QED
    BY <1>3, <2>1 DEF getNumSats, Valid
<1>5. n \in Nat /\ (n > 0 => Valid(c1, "SatInfo"))
  BY <1>4
<1>6. DOMAIN all = 1 .. n
  OBVIOUS
<1> HIDE DEF n, all
<1>7. PICK A : Runs(A, "gsv", m, c1, all, n)
  BY <1>5, <1>6, TraceOf
<1> DEFINE K == {k \in 0 .. n : Converts(c1, A[k], m.src)}
<1>8. 0 \in K
  BY <1>5, <1>7, ConvertsSelf DEF Runs
<1>9. ASSUME NEW k \in 1 .. n, k - 1 \in K PROVE k \in K
  <2>1. Converts(c1, A[k - 1], m.src) /\ A[k] = SendMessage(A[k - 1], "GSV", {"SatInfo"})
    BY <1>7, <1>9 DEF Runs, Step
  <2>2. Readable(c1, {"SatInfo"})
    <3>1. n > 0
      BY <1>5
    <3> QED
      BY <1>5, <3>1, ReadableValid DEF Item, Fixed
  <2>3. Readable(A[k - 1], {"SatInfo"})
    BY <1>3, <2>1, <2>2, ReadableLater
  <2>4. Converts(c1, A[k], m.src)
    BY <2>1, <2>3, SendMessageOn
  <2> QED
    BY <2>4
<1>10. n \in K
  <2> HIDE DEF K
  <2> QED
    BY <1>5, <1>8, <1>9, Along
<1>11. Converts(c1, Fold("gsv", m, c1, all), m.src)
  BY <1>7, <1>10 DEF Runs
<1> QED
  BY <1>1, <1>2, <1>11, ConvertsOn, ConvertsSelf
-----------------------------------------------------------------------------
(* Wind, rudder, navigation. *)
LEMMA setMaxConverts ==
  ASSUME NEW c, NEW m, HasFields(m), NEW maxItem \in Kept, NEW item \in Fixed \ {"SatInfo"}
  PROVE  Converts(c, setMax(c, m, maxItem, item), m.src)
<1>1. m.src \in Int /\ item \in Item \ {"SatInfo"}
  BY DEF HasFields, Item
<1>2. Typed(c) => c.bd[item].data \in Int
  BY <1>1 DEF Typed
<1>3. Converts(c, [c EXCEPT !.bd = updateMax(c.bd, maxItem, c.bd[item].data, m.src, c.now)], m.src)
  BY <1>1, <1>2, updateMaxConverts
<1> QED
  BY <1>3, ConvertsSelf DEF setMax

LEMMA HandleWindConverts ==
  ASSUME NEW c, NEW m, HasFields(m) PROVE Converts(c, HandleWind(c, m), m.src)
<1> DEFINE Wind(angle, speed, max) ==
             setMax(Update(Update(c, m, angle, V(m, "WindAngle")), m, speed, V(m, "WindSpeed")), m, max, speed)
           awa == Wind("AWA", "AWS", "MaxAws")
           twa == Wind("TWA", "TWS", "MaxTws")
           twd == Wind("TWD", "TWS", "MaxTws")
           other == Computed(V(m, "WindAngle"), Stored(c, "HDT"))
           twa1 == IF Valid(twa, "HDT") THEN Update(twa, m, "TWD", other) ELSE twa
           twd1 == Update(twd, m, "TWA", other)
<1>1. \/ HandleWind(c, m) = SendMessage(SendMessage(awa, "MWV", {}), "VWR", {})
      \/ HandleWind(c, m) = SendMessage(twa1, "MWV", {})
      \/ HandleWind(c, m) = SendMessage(twd1, "MWV", {"HDT"}) /\ Valid(twd, "HDT")
      \/ HandleWind(c, m) = twd
      \/ HandleWind(c, m) = c
  BY Zenon DEF HandleWind
<1>2. other \in Int /\ V(m, "WindAngle") \in Int /\ V(m, "WindSpeed") \in Int
  BY ValueIsInt, ComputedIsInt
<1>3. CanBe("TWA", other) /\ CanBe("TWD", other)
  BY <1>2, NotSatInfo
<1>4. ASSUME NEW angle \in Fixed \ {"SatInfo"}, NEW speed \in Fixed \ {"SatInfo"}, NEW max \in Kept
      PROVE  Converts(c, Wind(angle, speed, max), m.src)
  <2>1. CanBe(angle, V(m, "WindAngle")) /\ CanBe(speed, V(m, "WindSpeed"))
    BY <1>2, NotSatInfo
  <2>2. Converts(c, Update(Update(c, m, angle, V(m, "WindAngle")), m, speed, V(m, "WindSpeed")), m.src)
    BY <2>1, UpdateOn, UpdateConverts
  <2> QED
    BY <2>2, setMaxConverts, ConvertsOn
<1>5. Converts(c, awa, m.src) /\ Converts(c, twa, m.src) /\ Converts(c, twd, m.src)
  <2> HIDE DEF Wind
  <2>1. /\ {"AWA", "AWS", "TWA", "TWS", "TWD"} \subseteq Fixed \ {"SatInfo"}
        /\ {"MaxAws", "MaxTws"} \subseteq Kept
    BY DEF Fixed, Kept
  <2> QED
    BY <1>4, <2>1
<1> HIDE DEF other, awa, twa, twd
<1>6. Converts(c, SendMessage(SendMessage(awa, "MWV", {}), "VWR", {}), m.src)
  BY <1>5, SendMessageOn, ReadableNone
<1>7. Converts(c, SendMessage(twa1, "MWV", {}), m.src)
  <2>1. Converts(c, twa1, m.src)
    BY <1>3, <1>5, UpdateOn
  <2> QED
    BY <2>1, SendMessageOn, ReadableNone
<1>8. Ready(c) /\ Valid(twd, "HDT") => Converts(c, SendMessage(twd1, "MWV", {"HDT"}), m.src)
  <2> SUFFICES ASSUME Ready(c), Valid(twd, "HDT") PROVE Converts(c, SendMessage(twd1, "MWV", {"HDT"}), m.src)
    OBVIOUS
  <2>1. Ready(twd)
    BY <1>5, ReadyFollows DEF Converts, Evolves
  <2>2. Readable(twd, {"HDT"})
    BY ReadableValid DEF Item, Fixed
  <2>3. Converts(twd, twd1, m.src)
    BY <1>3, UpdateConverts
  <2> HIDE DEF twd1
  <2>4. Readable(twd1, {"HDT"})
    BY <2>1, <2>2, <2>3, ReadableLater
  <2> QED
    BY <1>5, <2>3, <2>4, SendMessageOn, ConvertsOn
<1> HIDE DEF twa1, twd1
<1> QED
  BY <1>1, <1>5, <1>6, <1>7, <1>8, ConvertsSelf, ConvertsReady

LEMMA HandleRudderConverts ==
  ASSUME NEW c, NEW m, HasFields(m) PROVE Converts(c, HandleRudder(c, m), m.src)
<1> DEFINE d(item) == Update(c, m, item, V(m, "RudderPosition"))
           Rudder(item) == SendMessage(d(item), "RSA", Used(d(item), {"RPOS", "PRPOS"}))
<1>1. HandleRudder(c, m) = Rudder("RPOS") \/ HandleRudder(c, m) = Rudder("PRPOS") \/ HandleRudder(c, m) = c
  BY Zenon DEF HandleRudder
<1>2. {"RPOS", "PRPOS"} \subseteq Item
  BY DEF Item, Fixed
<1>3. CanBe("RPOS", V(m, "RudderPosition")) /\ CanBe("PRPOS", V(m, "RudderPosition"))
  BY ValueIsInt, NotSatInfo
<1>4. Converts(c, d("RPOS"), m.src) /\ Converts(c, d("PRPOS"), m.src)
  BY <1>3, UpdateConverts
<1> HIDE DEF d
<1>5. Converts(c, Rudder("RPOS"), m.src) /\ Converts(c, Rudder("PRPOS"), m.src)
  BY <1>2, <1>4, SendMessageOn, ReadableUsed
<1> QED
  BY <1>1, <1>5, ConvertsSelf

LEMMA HandleNavigationConverts ==
  ASSUME NEW c, NEW m, HasFields(m) PROVE Converts(c, HandleNavigation(c, m), m.src)
<1> SUFFICES ASSUME Ready(c) PROVE Converts(c, HandleNavigation(c, m), m.src)
  BY ConvertsReady
<1> DEFINE turned == m.ref = "magnetic"
           v == Computed(V(m, "BTW"), Stored(c, "VAR"))
           f == With(m.f, "BTW", v)
           m2 == [m EXCEPT !.f = f]
           m1 == IF turned THEN m2 ELSE m
           items == <<"DTW", "BTW", "WPLat", "WPLon">>
           c1 == UpdateWhile(c, m1, items)
           more == IF turned THEN {"VAR"} ELSE {}
<1>1. \/ HandleNavigation(c, m) = c
      \/ /\ turned => Valid(c, "VAR")
         /\ \/ HandleNavigation(c, m) = c1
            \/ HandleNavigation(c, m) = SendMessage(c1, "RMB", Used(c1, {"XTE"}) \cup more)
  BY DEF HandleNavigation
<1>2. v \in Int
  BY ValueIsInt, ComputedIsInt
<1>3. HasFields(m1) /\ m1.src = m.src
  <2>1. /\ DOMAIN f = DOMAIN m.f \cup {"BTW"} /\ f["BTW"] = v
        /\ \A x \in DOMAIN m.f \ {"BTW"} : f[x] = m.f[x]
    BY DEF With
  <2> HIDE DEF v, f
  <2>2. DOMAIN m2 = DOMAIN m /\ m2.f = f /\ m2.src = m.src
    BY DEF HasFields
  <2> HIDE DEF m2
  <2>3. HasFields(m2)
    BY <1>2, <2>1, <2>2 DEF HasFields
  <2> QED
    BY <2>2, <2>3
<1> HIDE DEF m1
<1>4. Converts(c, c1, m.src)
  BY <1>3, UpdateWhileConverts
<1>5. (turned => Valid(c, "VAR")) => Readable(c1, more)
  <2>1. (turned => Valid(c, "VAR")) => Readable(c, more)
    BY ReadableValid, ReadableNone DEF Item, Fixed
  <2> HIDE DEF c1, turned
  <2> QED
    BY <1>4, <2>1, ReadableLater
<1> HIDE DEF c1, turned, more
<1>6. Readable(c1, Used(c1, {"XTE"}))
  BY ReadableUsed DEF Item, Fixed
<1>7. (turned => Valid(c, "VAR")) => Converts(c, SendMessage(c1, "RMB", Used(c1, {"XTE"}) \cup more), m.src)
  BY <1>4, <1>5, <1>6, ReadableBoth, SendMessageOn
<1> QED
  BY <1>1, <1>4, <1>7, ConvertsSelf
-----------------------------------------------------------------------------
(* Messages of sensors. *)
LEMMA OneReading ==
  ASSUME NEW c, NEW d, NEW m, HasFields(m), Converts(c, d, m.src), NEW r1, r1[5] \in Int
  PROVE  Converts(c, toXdr(d, m, <<r1>>), m.src)
<1>1. 1 \in Nat /\ DOMAIN <<r1>> = 1 .. 1 /\ \A k \in 1 .. 1 : <<r1>>[k][5] \in Int
  OBVIOUS
<1> QED
  BY <1>1, toXdrOn

LEMMA TwoReadings ==
  ASSUME NEW c, NEW d, NEW m, HasFields(m), Converts(c, d, m.src),
         NEW r1, NEW r2, r1[5] \in Int, r2[5] \in Int
  PROVE  Converts(c, toXdr(d, m, <<r1, r2>>), m.src)
<1>1. 2 \in Nat /\ DOMAIN <<r1, r2>> = 1 .. 2 /\ \A k \in 1 .. 2 : <<r1, r2>>[k][5] \in Int
  OBVIOUS
<1> QED
  BY <1>1, toXdrOn

LEMMA ThreeReadings ==
  ASSUME NEW c, NEW d, NEW m, HasFields(m), Converts(c, d, m.src),
         NEW r1, NEW r2, NEW r3, r1[5] \in Int, r2[5] \in Int, r3[5] \in Int
  PROVE  Converts(c, toXdr(d, m, <<r1, r2, r3>>), m.src)
<1>1. 3 \in Nat /\ DOMAIN <<r1, r2, r3>> = 1 .. 3 /\ \A k \in 1 .. 3 : <<r1, r2, r3>>[k][5] \in Int
  OBVIOUS
<1> QED
  BY <1>1, toXdrOn

LEMMA HandleFluidLevelConverts ==
  ASSUME NEW c, NEW m, HasFields(m) PROVE Converts(c, HandleFluidLevel(c, m), m.src)
<1> DEFINE r1 == <<"fluid", m.sel, 0, m.inst, V(m, "Level")>>
           r2 == <<"fluid", m.sel, 1, m.inst, V(m, "Capacity")>>
<1>1. r1[5] \in Int /\ r2[5] \in Int
  BY ValueIsInt
<1>2. HandleFluidLevel(c, m) = toXdr(c, m, <<r1, r2>>)
  BY DEF HandleFluidLevel
<1> HIDE DEF r1, r2
<1> QED
  BY <1>1, <1>2, TwoReadings, ConvertsSelf

LEMMA HandleBatteryStatusConverts ==
  ASSUME NEW c, NEW m, HasFields(m) PROVE Converts(c, HandleBatteryStatus(c, m), m.src)
<1> DEFINE r1 == <<"bat", 0, 0, m.inst, V(m, "Voltage")>>
           r2 == <<"bat", 0, 1, m.inst, V(m, "Current")>>
           r3 == <<"bat", 0, 2, m.inst, V(m, "Temperature")>>
<1>1. r1[5] \in Int /\ r2[5] \in Int /\ r3[5] \in Int
  BY ValueIsInt
<1>2. HandleBatteryStatus(c, m) = toXdr(c, m, <<r1, r2, r3>>)
  BY DEF HandleBatteryStatus
<1> HIDE DEF r1, r2, r3
<1> QED
  BY <1>1, <1>2, ThreeReadings, ConvertsSelf

LEMMA MTWConverts ==
  ASSUME NEW c, NEW m, HasFields(m), NEW f PROVE Converts(c, MTW(c, m, f), m.src)
<1>1. CanBe("WTemp", V(m, f))
  BY ValueIsInt, NotSatInfo
<1>2. Converts(c, Update(c, m, "WTemp", V(m, f)), m.src)
  BY <1>1, UpdateConverts
<1> QED
  BY <1>2, SendMessageOn, ReadableNone DEF MTW

LEMMA Handle130310Converts ==
  ASSUME NEW c, NEW m, HasFields(m) PROVE Converts(c, Handle130310(c, m), m.src)
<1> DEFINE r1 == <<"temp", OutsideTemperature, 0, 0, V(m, "Outside")>>
           r2 == <<"pressure", Atmospheric, 0, 0, V(m, "Pressure")>>
<1>1. r1[5] \in Int /\ r2[5] \in Int
  BY ValueIsInt
<1>2. Handle130310(c, m) = toXdr(MTW(c, m, "WTemp"), m, <<r1, r2>>)
  BY DEF Handle130310
<1> HIDE DEF r1, r2
<1> QED
  BY <1>1, <1>2, TwoReadings, MTWConverts

LEMMA Handle130311Converts ==
  ASSUME NEW c, NEW m, HasFields(m) PROVE Converts(c, Handle130311(c, m), m.src)
<1> DEFINE r1 == <<"temp", m.sel, 0, 0, V(m, "Temperature")>>
           r2 == <<"humidity", m.sel2, 0, 0, V(m, "Humidity")>>
           r3 == <<"pressure", Atmospheric, 0, 0, V(m, "Pressure")>>
           d == IF m.sel = SeaTemperature THEN MTW(c, m, "Temperature") ELSE c
<1>1. r1[5] \in Int /\ r2[5] \in Int /\ r3[5] \in Int
  BY ValueIsInt
<1>2. Handle130311(c, m) = toXdr(d, m, <<r1, r2, r3>>)
  BY DEF Handle130311
<1>3. Converts(c, d, m.src)
  BY MTWConverts, ConvertsSelf
<1> HIDE DEF r1, r2, r3, d
<1> QED
  BY <1>1, <1>2, <1>3, ThreeReadings

LEMMA TemperaturesOn ==
  ASSUME NEW c, NEW d, NEW m, HasFields(m), Converts(c, d, m.src)
  PROVE  Converts(c, toXdr(d, m, Temperatures(m)), m.src)
<1> DEFINE r1 == <<"temp", m.sel, 0, m.inst, V(m, "Temperature")>>
           r2 == <<"temp", m.sel, 1, m.inst, V(m, "Set")>>
<1>1. r1[5] \in Int /\ r2[5] \in Int
  BY ValueIsInt
<1>2. Temperatures(m) = <<r1, r2>>
  BY DEF Temperatures
<1> HIDE DEF r1, r2
<1> QED
  BY <1>1, <1>2, TwoReadings

LEMMA Handle130312Converts ==
  ASSUME NEW c, NEW m, HasFields(m) PROVE Converts(c, Handle130312(c, m), m.src)
<1> DEFINE d == IF m.sel = SeaTemperature /\ config.winst312 \in {m.inst, 256} THEN MTW(c, m, "Temperature") ELSE c
<1>1. Converts(c, d, m.src)
  BY MTWConverts, ConvertsSelf
<1>2. Handle130312(c, m) = toXdr(d, m, Temperatures(m))
  BY DEF Handle130312
<1> QED
  BY <1>1, <1>2, TemperaturesOn

LEMMA Handle130316Converts ==
  ASSUME NEW c, NEW m, HasFields(m) PROVE Converts(c, Handle130316(c, m), m.src)
BY TemperaturesOn, ConvertsSelf DEF Handle130316

LEMMA Handle130313Converts ==
  ASSUME NEW c, NEW m, HasFields(m) PROVE Converts(c, Handle130313(c, m), m.src)
<1> DEFINE r1 == <<"humidity", m.sel, 0, m.inst, V(m, "Humidity")>>
           r2 == <<"humidity", m.sel, 1, m.inst, V(m, "Set")>>
<1>1. r1[5] \in Int /\ r2[5] \in Int
  BY ValueIsInt
<1>2. Handle130313(c, m) = toXdr(c, m, <<r1, r2>>)
  BY DEF Handle130313
<1> HIDE DEF r1, r2
<1> QED
  BY <1>1, <1>2, TwoReadings, ConvertsSelf

LEMMA Handle130314Converts ==
  ASSUME NEW c, NEW m, HasFields(m) PROVE Converts(c, Handle130314(c, m), m.src)
<1> DEFINE r1 == <<"pressure", m.sel, 0, m.inst, V(m, "Pressure")>>
<1>1. r1[5] \in Int
  BY ValueIsInt
<1>2. Handle130314(c, m) = toXdr(c, m, <<r1>>)
  BY DEF Handle130314
<1> HIDE DEF r1
<1> QED
  BY <1>1, <1>2, OneReading, ConvertsSelf

LEMMA NumberedOn ==
  ASSUME NEW c, NEW m, HasFields(m), m.values \in Seq(Int), NEW cat, NEW from \in Nat
  PROVE  Converts(c, toXdr(c, m, Numbered(m, cat, from)), m.src)
<1> DEFINE n == Len(m.values)
           readings == Numbered(m, cat, from)
<1>1. n \in Nat /\ DOMAIN m.values = 1 .. n /\ \A k \in 1 .. n : m.values[k] \in Int
  OBVIOUS
<1>2. DOMAIN readings = 1 .. n /\ \A k \in 1 .. n : readings[k][5] \in Int
  <2>1. readings = [k \in DOMAIN m.values |-> <<cat, 0, from + k - 1, m.inst, m.values[k]>>]
    BY DEF Numbered
  <2> HIDE DEF readings, n
  <2> QED
    BY <1>1, <2>1
<1> HIDE DEF readings, n
<1> QED
  BY <1>1, <1>2, toXdrConverts DEF readings

LEMMA Handle127489Converts ==
  ASSUME NEW c, NEW m, HasFields(m), m.values \in Seq(Int) PROVE Converts(c, Handle127489(c, m), m.src)
BY NumberedOn DEF Handle127489

LEMMA Handle127257Converts ==
  ASSUME NEW c, NEW m, HasFields(m), m.values \in Seq(Int) PROVE Converts(c, Handle127257(c, m), m.src)
BY NumberedOn DEF Handle127257

LEMMA Handle127488Converts ==
  ASSUME NEW c, NEW m, HasFields(m), m.values \in Seq(Int) PROVE Converts(c, Handle127488(c, m), m.src)
<1>1. Converts(c, toXdr(c, m, Numbered(m, "engine", 10)), m.src)
  BY NumberedOn
<1> QED
  BY <1>1, SendMessageOn, ReadableNone DEF Handle127488
-----------------------------------------------------------------------------
(* AIS messages. *)
LEMMA HandleAISClassAPosReportConverts ==
  ASSUME NEW c, NEW m PROVE Converts(c, HandleAISClassAPosReport(c, m), m.src)
BY SendVdmOn, ConvertsSelf DEF HandleAISClassAPosReport

LEMMA HandleAISClassBMessage18Converts ==
  ASSUME NEW c, NEW m PROVE Converts(c, HandleAISClassBMessage18(c, m), m.src)
BY SendVdmOn, ConvertsSelf DEF HandleAISClassBMessage18

LEMMA HandleAISClassAMessage5Converts ==
  ASSUME NEW c, NEW m PROVE Converts(c, HandleAISClassAMessage5(c, m), m.src)
BY SendVdmOn, ConvertsSelf DEF HandleAISClassAMessage5

(* What changes only the ships or the end of the search. *)
LEMMA ShipsEvolve ==
  ASSUME NEW c, NEW ships, NEW e \in BOOLEAN, NEW s
  PROVE  /\ Converts(c, [c EXCEPT !.n183.vships = ships], s)
         /\ Converts(c, [c EXCEPT !.n183.endless = e], s)
<1> DEFINE n1 == [c.n183 EXCEPT !.vships = ships]
           n2 == [c.n183 EXCEPT !.endless = e]
<1>1. IsContext(c) => DOMAIN n1 = DOMAIN c.n183 /\ DOMAIN n2 = DOMAIN c.n183
  OBVIOUS
<1>2. ASSUME IsContext(c)
      PROVE  /\ n1.endless = c.n183.endless /\ n1.xdrOpened = c.n183.xdrOpened /\ n1.xdrMessage = c.n183.xdrMessage
             /\ n2.endless = e /\ n2.xdrOpened = c.n183.xdrOpened /\ n2.xdrMessage = c.n183.xdrMessage
             /\ n1.lastSendTransducers = c.n183.lastSendTransducers
             /\ n2.lastSendTransducers = c.n183.lastSendTransducers
  BY <1>2 DEF IsContext
<1> HIDE DEF n1, n2
<1>3. Converts(c, [c EXCEPT !.n183 = n1], s) /\ Converts(c, [c EXCEPT !.n183 = n2], s)
  BY <1>1, <1>2, N183Converts DEF Typed
<1> QED
  BY <1>3 DEF n1, n2

LEMMA HandleAISClassBMessage24AConverts ==
  ASSUME NEW c, NEW m PROVE Converts(c, HandleAISClassBMessage24A(c, m), m.src)
BY ShipsEvolve DEF HandleAISClassBMessage24A

LEMMA HandleAISClassBMessage24BConverts ==
  ASSUME NEW c, NEW m PROVE Converts(c, HandleAISClassBMessage24B(c, m), m.src)
<1> DEFINE bits == SetAISClassBMessage24(parsedPartB(m), nameOf(c.n183.vships, m.id, c.memory))
           c1 == [c EXCEPT !.n183.vships = IF tooMany(c.n183.vships) THEN Tail(c.n183.vships) ELSE c.n183.vships]
           d == SendVdm(SendVdm(c1, "VDM24A", BuildMsg24PartA(bits)), "VDM24B", BuildMsg24PartB(bits))
<1>1. HandleAISClassBMessage24B(c, m) = [c EXCEPT !.n183.endless = TRUE] \/ HandleAISClassBMessage24B(c, m) = d
  BY Zenon DEF HandleAISClassBMessage24B
<1>2. Converts(c, c1, m.src)
  BY ShipsEvolve
<1> HIDE DEF c1, bits
<1>3. Converts(c, d, m.src)
  BY <1>2, SendVdmOn
<1>4. /\ Converts(c, [c EXCEPT !.n183.vships = c.n183.vships], m.src)
      /\ Converts(c, [c EXCEPT !.n183.endless = TRUE], m.src)
  BY ShipsEvolve, TRUE \in BOOLEAN
<1> QED
  BY <1>1, <1>3, <1>4
-----------------------------------------------------------------------------
(* All N2K messages, and the own RMC, which is not plain. *)
LEMMA n2kConverterConverts ==
  ASSUME NEW c, NEW m, IsMessage(m), m.key \in n2kKeys
  PROVE  Converts(c, n2kConverter(c, m), m.src)
<1>1. HasFields(m)
  BY DEF IsMessage
<1>2. m.key \in {"127489", "127488", "127257"} => m.values \in Seq(Int)
  BY DEF IsMessage
<1>3. m.key = "129540" => m.sats \in Seq(Int)
  BY DEF IsMessage
<1>a. CASE m.key \in {"127250", "127258", "128259", "128267", "129025", "129026", "129029"}
  BY <1>1, <1>a, HandleHeadingConverts, HandleVariationConverts, HandleBoatSpeedConverts, HandleDepthConverts,
     HandlePositionConverts, HandleCOGSOGConverts, HandleGNSSConverts DEF n2kConverter
<1>b. CASE m.key \in {"130306", "128275", "127245", "126992", "129033", "129539", "129540"}
  BY <1>1, <1>3, <1>b, HandleWindConverts, HandleLogConverts, HandleRudderConverts, HandleSystemTimeConverts,
     HandleTimeOffsetConverts, HandleDopConverts, HandleSatsConverts DEF n2kConverter
<1>c. CASE m.key \in {"127251", "127505", "127508", "129283", "129284", "130310", "130311"}
  BY <1>1, <1>c, HandleROTConverts, HandleFluidLevelConverts, HandleBatteryStatusConverts, HandleXTEConverts,
     HandleNavigationConverts, Handle130310Converts, Handle130311Converts DEF n2kConverter
<1>d. CASE m.key \in {"130312", "130313", "130314", "127489", "127488", "130316", "127257"}
  BY <1>1, <1>2, <1>d, Handle130312Converts, Handle130313Converts, Handle130314Converts, Handle127489Converts,
     Handle127488Converts, Handle130316Converts, Handle127257Converts DEF n2kConverter
<1>e. CASE m.key \in {"129038", "129039", "129794", "129809", "129810"}
  BY <1>e, HandleAISClassAPosReportConverts, HandleAISClassBMessage18Converts, HandleAISClassAMessage5Converts,
     HandleAISClassBMessage24AConverts, HandleAISClassBMessage24BConverts DEF n2kConverter
<1> QED
  BY <1>a, <1>b, <1>c, <1>d, <1>e DEF n2kKeys

LEMMA HandleN2kConverts ==
  ASSUME NEW c, NEW m, IsMessage(m) PROVE Converts(c, HandleN2k(c, m), m.src)
<1> DEFINE n == [c.n183 EXCEPT !.sourceId = m.src]
           c1 == [c EXCEPT !.n183 = n]
<1>1. HandleN2k(c, m) = IF m.key \in n2kKeys THEN n2kConverter(c1, m) ELSE c1
  BY DEF HandleN2k, handleMessage
<1>2. IsContext(c) => /\ DOMAIN n = DOMAIN c.n183 /\ n.endless = c.n183.endless
                      /\ n.xdrOpened = c.n183.xdrOpened /\ n.xdrMessage = c.n183.xdrMessage
                      /\ n.lastSendTransducers = c.n183.lastSendTransducers
  BY DEF IsContext
<1> HIDE DEF n
<1>3. Converts(c, c1, m.src)
  BY <1>2, N183Converts DEF Typed
<1> HIDE DEF c1
<1> QED
  BY <1>1, <1>3, n2kConverterConverts, ConvertsOn

LEMMA SendRMCFollows ==
  ASSUME NEW c, NEW s, Ready(c)
  PROVE  Follows(c, SendRMC(c), s) /\ SendRMC(c).n2k = c.n2k
<1> DEFINE n == [c.n183 EXCEPT !.lastRmcSent = c.now]
           d == [c EXCEPT !.n183 = n]
           reads == {"LAT", "LON"} \cup Used(d, {"GPST", "COG", "SOG", "GPSD", "VAR"})
<1>0. IsContext(c)
  BY DEF Ready
<1>1. \/ SendRMC(c) = c
      \/ Valid(c, "LAT") /\ Valid(c, "LON") /\ SendRMC(c) = SendMessage(d, "RMC", reads)
  <2>1. Used(d, {"GPST", "COG", "SOG", "GPSD", "VAR"}) = Used(c, {"GPST", "COG", "SOG", "GPSD", "VAR"})
    BY <1>0 DEF Used, Valid, IsContext
  <2>2. \/ SendRMC(c) = c
        \/ /\ Valid(c, "LAT") /\ Valid(c, "LON")
           /\ SendRMC(c) = SendMessage(d, "RMC", {"LAT", "LON"} \cup Used(c, {"GPST", "COG", "SOG", "GPSD", "VAR"}))
    BY Zenon DEF SendRMC
  <2> HIDE DEF d
  <2> QED
    BY <2>1, <2>2
<1>2. /\ DOMAIN n = DOMAIN c.n183 /\ n.endless = c.n183.endless /\ n.xdrOpened = c.n183.xdrOpened
      /\ n.xdrMessage = c.n183.xdrMessage /\ n.lastSendTransducers = c.n183.lastSendTransducers
  BY <1>0 DEF IsContext
<1>3. d.bd = c.bd /\ d.now = c.now
  BY <1>0 DEF IsContext
<1> HIDE DEF n
<1>4. Converts(c, d, s)
  BY <1>2, N183Converts DEF Typed
<1> HIDE DEF d
<1>5. Ready(d)
  BY <1>4, ReadyFollows DEF Converts, Evolves
<1>6. Valid(c, "LAT") /\ Valid(c, "LON") => Readable(d, reads)
  <2>1. Valid(c, "LAT") /\ Valid(c, "LON") => Readable(d, {"LAT", "LON"})
    <3>1. {"LAT", "LON"} \subseteq Item
      BY DEF Item, Fixed
    <3>2. Valid(c, "LAT") /\ Valid(c, "LON") => Valid(d, "LAT") /\ Valid(d, "LON")
      BY <1>3 DEF Valid
    <3> QED
      BY <3>1, <3>2, ReadableValid
  <2>2. Readable(d, Used(d, {"GPST", "COG", "SOG", "GPSD", "VAR"}))
    <3>1. {"GPST", "COG", "SOG", "GPSD", "VAR"} \subseteq Item
      BY DEF Item, Fixed
    <3> QED
      BY <3>1, ReadableUsed
  <2> QED
    BY <2>1, <2>2, ReadableBoth
<1> HIDE DEF reads
<1>7. ASSUME Valid(c, "LAT"), Valid(c, "LON")
      PROVE  Follows(c, SendMessage(d, "RMC", reads), s) /\ SendMessage(d, "RMC", reads).n2k = c.n2k
  <2>1. Follows(d, SendMessage(d, "RMC", reads), s)
    BY <1>6, <1>7, EmitFollows, NoMoreIsNone DEF SendMessage
  <2>2. SendMessage(d, "RMC", reads).n2k = d.n2k
    BY <1>5, EmitAdds DEF SendMessage, Adds, Ready
  <2>3. d.n2k = c.n2k
    BY <1>4 DEF Converts, Evolves
  <2> QED
    BY <1>4, <2>1, <2>2, <2>3, FollowsOn DEF Converts, Evolves
<1>8. Follows(c, c, s)
  BY FollowsSelf
<1> QED
  BY <1>1, <1>7, <1>8
-----------------------------------------------------------------------------
(* The handlers of NMEA0183 lines: groups of fields. *)
LEMMA UpdateWhileOn ==
  ASSUME NEW c, NEW d, NEW m, HasFields(m), Evolves(c, d, m.src), NEW is
  PROVE  Evolves(c, UpdateWhile(d, m, is), m.src)
BY UpdateWhileEvolves, EvolvesOn

LEMMA SendGroupOn ==
  ASSUME NEW c, NEW d, NEW m, HasFields(m), Evolves(c, d, m.src), NEW is, NEW pgn, pgn # "RMC",
         NEW reads, reads \subseteq Item
  PROVE  Evolves(c, SendGroup(d, m, is, pgn, reads), m.src)
<1> DEFINE c1 == UpdateWhile(d, m, is)
<1>1. SendGroup(d, m, is, pgn, reads) = IF TakesAll(d, m, is) THEN Send(c1, m, pgn, Used2k(c1, reads)) ELSE c1
  BY DEF SendGroup
<1>2. Evolves(c, c1, m.src)
  BY UpdateWhileOn
<1> HIDE DEF c1
<1>3. Evolves(c, Send(c1, m, pgn, Used2k(c1, reads)), m.src)
  BY <1>2, ReadableUsed, SendOn
<1> QED
  BY <1>1, <1>2, <1>3

LEMMA SendGroupEvolves ==
  ASSUME NEW c, NEW m, HasFields(m), NEW is, NEW pgn, pgn # "RMC"
  PROVE  Evolves(c, SendGroup(c, m, is, pgn, {}), m.src)
BY SendGroupOn, EvolvesSelf

LEMMA convertVTGEvolves ==
  ASSUME NEW c, NEW m, HasFields(m) PROVE Evolves(c, convertVTG(c, m), m.src)
BY SendGroupEvolves DEF convertVTG

LEMMA convertGLLEvolves ==
  ASSUME NEW c, NEW m, HasFields(m) PROVE Evolves(c, convertGLL(c, m), m.src)
BY SendGroupEvolves, EvolvesSelf DEF convertGLL

LEMMA convertROTEvolves ==
  ASSUME NEW c, NEW m, HasFields(m) PROVE Evolves(c, convertROT(c, m), m.src)
BY SendGroupEvolves DEF convertROT

LEMMA convertXTEEvolves ==
  ASSUME NEW c, NEW m, HasFields(m) PROVE Evolves(c, convertXTE(c, m), m.src)
BY SendGroupEvolves, EvolvesSelf DEF convertXTE

LEMMA convertHDTEvolves ==
  ASSUME NEW c, NEW m, HasFields(m) PROVE Evolves(c, convertHDT(c, m), m.src)
BY SendGroupEvolves DEF convertHDT

LEMMA convertGSAEvolves ==
  ASSUME NEW c, NEW m, HasFields(m) PROVE Evolves(c, convertGSA(c, m), m.src)
<1> DEFINE items == SelectSeq(<<"PDOP", "HDOP", "VDOP">>, LAMBDA i : V(m, i) # NA)
<1>1. convertGSA(c, m) = IF m.fix THEN SendGroup(c, m, items, "129539", {}) ELSE c
  BY DEF convertGSA
<1> HIDE DEF items
<1> QED
  BY <1>1, SendGroupEvolves, EvolvesSelf

LEMMA convertMTWEvolves ==
  ASSUME NEW c, NEW m, HasFields(m) PROVE Evolves(c, convertMTW(c, m), m.src)
BY UpdateEachEvolves, SendOn, ReadableNone, EvolvesSelf DEF convertMTW

LEMMA convertZDAEvolves ==
  ASSUME NEW c, NEW m, HasFields(m) PROVE Evolves(c, convertZDA(c, m), m.src)
<1> DEFINE items == IF V(m, "TZ") = NA THEN <<"GPSD", "GPST">> ELSE <<"GPSD", "GPST", "TZ">>
           c1 == UpdateWhile(c, m, items)
           c2 == IF V(m, "TZ") = NA THEN c1 ELSE Send(c1, m, "129033", {})
<1>1. convertZDA(c, m) = c1 \/ convertZDA(c, m) = Send(c2, m, "126992", {})
  BY Zenon DEF convertZDA
<1>2. Evolves(c, c1, m.src)
  BY UpdateWhileEvolves
<1> HIDE DEF c1
<1>3. Evolves(c, c2, m.src)
  BY <1>2, SendOn, ReadableNone
<1> HIDE DEF c2
<1> QED
  BY <1>1, <1>2, <1>3, SendOn, ReadableNone

LEMMA convertGGAEvolves ==
  ASSUME NEW c, NEW m, HasFields(m) PROVE Evolves(c, convertGGA(c, m), m.src)
<1> DEFINE items == <<"GPST", "LAT", "LON", "ALT", "HDOP">>
           c1 == UpdateWhile(c, m, items)
           reads == {"GPSD"} \cup Used2k(c1, {"PDOP"})
<1>1. \/ convertGGA(c, m) = c \/ convertGGA(c, m) = c1
      \/ convertGGA(c, m) = Send(c1, m, "129029", reads) /\ Valid(c1, "GPSD")
  BY Zenon DEF convertGGA
<1>2. Evolves(c, c1, m.src)
  BY UpdateWhileEvolves
<1> HIDE DEF c1
<1>3. Valid(c1, "GPSD") => Readable(c1, reads)
  <2>1. {"GPSD"} \subseteq Item /\ {"PDOP"} \subseteq Item
    BY DEF Item, Fixed
  <2>2. Valid(c1, "GPSD") => Readable(c1, {"GPSD"})
    BY <2>1, ReadableValid
  <2> QED
    BY <2>1, <2>2, ReadableUsed, ReadableBoth
<1> HIDE DEF reads
<1> QED
  BY <1>1, <1>2, <1>3, SendOn, EvolvesSelf

LEMMA convertGSVEvolves ==
  ASSUME NEW c, NEW m, HasFields(m), m.sats \in Seq(Int) PROVE Evolves(c, convertGSV(c, m), m.src)
<1> SUFFICES ASSUME Ready(c) PROVE Evolves(c, convertGSV(c, m), m.src)
  BY EvolvesReady
<1> DEFINE c1 == [c EXCEPT !.bd = satUpdates(c.bd, m.sats, m.src, c.now)]
<1>1. \/ convertGSV(c, m) = c \/ convertGSV(c, m) = c1
      \/ convertGSV(c, m) = Send(c1, m, "129540", {"SatInfo"}) /\ getNumSats(c1.bd, c.now) > 0
  BY Zenon DEF convertGSV
<1>2. Evolves(c, c1, m.src)
  <2>1. Len(m.sats) \in Nat /\ DOMAIN m.sats = 1 .. Len(m.sats) /\ m.src \in Int
    BY DEF HasFields
  <2> QED
    BY <2>1, satUpdatesEvolves
<1> HIDE DEF c1
<1>3. c1.now = c.now
  BY <1>2, ReadyFollows DEF Evolves
<1>4. getNumSats(c1.bd, c.now) > 0 => Readable(c1, {"SatInfo"})
  <2>1. getNumSats(c1.bd, c.now) > 0 => Valid(c1, "SatInfo")
    BY <1>3 DEF getNumSats, Valid
  <2> QED
    BY <2>1, ReadableValid DEF Item, Fixed
<1> QED
  BY <1>1, <1>2, <1>4, SendOn, EvolvesSelf
-----------------------------------------------------------------------------
(* Wind, heading, rudder. *)
LEMMA storeWindEvolves ==
  ASSUME NEW c, NEW m, HasFields(m), NEW angle, NEW speed, NEW max \in Kept
  PROVE  Evolves(c, storeWind(c, m, angle, speed, max), m.src)
<1> DEFINE c1 == UpdateWhile(c, m, <<angle, speed>>)
<1>1. storeWind(c, m, angle, speed, max) =
        IF V(m, speed) = NA THEN c1
        ELSE [c1 EXCEPT !.bd = updateMax(c1.bd, max, V(m, speed), m.src, c.now)]
  BY DEF storeWind
<1>2. Evolves(c, c1, m.src)
  BY UpdateWhileEvolves
<1>3. c1.now = c.now \/ ~Ready(c)
  BY <1>2, ReadyFollows DEF Evolves
<1> HIDE DEF c1
<1>4. m.src \in Int /\ V(m, speed) \in Int
  BY ValueIsInt DEF HasFields
<1>5. Evolves(c, [c1 EXCEPT !.bd = updateMax(c1.bd, max, V(m, speed), m.src, c1.now)], m.src)
  BY <1>2, <1>4, updateMaxEvolves, EvolvesOn
<1> QED
  BY <1>1, <1>2, <1>3, <1>5, EvolvesReady

LEMMA sendWindOn ==
  ASSUME NEW c, NEW d, NEW m, Evolves(c, d, m.src), NEW type, NEW reads, Readable(d, reads)
  PROVE  Evolves(c, sendWind(d, m, type, reads), m.src)
<1>1. sendWind(d, m, type, reads) = d
      \/ sendWind(d, m, type, reads) = SendAs(d, m, "130306", "130306" \o windReferenceOf(type), reads)
  BY Zenon DEF sendWind
<1>2. PICK key : key = "130306" \o windReferenceOf(type)
  OBVIOUS
<1>3. Evolves(c, SendAs(d, m, "130306", key, reads), m.src)
  BY SendAsOn
<1> QED
  BY <1>1, <1>2, <1>3

LEMMA MaximaAreKept == "MaxAws" \in Kept /\ "MaxTws" \in Kept
BY DEF Kept

LEMMA convertVWREvolves ==
  ASSUME NEW c, NEW m, HasFields(m) PROVE Evolves(c, convertVWR(c, m), m.src)
<1> DEFINE c1 == storeWind(c, m, "AWA", "AWS", "MaxAws")
<1>1. convertVWR(c, m) = c \/ convertVWR(c, m) = c1 \/ convertVWR(c, m) = sendWind(c1, m, "awa_aws", {})
  BY Zenon DEF convertVWR
<1>2. Evolves(c, c1, m.src)
  BY storeWindEvolves, MaximaAreKept
<1> HIDE DEF c1
<1> QED
  BY <1>1, <1>2, sendWindOn, ReadableNone, EvolvesSelf

LEMMA convertMWVEvolves ==
  ASSUME NEW c, NEW m, HasFields(m) PROVE Evolves(c, convertMWV(c, m), m.src)
<1> DEFINE a == storeWind(c, m, "AWA", "AWS", "MaxAws")
           t == storeWind(c, m, "TWA", "TWS", "MaxTws")
<1>1. \/ convertMWV(c, m) = c \/ convertMWV(c, m) = a \/ convertMWV(c, m) = t
      \/ convertMWV(c, m) = sendWind(a, m, "awa_aws", {}) \/ convertMWV(c, m) = sendWind(t, m, "twa_tws", {})
  BY Zenon DEF convertMWV
<1>2. Evolves(c, a, m.src) /\ Evolves(c, t, m.src)
  BY storeWindEvolves, MaximaAreKept
<1> HIDE DEF a, t
<1> QED
  BY <1>1, <1>2, sendWindOn, ReadableNone, EvolvesSelf

LEMMA convertMWDEvolves ==
  ASSUME NEW c, NEW m, HasFields(m) PROVE Evolves(c, convertMWD(c, m), m.src)
<1> SUFFICES ASSUME Ready(c) PROVE Evolves(c, convertMWD(c, m), m.src)
  BY EvolvesReady
<1> DEFINE c1 == storeWind(c, m, "TWD", "TWS", "MaxTws")
           d == Update(c1, m, "TWA", V(m, "TWD"))
           c2 == sendWind(d, m, "twa_tws", {"HDT"})
<1>1. \/ convertMWD(c, m) = c \/ convertMWD(c, m) = c1
      \/ convertMWD(c, m) = sendWind(c2, m, "twd_tws", {}) /\ Valid(c1, "HDT")
  BY Zenon DEF convertMWD
<1>2. Evolves(c, c1, m.src)
  BY storeWindEvolves, MaximaAreKept
<1> HIDE DEF c1
<1>3. CanBe("TWA", V(m, "TWD"))
  BY ValueIsInt, NotSatInfo
<1>4. Evolves(c1, d, m.src)
  BY <1>3, UpdateEvolves
<1> HIDE DEF d
<1>5. Valid(c1, "HDT") => Readable(d, {"HDT"})
  <2>1. Ready(c1)
    BY <1>2, ReadyFollows DEF Evolves
  <2>2. Valid(c1, "HDT") => Readable(c1, {"HDT"})
    BY ReadableValid DEF Item, Fixed
  <2> QED
    BY <1>4, <2>1, <2>2, ReadableLater
<1>6. Valid(c1, "HDT") => Evolves(c, c2, m.src)
  BY <1>2, <1>4, <1>5, sendWindOn, EvolvesOn
<1> HIDE DEF c2
<1>7. Valid(c1, "HDT") => Evolves(c, sendWind(c2, m, "twd_tws", {}), m.src)
  BY <1>6, sendWindOn, ReadableNone
<1> QED
  BY <1>1, <1>2, <1>7, EvolvesSelf

LEMMA convertHDMEvolves ==
  ASSUME NEW c, NEW m, HasFields(m) PROVE Evolves(c, convertHDM(c, m), m.src)
<1> DEFINE c1 == UpdateEach(c, m, {"HDM"})
<1>1. \/ convertHDM(c, m) = c
      \/ convertHDM(c, m) = SendAs(c1, m, "127250", "127250M", Used2k(c1, {"VAR", "DEV"}))
  BY Zenon DEF convertHDM
<1>2. Evolves(c, c1, m.src)
  BY UpdateEachEvolves
<1> HIDE DEF c1
<1>3. Readable(c1, Used2k(c1, {"VAR", "DEV"}))
  <2>1. {"VAR", "DEV"} \subseteq Item
    BY DEF Item, Fixed
  <2> QED
    BY <2>1, ReadableUsed
<1> QED
  BY <1>1, <1>2, <1>3, SendAsOn, EvolvesSelf

LEMMA convertHDGEvolves ==
  ASSUME NEW c, NEW m, HasFields(m) PROVE Evolves(c, convertHDG(c, m), m.src)
BY UpdateEachEvolves, SendAsOn, ReadableNone, EvolvesSelf DEF convertHDG

LEMMA convertVHWEvolves ==
  ASSUME NEW c, NEW m, HasFields(m) PROVE Evolves(c, convertVHW(c, m), m.src)
<1>1. PICK d : d = SendGroup(c, m, <<"HDT">>, "127250", {})
  OBVIOUS
<1>2. Evolves(c, d, m.src)
  BY <1>1, SendGroupEvolves
<1>3. Evolves(c, convertHDM(d, m), m.src)
  BY <1>2, convertHDMEvolves, EvolvesOn
<1>4. Evolves(c, SendGroup(convertHDM(d, m), m, <<"STW">>, "128259", {}), m.src)
  BY <1>3, SendGroupOn
<1> QED
  BY <1>1, <1>4 DEF convertVHW

LEMMA convertRSAEvolves ==
  ASSUME NEW c, NEW m, HasFields(m) PROVE Evolves(c, convertRSA(c, m), m.src)
<1> DEFINE Rudder(d, item, instance, key) ==
             IF Takes(d, m, item) /\ instance \in 0 .. 253
             THEN SendAs(UpdateEach(d, m, {item}), m, "127245", key, {}) ELSE UpdateEach(d, m, {item})
<1>1. convertRSA(c, m) = Rudder(Rudder(c, "RPOS", config.starboardRudderInstance, "127245S"),
                                "PRPOS", config.portRudderInstance, "127245P")
  BY DEF convertRSA
<1>2. ASSUME NEW d, NEW item, NEW instance, NEW key, Evolves(c, d, m.src)
      PROVE  Evolves(c, Rudder(d, item, instance, key), m.src)
  <2>1. Evolves(c, UpdateEach(d, m, {item}), m.src)
    BY <1>2, UpdateEachEvolves, EvolvesOn
  <2> QED
    BY <2>1, SendAsOn, ReadableNone
<1> HIDE DEF Rudder
<1> QED
  BY <1>1, <1>2, EvolvesSelf
-----------------------------------------------------------------------------
(* Depth. *)
LEMMA convertDPTEvolves ==
  ASSUME NEW c, NEW m, HasFields(m) PROVE Evolves(c, convertDPT(c, m), m.src)
<1> DEFINE v == V(m, "DBT") + V(m, "Offset")
           surface == IF V(m, "Offset") >= 0 THEN Update(c, m, "DBS", v) ELSE c
           key == IF V(m, "Offset") # NA THEN "1282671" ELSE "1282670"
<1>1. \/ convertDPT(c, m) = c \/ convertDPT(c, m) = surface
      \/ convertDPT(c, m) = SendAs(UpdateEach(surface, m, {"DBT"}), m, "128267", key, {})
  BY Zenon DEF convertDPT
<1>2. CanBe("DBS", v)
  <2>1. v \in Int
    BY ValueIsInt
  <2> QED
    BY <2>1, NotSatInfo
<1> HIDE DEF v, key
<1>3. Evolves(c, surface, m.src)
  BY <1>2, UpdateEvolves, EvolvesSelf
<1> HIDE DEF surface
<1>4. Evolves(c, UpdateEach(surface, m, {"DBT"}), m.src)
  BY <1>3, UpdateEachEvolves, EvolvesOn
<1> QED
  BY <1>1, <1>3, <1>4, SendAsOn, ReadableNone, EvolvesSelf

LEMMA MetresAreInt == ASSUME NEW v \in Int, NEW u PROVE toMetres(v, u) \in Int
<1>1. v \div 3 \in Int /\ 2 * v \in Int
  OBVIOUS
<1> QED
  BY <1>1 DEF toMetres

LEMMA convertDBTEvolves ==
  ASSUME NEW c, NEW m, HasFields(m), m.depth \in Int PROVE Evolves(c, convertDBT(c, m), m.src)
<1> DEFINE known == {k \in DOMAIN m.units : isKnownUnit(m.units[k])}
           u == m.units[CHOOSE k \in known : \A j \in known : k <= j]
           d == Update(c, m, "DBT", toMetres(m.depth, u))
<1>1. convertDBT(c, m) = c \/ convertDBT(c, m) = SendAs(d, m, "128267", "1282670", {})
  BY Zenon DEF convertDBT
<1>2. Evolves(c, d, m.src)
  <2>1. CanBe("DBT", toMetres(m.depth, u))
    BY MetresAreInt, NotSatInfo
  <2> HIDE DEF u
  <2> QED
    BY <2>1, UpdateEvolves
<1> HIDE DEF d
<1> QED
  BY <1>1, <1>2, SendAsOn, ReadableNone, EvolvesSelf

LEMMA DBKxIsFold ==
  ASSUME NEW c, NEW m, NEW dt
  PROVE  DBKx(c, m, dt) = Fold("unit", [m |-> m, dt |-> dt], [c |-> c, stop |-> FALSE], m.units).c
<1> DEFINE p == [m |-> m, dt |-> dt]
           a == [c |-> c, stop |-> FALSE]
           seq == m.units
           P(g) == g = [z \in SUBSET (DOMAIN seq) |->
                          IF z = {} THEN a ELSE useUnit(g[z \ {Max(z)}], m, dt, seq[Max(z)])]
<1>1. ASSUME NEW g PROVE P(g) <=> Iterates(g, "unit", p, a, seq)
  BY DEF Iterates, Step
<1>2. DBKx(c, m, dt) = (CHOOSE g : P(g))[DOMAIN seq].c
  BY DEF DBKx, FoldLeft, MapThenFoldSet
<1> HIDE DEF P, p, a, seq
<1>3. (CHOOSE g : P(g)) = (CHOOSE g : Iterates(g, "unit", p, a, seq))
  BY <1>1
<1>4. DBKx(c, m, dt) = Fold("unit", p, a, seq).c
  BY <1>2, <1>3 DEF Fold
<1> QED
  BY <1>4 DEF p, a, seq

LEMMA useUnitEvolves ==
  ASSUME NEW a, DOMAIN a = {"c", "stop"}, Ready(a.c), NEW m, HasFields(m), m.depth \in Int, NEW dt, NEW u
  PROVE  DOMAIN useUnit(a, m, dt, u) = {"c", "stop"} /\ Evolves(a.c, useUnit(a, m, dt, u).c, m.src)
<1> DEFINE depth == toMetres(m.depth, u)
           offset == depth - a.c.bd["DBT"].data
           key == IF offset >= 0 THEN "1282671" ELSE "1282670"
           stored == IF dt = "DBS" THEN Update(a.c, m, "DBS", depth) ELSE a.c
           b == [a EXCEPT !.c = SendAs(stored, m, "128267", key, {"DBT"})]
<1>1. \/ useUnit(a, m, dt, u) = a
      \/ useUnit(a, m, dt, u) = [a EXCEPT !.stop = TRUE]
      \/ useUnit(a, m, dt, u) = b /\ Valid(a.c, "DBT")
  BY Zenon DEF useUnit
<1>2. CanBe("DBS", depth)
  BY MetresAreInt, NotSatInfo
<1> HIDE DEF depth, offset
<1>3. Evolves(a.c, stored, m.src)
  BY <1>2, UpdateEvolves, EvolvesSelf
<1> HIDE DEF key, stored
<1>4. CASE Valid(a.c, "DBT")
  <2>1. Readable(a.c, {"DBT"})
    BY <1>4, ReadableValid DEF Item, Fixed
  <2>2. Readable(stored, {"DBT"})
    BY <1>3, <2>1, ReadableLater
  <2>3. Evolves(a.c, SendAs(stored, m, "128267", key, {"DBT"}), m.src)
    BY <1>3, <2>2, SendAsOn
  <2>4. DOMAIN b = {"c", "stop"} /\ b.c = SendAs(stored, m, "128267", key, {"DBT"})
    OBVIOUS
  <2>5. DOMAIN [a EXCEPT !.stop = TRUE] = {"c", "stop"} /\ [a EXCEPT !.stop = TRUE].c = a.c
    OBVIOUS
  <2> HIDE DEF b
  <2> QED
    BY <1>1, <2>3, <2>4, <2>5, EvolvesSelf
<1>5. CASE ~Valid(a.c, "DBT")
  <2>1. DOMAIN [a EXCEPT !.stop = TRUE] = {"c", "stop"} /\ [a EXCEPT !.stop = TRUE].c = a.c
    OBVIOUS
  <2> HIDE DEF b
  <2> QED
    BY <1>1, <1>5, <2>1, EvolvesSelf
<1> QED
  BY <1>4, <1>5

LEMMA DBKxEvolves ==
  ASSUME NEW c, NEW m, HasFields(m), m.depth \in Int, m.units \in Seq(STRING), NEW dt
  PROVE  Evolves(c, DBKx(c, m, dt), m.src)
<1> SUFFICES ASSUME Ready(c) PROVE Evolves(c, DBKx(c, m, dt), m.src)
  BY EvolvesReady
<1> DEFINE n == Len(m.units)
           p == [m |-> m, dt |-> dt]
           a == [c |-> c, stop |-> FALSE]
<1>1. n \in Nat /\ DOMAIN m.units = 1 .. n
  OBVIOUS
<1>2. p.m = m /\ p.dt = dt /\ DOMAIN a = {"c", "stop"} /\ a.c = c
  OBVIOUS
<1>3. DBKx(c, m, dt) = Fold("unit", p, a, m.units).c
  BY DBKxIsFold
<1> HIDE DEF n, p, a
<1>4. PICK A : Runs(A, "unit", p, a, m.units, n)
  BY <1>1, TraceOf
<1> DEFINE K == {k \in 0 .. n : DOMAIN A[k] = {"c", "stop"} /\ Evolves(c, A[k].c, m.src)}
<1>5. 0 \in K
  BY <1>1, <1>2, <1>4, EvolvesSelf DEF Runs
<1>6. ASSUME NEW k \in 1 .. n, k - 1 \in K PROVE k \in K
  <2>1. DOMAIN A[k - 1] = {"c", "stop"} /\ Evolves(c, A[k - 1].c, m.src)
    BY <1>6
  <2>2. A[k] = useUnit(A[k - 1], m, dt, m.units[k])
    BY <1>2, <1>4 DEF Runs, Step
  <2>3. Ready(A[k - 1].c)
    BY <2>1, ReadyFollows DEF Evolves
  <2>4. DOMAIN A[k] = {"c", "stop"} /\ Evolves(A[k - 1].c, A[k].c, m.src)
    BY <2>1, <2>2, <2>3, useUnitEvolves
  <2>5. Evolves(c, A[k].c, m.src)
    BY <2>1, <2>4, EvolvesOn
  <2> QED
    BY <1>1, <2>4, <2>5
<1>7. n \in K
  <2> HIDE DEF K
  <2> QED
    BY <1>1, <1>5, <1>6, Along
<1> QED
  BY <1>3, <1>4, <1>7 DEF Runs

LEMMA convertDBKEvolves ==
  ASSUME NEW c, NEW m, HasFields(m), m.depth \in Int, m.units \in Seq(STRING)
  PROVE  Evolves(c, convertDBK(c, m), m.src) /\ Evolves(c, convertDBS(c, m), m.src)
BY DBKxEvolves DEF convertDBK, convertDBS
-----------------------------------------------------------------------------
(* XDR lines. *)
LEMMA noteFieldKeeps ==
  ASSUME NEW u, IsFiniteSet(u), Cardinality(u) <= MaxUnknown, NEW found, NEW field
  PROVE  IsFiniteSet(noteField(u, found, field)) /\ Cardinality(noteField(u, found, field)) <= MaxUnknown
BY addUnknownKeeps DEF noteField

LEMMA NotedIsFold ==
  ASSUME NEW u, NEW found, NEW fields
  PROVE  FoldLeft(LAMBDA v, f : noteField(v, found, f), u, fields) = Fold("field", found, u, fields)
<1> DEFINE P(g) == g = [z \in SUBSET (DOMAIN fields) |->
                          IF z = {} THEN u ELSE noteField(g[z \ {Max(z)}], found, fields[Max(z)])]
<1>1. ASSUME NEW g PROVE P(g) <=> Iterates(g, "field", found, u, fields)
  BY DEF Iterates, Step
<1>2. FoldLeft(LAMBDA v, f : noteField(v, found, f), u, fields) = (CHOOSE g : P(g))[DOMAIN fields]
  BY DEF FoldLeft, MapThenFoldSet
<1> HIDE DEF P
<1>3. (CHOOSE g : P(g)) = (CHOOSE g : Iterates(g, "field", found, u, fields))
  BY <1>1
<1> QED
  BY <1>2, <1>3 DEF Fold

LEMMA NotedKeeps ==
  ASSUME NEW u, IsFiniteSet(u), Cardinality(u) <= MaxUnknown, NEW found,
         NEW fields, NEW n \in Nat, DOMAIN fields = 1 .. n
  PROVE  /\ IsFiniteSet(Fold("field", found, u, fields))
         /\ Cardinality(Fold("field", found, u, fields)) <= MaxUnknown
<1>1. PICK A : Runs(A, "field", found, u, fields, n)
  BY TraceOf
<1> DEFINE K == {k \in 0 .. n : IsFiniteSet(A[k]) /\ Cardinality(A[k]) <= MaxUnknown}
<1>2. 0 \in K
  BY <1>1 DEF Runs
<1>3. ASSUME NEW k \in 1 .. n, k - 1 \in K PROVE k \in K
  <2>1. A[k] = noteField(A[k - 1], found, fields[k])
    BY <1>1 DEF Runs, Step
  <2> QED
    BY <1>3, <2>1, noteFieldKeeps
<1>4. n \in K
  <2> HIDE DEF K
  <2> QED
    BY <1>2, <1>3, Along
<1> QED
  BY <1>1, <1>4 DEF Runs

LEMMA FieldsAreSeq ==
  ASSUME NEW from \in Int, NEW to \in Int, from <= to + 1
  PROVE  to - from + 1 \in Nat /\ DOMAIN Fields(from, to) = 1 .. (to - from + 1)
BY DEF Fields

LEMMA xdrMessageHasFields ==
  ASSUME NEW found
  PROVE  /\ \E n \in Nat : DOMAIN xdrMessage(found).fields = 1 .. n
         /\ xdrMessage(found).pgn # "RMC"
<1> DEFINE Good(msg) == (\E n \in Nat : DOMAIN msg.fields = 1 .. n) /\ msg.pgn # "RMC"
<1>1. /\ DOMAIN Fields(0, 0) = 1 .. 1 /\ DOMAIN Fields(0, 1) = 1 .. 2 /\ DOMAIN Fields(0, 2) = 1 .. 3
      /\ DOMAIN Fields(0, 9) = 1 .. 10 /\ DOMAIN Fields(10, 12) = 1 .. 3
  BY DEF Fields
<1>2. DOMAIN << >> = 1 .. 0
  OBVIOUS
<1>3. /\ Good([pgn |-> "127505", fields |-> Fields(0, 1)]) /\ Good([pgn |-> "127508", fields |-> Fields(0, 2)])
      /\ Good([pgn |-> "130312", fields |-> Fields(0, 1)]) /\ Good([pgn |-> "130313", fields |-> Fields(0, 1)])
      /\ Good([pgn |-> "130314", fields |-> Fields(0, 0)]) /\ Good([pgn |-> "127489", fields |-> Fields(0, 9)])
      /\ Good([pgn |-> "127488", fields |-> Fields(10, 12)]) /\ Good([pgn |-> "127257", fields |-> Fields(0, 2)])
      /\ Good([pgn |-> "none", fields |-> << >>])
  BY <1>1, <1>2
<1>4. xdrMessage(found) \in
        {[pgn |-> "127505", fields |-> Fields(0, 1)], [pgn |-> "127508", fields |-> Fields(0, 2)],
         [pgn |-> "130312", fields |-> Fields(0, 1)], [pgn |-> "130313", fields |-> Fields(0, 1)],
         [pgn |-> "130314", fields |-> Fields(0, 0)], [pgn |-> "127489", fields |-> Fields(0, 9)],
         [pgn |-> "127488", fields |-> Fields(10, 12)], [pgn |-> "127257", fields |-> Fields(0, 2)],
         [pgn |-> "none", fields |-> << >>]}
  BY DEF xdrMessage
<1>5. Good(xdrMessage(found))
  <2> HIDE DEF Good
  <2> QED
    BY <1>3, <1>4
<1> QED
  BY <1>5

LEMMA sendXdrEvolves ==
  ASSUME NEW c, NEW m, NEW x PROVE Evolves(c, sendXdr(c, m, x), m.src)
<1> SUFFICES ASSUME Ready(c) PROVE Evolves(c, sendXdr(c, m, x), m.src)
  BY EvolvesReady
<1> DEFINE found == xdrFound(x)
           msg == xdrMessage(found)
           reads == Used2k(c, UNION {OtherItem(found, f) : f \in ToSet(msg.fields)})
           u == FoldLeft(LAMBDA v, f : noteField(v, found, f), c.unknown, msg.fields)
           noted == [c EXCEPT !.unknown = u]
           key == msg.pgn \o "." \o ToString(found.sel) \o "." \o ToString(found.instance)
           more == [inst |-> found.instance, sel |-> found.sel]
<1>1. sendXdr(c, m, x) = noted \/ sendXdr(c, m, x) = send(noted, m, msg.pgn, key, reads, more)
  BY Zenon DEF sendXdr
<1>2. msg.pgn # "RMC" /\ DOMAIN more = {"inst", "sel"}
  BY xdrMessageHasFields
<1>3. Readable(c, reads)
  <2>1. UNION {OtherItem(found, f) : f \in ToSet(msg.fields)} \subseteq Item
    BY DEF OtherItem
  <2> QED
    BY <2>1, ReadableUsed
<1>4. IsContext(c) /\ Typed(c) => IsFiniteSet(u) /\ Cardinality(u) <= MaxUnknown
  <2>1. u = Fold("field", found, c.unknown, msg.fields)
    BY NotedIsFold
  <2>2. PICK n \in Nat : DOMAIN msg.fields = 1 .. n
    BY xdrMessageHasFields
  <2> HIDE DEF u, msg, found
  <2> QED
    BY <2>1, <2>2, NotedKeeps DEF Typed
<1> HIDE DEF reads, u, key, more, msg
<1>5. Evolves(c, noted, m.src)
  BY <1>4, UnknownEvolves
<1> HIDE DEF noted
<1>6. Readable(noted, reads)
  BY <1>3, <1>5, ReadableLater
<1>7. Evolves(c, send(noted, m, msg.pgn, key, reads, more), m.src)
  BY <1>2, <1>5, <1>6, sendOn
<1> QED
  BY <1>1, <1>5, <1>7

LEMMA takeXdrEvolves ==
  ASSUME NEW a, NEW m, HasFields(m), NEW x, x.value \in Int, IsSeq(a.found)
  PROVE  Evolves(a.c, takeXdr(a, m, x).c, m.src) /\ IsSeq(takeXdr(a, m, x).found)
<1> DEFINE b == [c |-> storeXdr(a.c, m, x),
                 found |-> IF xdrFound(x) # Nothing /\ xdrTakes(a.c, m, x) THEN Append(a.found, x) ELSE a.found]
<1>1. takeXdr(a, m, x) = b
  BY DEF takeXdr
<1>2. /\ b.c = storeXdr(a.c, m, x)
      /\ b.found = a.found \/ b.found = Append(a.found, x)
  OBVIOUS
<1> HIDE DEF b
<1>3. CanBe(xdrItem(x), x.value)
  BY DEF CanBe, XdrNamesDiffer, xdrItem
<1>4. Evolves(a.c, storeXdr(a.c, m, x), m.src)
  BY <1>3, UpdateEvolves, EvolvesSelf DEF storeXdr
<1>5. IsSeq(b.found)
  <2>1. IsSeq(Append(a.found, x))
    BY AppendSeq
  <2> QED
    BY <1>2, <2>1
<1> QED
  BY <1>1, <1>2, <1>4, <1>5

LEMMA convertXDRIsFolds ==
  ASSUME NEW c, NEW m
  PROVE  \E s : /\ s = Fold("take", m, [c |-> c, found |-> << >>], m.transducers)
                /\ convertXDR(c, m) = Fold("send", m, s.c, s.found)
<1> DEFINE a == [c |-> c, found |-> << >>]
           seq == m.transducers
           stored == FoldLeft(LAMBDA b, x : takeXdr(b, m, x), a, seq)
           P(g) == g = [z \in SUBSET (DOMAIN seq) |->
                          IF z = {} THEN a ELSE takeXdr(g[z \ {Max(z)}], m, seq[Max(z)])]
<1>1. ASSUME NEW g PROVE P(g) <=> Iterates(g, "take", m, a, seq)
  BY DEF Iterates, Step
<1>2. stored = (CHOOSE g : P(g))[DOMAIN seq]
  BY DEF FoldLeft, MapThenFoldSet
<1>3. convertXDR(c, m) = FoldLeft(LAMBDA d, x : sendXdr(d, m, x), stored.c, stored.found)
  BY DEF convertXDR
<1> HIDE DEF P, a, seq
<1>4. (CHOOSE g : P(g)) = (CHOOSE g : Iterates(g, "take", m, a, seq))
  BY <1>1
<1>5. stored = Fold("take", m, a, seq)
  BY <1>2, <1>4 DEF Fold
<1> HIDE DEF stored
<1> DEFINE t == stored.found
           e == stored.c
           Q(g) == g = [z \in SUBSET (DOMAIN t) |->
                          IF z = {} THEN e ELSE sendXdr(g[z \ {Max(z)}], m, t[Max(z)])]
<1>6. ASSUME NEW g PROVE Q(g) <=> Iterates(g, "send", m, e, t)
  BY DEF Iterates, Step
<1>7. convertXDR(c, m) = (CHOOSE g : Q(g))[DOMAIN t]
  BY <1>3 DEF FoldLeft, MapThenFoldSet
<1> HIDE DEF Q
<1>8. (CHOOSE g : Q(g)) = (CHOOSE g : Iterates(g, "send", m, e, t))
  BY <1>6
<1>9. convertXDR(c, m) = Fold("send", m, stored.c, stored.found)
  BY <1>7, <1>8 DEF Fold
<1> QED
  BY <1>5, <1>9 DEF a, seq

LEMMA convertXDREvolves ==
  ASSUME NEW c, NEW m, HasFields(m), NEW n \in Nat, DOMAIN m.transducers = 1 .. n,
         \A k \in 1 .. n : m.transducers[k].value \in Int
  PROVE  Evolves(c, convertXDR(c, m), m.src)
<1> DEFINE a == [c |-> c, found |-> << >>]
<1>1. PICK s : s = Fold("take", m, a, m.transducers) /\ convertXDR(c, m) = Fold("send", m, s.c, s.found)
  BY convertXDRIsFolds
<1>2. a.c = c /\ IsSeq(a.found)
  BY EmptyIsSeq
<1> HIDE DEF a
<1>3. PICK A : Runs(A, "take", m, a, m.transducers, n)
  BY TraceOf
<1> DEFINE K == {k \in 0 .. n : Evolves(c, A[k].c, m.src) /\ IsSeq(A[k].found)}
<1>4. 0 \in K
  BY <1>2, <1>3, EvolvesSelf DEF Runs
<1>5. ASSUME NEW k \in 1 .. n, k - 1 \in K PROVE k \in K
  <2>1. A[k] = takeXdr(A[k - 1], m, m.transducers[k])
    BY <1>3 DEF Runs, Step
  <2>2. Evolves(c, A[k - 1].c, m.src) /\ IsSeq(A[k - 1].found)
    BY <1>5
  <2>3. Evolves(A[k - 1].c, A[k].c, m.src) /\ IsSeq(A[k].found)
    BY <2>1, <2>2, takeXdrEvolves
  <2>4. Evolves(c, A[k].c, m.src)
    BY <2>2, <2>3, EvolvesOn
  <2> QED
    BY <2>3, <2>4
<1>6. n \in K
  <2> HIDE DEF K
  <2> QED
    BY <1>4, <1>5, Along
<1>7. Evolves(c, s.c, m.src) /\ IsSeq(s.found)
  BY <1>1, <1>3, <1>6 DEF Runs
<1>8. Len(s.found) \in Nat /\ DOMAIN s.found = 1 .. Len(s.found)
  BY <1>7 DEF IsSeq
<1>9. Evolves(s.c, Fold("send", m, s.c, s.found), m.src)
  <2>1. \A d : \A k \in 1 .. Len(s.found) : Evolves(d, Step("send", m, d, s.found[k]), m.src)
    BY sendXdrEvolves DEF Step
  <2> QED
    BY <1>8, <2>1, FoldEvolves
<1> QED
  BY <1>1, <1>7, <1>9, EvolvesOn
-----------------------------------------------------------------------------
(* RMC: when the last one came is noted, of a valid one only. *)
LEMMA LastRmcFollows ==
  ASSUME NEW c, NEW m, HasFields(m), Ready(c), NEW c0, c0 = [c EXCEPT !.n2k.lastRmc = c.now], NEW d,
         Evolves(c0, d, m.src)
  PROVE  /\ Follows(c, d, m.src) /\ SendsPlain(c, d)
         /\ d.n2k.waypointMap = c.n2k.waypointMap /\ d.n2k.waypointId = c.n2k.waypointId
         /\ d.n2k.slots = c.n2k.slots /\ d.n2k.lastRmc = c.now
<1> DEFINE n == [c.n2k EXCEPT !.lastRmc = c.now]
<1>1. c0 = [c EXCEPT !.n2k = n]
  OBVIOUS
<1>2. /\ DOMAIN n = DOMAIN c.n2k /\ n.lastSends = c.n2k.lastSends /\ n.waypointMap = c.n2k.waypointMap
      /\ n.waypointId = c.n2k.waypointId /\ n.slots = c.n2k.slots /\ n.lastRmc = c.now
  BY DEF Ready, IsContext
<1> HIDE DEF n
<1>3. Follows(c, c0, m.src) /\ c0.out = c.out /\ c0.n2k = n
  <2>1. /\ Follows(c, [c EXCEPT !.n2k = n], m.src)
        /\ IsContext(c) => [c EXCEPT !.n2k = n].out = c.out /\ [c EXCEPT !.n2k = n].n2k = n
    BY <1>2, N2kFollows
  <2> QED
    BY <1>1, <2>1 DEF Ready
<1>4. Follows(c0, d, m.src) /\ SendsPlain(c0, d) /\ SameRest(c0, d)
  BY <1>3, ReadyFollows DEF Evolves
<1> QED
  BY <1>2, <1>3, <1>4, FollowsOn DEF SendsPlain, SameRest

LEMMA convertRMCFollows ==
  ASSUME NEW c, NEW m, HasFields(m), Ready(c)
  PROVE  /\ Follows(c, convertRMC(c, m), m.src) /\ SendsPlain(c, convertRMC(c, m))
         /\ convertRMC(c, m).n2k.waypointMap = c.n2k.waypointMap
         /\ convertRMC(c, m).n2k.waypointId = c.n2k.waypointId
         /\ convertRMC(c, m).n2k.slots = c.n2k.slots
         /\ convertRMC(c, m).n2k.lastRmc = IF m.status = "A" THEN c.now ELSE c.n2k.lastRmc
<1>1. PICK c0 : c0 = [c EXCEPT !.n2k.lastRmc = c.now]
  OBVIOUS
<1> DEFINE c1 == SendGroup(c0, m, <<"GPST", "GPSD">>, "126992", {})
           c2 == SendGroup(c1, m, <<"LAT", "LON">>, "129025", {})
           c3 == SendGroup(c2, m, <<"COG", "SOG">>, "129026", {})
           d == SendGroup(c3, m, <<"VAR">>, "127258", {"GPSD"})
<1>2. convertRMC(c, m) = IF m.status = "A" THEN d ELSE c
  BY <1>1 DEF convertRMC
<1>3. Evolves(c0, c1, m.src)
  BY SendGroupEvolves
<1> HIDE DEF c1
<1>4. Evolves(c0, c2, m.src)
  BY <1>3, SendGroupOn
<1> HIDE DEF c2
<1>5. Evolves(c0, c3, m.src)
  BY <1>4, SendGroupOn
<1> HIDE DEF c3
<1>6. Evolves(c0, d, m.src)
  <2>1. {"GPSD"} \subseteq Item
    BY DEF Item, Fixed
  <2> QED
    BY <1>5, <2>1, SendGroupOn
<1> HIDE DEF d
<1>7. /\ Follows(c, d, m.src) /\ SendsPlain(c, d)
      /\ d.n2k.waypointMap = c.n2k.waypointMap /\ d.n2k.waypointId = c.n2k.waypointId
      /\ d.n2k.slots = c.n2k.slots /\ d.n2k.lastRmc = c.now
  BY <1>1, <1>6, LastRmcFollows
<1>8. Follows(c, c, m.src) /\ SendsPlain(c, c)
  BY FollowsSelf DEF SendsPlain
<1> QED
  BY <1>2, <1>7, <1>8
-----------------------------------------------------------------------------
(* Waypoints w, and the last id that was given.  The ids up to the last are*)
(* given, one for each name: a name that takes the place of another takes  *)
(* its id.                                                                 *)
Waypoints(w, last) ==
  /\ IsFiniteSet(DOMAIN w) /\ Cardinality(DOMAIN w) <= MAXWAYPOINTS + 1
  /\ last = Cardinality(DOMAIN w) + 1
  /\ \A a \in DOMAIN w : DOMAIN w[a] = {"id", "lastUsed", "rank"} /\ w[a].lastUsed \in Int /\ w[a].rank \in Int
  /\ \A a \in DOMAIN w : w[a].id \in 2 .. last
  /\ \A a, b \in DOMAIN w : w[a].id = w[b].id => a = b

LEMMA LeastOf ==
  ASSUME NEW S, IsFiniteSet(S), S # {}, NEW f, \A x \in S : f[x] \in Int
  PROVE  \E x \in S : \A y \in S : f[x] <= f[y]
<1> DEFINE HasLeast(Z) == \E x \in Z : \A y \in Z : f[x] <= f[y]
           T == {k \in Nat : \A Z \in SUBSET S : Cardinality(Z) = k /\ Z # {} => HasLeast(Z)}
<1>1. 0 \in T
  <2>1. ASSUME NEW Z \in SUBSET S, Cardinality(Z) = 0 PROVE Z = {}
    BY <2>1, FS_Subset, FS_EmptySet
  <2> QED
    BY <2>1
<1>2. ASSUME NEW k \in Nat, k \in T PROVE k + 1 \in T
  <2> SUFFICES ASSUME NEW Z \in SUBSET S, Cardinality(Z) = k + 1, Z # {} PROVE HasLeast(Z)
    OBVIOUS
  <2>1. PICK x : x \in Z
    OBVIOUS
  <2>2. IsFiniteSet(Z)
    BY FS_Subset
  <2>3. Cardinality(Z \ {x}) = k
    <3>1. Cardinality(Z \ {x}) = Cardinality(Z) - 1
      BY <2>1, <2>2, FS_RemoveElement
    <3> QED
      BY <3>1
  <2>4. CASE Z \ {x} = {}
    BY <2>1, <2>4
  <2>5. CASE Z \ {x} # {}
    <3>1. HasLeast(Z \ {x})
      BY <1>2, <2>3, <2>5
    <3>2. PICK y \in Z \ {x} : \A z \in Z \ {x} : f[y] <= f[z]
      BY <3>1
    <3> QED
      BY <2>1, <3>2
  <2> QED
    BY <2>4, <2>5
<1>3. Cardinality(S) \in T
  <2>1. Cardinality(S) \in Nat
    BY FS_CardinalityType
  <2> HIDE DEF T
  <2> QED
    BY <1>1, <1>2, <2>1, EveryNatural
<1> QED
  BY <1>3

LEMMA oldestIsKnown ==
  ASSUME NEW w, IsFiniteSet(DOMAIN w), DOMAIN w # {},
         \A a \in DOMAIN w : w[a].lastUsed \in Int /\ w[a].rank \in Int
  PROVE  oldest(w) \in DOMAIN w /\ \A a \in DOMAIN w : w[oldest(w)].lastUsed <= w[a].lastUsed
<1> DEFINE used == [a \in DOMAIN w |-> w[a].lastUsed]
           rank == [a \in DOMAIN w |-> w[a].rank]
           old == {a \in DOMAIN w : \A b \in DOMAIN w : w[a].lastUsed <= w[b].lastUsed}
<1>1. \E a \in DOMAIN w : \A b \in DOMAIN w : used[a] <= used[b]
  <2>1. \A a \in DOMAIN w : used[a] \in Int
    OBVIOUS
  <2> HIDE DEF used
  <2> QED
    BY <2>1, LeastOf
<1>2. old # {} /\ old \subseteq DOMAIN w
  BY <1>1
<1>3. IsFiniteSet(old)
  BY FS_Subset
<1>4. \E a \in old : \A b \in old : rank[a] <= rank[b]
  <2>1. \A a \in old : rank[a] \in Int
    OBVIOUS
  <2> HIDE DEF rank, old
  <2> QED
    BY <1>2, <1>3, <2>1, LeastOf
<1>5. \E a \in old : \A b \in old : w[a].rank <= w[b].rank
  BY <1>4
<1>6. oldest(w) \in old
  <2>1. oldest(w) = CHOOSE a \in old : \A b \in old : w[a].rank <= w[b].rank
    BY DEF oldest
  <2> HIDE DEF old
  <2> QED
    BY <1>5, <2>1
<1> QED
  BY <1>6

(* What becomes of them when a name is used. *)
IsUsed(w, v, next, t, time) ==
  /\ Waypoints(v, next)
  /\ t \in DOMAIN v /\ v[t].lastUsed = time
  /\ \A a \in DOMAIN v \ {t} : a \in DOMAIN w /\ v[a] = w[a]
  /\ \A a \in DOMAIN w : a # t /\ (t \in DOMAIN w \/ Cardinality(DOMAIN w) <= MAXWAYPOINTS \/ a # oldest(w)) =>
       v[t].id # w[a].id

LEMMA KnownIsUsed ==
  ASSUME NEW w, NEW last, Waypoints(w, last), NEW t \in DOMAIN w, NEW time \in Int
  PROVE  IsUsed(w, [w EXCEPT ![t].lastUsed = time], last, t, time)
<1> DEFINE v == [w EXCEPT ![t].lastUsed = time]
<1>1. DOMAIN w[t] = {"id", "lastUsed", "rank"}
  BY DEF Waypoints
<1>2. /\ DOMAIN v = DOMAIN w /\ \A a \in DOMAIN w \ {t} : v[a] = w[a]
      /\ DOMAIN v[t] = {"id", "lastUsed", "rank"} /\ v[t].lastUsed = time /\ v[t].id = w[t].id /\ v[t].rank = w[t].rank
  BY <1>1
<1> HIDE DEF v
<1>3. Waypoints(v, last)
  BY <1>2 DEF Waypoints
<1>4. IsUsed(w, v, last, t, time)
  BY <1>2, <1>3 DEF IsUsed, Waypoints
<1> QED
  BY <1>4 DEF v

LEMMA OldestIsReplaced ==
  ASSUME NEW w, NEW last, Waypoints(w, last), NEW name, name.text \notin DOMAIN w, name.rank \in Int, NEW time \in Int,
         Cardinality(DOMAIN w) > MAXWAYPOINTS
  PROVE  IsUsed(w, With(Forget(w, oldest(w)), name.text,
                        [id |-> w[oldest(w)].id, lastUsed |-> time, rank |-> name.rank]), last, name.text, time)
<1> DEFINE x == oldest(w)
           e == [id |-> w[x].id, lastUsed |-> time, rank |-> name.rank]
           t == name.text
           v == With(Forget(w, x), t, e)
<1>1. x \in DOMAIN w
  <2>1. DOMAIN w # {}
    BY FS_EmptySet, N183ConverterAssumption
  <2> QED
    BY <2>1, oldestIsKnown DEF Waypoints
<1>2. DOMAIN e = {"id", "lastUsed", "rank"} /\ e.id = w[x].id /\ e.lastUsed = time /\ e.rank \in Int
  OBVIOUS
<1>3. DOMAIN v = (DOMAIN w \ {x}) \cup {t} /\ v[t] = e /\ \A a \in DOMAIN w \ {x} : v[a] = w[a]
  BY DEF With, Forget
<1>4. t \notin DOMAIN w
  OBVIOUS
<1>5. IsFiniteSet(DOMAIN v) /\ Cardinality(DOMAIN v) = Cardinality(DOMAIN w)
  <2>1. IsFiniteSet(DOMAIN w \ {x}) /\ Cardinality(DOMAIN w \ {x}) = Cardinality(DOMAIN w) - 1
    BY <1>1, FS_RemoveElement DEF Waypoints
  <2>2. /\ IsFiniteSet((DOMAIN w \ {x}) \cup {t})
        /\ Cardinality((DOMAIN w \ {x}) \cup {t}) = Cardinality(DOMAIN w \ {x}) + 1
    BY <1>4, <2>1, FS_AddElement
  <2>3. Cardinality(DOMAIN w) \in Nat
    BY FS_CardinalityType DEF Waypoints
  <2> QED
    BY <1>3, <2>1, <2>2, <2>3
<1>6. x = oldest(w)
  OBVIOUS
<1> HIDE DEF v, e, x, t
<1>7. Waypoints(v, last)
  BY <1>1, <1>2, <1>3, <1>4, <1>5 DEF Waypoints
<1>8. \A a \in DOMAIN w : a # x => v[t].id # w[a].id
  BY <1>1, <1>2, <1>3 DEF Waypoints
<1>9. IsUsed(w, v, last, t, time)
  BY <1>2, <1>3, <1>4, <1>6, <1>7, <1>8, FS_CardinalityType, N183ConverterAssumption DEF IsUsed, Waypoints
<1> QED
  BY <1>9 DEF v, e, x, t

LEMMA NewIsAdded ==
  ASSUME NEW w, NEW last, Waypoints(w, last), NEW name, name.text \notin DOMAIN w, name.rank \in Int, NEW time \in Int,
         Cardinality(DOMAIN w) <= MAXWAYPOINTS
  PROVE  IsUsed(w, With(w, name.text, [id |-> (last + 1) % 256, lastUsed |-> time, rank |-> name.rank]),
                 (last + 1) % 256, name.text, time)
<1> DEFINE e == [id |-> (last + 1) % 256, lastUsed |-> time, rank |-> name.rank]
           t == name.text
           v == With(w, t, e)
<1>1. /\ Cardinality(DOMAIN w) \in Nat /\ last = Cardinality(DOMAIN w) + 1 /\ last \in Nat
      /\ last + 1 \in 0 .. 255 /\ (last + 1) % 256 = last + 1
  <2>1. Cardinality(DOMAIN w) \in Nat /\ last = Cardinality(DOMAIN w) + 1
    BY FS_CardinalityType DEF Waypoints
  <2>2. MAXWAYPOINTS \in 1 .. 253
    BY N183ConverterAssumption
  <2> QED
    BY <2>1, <2>2
<1>2. DOMAIN e = {"id", "lastUsed", "rank"} /\ e.id = last + 1 /\ e.lastUsed = time /\ e.rank \in Int
  BY <1>1
<1>3. DOMAIN v = DOMAIN w \cup {t} /\ v[t] = e /\ t \notin DOMAIN w /\ \A a \in DOMAIN w : v[a] = w[a]
  BY DEF With
<1>4. IsFiniteSet(DOMAIN v) /\ Cardinality(DOMAIN v) = Cardinality(DOMAIN w) + 1
  BY <1>3, FS_AddElement DEF Waypoints
<1> HIDE DEF v, e, t
<1>5. Waypoints(v, last + 1)
  <2>1. Cardinality(DOMAIN v) <= MAXWAYPOINTS + 1
    BY <1>1, <1>4, N183ConverterAssumption
  <2>2. \A a \in DOMAIN v : /\ DOMAIN v[a] = {"id", "lastUsed", "rank"}
                            /\ v[a].lastUsed \in Int /\ v[a].rank \in Int
    BY <1>2, <1>3 DEF Waypoints
  <2>3. \A a \in DOMAIN w : w[a].id \in 2 .. last
    BY DEF Waypoints
  <2>4. \A a \in DOMAIN v : v[a].id \in 2 .. (last + 1)
    BY <1>1, <1>2, <1>3, <2>3
  <2>5. \A a, b \in DOMAIN v : v[a].id = v[b].id => a = b
    BY <1>1, <1>2, <1>3, <2>3 DEF Waypoints
  <2> QED
    BY <1>1, <1>4, <2>1, <2>2, <2>4, <2>5 DEF Waypoints
<1>6. \A a \in DOMAIN w : v[t].id # w[a].id
  <2>1. \A a \in DOMAIN w : w[a].id \in 2 .. last
    BY DEF Waypoints
  <2> QED
    BY <1>1, <1>2, <1>3, <2>1
<1>7. IsUsed(w, v, last + 1, t, time)
  BY <1>2, <1>3, <1>5, <1>6 DEF IsUsed
<1> QED
  BY <1>1, <1>7 DEF v, e, t

LEMMA BothSet ==
  ASSUME NEW c, NEW v, NEW next, "n2k" \in DOMAIN c,
         DOMAIN c.n2k = {"lastSends", "waypointMap", "waypointId", "lastRmc", "slots"}
  PROVE  [c EXCEPT !.n2k.waypointId = next, !.n2k.waypointMap = v] =
           [c EXCEPT !.n2k = [c.n2k EXCEPT !.waypointMap = v, !.waypointId = next]]
<1> DEFINE a == [c.n2k EXCEPT !.waypointId = next]
           b == [a EXCEPT !.waypointMap = v]
           n == [c.n2k EXCEPT !.waypointMap = v, !.waypointId = next]
<1>1. b = n
  OBVIOUS
<1>2. [c EXCEPT !.n2k.waypointId = next, !.n2k.waypointMap = v] = [c EXCEPT !.n2k = b]
  <2>1. [c EXCEPT !.n2k.waypointId = next] = [c EXCEPT !.n2k = a]
    OBVIOUS
  <2>2. [c EXCEPT !.n2k = a].n2k = a
    OBVIOUS
  <2>3. [c EXCEPT !.n2k.waypointId = next, !.n2k.waypointMap = v] =
          [[c EXCEPT !.n2k.waypointId = next] EXCEPT !.n2k.waypointMap = v]
    OBVIOUS
  <2>4. [[c EXCEPT !.n2k = a] EXCEPT !.n2k = b] = [c EXCEPT !.n2k = b]
    <3> HIDE DEF a, b
    <3> QED
      OBVIOUS
  <2> QED
    BY <2>1, <2>2, <2>3, <2>4
<1> QED
  BY <1>1, <1>2

(* getWaypointId: the record of the members changes as said. *)
LEMMA getWaypointIdIs ==
  ASSUME NEW c, Ready(c), NEW w, w = c.n2k.waypointMap, NEW last, last = c.n2k.waypointId,
         Waypoints(w, last), NEW name, name.rank \in Int
  PROVE  \E v, next :
           /\ getWaypointId(c, name) = [c EXCEPT !.n2k = [c.n2k EXCEPT !.waypointMap = v, !.waypointId = next]]
           /\ IsUsed(w, v, next, name.text, c.now)
<1>0. PICK next : next = (last + 1) % 256
  OBVIOUS
<1> DEFINE t == name.text
           full == Cardinality(DOMAIN w) > MAXWAYPOINTS
           Known(a, id) == With(a, t, [id |-> id, lastUsed |-> c.now, rank |-> name.rank])
           known == [w EXCEPT ![t].lastUsed = c.now]
           replaced == Known(Forget(w, oldest(w)), w[oldest(w)].id)
           added == Known(w, next)
           Result(v, i) == [c EXCEPT !.n2k = [c.n2k EXCEPT !.waypointMap = v, !.waypointId = i]]
<1>1. /\ t \in DOMAIN w => getWaypointId(c, name) = [c EXCEPT !.n2k.waypointMap[t].lastUsed = c.now]
      /\ t \notin DOMAIN w /\ full => getWaypointId(c, name) = [c EXCEPT !.n2k.waypointMap = replaced]
      /\ t \notin DOMAIN w /\ ~full =>
           getWaypointId(c, name) = [c EXCEPT !.n2k.waypointId = next, !.n2k.waypointMap = added]
  <2>1. getWaypointId(c, name) =
          CASE t \in DOMAIN w -> [c EXCEPT !.n2k.waypointMap[t].lastUsed = c.now]
            [] t \notin DOMAIN w /\ full -> [c EXCEPT !.n2k.waypointMap = replaced]
            [] t \notin DOMAIN w /\ ~full ->
                 [c EXCEPT !.n2k.waypointId = next, !.n2k.waypointMap = added]
    BY <1>0 DEF getWaypointId
  <2> QED
    BY <2>1
<1>2. /\ DOMAIN c = {"now", "bd", "unknown", "n183", "n2k", "out", "memory"}
      /\ DOMAIN c.n2k = {"lastSends", "waypointMap", "waypointId", "lastRmc", "slots"}
      /\ c.now \in Int /\ Cardinality(DOMAIN w) \in Nat
  BY FS_CardinalityType, BoatDataAssumption DEF Ready, IsContext, Waypoints
<1>3. CASE t \in DOMAIN w
  <2>1. IsUsed(w, known, last, t, c.now)
    BY <1>2, <1>3, KnownIsUsed
  <2>2. [c EXCEPT !.n2k.waypointMap[t].lastUsed = c.now] = Result(known, last)
    BY <1>2
  <2> QED
    BY <1>1, <1>3, <2>1, <2>2
<1>4. CASE t \notin DOMAIN w /\ full
  <2>1. IsUsed(w, replaced, last, t, c.now)
    BY <1>2, <1>4, OldestIsReplaced
  <2> HIDE DEF replaced
  <2>2. [c EXCEPT !.n2k.waypointMap = replaced] = Result(replaced, last)
    BY <1>2
  <2> QED
    BY <1>1, <1>4, <2>1, <2>2
<1>5. CASE t \notin DOMAIN w /\ ~full
  <2>1. IsUsed(w, added, next, t, c.now)
    <3>1. Cardinality(DOMAIN w) <= MAXWAYPOINTS
      BY <1>2, <1>5, N183ConverterAssumption
    <3> QED
      BY <1>0, <1>2, <1>5, <3>1, NewIsAdded
  <2> HIDE DEF added
  <2>2. [c EXCEPT !.n2k.waypointId = next, !.n2k.waypointMap = added] = Result(added, next)
    BY <1>2, BothSet
  <2> QED
    BY <1>1, <1>5, <2>1, <2>2
<1> QED
  BY <1>3, <1>4, <1>5

LEMMA getWaypointIdFollows ==
  ASSUME NEW c, Ready(c), Waypoints(c.n2k.waypointMap, c.n2k.waypointId), NEW name, name.rank \in Int, NEW s,
         NEW d, d = getWaypointId(c, name)
  PROVE  /\ Follows(c, d, s) /\ d.out = c.out /\ d.n2k.lastRmc = c.n2k.lastRmc /\ d.n2k.slots = c.n2k.slots
         /\ IsUsed(c.n2k.waypointMap, d.n2k.waypointMap, d.n2k.waypointId, name.text, c.now)
<1>1. PICK v, next :
        /\ getWaypointId(c, name) = [c EXCEPT !.n2k = [c.n2k EXCEPT !.waypointMap = v, !.waypointId = next]]
        /\ IsUsed(c.n2k.waypointMap, v, next, name.text, c.now)
  BY getWaypointIdIs
<1> DEFINE n == [c.n2k EXCEPT !.waypointMap = v, !.waypointId = next]
<1>2. /\ DOMAIN n = DOMAIN c.n2k /\ n.lastSends = c.n2k.lastSends /\ n.lastRmc = c.n2k.lastRmc
      /\ n.slots = c.n2k.slots /\ n.waypointMap = v /\ n.waypointId = next
  BY DEF Ready, IsContext
<1>3. d = [c EXCEPT !.n2k = n]
  BY <1>1
<1> HIDE DEF n
<1>4. /\ Follows(c, [c EXCEPT !.n2k = n], s)
      /\ IsContext(c) => [c EXCEPT !.n2k = n].out = c.out /\ [c EXCEPT !.n2k = n].n2k = n
  BY <1>2, N2kFollows
<1>5. Follows(c, d, s) /\ d.out = c.out /\ d.n2k = n
  BY <1>3, <1>4 DEF Ready
<1> QED
  BY <1>1, <1>2, <1>5

(* A message of the throttle, with what it tells. *)
Tells(e, what, more, key) == e.what = what /\ e.more = With(more, "key", key)

LEMMA sendTells ==
  ASSUME NEW c, NEW m, NEW what, NEW key, NEW reads, NEW more, IsContext(c),
         NEW d, d = send(c, m, what, key, reads, more)
  PROVE  /\ SameRest(c, d)
         /\ \A k \in DOMAIN d.out :
              (k \in DOMAIN c.out /\ d.out[k] = c.out[k]) \/ Tells(d.out[k], what, more, key)
<1>a. CASE ~maySend(c, key)
  BY <1>a DEF send, SameRest
<1>b. CASE maySend(c, key)
  <2> DEFINE sends == With(c.n2k.lastSends, key, c.now)
             all == With(more, "key", key)
             n2ka == [c.n2k EXCEPT !.lastSends = sends]
             c0 == [c EXCEPT !.n2k = n2ka]
  <2>1. Emit(c0, what, m.src, reads, all) = d
    BY <1>b DEF send
  <2>2. \A k \in DOMAIN sends : sends[k] \in 0 .. (Wrap - 1)
    BY DEF With, IsContext
  <2>a. all = With(more, "key", key)
    OBVIOUS
  <2> HIDE DEF sends, all
  <2>3. /\ DOMAIN n2ka = DOMAIN c.n2k /\ n2ka.lastSends = sends
        /\ DOMAIN c0 = DOMAIN c /\ c0.n2k = n2ka /\ c0.n183 = c.n183 /\ c0.bd = c.bd /\ c0.now = c.now
        /\ c0.unknown = c.unknown /\ c0.out = c.out
        /\ n2ka.waypointMap = c.n2k.waypointMap /\ n2ka.waypointId = c.n2k.waypointId
        /\ n2ka.lastRmc = c.n2k.lastRmc /\ n2ka.slots = c.n2k.slots
    BY DEF IsContext
  <2> HIDE DEF c0, n2ka
  <2>4. IsContext(c0)
    BY <2>2, <2>3 DEF IsContext
  <2>5. PICK e : Adds(c0, d, e) /\ e.what = what /\ e.more = all
    BY <2>1, <2>4, EmitAdds
  <2>6. SameRest(c, d)
    BY <2>3, <2>5 DEF SameRest, Adds
  <2> DEFINE n == Len(c0.out)
  <2>7. /\ n \in Nat /\ DOMAIN c0.out = 1 .. n /\ DOMAIN d.out = 1 .. (n + 1)
        /\ (\A k \in 1 .. n : d.out[k] = c0.out[k]) /\ d.out[n + 1] = e
    BY <2>5 DEF Adds
  <2>8. Tells(e, what, more, key)
    BY <2>5, <2>a DEF Tells
  <2> HIDE DEF n
  <2>9. ASSUME NEW k \in DOMAIN d.out
        PROVE  (k \in DOMAIN c.out /\ d.out[k] = c.out[k]) \/ Tells(d.out[k], what, more, key)
    <3>1. CASE k = n + 1
      BY <2>7, <2>8, <3>1
    <3>2. CASE k \in 1 .. n
      BY <2>3, <2>7, <3>2
    <3> QED
      BY <2>7, <3>1, <3>2
  <2> QED
    BY <2>6, <2>9
<1> QED
  BY <1>a, <1>b

(* The names that were used now, and those before. *)
NoLater(w, time) == \A a \in DOMAIN w : w[a].lastUsed <= time
UsedNow(w, time) == {a \in DOMAIN w : w[a].lastUsed = time}

LEMMA UsedIsNoLater ==
  ASSUME NEW w, NEW v, NEW next, NEW t, NEW time \in Int, IsUsed(w, v, next, t, time), NoLater(w, time)
  PROVE  NoLater(v, time)
BY DEF IsUsed, NoLater

(* Two names that are used one after the other have different ids.        *)
LEMMA LegHasTwoIds ==
  ASSUME NEW w, NEW last, Waypoints(w, last), NEW time \in Int, NoLater(w, time),
         Cardinality(UsedNow(w, time)) + 2 <= MAXWAYPOINTS,
         NEW t, NEW v, NEW next, IsUsed(w, v, next, t, time),
         NEW u, u # t, NEW x, NEW end, IsUsed(v, x, end, u, time)
  PROVE  v[t].id # x[u].id
<1>1. Waypoints(v, next) /\ t \in DOMAIN v /\ NoLater(v, time)
  BY UsedIsNoLater DEF IsUsed
<1>2. CASE Cardinality(DOMAIN v) <= MAXWAYPOINTS \/ u \in DOMAIN v
  BY <1>1, <1>2 DEF IsUsed, Waypoints
<1>3. CASE ~(Cardinality(DOMAIN v) <= MAXWAYPOINTS)
  <2>1. UsedNow(v, time) \subseteq UsedNow(w, time) \cup {t}
    BY DEF IsUsed, UsedNow
  <2>2. /\ IsFiniteSet(UsedNow(w, time)) /\ Cardinality(UsedNow(w, time)) \in Nat
        /\ IsFiniteSet(UsedNow(w, time) \cup {t})
        /\ Cardinality(UsedNow(w, time) \cup {t}) <= Cardinality(UsedNow(w, time)) + 1
    <3>1. IsFiniteSet(DOMAIN w) /\ UsedNow(w, time) \in SUBSET DOMAIN w
      BY DEF Waypoints, UsedNow
    <3>2. IsFiniteSet(UsedNow(w, time))
      BY <3>1, FS_Subset
    <3>3. Cardinality(UsedNow(w, time)) \in Nat
      BY <3>2, FS_CardinalityType
    <3>4. /\ IsFiniteSet(UsedNow(w, time) \cup {t})
          /\ Cardinality(UsedNow(w, time) \cup {t}) =
               IF t \in UsedNow(w, time) THEN Cardinality(UsedNow(w, time)) ELSE Cardinality(UsedNow(w, time)) + 1
      BY <3>2, FS_AddElement
    <3> QED
      BY <3>2, <3>3, <3>4
  <2>3. Cardinality(UsedNow(v, time)) <= Cardinality(UsedNow(w, time) \cup {t})
    BY <2>1, <2>2, FS_Subset
  <2>4. Cardinality(UsedNow(v, time)) \in Nat /\ Cardinality(UsedNow(w, time) \cup {t}) \in Nat
    BY <2>1, <2>2, FS_CardinalityType, FS_Subset
  <2>5. UsedNow(v, time) # DOMAIN v
    BY <1>3, <2>2, <2>3, <2>4, N183ConverterAssumption
  <2>6. PICK a \in DOMAIN v : v[a].lastUsed < time
    <3>1. PICK a \in DOMAIN v : a \notin UsedNow(v, time)
      BY <2>5 DEF UsedNow
    <3>2. v[a].lastUsed # time /\ v[a].lastUsed <= time /\ v[a].lastUsed \in Int
      BY <1>1, <3>1 DEF UsedNow, NoLater, Waypoints
    <3> QED
      BY <3>2
  <2>7. v[oldest(v)].lastUsed < time
    <3>1. DOMAIN v # {}
      BY <1>1
    <3>2. oldest(v) \in DOMAIN v /\ \A b \in DOMAIN v : v[oldest(v)].lastUsed <= v[b].lastUsed
      BY <1>1, <3>1, oldestIsKnown DEF Waypoints
    <3> QED
      BY <1>1, <2>6, <3>2 DEF Waypoints
  <2>8. v[t].lastUsed = time
    BY DEF IsUsed
  <2>9. t # oldest(v)
    BY <2>7, <2>8
  <2> QED
    BY <1>1, <2>9 DEF IsUsed
<1> QED
  BY <1>2, <1>3

(* RMB: what was sent for it is a leg with the ids of its two names. *)
LegIds(v, x, m) == [dest |-> v[m.dest.text].id, orig |-> x[m.orig.text].id, names |-> <<m.dest.text, m.orig.text>>]
IsLeg(e, ids) ==
  /\ e.what # "RMC" /\ "frags" \notin DOMAIN e.more
  /\ "dest" \in DOMAIN e.more /\ e.more.dest = ids.dest /\ e.more.orig = ids.orig /\ e.more.names = ids.names
RMBSends(w, d, m, time) ==
  \E u, i : /\ IsUsed(w, u, i, m.dest.text, time)
            /\ IsUsed(u, d.n2k.waypointMap, d.n2k.waypointId, m.orig.text, time)
            /\ \A k \in DOMAIN d.out : Plain(d.out[k]) \/ IsLeg(d.out[k], LegIds(u, d.n2k.waypointMap, m))

LEMMA TellsLeg ==
  ASSUME NEW e, NEW what, what # "RMC", NEW key, NEW ids, DOMAIN ids = {"dest", "orig", "names"},
         Tells(e, what, ids, key)
  PROVE  IsLeg(e, ids)
<1> DEFINE all == With(ids, "key", key)
<1>1. DOMAIN all = {"dest", "orig", "names", "key"}
  BY DEF With
<1>2. all["dest"] = ids["dest"] /\ all["orig"] = ids["orig"] /\ all["names"] = ids["names"]
  BY DEF With
<1>3. e.what = what /\ e.more = all
  BY DEF Tells
<1> HIDE DEF all
<1> QED
  BY <1>1, <1>2, <1>3 DEF IsLeg

LEMMA convertRMBFollows ==
  ASSUME NEW c, NEW m, HasFields(m), m.dest.rank \in Int, m.orig.rank \in Int, Ready(c), c.out = << >>,
         Waypoints(c.n2k.waypointMap, c.n2k.waypointId),
         NEW d, d = convertRMB(c, m)
  PROVE  /\ Follows(c, d, m.src) /\ d.n2k.lastRmc = c.n2k.lastRmc /\ d.n2k.slots = c.n2k.slots
         /\ RMBSends(c.n2k.waypointMap, d, m, c.now)
<1> DEFINE items == <<"DTW", "BTW", "WPLat", "WPLon">>
           c1 == IF Takes(c, m, "XTE") THEN Send(UpdateEach(c, m, {"XTE"}), m, "129283", {}) ELSE c
           c2 == getWaypointId(c1, m.dest)
           c3 == getWaypointId(c2, m.orig)
           ids == [dest |-> idOf(c2, m.dest), orig |-> idOf(c3, m.orig), names |-> <<m.dest.text, m.orig.text>>]
           c4 == UpdateWhile(c3, m, items)
           c5 == send(c4, m, "129284", "129284", {}, ids)
           c6 == send(c5, m, "129285", "129285", {}, ids)
<1>1. d = c4 \/ d = c6
  BY Zenon DEF convertRMB
<1>2. Evolves(c, c1, m.src)
  BY UpdateEachEvolves, SendOn, ReadableNone, EvolvesSelf
<1> HIDE DEF c1
<1>3. Ready(c1) /\ c1.now = c.now /\ SameRest(c, c1) /\ Follows(c, c1, m.src)
  BY <1>2, ReadyFollows DEF Evolves
<1>4. \A k \in DOMAIN c1.out : Plain(c1.out[k])
  BY <1>2 DEF Evolves, SendsPlain
<1>5. Waypoints(c1.n2k.waypointMap, c1.n2k.waypointId)
  BY <1>3 DEF SameRest
<1>6. /\ Follows(c1, c2, m.src) /\ c2.out = c1.out /\ c2.n2k.lastRmc = c1.n2k.lastRmc /\ c2.n2k.slots = c1.n2k.slots
      /\ IsUsed(c1.n2k.waypointMap, c2.n2k.waypointMap, c2.n2k.waypointId, m.dest.text, c1.now)
  BY <1>3, <1>5, getWaypointIdFollows
<1> HIDE DEF c2
<1>7. Ready(c2) /\ c2.now = c1.now /\ Waypoints(c2.n2k.waypointMap, c2.n2k.waypointId)
  BY <1>3, <1>6, ReadyFollows DEF IsUsed
<1>8. /\ Follows(c2, c3, m.src) /\ c3.out = c2.out /\ c3.n2k.lastRmc = c2.n2k.lastRmc /\ c3.n2k.slots = c2.n2k.slots
      /\ IsUsed(c2.n2k.waypointMap, c3.n2k.waypointMap, c3.n2k.waypointId, m.orig.text, c2.now)
  BY <1>7, getWaypointIdFollows
<1>9. /\ ids = LegIds(c2.n2k.waypointMap, c3.n2k.waypointMap, m)
      /\ DOMAIN ids = {"dest", "orig", "names"}
  BY DEF LegIds, idOf
<1> HIDE DEF c3, ids
<1>10. Ready(c3) /\ c3.now = c2.now
  BY <1>7, <1>8, ReadyFollows
<1>11. Evolves(c3, c4, m.src)
  BY UpdateWhileEvolves
<1> HIDE DEF c4
<1>12. Ready(c4) /\ c4.now = c3.now /\ SameRest(c3, c4) /\ Follows(c3, c4, m.src)
  BY <1>10, <1>11, ReadyFollows DEF Evolves
<1>13. \A k \in DOMAIN c4.out : Plain(c4.out[k])
  BY <1>4, <1>6, <1>8, <1>10, <1>11 DEF Evolves, SendsPlain
<1>14. Follows(c, c4, m.src)
  <2>1. Follows(c, c2, m.src)
    BY <1>3, <1>6, FollowsOn
  <2>2. Follows(c, c3, m.src)
    BY <1>8, <2>1, FollowsOn
  <2> QED
    BY <1>12, <2>2, FollowsOn
<1>15. Follows(c4, c5, m.src) /\ SameRest(c4, c5)
  BY <1>9, <1>12, sendFollows, sendTells, ReadableNone DEF Ready
<1>16. \A k \in DOMAIN c5.out : Plain(c5.out[k]) \/ IsLeg(c5.out[k], ids)
  <2>1. \A k \in DOMAIN c5.out :
          (k \in DOMAIN c4.out /\ c5.out[k] = c4.out[k]) \/ Tells(c5.out[k], "129284", ids, "129284")
    BY <1>12, sendTells DEF Ready
  <2> HIDE DEF c5
  <2> QED
    BY <1>9, <1>13, <2>1, TellsLeg
<1> HIDE DEF c5
<1>17. Ready(c5) /\ c5.now = c4.now
  BY <1>12, <1>15, ReadyFollows
<1>18. Follows(c5, c6, m.src) /\ SameRest(c5, c6)
  BY <1>9, <1>17, sendFollows, sendTells, ReadableNone DEF Ready
<1>19. \A k \in DOMAIN c6.out : Plain(c6.out[k]) \/ IsLeg(c6.out[k], ids)
  <2>1. \A k \in DOMAIN c6.out :
          (k \in DOMAIN c5.out /\ c6.out[k] = c5.out[k]) \/ Tells(c6.out[k], "129285", ids, "129285")
    BY <1>17, sendTells DEF Ready
  <2> HIDE DEF c6
  <2> QED
    BY <1>9, <1>16, <2>1, TellsLeg
<1> HIDE DEF c6
<1>20. /\ Follows(c, d, m.src) /\ SameRest(c3, d)
       /\ \A k \in DOMAIN d.out : Plain(d.out[k]) \/ IsLeg(d.out[k], ids)
  <2>1. Follows(c, c6, m.src)
    BY <1>14, <1>15, <1>18, FollowsOn
  <2>2. SameRest(c3, c6)
    BY <1>12, <1>15, <1>18 DEF SameRest
  <2> QED
    BY <1>1, <1>12, <1>13, <1>14, <1>19, <2>1, <2>2
<1>21. d.n2k.lastRmc = c.n2k.lastRmc /\ d.n2k.slots = c.n2k.slots
  BY <1>3, <1>6, <1>8, <1>20 DEF SameRest
<1>22. RMBSends(c.n2k.waypointMap, d, m, c.now)
  BY <1>3, <1>6, <1>7, <1>8, <1>9, <1>20 DEF SameRest, RMBSends
<1> QED
  BY <1>20, <1>21, <1>22
-----------------------------------------------------------------------------
(* AIS.  A slot holds the first fragments of a message, in order, all of   *)
(* lines of the family with the sequence id of the slot.                   *)
OfLine(frag, seq, fam) ==
  \E m \in fam : m.key \in {"AIVDM", "AIVDO"} /\ m.line.count > 1 /\ m.line.seq = seq /\ frag = m.line.frag

InOrder(frags, seq, fam) ==
  /\ IsSeq(frags) /\ DOMAIN frags = 1 .. Len(frags) /\ Len(frags) \in Nat
  /\ \A j \in DOMAIN frags : frags[j].part = j /\ OfLine(frags[j], seq, fam)

Slot(slot, seq, fam) ==
  \/ slot = Empty
  \/ /\ DOMAIN slot = {"count", "frags"} /\ slot.count \in 2 .. MAX_MSG_FRAGMENTS
     /\ InOrder(slot.frags, seq, fam) /\ Len(slot.frags) # 0 /\ slot.frags[1].parts = slot.count

Slots(slots, fam) ==
  DOMAIN slots = 0 .. (MAX_MSG_SEQUENCE_IDS - 1) /\ \A q \in DOMAIN slots : Slot(slots[q], q, fam)

IsWhole(frags, fam) ==
  \/ frags = << frags[1] >> /\ frags[1].parts = 1 /\ frags[1].part = 1
  \/ \E q : InOrder(frags, q, fam) /\ Len(frags) # 0 /\ Len(frags) = frags[1].parts

LEMMA OneInOrder ==
  ASSUME NEW fam, NEW q, NEW frag, OfLine(frag, q, fam), frag.part = 1
  PROVE  InOrder(<< frag >>, q, fam) /\ Len(<< frag >>) = 1 /\ << frag >>[1] = frag
<1>1. IsSeq(<< frag >>) /\ Len(<< frag >>) = 1 /\ DOMAIN << frag >> = 1 .. 1 /\ << frag >>[1] = frag
  BY OneIsSeq
<1>2. PICK t : t = << frag >>
  OBVIOUS
<1>3. \A j \in 1 .. 1 : j = 1
  OBVIOUS
<1>4. InOrder(t, q, fam)
  BY <1>1, <1>2, <1>3 DEF InOrder
<1> QED
  BY <1>1, <1>2, <1>4

LEMMA MoreInOrder ==
  ASSUME NEW fam, NEW q, NEW frags, InOrder(frags, q, fam), Len(frags) # 0,
         NEW frag, OfLine(frag, q, fam), frag.part = Len(frags) + 1
  PROVE  /\ InOrder(Append(frags, frag), q, fam) /\ Len(Append(frags, frag)) = Len(frags) + 1
         /\ Append(frags, frag)[1] = frags[1]
<1>0. PICK t : t = Append(frags, frag)
  OBVIOUS
<1>1. /\ IsSeq(t) /\ Len(frags) \in Nat /\ DOMAIN frags = 1 .. Len(frags)
      /\ Len(t) = Len(frags) + 1 /\ DOMAIN t = 1 .. (Len(frags) + 1)
      /\ \A k \in 1 .. Len(frags) : t[k] = frags[k]
      /\ t[Len(frags) + 1] = frag
  BY <1>0, AppendSeq DEF InOrder
<1>2. ASSUME NEW j \in DOMAIN t PROVE t[j].part = j /\ OfLine(t[j], q, fam)
  <2>1. CASE j = Len(frags) + 1
    BY <1>1, <2>1
  <2>2. CASE j \in 1 .. Len(frags)
    BY <1>1, <2>2 DEF InOrder
  <2> QED
    BY <1>1, <2>1, <2>2
<1>3. Len(t) \in Nat /\ 1 \in 1 .. Len(frags)
  BY <1>1
<1> QED
  BY <1>0, <1>1, <1>2, <1>3 DEF InOrder

LEMMA FitsIsNext ==
  ASSUME NEW fam, NEW s, IsAisLine(s), s.count > 1, s.num > 1, OfLine(s.frag, s.seq, fam),
         NEW slot, Slot(slot, s.seq, fam), Fits(slot, s)
  PROVE  /\ DOMAIN slot = {"count", "frags"} /\ slot.count \in 2 .. MAX_MSG_FRAGMENTS
         /\ InOrder(Append(slot.frags, s.frag), s.seq, fam)
         /\ Len(Append(slot.frags, s.frag)) \in Nat \ {0}
         /\ Append(slot.frags, s.frag)[1].parts = slot.count
<1>1. /\ DOMAIN slot = {"count", "frags"} /\ slot.count \in 2 .. MAX_MSG_FRAGMENTS
      /\ InOrder(slot.frags, s.seq, fam) /\ Len(slot.frags) # 0 /\ slot.frags[1].parts = slot.count
  BY DEF Slot, Fits
<1>2. s.frag.part = Len(slot.frags) + 1
  <2>1. s.frag.part = s.num /\ s.num \in Nat
    BY DEF IsAisLine
  <2>2. Len(slot.frags) = s.num - 1
    BY DEF Fits
  <2> QED
    BY <2>1, <2>2
<1>3. Len(slot.frags) \in Nat
  BY <1>1 DEF InOrder
<1> QED
  BY <1>1, <1>2, <1>3, MoreInOrder

LEMMA slotAfterKeeps ==
  ASSUME NEW fam, NEW s, IsAisLine(s), usable(s), s.count > 1, OfLine(s.frag, s.seq, fam),
         NEW slot, Slot(slot, s.seq, fam)
  PROVE  Slot(slotAfter(slot, s), s.seq, fam)
<1>0. s.num \in Nat /\ s.num >= 1 /\ s.count \in 2 .. MAX_MSG_FRAGMENTS
  BY DEF usable, IsAisLine, MAX_MSG_FRAGMENTS
<1>1. CASE s.num = 1
  <2> DEFINE e == [count |-> s.count, frags |-> << s.frag >>]
  <2>1. slotAfter(slot, s) = e
    BY <1>1 DEF slotAfter
  <2>2. s.frag.part = 1 /\ s.frag.parts = s.count
    BY <1>0, <1>1 DEF IsAisLine
  <2>3. DOMAIN e = {"count", "frags"} /\ e.count = s.count /\ e.frags = << s.frag >>
    OBVIOUS
  <2> HIDE DEF e
  <2>4. Slot(e, s.seq, fam)
    BY <1>0, <2>2, <2>3, OneInOrder DEF Slot
  <2> QED
    BY <2>1, <2>4
<1>2. CASE s.num > 1 /\ Fits(slot, s) /\ ~isComplete(addFragment(slot, s))
  <2> DEFINE t == Append(slot.frags, s.frag)
             e == [slot EXCEPT !.frags = t]
  <2>1. slotAfter(slot, s) = e
    <3>1. slotAfter(slot, s) = addFragment(slot, s)
      BY <1>0, <1>2 DEF slotAfter
    <3> QED
      BY <3>1 DEF addFragment
  <2>2. /\ DOMAIN slot = {"count", "frags"} /\ slot.count \in 2 .. MAX_MSG_FRAGMENTS
        /\ InOrder(t, s.seq, fam) /\ Len(t) \in Nat \ {0} /\ t[1].parts = slot.count
    BY <1>2, FitsIsNext
  <2> HIDE DEF t
  <2>3. DOMAIN e = {"count", "frags"} /\ e.count = slot.count /\ e.frags = t
    BY <2>2
  <2> HIDE DEF e
  <2>4. Slot(e, s.seq, fam)
    BY <2>2, <2>3 DEF Slot
  <2> QED
    BY <2>1, <2>4
<1>3. CASE ~(s.num > 1 /\ Fits(slot, s) /\ ~isComplete(addFragment(slot, s))) /\ s.num # 1
  <2>1. slotAfter(slot, s) = Empty
    BY <1>3, Zenon DEF slotAfter
  <2> QED
    BY <2>1 DEF Slot
<1> QED
  BY <1>1, <1>2, <1>3

LEMMA slotsAfterKeeps ==
  ASSUME NEW fam, NEW s, IsAisLine(s), s.count > 1 => OfLine(s.frag, s.seq, fam), NEW slots, Slots(slots, fam)
  PROVE  Slots(slotsAfter(slots, s), fam)
<1> SUFFICES ASSUME usable(s), s.count # 1 PROVE Slots(slotsAfter(slots, s), fam)
  BY DEF slotsAfter
<1>1. s.count > 1 /\ s.seq \in 0 .. (MAX_MSG_SEQUENCE_IDS - 1)
  BY DEF usable, IsAisLine, MAX_MSG_SEQUENCE_IDS
<1>2. slotsAfter(slots, s) = [slots EXCEPT ![s.seq] = slotAfter(slots[s.seq], s)]
  BY DEF slotsAfter
<1>3. Slot(slotAfter(slots[s.seq], s), s.seq, fam)
  BY <1>1, slotAfterKeeps DEF Slots
<1> QED
  BY <1>1, <1>2, <1>3 DEF Slots

LEMMA decodedIsWhole ==
  ASSUME NEW fam, NEW s, IsAisLine(s), s.count > 1 => OfLine(s.frag, s.seq, fam), NEW slots, Slots(slots, fam),
         NEW frags, frags = decoded(slots, s), frags # << >>
  PROVE  IsWhole(frags, fam)
<1>1. usable(s)
  BY DEF decoded
<1>2. CASE s.count = 1
  <2>1. frags = << s.frag >>
    BY <1>1, <1>2 DEF decoded
  <2>2. frags[1] = s.frag /\ s.frag.parts = 1 /\ s.frag.part = 1
    BY <1>2, <2>1 DEF IsAisLine
  <2> QED
    BY <2>1, <2>2 DEF IsWhole
<1>3. CASE s.count # 1
  <2> DEFINE slot == slots[s.seq]
  <2>1. s.num > 1 /\ Fits(slot, s) /\ isComplete(addFragment(slot, s)) /\ frags = Append(slot.frags, s.frag)
    BY <1>1, <1>3, Zenon DEF decoded
  <2>2. s.count > 1 /\ s.seq \in 0 .. (MAX_MSG_SEQUENCE_IDS - 1) /\ Slot(slot, s.seq, fam)
    <3>1. s.count > 1 /\ s.seq \in 0 .. (MAX_MSG_SEQUENCE_IDS - 1)
      BY <1>1, <1>3 DEF usable, IsAisLine, MAX_MSG_SEQUENCE_IDS
    <3> QED
      BY <3>1 DEF Slots
  <2> HIDE DEF slot
  <2>3. /\ DOMAIN slot = {"count", "frags"} /\ slot.count \in 2 .. MAX_MSG_FRAGMENTS
        /\ InOrder(frags, s.seq, fam) /\ Len(frags) \in Nat \ {0} /\ frags[1].parts = slot.count
    BY <2>1, <2>2, FitsIsNext
  <2>4. Len(frags) = slot.count
    <3>1. /\ addFragment(slot, s) = [slot EXCEPT !.frags = frags]
          /\ [slot EXCEPT !.frags = frags].frags = frags /\ [slot EXCEPT !.frags = frags].count = slot.count
      BY <2>1, <2>3 DEF addFragment
    <3> QED
      BY <2>1, <3>1 DEF isComplete
  <2> QED
    BY <2>3, <2>4 DEF IsWhole
<1> QED
  BY <1>2, <1>3

(* What is sent for an AIS line is one message of whole fragments. *)
IsAis(e, fam) ==
  /\ e.what # "RMC" /\ "dest" \notin DOMAIN e.more /\ "frags" \in DOMAIN e.more
  /\ IsWhole(e.more.frags, fam)

LEMMA onTypeIsPgn == ASSUME NEW type, onType(type) # << >> PROVE onType(type)[1] # "RMC"
<1>1. onMobile(type) \in {<< >>, <<"129038">>, <<"129794">>, <<"129802">>}
  BY DEF onMobile
<1>2. onClassB(type) \in {<< >>, <<"129039">>, <<"129040">>, <<"129809">>, <<"129810">>}
  BY DEF onClassB
<1>3. <<"129038">>[1] # "RMC" /\ <<"129794">>[1] # "RMC" /\ <<"129802">>[1] # "RMC" /\ <<"129039">>[1] # "RMC"
      /\ <<"129040">>[1] # "RMC" /\ <<"129809">>[1] # "RMC" /\ <<"129810">>[1] # "RMC"
  OBVIOUS
<1>4. onType(type) = onMobile(type) \/ onType(type) = onClassB(type)
  BY DEF onType
<1> QED
  BY <1>1, <1>2, <1>3, <1>4

LEMMA convertAIVDXFollows ==
  ASSUME NEW c, NEW fam, NEW m \in fam, HasFields(m), m.key \in {"AIVDM", "AIVDO"}, IsAisLine(m.line),
         Ready(c), c.out = << >>, Slots(c.n2k.slots, fam), NEW d, d = convertAIVDX(c, m)
  PROVE  /\ Follows(c, d, m.src) /\ d.n2k.lastRmc = c.n2k.lastRmc
         /\ d.n2k.waypointMap = c.n2k.waypointMap /\ d.n2k.waypointId = c.n2k.waypointId
         /\ Slots(d.n2k.slots, fam)
         /\ \A k \in DOMAIN d.out : IsAis(d.out[k], fam)
<1> DEFINE frags == decoded(c.n2k.slots, m.line)
           slots == slotsAfter(c.n2k.slots, m.line)
           what == decodeMobileAisMsg(frags)[1]
           n == [c.n2k EXCEPT !.slots = slots]
           c1 == [c EXCEPT !.n2k = n]
           more == [frags |-> frags]
<1>1. \/ d = c1
      \/ frags # << >> /\ decodeMobileAisMsg(frags) # << >> /\ d = Emit(c1, what, m.src, {}, more)
  BY Zenon DEF convertAIVDX
<1>2. m.line.count > 1 => OfLine(m.line.frag, m.line.seq, fam)
  BY DEF OfLine
<1>3. Slots(slots, fam) /\ (frags # << >> => IsWhole(frags, fam))
  BY <1>2, slotsAfterKeeps, decodedIsWhole
<1>4. decodeMobileAisMsg(frags) # << >> => what # "RMC"
  <2>1. decodeMobileAisMsg(frags) # << >> => decodeMobileAisMsg(frags) = onType(frags[1].type)
    BY DEF decodeMobileAisMsg
  <2> HIDE DEF frags
  <2> QED
    BY <2>1, onTypeIsPgn
<1>5. DOMAIN more = {"frags"} /\ more.frags = frags
  OBVIOUS
<1> HIDE DEF frags, slots, what, more
<1>6. /\ DOMAIN n = DOMAIN c.n2k /\ n.lastSends = c.n2k.lastSends /\ n.waypointMap = c.n2k.waypointMap
      /\ n.waypointId = c.n2k.waypointId /\ n.lastRmc = c.n2k.lastRmc /\ n.slots = slots
  BY DEF Ready, IsContext
<1> HIDE DEF n
<1>7. Follows(c, c1, m.src) /\ c1.out = << >> /\ c1.n2k = n
  BY <1>6, N2kFollows DEF Ready
<1> HIDE DEF c1
<1>8. CASE d = c1
  BY <1>3, <1>6, <1>7, <1>8
<1>9. CASE frags # << >> /\ decodeMobileAisMsg(frags) # << >> /\ d = Emit(c1, what, m.src, {}, more)
  <2>1. Ready(c1)
    BY <1>7, ReadyFollows
  <2>2. Follows(c1, d, m.src)
    BY <1>5, <1>9, EmitFollows, ReadableNone
  <2>3. PICK e : Adds(c1, d, e) /\ e.what = what /\ e.more = more
    BY <1>9, <2>1, EmitAdds DEF Ready
  <2>4. IsAis(e, fam)
    BY <1>3, <1>4, <1>5, <1>9, <2>3 DEF IsAis
  <2>5. d.n2k = n /\ \A k \in DOMAIN d.out : d.out[k] = e
    BY <1>7, <2>3 DEF Adds
  <2>6. Follows(c, d, m.src)
    BY <1>7, <2>2, FollowsOn
  <2> QED
    BY <1>3, <1>6, <2>4, <2>5, <2>6
<1> QED
  BY <1>1, <1>8, <1>9
-----------------------------------------------------------------------------
(* All lines. *)
ownLines == {"RMB", "RMC", "AIVDM", "AIVDO"}

LEMMA n183ConverterEvolves ==
  ASSUME NEW c, NEW m, IsMessage(m), m.key \in n183Keys \ ownLines
  PROVE  Evolves(c, n183Converter(c, m), m.src)
<1>1. HasFields(m)
  BY DEF IsMessage
<1>2. m.key \in {"DBK", "DBS", "DBT"} => m.depth \in Int /\ m.units \in Seq(STRING)
  BY DEF IsMessage
<1>3. m.key = "GSV" => m.sats \in Seq(Int)
  BY DEF IsMessage
<1>4. m.key = "XDR" => \E n \in Nat : DOMAIN m.transducers = 1 .. n /\ \A k \in 1 .. n : m.transducers[k].value \in Int
  <2> SUFFICES ASSUME m.key = "XDR"
               PROVE  \E n \in Nat : DOMAIN m.transducers = 1 .. n /\ \A k \in 1 .. n : m.transducers[k].value \in Int
    OBVIOUS
  <2>1. /\ m.transducers \in Seq({m.transducers[k] : k \in DOMAIN m.transducers})
        /\ \A k \in DOMAIN m.transducers : m.transducers[k].value \in Int
    BY DEF IsMessage
  <2>2. Len(m.transducers) \in Nat /\ DOMAIN m.transducers = 1 .. Len(m.transducers)
    BY <2>1
  <2> QED
    BY <2>1, <2>2
<1>a. CASE m.key \in {"MWV", "MWD", "VWR", "HDM", "HDT", "HDG"}
  BY <1>1, <1>a, convertMWVEvolves, convertMWDEvolves, convertVWREvolves, convertHDMEvolves, convertHDTEvolves,
     convertHDGEvolves DEF n183Converter
<1>b. CASE m.key \in {"DPT", "DBK", "DBS", "DBT", "RSA", "VHW"}
  BY <1>1, <1>2, <1>b, convertDPTEvolves, convertDBKEvolves, convertDBTEvolves, convertRSAEvolves,
     convertVHWEvolves DEF n183Converter
<1>c. CASE m.key \in {"VTG", "ZDA", "GGA", "GSA", "GSV", "GLL"}
  BY <1>1, <1>3, <1>c, convertVTGEvolves, convertZDAEvolves, convertGGAEvolves, convertGSAEvolves,
     convertGSVEvolves, convertGLLEvolves DEF n183Converter
<1>d. CASE m.key \in {"ROT", "XTE", "MTW", "XDR"}
  BY <1>1, <1>4, <1>d, convertROTEvolves, convertXTEEvolves, convertMTWEvolves, convertXDREvolves DEF n183Converter
<1> QED
  BY <1>a, <1>b, <1>c, <1>d DEF n183Keys, ownLines

(* What a line leads to: nothing but a leg tells of waypoints, nothing but *)
(* an AIS message of fragments, and the gateway's RMC is not sent for it.  *)
LineSends(e, fam) == e.what # "RMC" /\ ("frags" \in DOMAIN e.more => IsWhole(e.more.frags, fam))

LineStep(c, m, d, fam) ==
  /\ Follows(c, d, m.src)
  /\ Slots(d.n2k.slots, fam) /\ Waypoints(d.n2k.waypointMap, d.n2k.waypointId)
  /\ \A k \in DOMAIN d.out : LineSends(d.out[k], fam)
  /\ d.n2k.lastRmc = IF m.key = "RMC" /\ m.status = "A" THEN c.now ELSE c.n2k.lastRmc
  /\ IF m.key = "RMB" THEN RMBSends(c.n2k.waypointMap, d, m, c.now)
     ELSE /\ d.n2k.waypointMap = c.n2k.waypointMap
          /\ \A k \in DOMAIN d.out : "dest" \notin DOMAIN d.out[k].more

LEMMA PlainLine ==
  ASSUME NEW c, c.out = << >>, NEW d, SendsPlain(c, d), NEW fam
  PROVE  \A k \in DOMAIN d.out : LineSends(d.out[k], fam) /\ "dest" \notin DOMAIN d.out[k].more
BY DEF SendsPlain, Plain, LineSends

LEMMA ConvertLineSteps ==
  ASSUME NEW c, Ready(c), c.out = << >>, NEW fam, NEW m \in fam, IsMessage(m),
         Slots(c.n2k.slots, fam), Waypoints(c.n2k.waypointMap, c.n2k.waypointId),
         NEW d, d = ConvertLine(c, m)
  PROVE  LineStep(c, m, d, fam)
<1>0. HasFields(m)
  BY DEF IsMessage
<1>1. CASE m.key \notin ownLines
  <2>1. Evolves(c, d, m.src)
    <3>1. d = IF m.key \in n183Keys THEN n183Converter(c, m) ELSE c
      BY DEF ConvertLine, handleMessage
    <3> QED
      BY <1>1, <3>1, n183ConverterEvolves, EvolvesSelf
  <2>2. Follows(c, d, m.src) /\ SendsPlain(c, d) /\ SameRest(c, d)
    BY <2>1 DEF Evolves
  <2>3. m.key # "RMB" /\ m.key # "RMC"
    BY <1>1 DEF ownLines
  <2>4. \A k \in DOMAIN d.out : LineSends(d.out[k], fam) /\ "dest" \notin DOMAIN d.out[k].more
    BY <2>2, PlainLine
  <2> QED
    BY <2>2, <2>3, <2>4 DEF LineStep, SameRest
<1>2. CASE m.key = "RMC"
  <2>1. d = convertRMC(c, m)
    BY <1>2 DEF ConvertLine, handleMessage, n183Keys, n183Converter
  <2>2. /\ Follows(c, d, m.src) /\ SendsPlain(c, d)
        /\ d.n2k.waypointMap = c.n2k.waypointMap /\ d.n2k.waypointId = c.n2k.waypointId
        /\ d.n2k.slots = c.n2k.slots
        /\ d.n2k.lastRmc = IF m.status = "A" THEN c.now ELSE c.n2k.lastRmc
    BY <1>0, <2>1, convertRMCFollows
  <2>3. \A k \in DOMAIN d.out : LineSends(d.out[k], fam) /\ "dest" \notin DOMAIN d.out[k].more
    BY <2>2, PlainLine
  <2> QED
    BY <1>2, <2>2, <2>3 DEF LineStep
<1>3. CASE m.key = "RMB"
  <2>1. d = convertRMB(c, m)
    BY <1>3 DEF ConvertLine, handleMessage, n183Keys, n183Converter
  <2>2. m.dest.rank \in Int /\ m.orig.rank \in Int
    BY <1>3 DEF IsMessage
  <2>3. /\ Follows(c, d, m.src) /\ d.n2k.lastRmc = c.n2k.lastRmc /\ d.n2k.slots = c.n2k.slots
        /\ RMBSends(c.n2k.waypointMap, d, m, c.now)
    BY <1>0, <2>1, <2>2, convertRMBFollows
  <2>4. Waypoints(d.n2k.waypointMap, d.n2k.waypointId)
    BY <2>3 DEF RMBSends, IsUsed
  <2>5. \A k \in DOMAIN d.out : LineSends(d.out[k], fam)
    BY <2>3 DEF RMBSends, Plain, IsLeg, LineSends
  <2> QED
    BY <1>3, <2>3, <2>4, <2>5 DEF LineStep
<1>4. CASE m.key \in {"AIVDM", "AIVDO"}
  <2>1. d = convertAIVDX(c, m)
    BY <1>4 DEF ConvertLine, handleMessage, n183Keys, n183Converter
  <2>2. IsAisLine(m.line)
    BY <1>4 DEF IsMessage
  <2>3. /\ Follows(c, d, m.src) /\ d.n2k.lastRmc = c.n2k.lastRmc
        /\ d.n2k.waypointMap = c.n2k.waypointMap /\ d.n2k.waypointId = c.n2k.waypointId
        /\ Slots(d.n2k.slots, fam)
        /\ \A k \in DOMAIN d.out : IsAis(d.out[k], fam)
    BY <1>0, <1>4, <2>1, <2>2, convertAIVDXFollows
  <2>4. \A k \in DOMAIN d.out : LineSends(d.out[k], fam) /\ "dest" \notin DOMAIN d.out[k].more
    BY <2>3 DEF IsAis, LineSends
  <2>5. m.key # "RMB" /\ m.key # "RMC"
    BY <1>4
  <2> QED
    BY <2>3, <2>4, <2>5 DEF LineStep
<1> QED
  BY <1>1, <1>2, <1>3, <1>4 DEF ownLines

(* The RMC of the gateway tells nothing else. *)
LEMMA SendRMCSends ==
  ASSUME NEW c, Ready(c), c.out = << >>
  PROVE  \A k \in DOMAIN SendRMC(c).out : SendRMC(c).out[k].more = NoMore
<1>0. IsContext(c) /\ IsContext([c EXCEPT !.n183.lastRmcSent = c.now]) /\ [c EXCEPT !.n183.lastRmcSent = c.now].out = c.out
  <2>1. PICK n : n = [c.n183 EXCEPT !.lastRmcSent = c.now]
    OBVIOUS
  <2>2. DOMAIN n = DOMAIN c.n183
    BY <2>1
  <2>3. [c EXCEPT !.n183.lastRmcSent = c.now] = [c EXCEPT !.n183 = n]
    BY <2>1
  <2>4. /\ DOMAIN [c EXCEPT !.n183 = n] = DOMAIN c /\ [c EXCEPT !.n183 = n].n183 = n
        /\ [c EXCEPT !.n183 = n].now = c.now /\ [c EXCEPT !.n183 = n].bd = c.bd
        /\ [c EXCEPT !.n183 = n].n2k = c.n2k /\ [c EXCEPT !.n183 = n].out = c.out
    BY DEF Ready, IsContext
  <2>5. PICK e : e = [c EXCEPT !.n183 = n]
    OBVIOUS
  <2>6. IsContext(e)
    BY <2>2, <2>4, <2>5 DEF Ready, IsContext
  <2> QED
    BY <2>3, <2>4, <2>5, <2>6 DEF Ready
<1>1. PICK d, reads : IsContext(d) /\ d.out = << >> /\ (SendRMC(c) = c \/ SendRMC(c) = SendMessage(d, "RMC", reads))
  BY <1>0, Zenon DEF SendRMC
<1>2. PICK e : Adds(d, SendMessage(d, "RMC", reads), e) /\ e.more = NoMore
  BY <1>1, EmitAdds DEF SendMessage
<1>3. \A k \in DOMAIN SendMessage(d, "RMC", reads).out : SendMessage(d, "RMC", reads).out[k].more = NoMore
  BY <1>1, <1>2 DEF Adds
<1> QED
  BY <1>1, <1>3
-----------------------------------------------------------------------------
(* The steps of the specification.  What all of them do, but for the list  *)
(* of satellites that is cleaned and for time that passes, is to leave a   *)
(* context d that follows from the one before.                             *)
LEMMA SameIsReady ==
  ASSUME NEW d, Ready(d), NEW e, DOMAIN e = {"now", "bd", "unknown", "n183", "n2k", "out", "memory"},
         e.now \in 0 .. (Wrap - 1), e.bd = d.bd, e.unknown = d.unknown, e.n183 = d.n183, e.n2k = d.n2k, e.out = << >>
  PROVE  Ready(e)
<1>1. IsSeq(e.out)
  BY EmptyIsSeq
<1>2. IsContext(e)
  BY <1>1 DEF Ready, IsContext
<1>3. Typed(e)
  BY DEF Ready, Typed
<1> QED
  BY <1>2, <1>3 DEF Ready

LEMMA ContextFields ==
  ASSUME NEW memory
  PROVE  /\ DOMAIN Context(memory) = {"now", "bd", "unknown", "n183", "n2k", "out", "memory"}
         /\ Context(memory).now = now /\ Context(memory).bd = bd /\ Context(memory).unknown = unknown
         /\ Context(memory).n183 = n183 /\ Context(memory).n2k = n2k /\ Context(memory).out = << >>
BY DEF Context

LEMMA AnyMemory == ASSUME Ready(Context(NA)), NEW memory PROVE Ready(Context(memory))
<1>1. Context(NA).now \in 0 .. (Wrap - 1)
  BY DEF Ready, IsContext
<1> QED
  BY <1>1, ContextFields, SameIsReady

LEMMA BecomesReady ==
  ASSUME NEW d, Ready(d), d.now = now, Becomes(d) PROVE Ready(Context(NA))'
<1>0. PICK e : e = Context(NA)'
  OBVIOUS
<1>1. /\ DOMAIN e = {"now", "bd", "unknown", "n183", "n2k", "out", "memory"}
      /\ e.now = now' /\ e.bd = bd' /\ e.unknown = unknown' /\ e.n183 = n183' /\ e.n2k = n2k' /\ e.out = << >>
  BY <1>0 DEF Context
<1>2. e.now \in 0 .. (Wrap - 1)
  BY <1>1 DEF Becomes, Ready, IsContext
<1>3. Ready(e)
  BY <1>1, <1>2, SameIsReady DEF Becomes
<1> QED
  BY <1>0, <1>3

Taken(d, s) ==
  /\ Becomes(d) /\ Ready(d) /\ d.now = now
  /\ StoreFollows(Context(NA), d, s)
  /\ now # 0 => Fresh(d)
  /\ now + config.min2KInterval < Wrap => Throttle(d, n2k.lastSends)
  /\ ~n183.xdrOpened =>
       ~d.n183.xdrOpened /\ (XdrIntervalFits(now) => XdrPlaced(d, n183.lastSendTransducers))

(* Before a step that begins without a line no transducer is at a place. *)
LEMMA NothingPlaced ==
  ASSUME NEW c, c.out = << >>, ~c.n183.xdrOpened PROVE XdrPlaced(c, c.n183.lastSendTransducers)
<1>1. PICK sent, xs, notes : sent = << >> /\ xs = << >> /\ notes = c.n183.lastSendTransducers
  OBVIOUS
<1>2. DOMAIN sent = {} /\ DOMAIN xs = {}
  BY <1>1
<1>3. \A k, j, t : ~Holds(sent, xs, k, j, t)
  BY <1>2 DEF Holds, Telling
<1>4. Places(sent, xs, notes, c.now, notes)
  BY <1>3 DEF Places
<1> QED
  BY <1>1, <1>4 DEF XdrPlaced, Pending

LEMMA FollowsIsTaken ==
  ASSUME NEW memory, Ready(Context(memory)), NEW d, NEW s, Follows(Context(memory), d, s), Becomes(d)
  PROVE  Taken(d, s)
<1>0. PICK c : c = Context(memory)
  OBVIOUS
<1>1. /\ c.now = now /\ c.bd = bd /\ c.n2k = n2k /\ c.n183 = n183 /\ c.out = << >>
      /\ Ready(c) /\ Follows(c, d, s)
  BY <1>0, ContextFields
<1>2. /\ IsContext(d) /\ d.now = c.now
      /\ StoreFollows(c, d, s) /\ KeepsFresh(c, d) /\ KeepsThrottle(c, d)
  BY <1>1 DEF Follows, Leads
<1>3. Ready(d)
  BY <1>1, ReadyFollows
<1>4. StoreFollows(Context(NA), d, s)
  BY <1>1, <1>2, ContextFields DEF StoreFollows
<1>5. now # 0 => Fresh(d)
  BY <1>1, <1>2 DEF KeepsFresh, Fresh
<1>6. Throttle(c, n2k.lastSends)
  <2>1. Telling(c.out, "key") = {} /\ keysOf(c.out) = {}
    BY <1>1 DEF Telling, keysOf
  <2> QED
    BY <1>1, <2>1 DEF Throttle
<1>7. now + config.min2KInterval < Wrap => Throttle(d, n2k.lastSends)
  BY <1>1, <1>2, <1>6 DEF KeepsThrottle
<1>8. ASSUME ~n183.xdrOpened
      PROVE  ~d.n183.xdrOpened /\ (XdrIntervalFits(now) => XdrPlaced(d, n183.lastSendTransducers))
  <2>1. KeepsXdr(c, d)
    BY <1>1 DEF Follows
  <2>2. XdrPlaced(c, n183.lastSendTransducers)
    BY <1>1, <1>8, NothingPlaced
  <2> QED
    BY <1>1, <1>8, <2>1, <2>2 DEF KeepsXdr, KeepsPlaces
<1> QED
  BY <1>1, <1>2, <1>3, <1>4, <1>5, <1>7, <1>8 DEF Taken

(* A message of the bus: nothing of what the other converter sends.        *)
LEMMA HandleMsgIs ==
  ASSUME Ready(Context(NA)), NEW m, IsMessage(m), HandleMsg(m)
  PROVE  \E d : /\ Taken(d, m.src) /\ d.n2k = n2k /\ \A k \in DOMAIN d.out : Plain(d.out[k])
<1>1. PICK memory \in Memory : Becomes(HandleN2k(Context(memory), m))
  BY DEF HandleMsg
<1>2. PICK c, d : c = Context(memory) /\ d = HandleN2k(c, m)
  OBVIOUS
<1>3. Ready(c) /\ c.n2k = n2k /\ c.out = << >>
  BY <1>2, AnyMemory, ContextFields
<1>4. Converts(c, d, m.src)
  BY <1>2, HandleN2kConverts
<1>5. Taken(d, m.src)
  BY <1>1, <1>2, <1>3, <1>4, FollowsIsTaken DEF Converts, Evolves
<1>6. d.n2k = n2k /\ SendsPlain(c, d)
  BY <1>3, <1>4 DEF Converts, Evolves
<1> QED
  BY <1>3, <1>5, <1>6 DEF SendsPlain

LEMMA parseAndSendIs ==
  ASSUME Ready(Context(NA)), NEW m \in family, IsMessage(m), parseAndSend(m),
         Slots(n2k.slots, family), Waypoints(n2k.waypointMap, n2k.waypointId)
  PROVE  \E d : Taken(d, m.src) /\ LineStep(Context(NA), m, d, family)
<1>1. PICK c, d : c = Context(NA) /\ d = ConvertLine(c, m)
  OBVIOUS
<1>2. Ready(c) /\ c.n2k = n2k /\ c.out = << >> /\ Becomes(d)
  BY <1>1, ContextFields DEF parseAndSend
<1>3. LineStep(c, m, d, family)
  BY <1>1, <1>2, ConvertLineSteps
<1>4. Taken(d, m.src)
  BY <1>1, <1>2, <1>3, FollowsIsTaken DEF LineStep
<1> QED
  BY <1>1, <1>3, <1>4

LEMMA loopIs ==
  ASSUME Ready(Context(NA)), loop
  PROVE  \E d : Taken(d, 0) /\ d.n2k = n2k /\ \A k \in DOMAIN d.out : d.out[k].more = NoMore
<1>1. PICK c, d : c = Context(NA) /\ d = SendRMC(c)
  OBVIOUS
<1>2. Ready(c) /\ c.n2k = n2k /\ c.out = << >>
  BY <1>1, ContextFields
<1>3. Becomes(d)
  <2>1. loopRmc(c, n2k.lastRmc) = d
    BY <1>1 DEF loop, loopRmc
  <2> QED
    BY <1>1, <2>1 DEF loop
<1>4. Follows(c, d, 0) /\ d.n2k = n2k
  BY <1>1, <1>2, SendRMCFollows
<1>5. \A k \in DOMAIN d.out : d.out[k].more = NoMore
  BY <1>1, <1>2, SendRMCSends
<1>6. Taken(d, 0)
  BY <1>1, <1>2, <1>3, <1>4, FollowsIsTaken
<1> QED
  BY <1>4, <1>5, <1>6

(* The list is shown: only old entries of it are removed.                  *)
LEMMA BoatDataRequestIs ==
  ASSUME Ready(Context(NA)), BoatDataRequest
  PROVE  /\ Ready(Context(NA))' /\ n2k' = n2k /\ out' = << >> /\ now' = now /\ family' = family /\ ticks' = ticks
         /\ \A i \in Item : /\ bd'[i].lastSet = bd[i].lastSet /\ bd'[i].src = bd[i].src
                            /\ i # "SatInfo" => bd'[i] = bd[i]
<1> DEFINE list == houseKeeping(bd["SatInfo"].data, now)
           store == [bd EXCEPT !["SatInfo"].data = list]
           d == [Context(NA) EXCEPT !.bd = store]
<1>1. Becomes(d)
  <2>1. [Context(NA) EXCEPT !.bd = toJson(@, now)] = [Context(NA) EXCEPT !.bd = toJson(bd, now)]
    BY ContextFields
  <2> QED
    BY <2>1 DEF BoatDataRequest, toJson
<1>2. /\ DOMAIN bd = Item /\ \A i \in Item : Entry(bd[i])
      /\ \A i \in Item \ {"SatInfo"} : bd[i].data \in Int
      /\ SatList(bd["SatInfo"].data) /\ now \in 0 .. (Wrap - 1)
  BY ContextFields DEF Ready, IsContext, Typed
<1>3. SatList(list)
  BY <1>2, houseKeepingKeeps
<1>4. "SatInfo" \in Item
  BY DEF Item, Fixed
<1> HIDE DEF list
<1>5. /\ DOMAIN store = Item
      /\ \A i \in Item : i # "SatInfo" => store[i] = bd[i]
      /\ store["SatInfo"].data = list
      /\ store["SatInfo"].lastSet = bd["SatInfo"].lastSet /\ store["SatInfo"].src = bd["SatInfo"].src
      /\ DOMAIN store["SatInfo"] = DOMAIN bd["SatInfo"]
  BY <1>2, <1>4 DEF Entry
<1> HIDE DEF store
<1>6. /\ DOMAIN d = {"now", "bd", "unknown", "n183", "n2k", "out", "memory"}
      /\ d.now = now /\ d.bd = store /\ d.unknown = unknown /\ d.n183 = n183 /\ d.n2k = n2k /\ d.out = << >>
  BY ContextFields
<1> HIDE DEF d
<1>7. \A i \in Item : Entry(store[i])
  BY <1>2, <1>5 DEF Entry
<1>8. Ready(d)
  <2>1. IsSeq(d.out)
    BY <1>6, EmptyIsSeq
  <2>2. IsContext(d)
    BY <1>2, <1>5, <1>6, <1>7, <2>1, ContextFields DEF IsContext, Ready
  <2>3. Typed(d)
    BY <1>2, <1>3, <1>5, <1>6, ContextFields DEF Typed, Ready
  <2> QED
    BY <2>2, <2>3 DEF Ready
<1>9. Ready(Context(NA))'
  BY <1>1, <1>6, <1>8, BecomesReady
<1> QED
  BY <1>1, <1>5, <1>6, <1>9 DEF Becomes
-----------------------------------------------------------------------------
(* The inductive invariant of the members: the store and the members are   *)
(* of their types, the slots of the AIS decoder hold what the lines can    *)
(* have left in them, the ids of the waypoints are given one by one, and   *)
(* what was sent of an AIS message is whole.                               *)
WholeSent == \A k \in DOMAIN out : "frags" \in DOMAIN out[k].more => IsWhole(out[k].more.frags, family)
MembersInv ==
  /\ Ready(Context(NA))
  /\ family \in Families /\ msgs \in 0 .. MaxMsgs /\ ticks \in 0 .. MaxTicks
  /\ Slots(n2k.slots, family) /\ Waypoints(n2k.waypointMap, n2k.waypointId)
  /\ WholeSent

LEMMA FamilyMessages == ASSUME MembersInv, NEW m \in family PROVE IsMessage(m)
BY ConversionAssumption DEF MembersInv

LEMMA BeginIsStore ==
  /\ DOMAIN begin = Item /\ \A i \in Item : Entry(begin[i]) /\ begin[i].lastSet = 0 /\ begin[i].src = NoSource
  /\ \A i \in Item \ {"SatInfo"} : begin[i].data \in Int
  /\ SatList(begin["SatInfo"].data)
<1>1. 0 \in 0 .. (Wrap - 1) /\ NoSource \in Int
  BY BoatDataAssumption DEF NoSource
<1>2. "SatInfo" \in Item
  BY DEF Item, Fixed
<1>3. begin["SatInfo"].data = << >>
  BY <1>2 DEF begin
<1>4. SatList(begin["SatInfo"].data)
  BY <1>3, EmptySatList
<1> QED
  BY <1>1, <1>4 DEF begin, Entry

LEMMA MembersAtStart == ASSUME XdrNamesDiffer, Init PROVE MembersInv
<1>1. PICK c : c = Context(NA)
  OBVIOUS
<1>2. /\ DOMAIN c = {"now", "bd", "unknown", "n183", "n2k", "out", "memory"}
      /\ c.now = Start /\ c.bd = begin /\ c.unknown = {} /\ c.n183 = initN183 /\ c.n2k = initN2k(Start) /\ c.out = << >>
  BY <1>1, ContextFields DEF Init
<1>3. /\ DOMAIN initN2k(Start) = {"lastSends", "waypointMap", "waypointId", "lastRmc", "slots"}
      /\ initN2k(Start).lastSends = NoMore /\ initN2k(Start).waypointMap = NoMore
      /\ initN2k(Start).waypointId = 1 /\ initN2k(Start).slots = NoMultiSentences
  BY DEF initN2k
<1>4. IsSeq(c.out) /\ IsSeq(initN183.xdrMessage) /\ Len(initN183.xdrMessage) = 0
  BY <1>2, EmptyIsSeq DEF initN183
<1>5. IsContext(c)
  <2>1. Start \in 0 .. (Wrap - 1)
    BY ConversionAssumption, BoatDataAssumption
  <2>2. DOMAIN initN183 = {"sourceId", "lastSendTransducers", "xdrOpened", "xdrMessage", "lastRmcSent",
                           "vships", "endless"}
    BY DEF initN183
  <2> QED
    BY <1>2, <1>3, <1>4, <2>1, <2>2, BeginIsStore, NoMoreIsNone DEF IsContext
<1>6. Typed(c)
  <2>1. IsFiniteSet({}) /\ Cardinality({}) <= MaxUnknown
    BY FS_EmptySet, XdrAssumption
  <2>2. initN183.endless \in BOOLEAN /\ initN183.xdrOpened \in BOOLEAN /\ 0 <= XdrRoom
    BY N2kConverterAssumption DEF initN183
  <2> QED
    BY <1>2, <1>4, <2>1, <2>2, BeginIsStore DEF Typed
<1>7. Slots(initN2k(Start).slots, family)
  BY <1>3 DEF Slots, Slot, NoMultiSentences
<1>8. Waypoints(initN2k(Start).waypointMap, initN2k(Start).waypointId)
  BY <1>3, NoMoreIsNone, FS_EmptySet, N183ConverterAssumption DEF Waypoints
<1>9. family \in Families /\ msgs \in 0 .. MaxMsgs /\ ticks \in 0 .. MaxTicks /\ out = << >> /\ n2k = initN2k(Start)
  BY ConversionAssumption DEF Init
<1>10. WholeSent
  BY <1>9 DEF WholeSent
<1> QED
  BY <1>1, <1>5, <1>6, <1>7, <1>8, <1>9, <1>10 DEF MembersInv, Ready

LEMMA TakenKeeps ==
  ASSUME NEW d, NEW s, Taken(d, s)
  PROVE  Ready(Context(NA))' /\ n2k' = d.n2k /\ out' = d.out /\ now' = now /\ family' = family /\ ticks' = ticks
BY BecomesReady DEF Taken, Becomes

LEMMA MembersNext == ASSUME MembersInv, [Next]_vars PROVE MembersInv'
<1> USE DEF MembersInv
<1>1. ASSUME NEW m \in family, HandleMsg(m) PROVE MembersInv'
  <2>1. PICK d : Taken(d, m.src) /\ d.n2k = n2k /\ \A k \in DOMAIN d.out : Plain(d.out[k])
    BY <1>1, FamilyMessages, HandleMsgIs
  <2>2. Ready(Context(NA))' /\ n2k' = n2k /\ out' = d.out /\ family' = family /\ ticks' = ticks
    BY <2>1, TakenKeeps
  <2>3. WholeSent'
    BY <2>1, <2>2 DEF WholeSent, Plain
  <2>4. msgs' \in 0 .. MaxMsgs
    BY <1>1, ConversionAssumption DEF HandleMsg
  <2> QED
    BY <2>2, <2>3, <2>4
<1>2. ASSUME NEW m \in family, parseAndSend(m) PROVE MembersInv'
  <2>1. PICK d : Taken(d, m.src) /\ LineStep(Context(NA), m, d, family)
    BY <1>2, FamilyMessages, parseAndSendIs
  <2>2. Ready(Context(NA))' /\ n2k' = d.n2k /\ out' = d.out /\ family' = family /\ ticks' = ticks
    BY <2>1, TakenKeeps
  <2>3. /\ Slots(n2k'.slots, family') /\ Waypoints(n2k'.waypointMap, n2k'.waypointId)
        /\ \A k \in DOMAIN out' : LineSends(out'[k], family')
    BY <2>1, <2>2 DEF LineStep
  <2>4. WholeSent'
    BY <2>3 DEF WholeSent, LineSends
  <2>5. msgs' \in 0 .. MaxMsgs
    BY <1>2, ConversionAssumption DEF parseAndSend
  <2> QED
    BY <2>2, <2>3, <2>4, <2>5
<1>3. CASE loop
  <2>1. PICK d : Taken(d, 0) /\ d.n2k = n2k /\ \A k \in DOMAIN d.out : d.out[k].more = NoMore
    BY <1>3, loopIs
  <2>2. Ready(Context(NA))' /\ n2k' = n2k /\ out' = d.out /\ family' = family /\ ticks' = ticks
    BY <2>1, TakenKeeps
  <2>3. WholeSent'
    BY <2>1, <2>2, NoMoreIsNone DEF WholeSent
  <2>4. msgs' = msgs
    BY <1>3 DEF loop
  <2> QED
    BY <2>2, <2>3, <2>4
<1>4. CASE BoatDataRequest
  <2>1. /\ Ready(Context(NA))' /\ n2k' = n2k /\ out' = << >> /\ family' = family /\ ticks' = ticks
        /\ msgs' = msgs
    BY <1>4, BoatDataRequestIs DEF BoatDataRequest
  <2>2. WholeSent'
    BY <2>1 DEF WholeSent
  <2> QED
    BY <2>1, <2>2
<1>5. ASSUME NEW d \in Steps, Tick(d) PROVE MembersInv'
  <2>0. PICK c, e : c = Context(NA) /\ e = Context(NA)'
    OBVIOUS
  <2>1. /\ c.now = now /\ c.bd = bd /\ c.unknown = unknown /\ c.n183 = n183 /\ c.n2k = n2k /\ Ready(c)
    BY <2>0, ContextFields
  <2>2. /\ DOMAIN e = {"now", "bd", "unknown", "n183", "n2k", "out", "memory"} /\ e.now = now'
        /\ e.bd = c.bd /\ e.unknown = c.unknown /\ e.n183 = c.n183 /\ e.n2k = c.n2k /\ e.out = << >>
    BY <1>5, <2>0, <2>1 DEF Context, Tick
  <2>3. now' \in 0 .. (Wrap - 1)
    <3>1. now' = (now + d) % Wrap /\ now \in Nat /\ d \in Nat /\ Wrap \in Nat \ {0}
      BY <1>5, <2>1, ConversionAssumption, BoatDataAssumption DEF Tick, Plus, Ready, IsContext
    <3> QED
      BY <3>1
  <2>4. Ready(e)
    BY <2>1, <2>2, <2>3, SameIsReady
  <2>5. n2k' = n2k /\ out' = << >> /\ family' = family /\ msgs' = msgs /\ ticks' \in 0 .. MaxTicks
    BY <1>5, ConversionAssumption DEF Tick
  <2>6. WholeSent'
    BY <2>5 DEF WholeSent
  <2> QED
    BY <2>0, <2>4, <2>5, <2>6
<1>6. CASE UNCHANGED vars
  BY <1>6 DEF vars, Context, WholeSent
<1> QED
  BY <1>1, <1>2, <1>3, <1>4, <1>5, <1>6 DEF Next
-----------------------------------------------------------------------------
(* What the invariant says of the state. *)
LEMMA StoreIsStore == ASSUME MembersInv PROVE TypeOK
<1>1. /\ DOMAIN bd = Item /\ \A i \in Item : Entry(bd[i])
      /\ \A i \in Item \ {"SatInfo"} : bd[i].data \in Int
      /\ SatList(bd["SatInfo"].data) /\ now \in 0 .. (Wrap - 1)
      /\ Cardinality(unknown) <= MaxUnknown /\ n183.endless \in BOOLEAN /\ n183.xdrOpened \in BOOLEAN
      /\ Len(n183.xdrMessage) <= XdrRoom
      /\ \A k \in DOMAIN n2k.lastSends : n2k.lastSends[k] \in 0 .. (Wrap - 1)
  BY ContextFields DEF MembersInv, Ready, IsContext, Typed
<1>2. IsStore(bd)
  BY <1>1 DEF IsStore, Entry, SatList
<1>3. n2k.waypointId \in 0 .. 255
  <2>1. Cardinality(DOMAIN n2k.waypointMap) \in Nat
    BY FS_CardinalityType DEF MembersInv, Waypoints
  <2> QED
    BY <2>1, N183ConverterAssumption DEF MembersInv, Waypoints
<1> QED
  BY <1>1, <1>2, <1>3 DEF MembersInv, TypeOK, Slots

(* The fragments that one channel tells with one sequence id are those of  *)
(* one ship.                                                               *)
AisLinesOf(fam, seq, by) ==
  {m \in fam : m.key \in {"AIVDM", "AIVDO"} /\ m.line.count > 1 /\ m.line.seq = seq /\ m.line.frag.by = by}
OneShipPerId(fam) ==
  \A seq, by : \A m, o \in AisLinesOf(fam, seq, by) : m.line.frag.ship = o.line.frag.ship

LEMMA OneOfAll ==
  ASSUME NEW n \in Nat, n # 0, NEW f, Cardinality({f[j] : j \in 1 .. n}) = 1
  PROVE  \A i, j \in 1 .. n : f[i] = f[j]
<1> DEFINE T == {f[j] : j \in 1 .. n}
           g == [j \in 1 .. n |-> f[j]]
<1>1. g \in Surjection(1 .. n, T)
  BY DEF Surjection
<1>2. IsFiniteSet(1 .. n)
  <2>1. 1 \in Int /\ n \in Int
    OBVIOUS
  <2> QED
    BY ONLY <2>1, FS_Interval
<1>3. IsFiniteSet(T)
  <2> HIDE DEF T, g
  <2> QED
    BY <1>1, <1>2, FS_Surjection
<1>4. PICK x : T = {x}
  <2>1. Cardinality(T) = 1
    OBVIOUS
  <2> HIDE DEF T
  <2> QED
    BY <1>3, <2>1, FS_Singleton
<1> QED
  BY <1>4

LEMMA AllIsOne ==
  ASSUME NEW n \in Nat, n # 0, NEW f, \A j \in 1 .. n : f[j] = f[1]
  PROVE  Cardinality({f[j] : j \in 1 .. n}) = 1
<1>1. {f[j] : j \in 1 .. n} = {f[1]}
  OBVIOUS
<1> QED
  BY <1>1, FS_Singleton

LEMMA WholeIsOfOneShip ==
  ASSUME NEW fam, OneShipPerId(fam), NEW frags, IsWhole(frags, fam)
  PROVE  /\ Len(frags) = frags[1].parts /\ \A j \in DOMAIN frags : frags[j].part = j
         /\ Cardinality({frags[j].by : j \in DOMAIN frags}) = 1 =>
              Cardinality({frags[j].ship : j \in DOMAIN frags}) = 1
<1>1. CASE frags = << frags[1] >> /\ frags[1].parts = 1 /\ frags[1].part = 1
  <2>0. PICK x : x = frags[1]
    OBVIOUS
  <2>1. Len(<< x >>) = 1 /\ DOMAIN << x >> = {1} /\ << x >>[1] = x
    OBVIOUS
  <2>2. Len(frags) = 1 /\ DOMAIN frags = {1}
    BY <1>1, <2>0, <2>1
  <2>3. {frags[j].ship : j \in DOMAIN frags} = {frags[1].ship}
    BY <2>2
  <2> QED
    BY <1>1, <2>2, <2>3, FS_Singleton
<1>2. CASE \E q : InOrder(frags, q, fam) /\ Len(frags) # 0 /\ Len(frags) = frags[1].parts
  <2>1. PICK q : InOrder(frags, q, fam) /\ Len(frags) # 0 /\ Len(frags) = frags[1].parts
    BY <1>2
  <2>2. /\ Len(frags) \in Nat /\ DOMAIN frags = 1 .. Len(frags)
        /\ \A j \in DOMAIN frags : frags[j].part = j /\ OfLine(frags[j], q, fam)
    BY <2>1 DEF InOrder
  <2>3. ASSUME Cardinality({frags[j].by : j \in DOMAIN frags}) = 1
        PROVE  Cardinality({frags[j].ship : j \in DOMAIN frags}) = 1
    <3> DEFINE n == Len(frags)
               bys == [j \in 1 .. n |-> frags[j].by]
               ships == [j \in 1 .. n |-> frags[j].ship]
    <3>1. /\ Cardinality({bys[j] : j \in 1 .. n}) = 1
          /\ {frags[j].ship : j \in DOMAIN frags} = {ships[j] : j \in 1 .. n}
      <4>1. {frags[j].by : j \in DOMAIN frags} = {bys[j] : j \in 1 .. n}
        BY <2>2
      <4>2. {frags[j].ship : j \in DOMAIN frags} = {ships[j] : j \in 1 .. n}
        BY <2>2
      <4> QED
        BY <2>3, <4>1, <4>2
    <3>2. /\ \A j \in 1 .. n : bys[j] = frags[j].by /\ ships[j] = frags[j].ship
          /\ n \in Nat /\ n # 0 /\ DOMAIN frags = 1 .. n
      BY <2>1, <2>2
    <3> HIDE DEF n, bys, ships
    <3>3. \A i, j \in 1 .. n : bys[i] = bys[j]
      <4>1. n \in Nat /\ n # 0 /\ Cardinality({bys[j] : j \in 1 .. n}) = 1
        BY <3>1, <3>2
      <4> QED
        BY ONLY <4>1, OneOfAll
    <3>4. ASSUME NEW j \in 1 .. n PROVE ships[j] = ships[1]
      <4>1. 1 \in 1 .. n
        BY <3>2
      <4>2. PICK m \in fam : /\ m.key \in {"AIVDM", "AIVDO"} /\ m.line.count > 1 /\ m.line.seq = q
                             /\ frags[j] = m.line.frag
        BY <2>2, <3>2 DEF OfLine
      <4>3. PICK o \in fam : /\ o.key \in {"AIVDM", "AIVDO"} /\ o.line.count > 1 /\ o.line.seq = q
                             /\ frags[1] = o.line.frag
        BY <2>2, <3>2, <4>1 DEF OfLine
      <4>4. m.line.frag.by = o.line.frag.by
        BY <3>2, <3>3, <4>1, <4>2, <4>3
      <4>5. m \in AisLinesOf(fam, q, m.line.frag.by) /\ o \in AisLinesOf(fam, q, m.line.frag.by)
        BY <4>2, <4>3, <4>4 DEF AisLinesOf
      <4> QED
        BY <3>2, <4>1, <4>2, <4>3, <4>5 DEF OneShipPerId
    <3>5. Cardinality({ships[j] : j \in 1 .. n}) = 1
      BY <3>2, <3>4, AllIsOne
    <3> QED
      BY <3>1, <3>5
  <2> QED
    BY <2>1, <2>2, <2>3
<1> QED
  BY <1>1, <1>2 DEF IsWhole

LEMMA WholeMessages == ASSUME MembersInv, \A fam \in Families : OneShipPerId(fam) PROVE AisMessagesWhole
<1>1. OneShipPerId(family)
  BY DEF MembersInv
<1>2. ASSUME NEW k \in Telling(out, "frags") PROVE IsWhole(out[k].more.frags, family)
  BY DEF MembersInv, WholeSent, Telling
<1> QED
  BY <1>1, <1>2, WholeIsOfOneShip DEF AisMessagesWhole

(* The members of the converters and the store have their types, whatever  *)
(* messages come, and at whatever times: the list of unknown readings and  *)
(* an XDR line do not outgrow their room, an id of a waypoint is a byte    *)
(* (GwXDRMappings addUnknown, addToXdr, getWaypointId).  An item of the    *)
(* store that belongs to a transducer is not the list of satellites: its   *)
(* name begins with xdr.                                                   *)
THEOREM ConverterTypes == ASSUME XdrNamesDiffer PROVE Spec => []TypeOK
<1>1. Init => MembersInv
  BY MembersAtStart
<1>2. MembersInv /\ [Next]_vars => MembersInv'
  BY MembersNext
<1>3. MembersInv => TypeOK
  BY StoreIsStore
<1> QED
  BY <1>1, <1>2, <1>3, PTL DEF Spec

(* An AIS message is made of all its fragments in their order, whatever    *)
(* lines were lost, repeated or mixed with others (decodeMsg, addFragment);*)
(* and if all of them came by one channel, of one ship, as long as no      *)
(* channel uses a sequence id for the messages of two ships.               *)
THEOREM AisWhole ==
  ASSUME XdrNamesDiffer, \A fam \in Families : OneShipPerId(fam) PROVE Spec => []AisMessagesWhole
<1>1. Init => MembersInv
  BY MembersAtStart
<1>2. MembersInv /\ [Next]_vars => MembersInv'
  BY MembersNext
<1>3. MembersInv => AisMessagesWhole
  BY WholeMessages
<1> QED
  BY <1>1, <1>2, <1>3, PTL DEF Spec
-----------------------------------------------------------------------------
(* Times.  As long as millis() is so far from its end that the times that  *)
(* are added to it do not pass it, the times that were noted lie before    *)
(* now, and the history is what the members hold.                          *)
BeforeWrap ==
  /\ \A d \in Steps : now + d < Wrap
  /\ \A i \in Item : now + invalidTime(i) < Wrap
  /\ now + config.min2KInterval < Wrap /\ now + config.rmcCheckTime < Wrap

StoreTimes == \A i \in Item : bd[i].lastSet <= now /\ (bd[i].lastSet # 0 => bd[i].src \in Nat)
MemberTimes ==
  /\ now >= 1
  /\ \A k \in DOMAIN n2k.lastSends : n2k.lastSends[k] <= now
  /\ n2k.lastRmc \in 0 .. now /\ NoLater(n2k.waypointMap, now)
History ==
  /\ DOMAIN sentAt = DOMAIN n2k.lastSends /\ \A k \in DOMAIN sentAt : sentAt[k] = n2k.lastSends[k]
  /\ seenRmc = n2k.lastRmc
LegsDiffer ==
  \A k \in Telling(out, "dest") :
    LET leg == out[k].more IN leg.names[1] # leg.names[2] => leg.dest # leg.orig
FreshSent == \A k \in DOMAIN out : \A i \in out[k].reads : i \in Item /\ InTime(bd, i)

TimesInv == StoreTimes /\ MemberTimes /\ History /\ LegsDiffer /\ FreshSent /\ OwnRmcWaits
ConvertersInv == MembersInv /\ TimesInv

LEMMA CheckTimeIsSet == config.rmcCheckTime \in Nat
<1>1. ConverterSettings.checkRMCt \in Int
  BY ConverterAssumption
<1>2. PICK v : v = ConverterSettings.checkRMCt
  OBVIOUS
<1>3. AtLeast(v, 1000) \in Nat
  BY <1>1, <1>2 DEF AtLeast
<1> QED
  BY <1>2, <1>3 DEF config

LEMMA MembersAre ==
  ASSUME MembersInv
  PROVE  /\ now \in 0 .. (Wrap - 1) /\ now \in Nat /\ DOMAIN bd = Item
         /\ \A i \in Item : bd[i].lastSet \in Nat /\ bd[i].src \in Int
         /\ \A k \in DOMAIN n2k.lastSends : n2k.lastSends[k] \in Nat
BY ContextFields, BoatDataAssumption DEF MembersInv, Ready, IsContext, Entry

LEMMA TimesAtStart == ASSUME Init PROVE TimesInv
<1>1. now = Start /\ Start \in Nat /\ Start >= 1
  BY ConversionAssumption, BoatDataAssumption DEF Init
<1>2. n2k.lastSends = NoMore /\ n2k.waypointMap = NoMore /\ n2k.lastRmc = Start /\ sentAt = NoMore /\ seenRmc = Start
  BY DEF Init, initN2k
<1>3. StoreTimes
  BY <1>1, BeginIsStore DEF Init, StoreTimes
<1>4. MemberTimes /\ History
  BY <1>1, <1>2, NoMoreIsNone DEF MemberTimes, History, NoLater
<1>5. LegsDiffer /\ FreshSent /\ OwnRmcWaits
  BY DEF Init, LegsDiffer, FreshSent, OwnRmcWaits, Telling
<1> QED
  BY <1>3, <1>4, <1>5 DEF TimesInv

(* What a step that leaves a context d does to the store and the messages. *)
LEMMA TakenTimes ==
  ASSUME ConvertersInv, NEW d, NEW s \in Nat, Taken(d, s)
  PROVE  StoreTimes' /\ FreshSent'
<1>1. bd' = d.bd /\ out' = d.out /\ now' = now /\ d.now = now
  BY DEF Taken, Becomes
<1>2. now \in Nat /\ now # 0
  BY MembersAre DEF ConvertersInv, TimesInv, MemberTimes
<1>3. StoreTimes'
  <2>1. ASSUME NEW i \in Item PROVE d.bd[i].lastSet <= now /\ (d.bd[i].lastSet # 0 => d.bd[i].src \in Nat)
    <3>1. d.bd[i] = bd[i] \/ (d.bd[i].lastSet = now /\ d.bd[i].src = s)
      BY ContextFields DEF Taken, StoreFollows
    <3> QED
      BY <1>2, <3>1 DEF ConvertersInv, TimesInv, StoreTimes
  <2> QED
    BY <1>1, <2>1 DEF StoreTimes
<1>4. FreshSent'
  <2>1. ASSUME NEW k \in DOMAIN d.out, NEW i \in d.out[k].reads
        PROVE  /\ i \in Item /\ d.bd[i].lastSet # 0
               /\ invalidTime(i) = 0 \/ now - d.bd[i].lastSet <= invalidTime(i)
    BY <1>1, <1>2 DEF Taken, Fresh, FreshIn
  <2> QED
    BY <1>1, <2>1 DEF FreshSent, InTime
<1> QED
  BY <1>3, <1>4

(* The throttle: the members change as the history does, and what was sent *)
(* before was sent long enough ago.                                        *)
LEMMA SendsOf ==
  ASSUME ConvertersInv, BeforeWrap, NEW d, NEW s, Taken(d, s)
  PROVE  /\ DOMAIN d.n2k.lastSends = DOMAIN sentAt \cup keysOf(d.out)
         /\ \A k \in keysOf(d.out) : d.n2k.lastSends[k] = now
         /\ \A k \in DOMAIN sentAt \ keysOf(d.out) : d.n2k.lastSends[k] = sentAt[k]
         /\ \A k \in DOMAIN sentAt \cap keysOf(d.out) : now - sentAt[k] >= config.min2KInterval
         /\ \A j, k \in Telling(d.out, "key") : d.out[j].more.key = d.out[k].more.key => j = k
<1>1. Throttle(d, n2k.lastSends) /\ d.now = now
  BY DEF Taken, BeforeWrap
<1>2. DOMAIN sentAt = DOMAIN n2k.lastSends /\ \A k \in DOMAIN sentAt : sentAt[k] = n2k.lastSends[k]
  BY DEF ConvertersInv, TimesInv, History
<1>3. ASSUME NEW k \in DOMAIN sentAt \cap keysOf(d.out) PROVE now - sentAt[k] >= config.min2KInterval
  <2>1. Plus(sentAt[k], config.min2KInterval) <= now
    BY <1>1, <1>2 DEF Throttle
  <2>2. sentAt[k] \in Nat /\ sentAt[k] <= now /\ now \in Nat
    BY <1>2, MembersAre DEF ConvertersInv, TimesInv, MemberTimes
  <2>3. now + config.min2KInterval < Wrap
    BY DEF BeforeWrap
  <2>4. PICK t, i : t = sentAt[k] /\ i = config.min2KInterval
    OBVIOUS
  <2>5. t \in Nat /\ i \in Nat /\ t <= now /\ now \in Nat /\ now + i < Wrap /\ Wrap \in Nat
    BY <2>2, <2>3, <2>4, IntervalIsSet, BoatDataAssumption
  <2>6. Plus(t, i) = t + i
    BY <2>5, PlusIsLess
  <2> QED
    BY <2>1, <2>4, <2>5, <2>6
<1> QED
  BY <1>1, <1>2, <1>3 DEF Throttle

LEMMA SameMembersTimes ==
  ASSUME ConvertersInv, n2k' = n2k, now' = now, sentAt' = sentAt, seenRmc' = seenRmc
  PROVE  MemberTimes' /\ History'
BY DEF ConvertersInv, TimesInv, MemberTimes, History, NoLater

LEMMA HandleMsgTimes ==
  ASSUME ConvertersInv, NEW m \in family, HandleMsg(m) PROVE TimesInv'
<1>1. PICK d : Taken(d, m.src) /\ d.n2k = n2k /\ \A k \in DOMAIN d.out : Plain(d.out[k])
  BY FamilyMessages, HandleMsgIs DEF ConvertersInv, MembersInv
<1>2. n2k' = n2k /\ out' = d.out /\ now' = now /\ sentAt' = sentAt /\ seenRmc' = seenRmc
  BY <1>1, TakenKeeps DEF HandleMsg
<1>3. m.src \in Nat
  BY FamilyMessages DEF ConvertersInv, IsMessage, HasFields
<1>4. StoreTimes' /\ FreshSent'
  BY <1>1, <1>3, TakenTimes
<1>5. MemberTimes' /\ History'
  BY <1>2, SameMembersTimes
<1>6. LegsDiffer' /\ OwnRmcWaits'
  BY <1>1, <1>2 DEF LegsDiffer, OwnRmcWaits, Telling, Plain
<1> QED
  BY <1>4, <1>5, <1>6 DEF TimesInv

(* The names of a leg that is sent have different ids, and no name was     *)
(* used later than now.                                                    *)
LEMMA LegTimes ==
  ASSUME ConvertersInv, NEW m, Unhurried(m), NEW d, LineStep(Context(NA), m, d, family)
  PROVE  /\ NoLater(d.n2k.waypointMap, now)
         /\ \A k \in Telling(d.out, "dest") :
              LET leg == d.out[k].more IN leg.names[1] # leg.names[2] => leg.dest # leg.orig
<1> DEFINE w == n2k.waypointMap
<1>1. /\ NoLater(w, now) /\ Waypoints(w, n2k.waypointId) /\ now \in Int
  BY MembersAre DEF ConvertersInv, MembersInv, TimesInv, MemberTimes
<1>2. CASE m.key # "RMB"
  <2>1. /\ d.n2k.waypointMap = w
        /\ \A k \in DOMAIN d.out : "dest" \notin DOMAIN d.out[k].more
    BY <1>2, ContextFields DEF LineStep
  <2> QED
    BY <1>1, <2>1 DEF Telling
<1>3. CASE m.key = "RMB"
  <2>1. RMBSends(w, d, m, now)
    BY <1>3, ContextFields DEF LineStep
  <2>2. Cardinality(UsedNow(w, now)) + 2 <= MAXWAYPOINTS
    BY <1>3 DEF Unhurried, UsedNow
  <2> HIDE DEF w
  <2>3. PICK u, i : /\ IsUsed(w, u, i, m.dest.text, now)
                    /\ IsUsed(u, d.n2k.waypointMap, d.n2k.waypointId, m.orig.text, now)
                    /\ \A k \in DOMAIN d.out : Plain(d.out[k]) \/ IsLeg(d.out[k], LegIds(u, d.n2k.waypointMap, m))
    BY <2>1 DEF RMBSends
  <2>4. PICK x, a, b : x = d.n2k.waypointMap /\ a = m.dest.text /\ b = m.orig.text
    OBVIOUS
  <2>5. NoLater(u, now) /\ NoLater(x, now)
    BY <1>1, <2>3, <2>4, UsedIsNoLater
  <2>6. b # a => u[a].id # x[b].id
    BY <1>1, <2>2, <2>3, <2>4, LegHasTwoIds
  <2>7. ASSUME NEW k \in Telling(d.out, "dest")
        PROVE  LET leg == d.out[k].more IN leg.names[1] # leg.names[2] => leg.dest # leg.orig
    <3>1. k \in DOMAIN d.out /\ "dest" \in DOMAIN d.out[k].more
      BY DEF Telling
    <3>2. IsLeg(d.out[k], LegIds(u, x, m))
      BY <2>3, <2>4, <3>1 DEF Plain
    <3>3. d.out[k].more.dest = u[a].id /\ d.out[k].more.orig = x[b].id /\ d.out[k].more.names = <<a, b>>
      BY <2>4, <3>2 DEF IsLeg, LegIds
    <3> QED
      BY <2>6, <3>3
  <2> QED
    BY <2>4, <2>5, <2>7
<1> QED
  BY <1>2, <1>3

LEMMA parseAndSendTimes ==
  ASSUME ConvertersInv, BeforeWrap, NEW m \in family, parseAndSend(m) PROVE TimesInv'
<1>1. PICK d : Taken(d, m.src) /\ LineStep(Context(NA), m, d, family)
  BY FamilyMessages, parseAndSendIs DEF ConvertersInv, MembersInv
<1>2. n2k' = d.n2k /\ out' = d.out /\ now' = now
  BY <1>1, TakenKeeps
<1>3. /\ sentAt' = [k \in DOMAIN sentAt \cup keysOf(out') |-> IF k \in keysOf(out') THEN now ELSE sentAt[k]]
      /\ seenRmc' = (IF m.key = "RMC" /\ m.status = "A" THEN now ELSE seenRmc) /\ Unhurried(m)
  BY DEF parseAndSend
<1>4. m.src \in Nat
  BY FamilyMessages DEF ConvertersInv, IsMessage, HasFields
<1>5. StoreTimes' /\ FreshSent'
  BY <1>1, <1>4, TakenTimes
<1>6. d.n2k.lastRmc = IF m.key = "RMC" /\ m.status = "A" THEN now ELSE n2k.lastRmc
  BY <1>1, ContextFields DEF LineStep
<1>7. History'
  <2>1. seenRmc' = n2k'.lastRmc
    BY <1>2, <1>3, <1>6 DEF ConvertersInv, TimesInv, History
  <2>2. /\ DOMAIN d.n2k.lastSends = DOMAIN sentAt \cup keysOf(d.out)
        /\ \A k \in keysOf(d.out) : d.n2k.lastSends[k] = now
        /\ \A k \in DOMAIN sentAt \ keysOf(d.out) : d.n2k.lastSends[k] = sentAt[k]
    BY <1>1, SendsOf
  <2>3. DOMAIN sentAt' = DOMAIN n2k'.lastSends /\ \A k \in DOMAIN sentAt' : sentAt'[k] = n2k'.lastSends[k]
    BY <1>2, <1>3, <2>2
  <2> QED
    BY <2>1, <2>3 DEF History
<1>8. NoLater(d.n2k.waypointMap, now) /\ LegsDiffer'
  BY <1>1, <1>2, <1>3, LegTimes DEF LegsDiffer
<1>9. MemberTimes'
  <2>1. now >= 1 /\ now \in Nat /\ n2k.lastRmc \in 0 .. now
    BY MembersAre DEF ConvertersInv, TimesInv, MemberTimes
  <2>2. d.n2k.lastRmc \in 0 .. now
    BY <1>6, <2>1
  <2>3. ASSUME NEW k \in DOMAIN d.n2k.lastSends PROVE d.n2k.lastSends[k] <= now
    <3>1. /\ k \in DOMAIN sentAt \cup keysOf(d.out)
          /\ k \in keysOf(d.out) => d.n2k.lastSends[k] = now
          /\ k \in DOMAIN sentAt \ keysOf(d.out) => d.n2k.lastSends[k] = sentAt[k]
      BY <1>1, SendsOf
    <3>2. k \in DOMAIN sentAt => sentAt[k] <= now
      BY DEF ConvertersInv, TimesInv, MemberTimes, History
    <3> QED
      BY <2>1, <3>1, <3>2
  <2> QED
    BY <1>2, <1>8, <2>1, <2>2, <2>3 DEF MemberTimes
<1>10. OwnRmcWaits'
  BY <1>1, <1>2 DEF LineStep, LineSends, OwnRmcWaits
<1> QED
  BY <1>5, <1>7, <1>8, <1>9, <1>10 DEF TimesInv

LEMMA loopTimes == ASSUME ConvertersInv, BeforeWrap, loop PROVE TimesInv'
<1>1. PICK d : Taken(d, 0) /\ d.n2k = n2k /\ \A k \in DOMAIN d.out : d.out[k].more = NoMore
  BY loopIs DEF ConvertersInv, MembersInv
<1>2. n2k' = n2k /\ out' = d.out /\ now' = now /\ sentAt' = sentAt /\ seenRmc' = seenRmc
  BY <1>1, TakenKeeps DEF loop
<1>3. StoreTimes' /\ FreshSent'
  BY <1>1, TakenTimes
<1>4. MemberTimes' /\ History'
  BY <1>2, SameMembersTimes
<1>5. LegsDiffer'
  BY <1>1, <1>2, NoMoreIsNone DEF LegsDiffer, Telling
<1>6. now - seenRmc >= config.rmcCheckTime
  <2>1. Plus(n2k.lastRmc, config.rmcCheckTime) <= now
    BY ContextFields DEF loop, ownRmcDue
  <2>2. PICK t, i : t = n2k.lastRmc /\ i = config.rmcCheckTime
    OBVIOUS
  <2>3. t \in 0 .. now /\ now \in Nat /\ seenRmc = t
    BY <2>2, MembersAre DEF ConvertersInv, TimesInv, MemberTimes, History
  <2>4. i \in Nat /\ now + i < Wrap /\ Wrap \in Nat
    BY <2>2, CheckTimeIsSet, BoatDataAssumption DEF BeforeWrap
  <2>5. Plus(t, i) = t + i
    BY <2>3, <2>4, PlusIsLess
  <2> QED
    BY <2>1, <2>2, <2>3, <2>4, <2>5
<1>7. OwnRmcWaits'
  BY <1>2, <1>6 DEF OwnRmcWaits
<1> QED
  BY <1>3, <1>4, <1>5, <1>7 DEF TimesInv

LEMMA TimesNext == ASSUME ConvertersInv, BeforeWrap, [Next]_vars PROVE TimesInv'
<1>1. CASE \E m \in family : HandleMsg(m)
  BY <1>1, HandleMsgTimes
<1>2. CASE \E m \in family : parseAndSend(m)
  BY <1>2, parseAndSendTimes
<1>3. CASE loop
  BY <1>3, loopTimes
<1>4. CASE BoatDataRequest
  <2>1. /\ n2k' = n2k /\ out' = << >> /\ now' = now /\ sentAt' = sentAt /\ seenRmc' = seenRmc
        /\ \A i \in Item : bd'[i].lastSet = bd[i].lastSet /\ bd'[i].src = bd[i].src
    BY <1>4, BoatDataRequestIs DEF ConvertersInv, MembersInv, BoatDataRequest
  <2>2. MemberTimes' /\ History'
    BY <2>1, SameMembersTimes
  <2>3. StoreTimes'
    BY <2>1 DEF ConvertersInv, TimesInv, StoreTimes
  <2>4. LegsDiffer' /\ FreshSent' /\ OwnRmcWaits'
    BY <2>1 DEF LegsDiffer, FreshSent, OwnRmcWaits, Telling
  <2> QED
    BY <2>2, <2>3, <2>4 DEF TimesInv
<1>5. ASSUME NEW d \in Steps, Tick(d) PROVE TimesInv'
  <2>1. n2k' = n2k /\ out' = << >> /\ bd' = bd /\ sentAt' = sentAt /\ seenRmc' = seenRmc
    BY <1>5 DEF Tick
  <2>2. now \in Nat /\ d \in Nat
    BY MembersAre, ConversionAssumption DEF ConvertersInv
  <2>3. now' = now + d
    BY <1>5, <2>2, PlusIsLess DEF Tick, BeforeWrap
  <2>4. StoreTimes'
    <3>1. \A i \in Item : bd[i].lastSet \in Nat /\ bd[i].lastSet <= now /\ (bd[i].lastSet # 0 => bd[i].src \in Nat)
      BY MembersAre DEF ConvertersInv, TimesInv, StoreTimes
    <3> QED
      BY <2>1, <2>2, <2>3, <3>1 DEF StoreTimes
  <2>5. MemberTimes' /\ History'
    <3>1. /\ now >= 1 /\ n2k.lastRmc \in 0 .. now
          /\ \A k \in DOMAIN n2k.lastSends : n2k.lastSends[k] \in Nat /\ n2k.lastSends[k] <= now
          /\ NoLater(n2k.waypointMap, now)
      BY MembersAre DEF ConvertersInv, TimesInv, MemberTimes
    <3>2. \A a \in DOMAIN n2k.waypointMap : n2k.waypointMap[a].lastUsed \in Int
      BY DEF ConvertersInv, MembersInv, Waypoints
    <3>3. NoLater(n2k.waypointMap, now + d)
      BY <2>2, <3>1, <3>2 DEF NoLater
    <3>4. MemberTimes'
      BY <2>1, <2>2, <2>3, <3>1, <3>3 DEF MemberTimes
    <3> QED
      BY <2>1, <3>4 DEF ConvertersInv, TimesInv, History
  <2>6. LegsDiffer' /\ FreshSent' /\ OwnRmcWaits'
    BY <2>1 DEF LegsDiffer, FreshSent, OwnRmcWaits, Telling
  <2> QED
    BY <2>4, <2>5, <2>6 DEF TimesInv
<1>6. CASE UNCHANGED vars
  <2>1. StoreTimes' /\ MemberTimes' /\ History'
    BY <1>6 DEF vars, ConvertersInv, TimesInv, StoreTimes, MemberTimes, History, NoLater
  <2>2. LegsDiffer' /\ OwnRmcWaits' /\ FreshSent'
    BY <1>6 DEF vars, ConvertersInv, TimesInv, LegsDiffer, OwnRmcWaits, FreshSent, InTime, Telling
  <2> QED
    BY <2>1, <2>2 DEF TimesInv
<1> QED
  BY <1>1, <1>2, <1>3, <1>4, <1>5, <1>6 DEF Next
LEMMA ConvertersNext == ASSUME ConvertersInv, BeforeWrap, [Next]_vars PROVE ConvertersInv'
BY MembersNext, TimesNext DEF ConvertersInv

LEMMA ConvertersAtStart == ASSUME XdrNamesDiffer, Init PROVE ConvertersInv
BY MembersAtStart, TimesAtStart DEF ConvertersInv

LEMMA ConvertersAlways == ASSUME XdrNamesDiffer PROVE Spec /\ []BeforeWrap => []ConvertersInv
<1>1. Init => ConvertersInv
  BY ConvertersAtStart
<1>2. ConvertersInv /\ BeforeWrap /\ [Next]_vars => ConvertersInv'
  BY ConvertersNext
<1> QED
  BY <1>1, <1>2, PTL DEF Spec

(* No message is built from a value that is too old: what a handler takes  *)
(* from the store for a message of another kind is in time (the isValid and*)
(* getDataWithDefault calls of all handlers), as long as millis() is far   *)
(* from its end.                                                           *)
THEOREM ValuesInTime == ASSUME XdrNamesDiffer PROVE Spec /\ []BeforeWrap => []NoStaleValues
<1>1. ConvertersInv => NoStaleValues
  BY DEF ConvertersInv, TimesInv, FreshSent, NoStaleValues
<1> QED
  BY <1>1, ConvertersAlways, PTL

(* The ids of known waypoints are different, and so are those of the ends  *)
(* of a leg, also when the table is full: the second name does not take    *)
(* the id of the first, which was used just now (getWaypointId, convertRMB)*)
THEOREM LegsHaveTwoIds == ASSUME XdrNamesDiffer PROVE Spec /\ []BeforeWrap => []WaypointIds
<1>1. ConvertersInv => WaypointIds
  BY DEF ConvertersInv, MembersInv, TimesInv, LegsDiffer, Waypoints, WaypointIds
<1> QED
  BY <1>1, ConvertersAlways, PTL

(* The gateway sends its own RMC only when no other device sent a valid one*)
(* for rmcCheckTime (loop of N2kDataToNMEA0183, convertRMC).               *)
THEOREM OwnRmcIsLast == ASSUME XdrNamesDiffer PROVE Spec /\ []BeforeWrap => []OwnRmcWaits
<1>1. ConvertersInv => OwnRmcWaits
  BY DEF ConvertersInv, TimesInv
<1> QED
  BY <1>1, ConvertersAlways, PTL

LEMMA InTimeIsValid ==
  ASSUME ConvertersInv, BeforeWrap, NEW i \in Item, InTime(bd, i) PROVE isValid(bd, i, now) /\ bd[i].src >= 0
<1>1. PICK t, v : t = bd[i].lastSet /\ v = invalidTime(i)
  OBVIOUS
<1>2. /\ t \in Nat /\ t <= now /\ now \in Nat /\ v \in Nat /\ now + v < Wrap /\ Wrap \in Nat /\ t # 0
      /\ v = 0 \/ now - t <= v
  BY <1>1, MembersAre, TimesAreNat, BoatDataAssumption DEF ConvertersInv, TimesInv, StoreTimes, BeforeWrap, InTime
<1>3. Plus(t, v) = t + v
  BY <1>2, PlusIsLess
<1>4. isValid(bd, i, now)
  BY <1>1, <1>2, <1>3 DEF isValid
<1>5. bd[i].src \in Nat
  BY <1>1, <1>2 DEF ConvertersInv, TimesInv, StoreTimes
<1> QED
  BY <1>4, <1>5

LEMMA TakenByLower ==
  ASSUME ConvertersInv, BeforeWrap, NEW d, NEW s \in Nat, Taken(d, s),
         NEW i \in Item \ Kept, InTime(bd, i), bd'[i] # bd[i]
  PROVE  bd'[i].src <= bd[i].src
<1>1. bd'[i].src = s /\ accepts(bd, i, s, now)
  <2>1. d.bd[i] = bd[i] \/ (d.bd[i].src = s /\ accepts(bd, i, s, now))
    BY ContextFields DEF Taken, StoreFollows
  <2> QED
    BY <2>1 DEF Taken, Becomes
<1>2. ~(bd[i].src < s)
  BY <1>1, InTimeIsValid DEF accepts
<1>3. bd[i].src \in Int
  BY MembersAre DEF ConvertersInv
<1> QED
  BY <1>1, <1>2, <1>3

(* A source with a lower id wins: while the value of an item is in time,   *)
(* only its own source or one with a lower id changes it (GwBoatData       *)
(* update), whichever of the two converters its message goes through.      *)
THEOREM SourcesRanked == ASSUME XdrNamesDiffer PROVE Spec /\ []BeforeWrap => LowerIdsWin
<1> DEFINE Ranked == \A i \in Item \ Kept : InTime(bd, i) /\ bd'[i] # bd[i] => bd'[i].src <= bd[i].src
<1>1. ConvertersInv /\ BeforeWrap /\ [Next]_vars => [Ranked]_vars
  <2> SUFFICES ASSUME ConvertersInv, BeforeWrap, Next, NEW i \in Item \ Kept, InTime(bd, i), bd'[i] # bd[i]
               PROVE  bd'[i].src <= bd[i].src
    OBVIOUS
  <2>0. \A m \in family : m.src \in Nat /\ IsMessage(m)
    BY FamilyMessages DEF ConvertersInv, IsMessage, HasFields
  <2>1. ASSUME NEW m \in family, HandleMsg(m) PROVE bd'[i].src <= bd[i].src
    <3>1. PICK d : Taken(d, m.src)
      BY <2>0, <2>1, HandleMsgIs DEF ConvertersInv, MembersInv
    <3> QED
      BY <2>0, <3>1, TakenByLower
  <2>2. ASSUME NEW m \in family, parseAndSend(m) PROVE bd'[i].src <= bd[i].src
    <3>1. PICK d : Taken(d, m.src)
      BY <2>0, <2>2, parseAndSendIs DEF ConvertersInv, MembersInv
    <3> QED
      BY <2>0, <3>1, TakenByLower
  <2>3. CASE loop
    <3>1. PICK d : Taken(d, 0)
      BY <2>3, loopIs DEF ConvertersInv, MembersInv
    <3> QED
      BY <3>1, TakenByLower
  <2>4. CASE BoatDataRequest
    <3>1. bd'[i].src = bd[i].src /\ bd[i].src \in Int
      BY <2>4, BoatDataRequestIs, MembersAre DEF ConvertersInv, MembersInv
    <3> QED
      BY <3>1
  <2>5. CASE \E d \in Steps : Tick(d)
    BY <2>5 DEF Tick
  <2> QED
    BY <2>1, <2>2, <2>3, <2>4, <2>5 DEF Next
<1> QED
  BY <1>1, ConvertersAlways, PTL DEF Spec, LowerIdsWin

(* Two N2K messages with the same key, of one step or of different ones,   *)
(* are at least min2KInterval apart (send of NMEA0183DataToN2K).           *)
THEOREM SendsApart == ASSUME XdrNamesDiffer PROVE Spec /\ []BeforeWrap => Throttled
<1> DEFINE Apart ==
      /\ \A k \in keysOf(out') \cap DOMAIN sentAt : now - sentAt[k] >= config.min2KInterval
      /\ \A j, k \in Telling(out', "key") : out'[j].more.key = out'[k].more.key => j = k
<1>1. ConvertersInv /\ BeforeWrap /\ [Next]_vars => [Apart]_<<out, sentAt>>
  <2> SUFFICES ASSUME ConvertersInv, BeforeWrap, [Next]_vars PROVE Apart \/ UNCHANGED <<out, sentAt>>
    OBVIOUS
  <2>0. \A m \in family : IsMessage(m)
    BY FamilyMessages DEF ConvertersInv
  <2>1. ASSUME NEW d, NEW s, Taken(d, s) PROVE Apart
    BY <2>1, SendsOf DEF Taken, Becomes
  <2>2. CASE out' = << >>
    BY <2>2 DEF keysOf, Telling
  <2>3. CASE \E m \in family : HandleMsg(m)
    BY <2>0, <2>1, <2>3, HandleMsgIs DEF ConvertersInv, MembersInv
  <2>4. CASE \E m \in family : parseAndSend(m)
    BY <2>0, <2>1, <2>4, parseAndSendIs DEF ConvertersInv, MembersInv
  <2>5. CASE loop
    BY <2>1, <2>5, loopIs DEF ConvertersInv, MembersInv
  <2>6. CASE BoatDataRequest
    BY <2>2, <2>6, BoatDataRequestIs DEF ConvertersInv, MembersInv
  <2>7. CASE \E d \in Steps : Tick(d)
    BY <2>2, <2>7 DEF Tick
  <2>8. CASE UNCHANGED vars
    BY <2>8 DEF vars
  <2> QED
    BY <2>3, <2>4, <2>5, <2>6, <2>7, <2>8 DEF Next
<1> QED
  BY <1>1, ConvertersAlways, PTL DEF Spec, Throttled

-----------------------------------------------------------------------------
(* The XDR lines of a step. *)
LEMMA PlacesAreLines ==
  ASSUME NEW sent, NEW n \in Nat, DOMAIN sent = 1 .. n, NEW notes, NEW time, NEW last,
         Places(sent, << >>, notes, time, last), Plus(time, config.minXdrInterval) > time
  PROVE  /\ {t \in DOMAIN notes : t \notin DOMAIN last \/ last[t] # notes[t]} =
              {nameAt(sent, p) : p \in XdrPlaces(sent)}
         /\ \A p, q \in XdrPlaces(sent) : nameAt(sent, p) = nameAt(sent, q) => p = q
<1>1. DOMAIN << >> = {}
  OBVIOUS
<1>2. ASSUME NEW k, NEW j, NEW t
      PROVE  Holds(sent, << >>, k, j, t) <=> <<k, j>> \in XdrPlaces(sent) /\ nameAt(sent, <<k, j>>) = t
  <2>1. \A i \in Telling(sent, "transducers") : i # 0
    BY DEF Telling
  <2>2. <<k, j>> \in XdrPlaces(sent) <=>
          k \in Telling(sent, "transducers") /\ j \in DOMAIN sent[k].more.transducers
    BY DEF XdrPlaces
  <2>3. nameAt(sent, <<k, j>>) = sent[k].more.transducers[j]
    BY DEF nameAt
  <2> QED
    BY <1>1, <2>1, <2>2, <2>3 DEF Holds
<1>3. ASSUME NEW p \in XdrPlaces(sent) PROVE \E k, j : p = <<k, j>>
  BY DEF XdrPlaces
<1>4. /\ \A k, j, t : Holds(sent, << >>, k, j, t) =>
            /\ t \in DOMAIN notes /\ notes[t] = time
            /\ t \in DOMAIN last => ~ (Plus(last[t], config.minXdrInterval) > time)
      /\ \A t \in DOMAIN notes : (t \in DOMAIN last /\ notes[t] = last[t]) \/ \E k, j : Holds(sent, << >>, k, j, t)
      /\ \A t, k, j, k1, j1 : Holds(sent, << >>, k, j, t) /\ Holds(sent, << >>, k1, j1, t) => k = k1 /\ j = j1
  BY DEF Places
<1>5. ASSUME NEW t \in DOMAIN notes, t \notin DOMAIN last \/ last[t] # notes[t]
      PROVE  \E p \in XdrPlaces(sent) : nameAt(sent, p) = t
  BY <1>2, <1>4, <1>5
<1>6. ASSUME NEW p \in XdrPlaces(sent), NEW t, nameAt(sent, p) = t
      PROVE  t \in DOMAIN notes /\ (t \notin DOMAIN last \/ last[t] # notes[t])
  <2>1. PICK k, j : p = <<k, j>>
    BY <1>3
  <2>2. Holds(sent, << >>, k, j, t)
    BY <1>2, <1>6, <2>1
  <2> QED
    BY <1>4, <2>2
<1>7. ASSUME NEW p \in XdrPlaces(sent), NEW q \in XdrPlaces(sent), nameAt(sent, p) = nameAt(sent, q)
      PROVE  p = q
  <2>1. PICK k, j, k1, j1 : p = <<k, j>> /\ q = <<k1, j1>>
    BY <1>3
  <2>2. PICK t : t = nameAt(sent, p) /\ Holds(sent, << >>, k, j, t) /\ Holds(sent, << >>, k1, j1, t)
    BY <1>2, <1>7, <2>1
  <2> QED
    BY <1>4, <2>1, <2>2
<1> QED
  BY <1>5, <1>6, <1>7

LEMMA BoatDataRequestLeaves == ASSUME BoatDataRequest PROVE out' = << >> /\ n183' = n183
BY DEF BoatDataRequest, Becomes, Context

LEMMA ClosedAlways == ASSUME XdrNamesDiffer PROVE Spec => [](MembersInv /\ ~n183.xdrOpened)
<1>1. Init => MembersInv /\ ~n183.xdrOpened
  BY MembersAtStart DEF Init, initN183
<1>2. (MembersInv /\ ~n183.xdrOpened) /\ [Next]_vars => (MembersInv /\ ~n183.xdrOpened)'
  <2> SUFFICES ASSUME MembersInv, ~n183.xdrOpened, [Next]_vars PROVE ~n183'.xdrOpened
    BY MembersNext
  <2>0. Ready(Context(NA)) /\ \A m \in family : IsMessage(m)
    BY FamilyMessages DEF MembersInv
  <2>1. ASSUME NEW d, NEW s, Taken(d, s) PROVE ~n183'.xdrOpened
    BY <2>1 DEF Taken, Becomes
  <2>2. CASE \E m \in family : HandleMsg(m)
    BY <2>0, <2>1, <2>2, HandleMsgIs
  <2>3. CASE \E m \in family : parseAndSend(m)
    BY <2>0, <2>1, <2>3, parseAndSendIs DEF MembersInv
  <2>4. CASE loop
    BY <2>0, <2>1, <2>4, loopIs
  <2>5. CASE BoatDataRequest
    BY <2>5, BoatDataRequestLeaves
  <2>6. CASE \E d \in Steps : Tick(d)
    BY <2>6 DEF Tick
  <2>7. CASE UNCHANGED vars
    BY <2>7 DEF vars
  <2> QED
    BY <2>2, <2>3, <2>4, <2>5, <2>6, <2>7 DEF Next
<1> QED
  BY <1>1, <1>2, PTL DEF Spec

(* The XDR lines of a message hold the transducers that were noted for it, *)
(* each at one place, however many readings find the line full (addToXdr,  *)
(* finalizeXdr), if minXdrInterval is not 0 (a transducer of two readings  *)
(* of a message would be sent twice) and millis() is far from its end.     *)
THEOREM XdrLinesWhole ==
  ASSUME XdrNamesDiffer, config.minXdrInterval >= 1
  PROVE  Spec /\ [](now + config.minXdrInterval < Wrap) => XdrLinesComplete
<1> DEFINE Complete ==
      /\ newlyNoted = {nameAt(out', p) : p \in XdrPlaces(out')}
      /\ \A p, q \in XdrPlaces(out') : nameAt(out', p) = nameAt(out', q) => p = q
<1>1. MembersInv /\ ~n183.xdrOpened /\ now + config.minXdrInterval < Wrap /\ [Next]_vars
        => [Complete]_<<n183, out>>
  <2> SUFFICES ASSUME MembersInv, ~n183.xdrOpened, now + config.minXdrInterval < Wrap, [Next]_vars
               PROVE  Complete \/ UNCHANGED <<n183, out>>
    OBVIOUS
  <2>0. Ready(Context(NA)) /\ \A m \in family : IsMessage(m)
    BY FamilyMessages DEF MembersInv
  <2>1. XdrIntervalFits(now) /\ Plus(now, config.minXdrInterval) > now
    <3>1. now \in Nat
      BY <2>0, ContextFields, BoatDataAssumption DEF Ready, IsContext
    <3>2. config.minXdrInterval \in Nat \ {0}
      <4>1. config.minXdrInterval \in Int
        BY ConverterAssumption DEF config
      <4> QED
        BY <4>1
    <3>3. Plus(now, config.minXdrInterval) = now + config.minXdrInterval
      BY <3>1, <3>2, PlusIsLess
    <3> QED
      BY <3>1, <3>2, <3>3 DEF XdrIntervalFits
  <2>2. ASSUME NEW d, NEW s, Taken(d, s) PROVE Complete
    <3>1. /\ out' = d.out /\ n183' = d.n183 /\ d.now = now /\ ~d.n183.xdrOpened
          /\ XdrPlaced(d, n183.lastSendTransducers) /\ IsSeq(d.out)
      BY <2>1, <2>2 DEF Taken, Becomes, Ready, IsContext
    <3>2. PICK n, sent : n = Len(d.out) /\ sent = d.out
      OBVIOUS
    <3>3. n \in Nat /\ DOMAIN sent = 1 .. n
      BY <3>1, <3>2, AppendSeq
    <3>4. PICK notes, last : notes = n183'.lastSendTransducers /\ last = n183.lastSendTransducers
      OBVIOUS
    <3>5. Places(sent, << >>, notes, now, last)
      BY <3>1, <3>2, <3>4 DEF XdrPlaced, Pending
    <3>6. /\ {t \in DOMAIN notes : t \notin DOMAIN last \/ last[t] # notes[t]} =
                {nameAt(sent, p) : p \in XdrPlaces(sent)}
          /\ \A p, q \in XdrPlaces(sent) : nameAt(sent, p) = nameAt(sent, q) => p = q
      BY <2>1, <3>3, <3>5, PlacesAreLines
    <3> QED
      BY <3>1, <3>2, <3>4, <3>6 DEF newlyNoted
  <2>3. ASSUME out' = << >>, n183' = n183 PROVE Complete
    <3>1. newlyNoted = {}
      BY <2>3 DEF newlyNoted
    <3>2. XdrPlaces(out') = {}
      BY <2>3 DEF XdrPlaces, Telling
    <3> QED
      BY <3>1, <3>2
  <2> HIDE DEF Complete
  <2>4. CASE \E m \in family : HandleMsg(m)
    BY <2>0, <2>2, <2>4, HandleMsgIs
  <2>5. CASE \E m \in family : parseAndSend(m)
    BY <2>0, <2>2, <2>5, parseAndSendIs DEF MembersInv
  <2>6. CASE loop
    BY <2>0, <2>2, <2>6, loopIs
  <2>7. CASE BoatDataRequest
    BY <2>3, <2>7, BoatDataRequestLeaves
  <2>8. CASE \E d \in Steps : Tick(d)
    BY <2>3, <2>8 DEF Tick
  <2>9. CASE UNCHANGED vars
    BY <2>9 DEF vars
  <2> QED
    BY <2>4, <2>5, <2>6, <2>7, <2>8, <2>9 DEF Next
<1> QED
  BY <1>1, ClosedAlways, PTL DEF Spec, XdrLinesComplete
=============================================================================

--------------------------- MODULE MessageRouter ---------------------------
(***************************************************************************)
(* What the gateway promises as a router: whatever one input gives, the    *)
(* message itself and what it is converted to, reaches every port that     *)
(* takes such messages and has room, and never the port it came from.      *)
(***************************************************************************)
EXTENDS Naturals

CONSTANTS
  Port,        (* where messages go to and come from                       *)
  Message      (* records with an origin, a form, a kind and via           *)

VARIABLES
  takes,       (* port -> the <<form, kind>> pairs its settings let out    *)
  converts,    (* port -> whether its NMEA0183 lines are converted         *)
  full,        (* ports whose buffer has no room now                       *)
  routed,      (* the last input and everything derived from it            *)
  got          (* port -> what it was given of these                       *)

vars == <<takes, converts, full, routed, got>>

(* An input leads to NMEA0183 lines, N2K messages and SeaSmart lines (that *)
(* carry an N2K message); a line that came in as NMEA0183 never comes out  *)
(* as another NMEA0183 line.                                               *)
IsDerived(x, m) ==
  /\ m.origin = x.origin
  /\ \/ m = x
     \/ m.via = "converted" /\ (x.form = "0183" => m.form # "0183")

Init ==
  /\ takes \in [Port -> SUBSET ({"0183", "n2k", "seasmart"} \X {m.kind : m \in Message})]
  /\ converts \in [Port -> BOOLEAN]
  /\ full \in SUBSET Port
  /\ routed = {}
  /\ got = [p \in Port |-> {}]

(* The messages ms, derived from x, are handed out; from gets none.  *)
Route(from, x, ms) ==
  /\ x \in ms /\ \A m \in ms : IsDerived(x, m)
  /\ from \in Port /\ x.form # "n2k" /\ ~converts[from] => ms = {x}
  /\ got' = [p \in Port |->
               IF p = from \/ p \in full THEN {}
               ELSE {m \in ms : <<m.form, m.kind>> \in takes[p]}]
  /\ routed' = ms
  /\ UNCHANGED <<takes, converts>> /\ full' \in SUBSET Port

(* An input is routed; what its converters make of it is not said here.    *)
(* The gateway's own messages are withheld from one port too.              *)
Next ==
  /\ routed' # {}
  /\ \E x \in routed' :
       LET from == x.origin IN
       \/ from \in Port /\ Route(from, x, routed')
       \/ from \notin Port /\ \E p \in Port : Route(p, x, routed')

Spec == Init /\ [][Next]_vars
=============================================================================

---------------------------- MODULE BoundedFifo ----------------------------
(***************************************************************************)
(* What lib/queue/GwBuffer promises to its users (the serial, TCP and UDP  *)
(* channels): a first-in first-out store of at most Capacity bytes.        *)
(*                                                                         *)
(* content is what has been stored and not yet taken, ret the bytes the    *)
(* last call accepted or handed out (the code returns their number; a      *)
(* refused or empty call has ret = << >>).                                 *)
(***************************************************************************)
EXTENDS Integers, Sequences

CONSTANTS
  Byte,        (* the values of one byte                                   *)
  Delimiter,   (* the byte that ends a message, newline in the code        *)
  Capacity,    (* how many bytes fit                                       *)
  Chunks       (* the byte sequences a caller stores in one call           *)

VARIABLES content, ret

vars == <<content, ret>>

Room == Capacity - Len(content)

(* The first n bytes of a sequence, and what is left without them. *)
First(s, n) == SubSeq(s, 1, n)
Rest(s, n) == SubSeq(s, n + 1, Len(s))

Init == content = << >> /\ ret = << >>

Reset == content' = << >> /\ ret' = << >>

Accept(s) == content' = content \o s /\ ret' = s

Refuse == UNCHANGED content /\ ret' = << >>

HandOut(n) == content' = Rest(content, n) /\ ret' = First(content, n)

(* A chunk is stored whole or not at all ... *)
PutWhole(d) ==
  \/ Len(d) <= Room /\ Accept(d)
  \/ Len(d) > Room /\ Refuse

(* ... unless the caller allows a part of it: then as much as fits. *)
PutPart(d) ==
  \/ Len(d) <= Room /\ Accept(d)
  \/ Len(d) > Room /\ Accept(First(d, Room))

(* A device writes into the store: a prefix of what it has, which is empty *)
(* only when there is no room or the device has nothing.                   *)
Fill(d) ==
  \E n \in 0 .. Len(d) :
    /\ n <= Room
    /\ Room > 0 /\ d # << >> => n > 0
    /\ Accept(First(d, n))

(* A device that takes up to n bytes is given some, unless there are none. *)
Take(n) ==
  \E k \in 0 .. n :
    /\ k <= Len(content)
    /\ n > 0 /\ content # << >> => k > 0
    /\ HandOut(k)

Look ==
  /\ UNCHANGED content
  /\ ret' = First(content, IF content = << >> THEN 0 ELSE 1)

(* n is the length of the first message, its delimiter included. *)
FirstMessageIs(n) ==
  /\ n \in 1 .. Len(content)
  /\ content[n] = Delimiter
  /\ \A i \in 1 .. n - 1 : content[i] # Delimiter

HasMessage == \E i \in 1 .. Len(content) : content[i] = Delimiter

(* A message is handed out whole as soon as it is complete, and only a     *)
(* store that is full without holding a message is thrown away.            *)
TakeMessage ==
  \/ HasMessage /\ \E n \in 1 .. Len(content) : FirstMessageIs(n) /\ HandOut(n)
  \/ ~HasMessage /\ Room > 0 /\ Refuse
  \/ ~HasMessage /\ Room = 0 /\ Reset

Next ==
  \/ Reset
  \/ \E d \in Chunks : PutWhole(d) \/ PutPart(d)
  \/ \E d \in Chunks : \E most \in 0 .. Len(d) : Fill(First(d, most))
  \/ \E n \in 0 .. Capacity + 1 : Take(n)
  \/ Look
  \/ TakeMessage

Spec == Init /\ [][Next]_vars
=============================================================================

-------------------------- MODULE MCGwSocketServer --------------------------
(* Instances of GwSocketServer for TLC. *)
EXTENDS GwSocketServer

CONSTANTS Sender  (* the peers that send a message; the others only listen *)

MCLines == [s \in Peer \cup {Bus} |-> IF s \in Sender \cup {Bus} THEN 1 ELSE 0]
=============================================================================

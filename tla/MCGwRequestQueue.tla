-------------------------- MODULE MCGwRequestQueue --------------------------
(* Instance of GwRequestQueue for TLC. *)
EXTENDS GwRequestQueue
=============================================================================

--------------------------- MODULE MCGwTcpClient ---------------------------
(* Instances of GwTcpClient for TLC. *)
EXTENDS GwTcpClient

MCKinds == {"ip", "local", "invalid"}
=============================================================================

---------------------------- MODULE MCGwRouting ----------------------------
(* Instances of GwRouting for TLC. *)
EXTENDS GwRouting

CONSTANTS Rmc, Vdm

Off == [receive |-> FALSE, send |-> FALSE, direction |-> "off", toN2K |-> FALSE,
        readF |-> NoFilter, writeF |-> NoFilter, readAct |-> FALSE, writeAct |-> FALSE,
        sendSeasmart |-> FALSE, enabled |-> FALSE]
On == [Off EXCEPT !.receive = TRUE, !.send = TRUE, !.toN2K = TRUE, !.enabled = TRUE,
                  !.direction = "send", !.sendSeasmart = TRUE, !.writeAct = TRUE]

NoAis == [ais |-> FALSE, blacklist |-> TRUE, list |-> {}]
OnlyRmc == [ais |-> FALSE, blacklist |-> FALSE, list |-> {Rmc}]
NoRmc == [ais |-> TRUE, blacklist |-> TRUE, list |-> {Rmc}]
OnlyDin == [ais |-> FALSE, blacklist |-> FALSE, list |-> {Din}]

Open == [id \in Channel \cup {Bus} |-> On]

(* Everything on, or one or two channels set in another way. *)
MCSettings ==
  {Open,
   [Open EXCEPT ![Usb].readAct = TRUE, ![MinTcp].readF = NoRmc],
   [Open EXCEPT ![Usb].readAct = TRUE, ![Usb].writeAct = FALSE, ![MinTcp].writeF = OnlyRmc],
   [Open EXCEPT ![Serial1].direction = "receive", ![MinTcp].send = FALSE, ![UdpWriter].send = FALSE],
   [Open EXCEPT ![TcpClient].enabled = FALSE, ![MinTcp].writeF = OnlyDin, ![Usb].writeF = NoAis],
   [Open EXCEPT ![MinTcp].toN2K = FALSE, ![UdpReader].receive = FALSE, ![Serial1] = Off, ![Bus] = Off]}

MCBuilds ==
  {[inits |-> << >>, fallbackSerial |-> TRUE],
   [inits |-> <<[serial |-> Serial1, mode |-> "RX"]>>, fallbackSerial |-> FALSE],
   [inits |-> <<[serial |-> Serial1, mode |-> "UNI"], [serial |-> Serial1, mode |-> "BI"]>>,
    fallbackSerial |-> FALSE]}
=============================================================================

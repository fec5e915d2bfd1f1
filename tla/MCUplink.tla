------------------------------ MODULE MCUplink ------------------------------
(* The bounds of the uplink's runs. *)
EXTENDS UplinkSystem

MCMaxAge == [wss |-> 1, udp |-> 2]
MCInCap == [wss |-> 2, udp |-> 1]
MCMaxSent == [wss |-> 6, udp |-> 4]
MCMaxClock == [wss |-> 5, udp |-> 0]
MCMaxSkip == [wss |-> 0, udp |-> 0]

\* Six packets over UDP.
MCGapSent == [wss |-> 0, udp |-> 6]
MCNoClock == [wss |-> 0, udp |-> 0]
=============================================================================

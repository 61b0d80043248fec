---------------------------- MODULE MCUdpServer -----------------------------
(* Model-checking instance of UdpServer. *)
EXTENDS UdpServer
=============================================================================

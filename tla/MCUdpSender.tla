---------------------------- MODULE MCUdpSender ----------------------------
(* Instances of UdpSender for TLC.                                           *)
EXTENDS UdpSender
=============================================================================

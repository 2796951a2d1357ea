---------------------------- MODULE MCUdpListener ----------------------------
(* A finite instance of UdpListener: two sending threads. *)
EXTENDS UdpListener

CONSTANTS s1, s2

MCSender == {s1, s2}
=============================================================================

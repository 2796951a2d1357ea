-------------------------- MODULE MCNetworkManager --------------------------
(* A finite instance of NetworkManager: two message ids, two handlers. *)
EXTENDS NetworkManager

CONSTANTS id1, id2, h1, h2

MCMsgId == {id1, id2}
MCHandler == {h1, h2}
=============================================================================

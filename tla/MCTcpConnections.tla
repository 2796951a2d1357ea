-------------------------- MODULE MCTcpConnections --------------------------
(* A finite instance of TcpConnections: a client that sends a message, one *)
(* that sends half of one, and one that only connects and leaves share two *)
(* descriptors with a data file.                                           *)
EXTENDS TcpConnections

CONSTANTS a, b, c

MCClient == {a, b, c}
MCPieces == [x \in MCClient |-> CASE x = a -> 2 [] x = b -> 1 [] x = c -> 0]
=============================================================================

------------------------- MODULE MCResponseHandoff -------------------------
(* A finite instance of ResponseHandoff: two sending threads, a response   *)
(* to two connections, one to each of them, and one to none.               *)
EXTENDS ResponseHandoff

CONSTANTS a, b, c, d, s1, s2, c1, c2

MCResponse == {a, b, c, d}
MCSender == {s1, s2}
MCConn == {c1, c2}
MCConnIds == [r \in MCResponse |-> CASE r = a -> <<c1, c2>>
                                     [] r = b -> <<c1>>
                                     [] r = c -> <<>>
                                     [] r = d -> <<c2>>]
=============================================================================

------------------------- MODULE MCRequestHandoff -------------------------
(* A finite instance of RequestHandoff: four requests, two message ids.    *)
EXTENDS RequestHandoff

CONSTANTS r1, r2, r3, r4, m1, m2

MCRequest == {r1, r2, r3, r4}
MCMsgId == {m1, m2}
MCMsgIdOf == [r \in MCRequest |-> IF r \in {r1, r2} THEN m1 ELSE m2]
=============================================================================

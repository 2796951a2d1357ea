-------------------------- MODULE MCPacketFraming --------------------------
(* A finite instance of PacketFraming: bodies of the smallest size, of the *)
(* largest one the buffer takes, and of sizes between.                     *)
EXTENDS PacketFraming

MCBody == <<5, 1, 3, 5, 2>>
MCStart ==
  LET end[k \in 1 .. Len(MCBody) + 1] ==
        IF k = 1 THEN 0 ELSE end[k - 1] + 2 + MCBody[k - 1]
  IN  end
Forward == {"forward"}
EitherWay == {"forward", "backward"}
=============================================================================

---------------------------- MODULE MCGameTimer ----------------------------
(* A finite instance of GameTimer: a shortest frame of 2; times of 3 and 6, *)
(* more and less than two frames; ratios of +1/2 and -1/2.                  *)
EXTENDS GameTimer

MCExtra == {-1, 2}
MCRatio == {<<1, 2>>, <<-1, 2>>}
=============================================================================

----------------------------- MODULE MCTimerList -----------------------------
(* A finite instance of TimerList: two countdown timers and a lap timer.   *)
EXTENDS TimerList

CONSTANTS t1, t2, t3

MCTimer == {t1, t2, t3}
MCLapTimers == {t3}
=============================================================================

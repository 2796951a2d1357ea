-------------------------- MODULE GameThreadProofs --------------------------
(***************************************************************************)
(* What is proved about what the game thread does alone. GameTimer: the    *)
(* frame clock and a timer on it, for every shortest frame, every set of   *)
(* times, laps and ratios, and every bound. DataTables, at the end: the    *)
(* mappings and the descriptors of the two managers, for any files, any    *)
(* limit and any failures; that the look-ups find what the files hold, by  *)
(* an argument about the recursive function of the binary search; and      *)
(* which language the texts are of.                                        *)
(***************************************************************************)
EXTENDS GameTimer, DataTables, SequenceLemmas

\* A frame that is over took at least as long as it was reported to take.
FrameInv ==
  /\ frameStart <= now
  /\ phase = "between" => frameStart + deltaTime <= now

\* A timer the loop has still to come to has counted what it may, less the
\* frame length it is about to count; it has come to one that calls back.
CountInv ==
  /\ phase = "update" /\ ticked = 0 /\ ~changed =>
       whole - leftTime + deltaTime <= frameStart - startFrame + lead
  /\ phase \in {"lap", "tick"} => ticked > 0

\* However long the frames, no more than a lap is left of a lap.
LapInv ==
  /\ 0 < scaledInterval
  /\ kind = "lap" => lapLeftTime <= scaledInterval
  /\ phase = "lap" => kind = "lap"

Inv ==
  /\ TypeOK /\ FrameInv /\ CountInv /\ LapInv
  /\ GameTimeNotAhead /\ CountsFromItsFrame /\ LeftTimeConsistent /\ LapsOnTime

\* TypeOK in two parts, because flags and times are for different provers.
Flags ==
  /\ cleared \in BOOLEAN
  /\ isStop \in BOOLEAN /\ listed \in BOOLEAN /\ changed \in BOOLEAN
  /\ tampered \in BOOLEAN /\ slow \in BOOLEAN

Times ==
  /\ now \in 0 .. MaxNow /\ frameStart \in 0 .. MaxNow
  /\ phase \in {"update", "lap", "tick", "frame", "between"}
  /\ ticked \in Nat
  /\ deltaTime \in {0} \cup minDeltaTimeTick .. MaxNow
  /\ kind \in {"countdown", "lap"}
  /\ interval \in Time /\ leftTime \in Int /\ whole \in Int
  /\ scaledInterval \in Int /\ lapLeftTime \in Int
  /\ totalLap \in Laps \cup {1} /\ leftLap \in Int
  /\ gameTime \in Nat /\ startFrame \in 0 .. MaxNow
  /\ lead \in {0} \cup minDeltaTimeTick .. MaxNow

LEMMA InvParts ==
  Inv <=> /\ Flags /\ Times /\ FrameInv /\ CountInv /\ LapInv
          /\ GameTimeNotAhead /\ CountsFromItsFrame
          /\ LeftTimeConsistent /\ LapsOnTime
BY Zenon DEF Inv, TypeOK, Flags, Times

-----------------------------------------------------------------------------
(* Arithmetic.                                                             *)

LEMMA Distributive ==
  ASSUME NEW a \in Int, NEW b \in Int, NEW c \in Int
  PROVE  a * (b + c) = a * b + a * c /\ a * b \in Int
OBVIOUS

LEMMA Monotone ==
  ASSUME NEW a \in Int, NEW b \in Int, NEW k \in Int, k > 0, a <= b
  PROVE  a * k <= b * k /\ k * a <= k * b
OBVIOUS

\* An exact division turned back.
LEMMA DividedOut ==
  ASSUME NEW a \in Int, NEW b \in Nat \ {0}, a % b = 0
  PROVE  a \div b \in Int /\ a = b * (a \div b)
OBVIOUS

\* The constants as numbers.
LEMMA Numbers ==
  /\ minDeltaTimeTick \in Nat /\ minDeltaTimeTick > 0 /\ MaxNow \in Nat
  /\ \A t \in Time : t \in Int /\ t > 0
  /\ \A n \in Laps \cup {1} : n \in Int /\ n > 0
  /\ \A t \in Extra : t \in Int
BY TimerAssumption

LEMMA Factors ==
  ASSUME NEW r \in Ratio
  PROVE  Above(r) \in Nat \ {0} /\ Below(r) \in Nat \ {0}
<1>1. r[1] \in Int /\ r[2] \in Nat \ {0}
  BY TimerAssumption
<1> QED BY <1>1 DEF Above, Below

\* A time that is scaled is a whole number again, and scaling keeps the sign
\* and the order of times.
LEMMA ScaledInt ==
  ASSUME NEW t \in Int, NEW r \in Ratio
  PROVE  Scaled(t, r) \in Int
<1>1. t * Above(r) \in Int
  BY Factors
<1> QED BY <1>1, Factors DEF Scaled

LEMMA ScaledOrder ==
  ASSUME NEW t \in Int, NEW u \in Int, NEW r \in Ratio,
         Exact(t, r), Exact(u, r)
  PROVE  /\ t <= u => Scaled(t, r) <= Scaled(u, r)
         /\ 0 < t => 0 < Scaled(t, r)
<1> DEFINE a == Above(r)
           b == Below(r)
           p == t * a
           q == u * a
           x == p \div b
           y == q \div b
<1>1. a \in Nat /\ b \in Nat /\ a > 0 /\ b > 0
  BY Factors
<1>2. p \in Int /\ q \in Int
  BY <1>1
<1>3. p % b = 0 /\ q % b = 0
  BY DEF Exact
<1>4. x \in Int /\ p = b * x /\ y \in Int /\ q = b * y
  <2> HIDE DEF a, b, p, q
  <2> QED BY <1>1, <1>2, <1>3, DividedOut
<1>5. t <= u => x <= y
  <2> SUFFICES ASSUME t <= u, y < x PROVE FALSE
    BY <1>4
  <2>1. p <= q
    BY <1>1, Monotone
  <2>2. y + 1 <= x
    BY <1>4
  <2>3. b * (y + 1) <= b * x
    <3> HIDE DEF a, b, p, q, x, y
    <3> QED BY <1>1, <1>4, <2>2, Monotone
  <2>4. b * (y + 1) = b * y + b
    <3> HIDE DEF a, b, p, q, x, y
    <3> QED BY <1>1, <1>4
  <2> HIDE DEF a, b, p, q, x, y
  <2> QED BY <1>1, <1>2, <1>4, <2>1, <2>3, <2>4
<1>6. 0 < t => 0 < x
  <2> SUFFICES ASSUME 0 < t, x <= 0 PROVE FALSE
    BY <1>4
  <2>1. 1 * a <= t * a
    BY <1>1, Monotone
  <2>2. b * x <= b * 0
    <3> HIDE DEF a, b, p, q, x, y
    <3> QED BY <1>1, <1>4, Monotone
  <2>3. 1 * a = a /\ b * 0 = 0 /\ t * a = p
    BY <1>1
  <2> HIDE DEF a, b, p, q, x, y
  <2> QED BY <1>1, <1>2, <1>4, <2>1, <2>2, <2>3
<1> QED BY <1>5, <1>6 DEF Scaled

-----------------------------------------------------------------------------
LEMMA InvInit == Init => Inv
<1> SUFFICES ASSUME Init PROVE Inv
  OBVIOUS
<1> USE DEF Init
<1>1. Flags
  BY Zenon DEF Flags
<1>2. /\ interval \in Int /\ interval > 0
      /\ totalLap \in Laps \cup {1} /\ totalLap \in Int
  BY Numbers
<1>3. /\ interval * totalLap = interval + interval * (totalLap - 1)
      /\ interval * totalLap \in Int
  BY <1>2, Distributive
<1>4. Times
  BY <1>2, <1>3, Numbers DEF Times
<1>5. FrameInv /\ CountInv /\ GameTimeNotAhead /\ CountsFromItsFrame
  BY <1>2, <1>3, <1>4
  DEF FrameInv, CountInv, GameTimeNotAhead, CountsFromItsFrame
<1>6. LapInv /\ LeftTimeConsistent /\ LapsOnTime
  BY <1>2, <1>3 DEF LapInv, LeftTimeConsistent, LapsOnTime
<1> QED BY <1>1, <1>4, <1>5, <1>6, InvParts

LEMMA FlagsNext == Flags /\ [Next]_vars => Flags'
<1> SUFFICES ASSUME Flags, [Next]_vars PROVE Flags'
  OBVIOUS
<1> USE DEF Flags, clockVars, loop, timerVars, lapVars, history
<1>1. CASE CountdownTick
  <2>1. isStop' \in BOOLEAN
    BY <1>1, SMT DEF CountdownTick
  <2> QED BY <1>1, <2>1, Zenon DEF CountdownTick, Tick
<1>2. CASE Pass \/ UpdateBegin \/ Unlink \/ TickReturn \/ UpdateEnd \/ LateUpdate
  BY <1>2, Zenon DEF Pass, UpdateBegin, Unlink, TickReturn, UpdateEnd, LateUpdate
<1>3. CASE LapTick
  BY <1>3, Zenon DEF LapTick, LapTickInto, Tick
<1>4. CASE LapReturn
  BY <1>4, Zenon DEF LapReturn, LapReturnAs
<1>5. CASE Clear
  <2>1. cleared' \in BOOLEAN
    BY <1>5, SMT DEF Clear
  <2> QED BY <1>5, <2>1, Zenon DEF Clear
<1>7. CASE Game /\ ~Clear
  BY <1>7, Zenon
  DEF Game, Start, Stop, CountdownSet, CountdownRestart, CountdownAdd,
      CountdownScale, LapSet, LapRestart, LapsBegin, LapAdd, LapsAdded,
      LapScale, Begins, Counts, Changes
<1>6. CASE UNCHANGED vars
  BY <1>6, Zenon DEF vars
<1> QED BY <1>1, <1>2, <1>3, <1>4, <1>5, <1>6, <1>7 DEF Next, Frame

-----------------------------------------------------------------------------
(* The clock's part: game time, and what a timer has counted.              *)

LEMMA TimesNext ==
  ASSUME Times, FrameInv, CountInv, GameTimeNotAhead, CountsFromItsFrame,
         [Next]_vars
  PROVE  /\ Times' /\ FrameInv' /\ CountInv'
         /\ GameTimeNotAhead' /\ CountsFromItsFrame'
<1> DEFINE P == Times /\ FrameInv /\ CountInv
                /\ GameTimeNotAhead /\ CountsFromItsFrame
<1> SUFFICES P'
  OBVIOUS
<1> USE Numbers
    DEF Times, FrameInv, CountInv, GameTimeNotAhead, CountsFromItsFrame
<1>1. CASE Pass
  BY <1>1 DEF Pass, loop, timerVars, lapVars, history
<1>2. CASE UpdateBegin
  BY <1>2 DEF UpdateBegin, loop, timerVars, lapVars, history
<1>3. CASE Unlink
  BY <1>3 DEF Unlink, clockVars, loop, lapVars, history
<1>a. ASSUME Tick, phase' \in {"update", "lap", "tick"}, kind' = kind,
             scaledInterval' = scaledInterval, lapLeftTime' \in Int,
             totalLap' = totalLap, leftLap' = leftLap
      PROVE  P'
  <2>1. /\ phase = "update" /\ leftTime' = leftTime - deltaTime
        /\ ticked' = ticked + 1
    BY <1>a DEF Tick, Reached
  <2>2. ~changed' => ~changed /\ ticked = 0
    <3>1. ~changed' => ~changed /\ ~(ticked > 0)
      BY <1>a, Zenon DEF Tick
    <3> QED BY <3>1
  <2>3. UNCHANGED <<now, frameStart, deltaTime, gameTime, interval, whole,
                    startFrame, lead>>
    BY <1>a DEF Tick
  <2> QED BY <1>a, <2>1, <2>2, <2>3
<1>4. CASE CountdownTick
  BY <1>4, <1>a DEF CountdownTick, Tick, lapVars
<1>5. CASE LapTick
  <2>1. /\ phase' \in {"update", "lap"} /\ lapLeftTime' \in Int
        /\ UNCHANGED <<kind, scaledInterval, totalLap, leftLap>>
    BY <1>5 DEF LapTick, LapTickInto, Tick
  <2> QED BY <1>5, <1>a, <2>1 DEF LapTick, LapTickInto
<1>6. CASE LapReturn
  BY <1>6 DEF LapReturn, LapReturnAs, loop, history
<1>7. CASE TickReturn
  BY <1>7 DEF TickReturn, loop, timerVars, lapVars, history
<1>8. CASE UpdateEnd
  BY <1>8 DEF UpdateEnd, timerVars, lapVars, history
<1>9. CASE LateUpdate
  <2>1. CASE Elapsed < minDeltaTimeTick
    BY <1>9, <2>1 DEF LateUpdate, Elapsed, loop, timerVars, lapVars, history
  <2>2. CASE ~(Elapsed < minDeltaTimeTick)
    BY <1>9, <2>2 DEF LateUpdate, Elapsed, loop, timerVars, lapVars, history
  <2> QED BY <2>1, <2>2
<1>10. CASE Start \/ Stop \/ Clear
  BY <1>10 DEF Start, Stop, Clear, clockVars, loop, lapVars, history
<1>b. ASSUME NEW time \in Int, Begins(time), interval' \in Time,
             scaledInterval' \in Int, lapLeftTime' \in Int,
             totalLap' \in Laps \cup {1}, leftLap' \in Int
      PROVE  P'
  <2>1. /\ leftTime' = time /\ whole' = time /\ startFrame' = frameStart
        /\ lead' = IF phase = "update" /\ ticked = 0 THEN deltaTime ELSE 0
        /\ UNCHANGED <<now, phase, frameStart, deltaTime, gameTime, ticked, kind>>
    BY <1>b DEF Begins, Counts, clockVars, loop
  <2> QED BY <1>b, <2>1
<1>11. ASSUME NEW t \in Time, CountdownSet(t) PROVE P'
  BY <1>11, <1>b DEF CountdownSet, lapVars
<1>12. CASE CountdownRestart
  BY <1>12, <1>b DEF CountdownRestart, lapVars
<1>c. ASSUME Changes, leftTime' \in Int, scaledInterval' \in Int,
             lapLeftTime' \in Int, leftLap' \in Int, totalLap' = totalLap
      PROVE  P'
  BY <1>c DEF Changes, clockVars, loop
<1>13. ASSUME NEW t \in Extra, CountdownAdd(t) PROVE P'
  BY <1>13, <1>c DEF CountdownAdd, lapVars
<1>14. ASSUME NEW r \in Ratio, CountdownScale(r) PROVE P'
  <2>1. leftTime' \in Int
    BY <1>14, ScaledInt DEF CountdownScale
  <2> QED BY <1>14, <1>c, <2>1 DEF CountdownScale, lapVars
<1>15. ASSUME NEW t \in Time, NEW n \in Laps, LapSet(t, n) PROVE P'
  <2>1. t * n \in Int
    BY Distributive
  <2> QED BY <1>15, <1>b, <2>1 DEF LapSet, LapsBegin
<1>16. CASE LapRestart
  <2>1. interval * totalLap \in Int
    BY Distributive
  <2> QED BY <1>16, <1>b, <2>1 DEF LapRestart, LapsBegin
<1>17. ASSUME NEW n \in Laps, LapAdd(n) PROVE P'
  <2>1. leftTime' \in Int
    BY <1>17, Distributive DEF LapAdd, LapsAdded
  <2> QED BY <1>17, <1>c, <2>1 DEF LapAdd, LapsAdded
<1>18. ASSUME NEW r \in Ratio, LapScale(r) PROVE P'
  <2>1. scaledInterval' \in Int /\ lapLeftTime' \in Int
    BY <1>18, ScaledInt DEF LapScale
  <2>2. leftTime' \in Int
    BY <1>18, <2>1, Distributive DEF LapScale
  <2> QED BY <1>18, <1>c, <2>1, <2>2 DEF LapScale
<1>19. CASE UNCHANGED vars
  BY <1>19 DEF vars, clockVars, loop, timerVars, lapVars, history
<1> QED
  BY <1>1, <1>2, <1>3, <1>4, <1>5, <1>6, <1>7, <1>8, <1>9, <1>10, <1>11, <1>12,
     <1>13, <1>14, <1>15, <1>16, <1>17, <1>18, <1>19
  DEF Next, Frame, Game

-----------------------------------------------------------------------------
(* The laps' part.                                                         *)

\* What a step leaves of the laps when it touches none of them.
LapsKept ==
  /\ UNCHANGED <<kind, scaledInterval, lapLeftTime, leftLap>>
  /\ UNCHANGED <<tampered, slow>>
  /\ kind = "lap" => UNCHANGED leftTime
  /\ phase' = phase \/ (phase /= "lap" /\ phase' /= "lap")

LEMMA LapsNext ==
  ASSUME Flags, Times, LapInv, LeftTimeConsistent, LapsOnTime, [Next]_vars
  PROVE  LapInv' /\ LeftTimeConsistent' /\ LapsOnTime'
<1> DEFINE P == LapInv /\ LeftTimeConsistent /\ LapsOnTime
<1> SUFFICES P'
  OBVIOUS
<1>a. ASSUME LapsKept PROVE P'
  BY <1>a DEF LapsKept, LapInv, LeftTimeConsistent, LapsOnTime
<1>b. ASSUME ~(kind = "lap"), LapsKept \/ (kind' = kind /\ UNCHANGED lapVars),
             phase' /= "lap"
      PROVE  P'
  BY <1>b DEF LapsKept, LapInv, LeftTimeConsistent, LapsOnTime, lapVars
<1>1. CASE Pass \/ UpdateBegin \/ Unlink \/ TickReturn \/ UpdateEnd \/ LateUpdate
  BY <1>1, <1>a
  DEF Pass, UpdateBegin, Unlink, TickReturn, UpdateEnd, LateUpdate, LapsKept,
      clockVars, timerVars, lapVars
<1>2. CASE Start \/ Stop \/ Clear
  BY <1>2, <1>a DEF Start, Stop, Clear, LapsKept, clockVars, lapVars
<1>3. CASE CountdownTick
  BY <1>3, <1>b DEF CountdownTick, Tick
<1>4. CASE \/ \E t \in Time : CountdownSet(t)
           \/ CountdownRestart
           \/ \E t \in Extra : CountdownAdd(t)
           \/ \E r \in Ratio : CountdownScale(r)
  <2>1. kind = "countdown" /\ kind' = kind /\ UNCHANGED lapVars /\ phase' = phase
    BY <1>4
    DEF CountdownSet, CountdownRestart, CountdownAdd, CountdownScale, Begins,
        Changes, clockVars
  <2> QED BY <2>1, <1>b DEF LapInv
<1>5. ASSUME NEW t \in Int, t > 0, NEW n \in Int, LapsBegin(t, n) PROVE P'
  <2>1. /\ kind' = "lap" /\ phase' = phase /\ leftTime' = t * n
        /\ scaledInterval' = t /\ lapLeftTime' = t /\ leftLap' = n
    BY <1>5 DEF LapsBegin, Begins, clockVars
  <2>2. tampered' = (phase = "lap")
    BY <1>5 DEF LapsBegin
  <2>3. t * n = t + t * (n - 1)
    BY <1>5, Distributive
  <2>4. LeftTimeConsistent'
    BY <2>1, <2>2, <2>3 DEF LeftTimeConsistent
  <2> QED BY <1>5, <2>1, <2>4 DEF LapInv, LapsOnTime
<1>6. ASSUME NEW t \in Time, NEW n \in Laps, LapSet(t, n) PROVE P'
  BY <1>6, <1>5, Numbers DEF LapSet
<1>7. CASE LapRestart
  BY <1>7, <1>5, Numbers DEF LapRestart, Times
<1>8. ASSUME NEW n \in Laps, LapAdd(n) PROVE P'
  <2>1. /\ kind' = kind /\ phase' = phase
        /\ scaledInterval' = scaledInterval /\ lapLeftTime' = lapLeftTime
        /\ leftLap' = leftLap + n /\ leftTime' = leftTime + scaledInterval * n
    BY <1>8 DEF LapAdd, LapsAdded, Changes, clockVars
  <2>2. tampered' = tampered /\ slow' = slow
    BY <1>8 DEF LapAdd, LapsAdded
  <2>3. n \in Int /\ leftLap \in Int /\ scaledInterval \in Int
    BY Numbers DEF Times
  <2>4. \A k \in Int : scaledInterval * ((leftLap + n) - k)
                        = scaledInterval * (leftLap - k) + scaledInterval * n
    BY <2>3, Distributive
  <2>5. LeftTimeConsistent'
    BY <2>1, <2>2, <2>3, <2>4 DEF LeftTimeConsistent, Times
  <2> QED BY <2>1, <2>2, <2>5 DEF LapInv, LapsOnTime
<1>9. ASSUME NEW r \in Ratio, LapScale(r) PROVE P'
  <2>1. /\ kind = "lap" /\ kind' = kind /\ phase' = phase /\ leftLap' = leftLap
        /\ scaledInterval' = Scaled(scaledInterval, r)
        /\ lapLeftTime' = Scaled(lapLeftTime, r)
        /\ leftTime' = lapLeftTime' + scaledInterval' * (leftLap - 1)
    BY <1>9 DEF LapScale, Changes, clockVars
  <2>2. slow' = slow /\ tampered' = (phase = "lap")
    BY <1>9 DEF LapScale
  <2>3. /\ lapLeftTime <= scaledInterval => lapLeftTime' <= scaledInterval'
        /\ 0 < scaledInterval => 0 < scaledInterval'
        /\ 0 < lapLeftTime => 0 < lapLeftTime'
    BY <1>9, <2>1, ScaledOrder DEF LapScale, Times
  <2>4. LeftTimeConsistent'
    BY <2>1, <2>2 DEF LeftTimeConsistent
  <2> QED BY <2>1, <2>2, <2>3, <2>4 DEF LapInv, LapsOnTime
<1>10. CASE LapTick
  <2> DEFINE left == lapLeftTime - deltaTime
  <2>1. /\ kind = "lap" /\ kind' = kind /\ phase = "update"
        /\ leftTime' = leftTime - deltaTime
        /\ scaledInterval' = scaledInterval /\ leftLap' = leftLap
        /\ IF left <= 0
           THEN lapLeftTime' = left + scaledInterval /\ phase' = "lap"
           ELSE lapLeftTime' = left /\ phase' = "update"
    BY <1>10 DEF LapTick, LapTickInto, Tick, Reached
  <2>2. tampered' = tampered
    BY <1>10 DEF LapTick, LapTickInto
  <2>3. ~slow' => ~slow /\ ~(deltaTime > scaledInterval)
    BY <1>10, Zenon DEF LapTick, LapTickInto
  <2>4. /\ leftTime \in Int /\ lapLeftTime \in Int /\ scaledInterval \in Int
        /\ leftLap \in Int /\ deltaTime \in Int /\ deltaTime >= 0
    BY Numbers DEF Times
  <2>5. scaledInterval * (leftLap - 1)
          = scaledInterval * (leftLap - 2) + scaledInterval
    BY <2>4, Distributive
  <2>6. LeftTimeConsistent'
    BY <2>1, <2>2, <2>4, <2>5 DEF LeftTimeConsistent
  <2>7. LapsOnTime'
    BY <2>1, <2>3, <2>4 DEF LapsOnTime, LapInv
  <2>8. LapInv'
    BY <2>1, <2>4 DEF LapInv
  <2> QED BY <2>6, <2>7, <2>8
<1>11. CASE LapReturn
  <2>1. /\ phase = "lap" /\ phase' /= "lap" /\ leftLap' = leftLap - 1
        /\ UNCHANGED <<kind, leftTime, scaledInterval, lapLeftTime>>
    BY <1>11 DEF LapReturn, LapReturnAs
  <2>2. UNCHANGED <<tampered, slow>>
    BY <1>11 DEF LapReturn, LapReturnAs
  <2>3. leftLap \in Int
    BY DEF Times
  <2>4. (leftLap - 1) - 1 = leftLap - 2
    BY <2>3
  <2> QED BY <2>1, <2>2, <2>4 DEF LapInv, LeftTimeConsistent, LapsOnTime
<1>12. CASE UNCHANGED vars
  BY <1>12, <1>a DEF vars, LapsKept, clockVars, timerVars, lapVars
<1> QED
  BY <1>1, <1>2, <1>3, <1>4, <1>6, <1>7, <1>8, <1>9, <1>10, <1>11, <1>12
  DEF Next, Frame, Game

-----------------------------------------------------------------------------
LEMMA InvNext == Inv /\ [Next]_vars => Inv'
<1> SUFFICES ASSUME Inv, [Next]_vars PROVE Inv'
  OBVIOUS
<1>1. Flags'
  BY FlagsNext, InvParts
<1>2. /\ Times' /\ FrameInv' /\ CountInv'
      /\ GameTimeNotAhead' /\ CountsFromItsFrame'
  BY TimesNext, InvParts
<1>3. LapInv' /\ LeftTimeConsistent' /\ LapsOnTime'
  BY LapsNext, InvParts
<1> QED BY <1>1, <1>2, <1>3 DEF Inv, TypeOK, Flags, Times

\* The inductive invariant, with the types.
THEOREM TimerCorrect == Spec => []Inv
BY InvInit, InvNext, PTL DEF Spec

\* LateUpdate never reports more time than the clock has shown by the next
\* frame.
THEOREM ClockNotAhead == Spec => []GameTimeNotAhead
<1>1. Inv => GameTimeNotAhead
  BY DEF Inv
<1> QED BY <1>1, TimerCorrect, PTL

\* Neither timer counts more than the time since the beginning of the frame
\* it was set or restarted in, and at most one frame before, if a callback did
\* that in Update before the loop came to it (GameTimeManager.cpp:44, 75).
THEOREM TimerNotEarly == Spec => []CountsFromItsFrame
<1>1. Inv => CountsFromItsFrame
  BY DEF Inv
<1> QED BY <1>1, TimerCorrect, PTL

\* LapTimer's two accounts of the time that is left agree, unless
\* OnLapTimeUp set, restarted or scaled the timer.
THEOREM LapTimeConsistent == Spec => []LeftTimeConsistent
<1>1. Inv => LeftTimeConsistent
  BY DEF Inv
<1> QED BY <1>1, TimerCorrect, PTL

\* With no frame longer than a lap, a lap is announced in the frame it ends.
THEOREM LapsAnnounced == Spec => []LapsOnTime
<1>1. Inv => LapsOnTime
  BY DEF Inv
<1> QED BY <1>1, TimerCorrect, PTL

-----------------------------------------------------------------------------
(* When OnTimeUp is called.                                                *)

\* The laps and the time that are left run out together.
RunOutTogether ==
  kind = "lap" /\ ~tampered =>
    /\ phase = "lap" /\ leftLap < 2 => leftTime <= 0
    /\ ~slow /\ phase /= "lap" /\ leftTime <= 0 => leftLap < 1

LEMMA LastLap ==
  ASSUME Times, LapInv, LeftTimeConsistent, LapsOnTime
  PROVE  RunOutTogether
<1> SUFFICES ASSUME kind = "lap", ~tampered
             PROVE  /\ phase = "lap" /\ leftLap < 2 => leftTime <= 0
                    /\ ~slow /\ phase /= "lap" /\ leftTime <= 0 => leftLap < 1
  BY DEF RunOutTogether
<1>1. /\ leftTime \in Int /\ lapLeftTime \in Int
      /\ scaledInterval \in Int /\ scaledInterval > 0 /\ leftLap \in Int
      /\ lapLeftTime <= scaledInterval
  BY DEF Times, LapInv
<1>2. ASSUME phase = "lap", leftLap < 2 PROVE leftTime <= 0
  <2>1. leftTime = lapLeftTime + scaledInterval * (leftLap - 2)
    BY <1>2 DEF LeftTimeConsistent
  <2>2. scaledInterval * (leftLap - 2) <= scaledInterval * (-1)
    BY <1>1, <1>2, Monotone
  <2>3. scaledInterval * (-1) = -scaledInterval
    BY <1>1
  <2>4. scaledInterval * (leftLap - 2) \in Int
    BY <1>1
  <2> HIDE DEF Times
  <2> QED BY <1>1, <2>1, <2>2, <2>3, <2>4
<1>3. ASSUME ~slow, phase /= "lap", leftTime <= 0, ~(leftLap < 1) PROVE FALSE
  <2>1. leftTime = lapLeftTime + scaledInterval * (leftLap - 1)
    BY <1>3 DEF LeftTimeConsistent
  <2>2. scaledInterval * 0 <= scaledInterval * (leftLap - 1)
    BY <1>1, <1>3, Monotone
  <2>3. scaledInterval * 0 = 0 /\ scaledInterval * (leftLap - 1) \in Int
    BY <1>1
  <2>4. 0 < lapLeftTime
    BY <1>3 DEF LapsOnTime
  <2> QED BY <1>1, <1>3, <2>1, <2>2, <2>3, <2>4
<1> QED BY <1>2, <1>3

LEMMA DueStep ==
  ASSUME Inv, RunOutTogether, RunOutTogether', [Next]_vars, ~tampered'
  PROVE  /\ phase /= "tick" /\ phase' = "tick" => leftTime' <= 0
         /\ kind = "lap" /\ ~slow' /\ phase' /= "lap" /\ leftTime' <= 0 =>
              leftLap' < 1
<1>1. kind' = kind
  BY DEF Next, Frame, Game, Pass, UpdateBegin, Unlink, TickReturn, UpdateEnd,
      LateUpdate, CountdownTick, LapTick, LapTickInto, LapReturn, LapReturnAs,
      Tick, Start, Stop, Clear,
      CountdownSet, CountdownRestart, CountdownAdd, CountdownScale, LapSet,
      LapRestart, LapsBegin, LapAdd, LapsAdded, LapScale, Begins, Changes, vars,
      clockVars, timerVars
<1>2. ASSUME kind = "lap", ~slow', phase' /= "lap", leftTime' <= 0
      PROVE  leftLap' < 1
  <2>1. kind' = "lap" /\ ~tampered'
    BY <1>1, <1>2
  <2> QED BY <1>2, <2>1 DEF RunOutTogether
<1>3. ASSUME phase /= "tick", phase' = "tick" PROVE leftTime' <= 0
  <2>1. CountdownTick \/ LapReturn
    BY <1>3
    DEF Next, Frame, Game, Pass, UpdateBegin, Unlink, TickReturn, UpdateEnd,
        LateUpdate, LapTick, LapTickInto,
        Start, Stop, Clear, CountdownSet, CountdownRestart, CountdownAdd,
        CountdownScale, LapSet, LapRestart, LapsBegin, LapAdd, LapsAdded, LapScale,
        Begins, Changes, vars, clockVars
  <2>2. CASE CountdownTick
    BY <1>3, <2>2 DEF CountdownTick
  <2>3. CASE LapReturn
    <3>1. /\ phase = "lap" /\ leftTime' = leftTime /\ leftLap - 1 < 1
      BY <1>3, <2>3 DEF LapReturn, LapReturnAs
    <3>2. ~tampered
      BY <2>3 DEF LapReturn, LapReturnAs
    <3>3. Times /\ LapInv
      BY InvParts
    <3>4. kind = "lap" /\ leftLap < 2
      BY <3>1, <3>3 DEF LapInv, Times
    <3> QED BY <3>1, <3>2, <3>4 DEF RunOutTogether
  <2> QED BY <2>1, <2>2, <2>3
<1> QED BY <1>2, <1>3

\* OnTimeUp comes when the time is up, not before it and no lap late.
THEOREM TimeUpExact == Spec => TimeUpWhenDue
<1>1. Inv => RunOutTogether
  BY InvParts, LastLap
<1>2. Inv /\ RunOutTogether /\ RunOutTogether' /\ [Next]_vars =>
        [~tampered' =>
           /\ phase /= "tick" /\ phase' = "tick" => leftTime' <= 0
           /\ kind = "lap" /\ ~slow' /\ phase' /= "lap" /\ leftTime' <= 0 =>
                leftLap' < 1]_vars
  BY DueStep
<1> QED BY <1>1, <1>2, TimerCorrect, PTL DEF Spec, TimeUpWhenDue

-----------------------------------------------------------------------------
(* The data file, the text tables and their managers.                      *)

\* The types of the state that Open and its failures change.
MapTypes ==
  /\ mapped \in [Manager -> File \union {None}]
  /\ dataFd \in [Manager -> 0 .. MaxFd]
  /\ fdStat \in [Manager -> File \union {None}]
  /\ opened \in [Fd -> File \union {None}]
  /\ lost \subseteq Fd

LEMMA MapTypesInit == DataInit => MapTypes
  BY DataAssumption DEF DataInit, MapTypes, Fd

\* The descriptor that open chooses.
LEMMA LowestIsLeast ==
  ASSUME NEW S \in SUBSET Fd, S /= {}
  PROVE  Lowest(S) \in S
<1>1. S \in SUBSET Nat
  BY DataAssumption DEF Fd
<1> QED
  BY <1>1, LeastNumber DEF Lowest

\* The manager that a step of m does not touch.
Other(m) == IF m = "text" THEN "data" ELSE "text"

(***************************************************************************)
(* MappingsSound once more, in the form in which a step of manager m can   *)
(* be followed, and with what makes it inductive: a descriptor that was    *)
(* lost stays open, so it is not given out again.                          *)
(***************************************************************************)
LostStayOpen == \A n \in lost : opened[n] /= None

Holds(m) ==
  mapped[m] /= None =>
    /\ fdStat[m] = mapped[m]
    /\ dataFd[m] \in Fd \ lost
    /\ opened[dataFd[m]] = mapped[m]

Apart ==
  mapped["text"] /= None /\ mapped["data"] /= None =>
    dataFd["text"] /= dataFd["data"]

Accounted ==
  \A n \in Fd : opened[n] /= None =>
    n \in lost \/ \E m \in Manager : mapped[m] /= None /\ dataFd[m] = n

MapInv == LostStayOpen /\ (\A m \in Manager : Holds(m)) /\ Apart /\ Accounted

LEMMA MapInvIsSound == MapInv <=> MappingsSound /\ LostStayOpen
  BY DEF MapInv, MappingsSound, Holds, Apart, Accounted, Live

\* What munmap and close leave: all that is open is accounted for without m.
LEMMA AfterRelease ==
  ASSUME MapTypes, MapInv, NEW m \in Manager
  PROVE  /\ Released(m) \in [Fd -> File \union {None}]
         /\ \A n \in lost : Released(m)[n] /= None
         /\ mapped[Other(m)] /= None =>
              Released(m)[dataFd[Other(m)]] = mapped[Other(m)]
         /\ \A n \in Fd : Released(m)[n] /= None =>
              n \in lost \/ (mapped[Other(m)] /= None /\ dataFd[Other(m)] = n)
<1>1. CASE mapped[m] = None
  BY <1>1 DEF MapTypes, MapInv, LostStayOpen, Holds, Accounted, Released,
              Other, Manager
<1>2. CASE mapped[m] /= None
  <2>1. /\ dataFd[m] \in Fd \ lost
        /\ Released(m) = [opened EXCEPT ![dataFd[m]] = None]
    BY <1>2 DEF MapInv, Holds, Released
  <2>2. mapped[Other(m)] /= None => dataFd[Other(m)] /= dataFd[m]
    BY <1>2 DEF MapInv, Apart, Other, Manager
  <2> QED
    BY <2>1, <2>2 DEF MapTypes, MapInv, LostStayOpen, Holds, Accounted, Other,
                      Manager
<1> QED
  BY <1>1, <1>2

\* What open and fstat do when they succeed.
LEMMA AfterOpen ==
  ASSUME MapTypes, MapInv, NEW m \in Manager, NEW file \in File, Open(m, file)
  PROVE  /\ dataFd'[m] \in Fd
         /\ dataFd' = [dataFd EXCEPT ![m] = dataFd'[m]]
         /\ fdStat' = [fdStat EXCEPT ![m] = file]
         /\ opened' = [Released(m) EXCEPT ![dataFd'[m]] = file]
         /\ Released(m)[dataFd'[m]] = None
<1>1. Unused(m) \in SUBSET Fd /\ Unused(m) /= {}
  BY DEF Unused, Open
<1>2. Lowest(Unused(m)) \in Unused(m)
  BY <1>1, LowestIsLeast
<1>3. dataFd'[m] = Lowest(Unused(m))
  BY DEF Open, MapTypes
<1> QED
  BY <1>2, <1>3 DEF Open, Unused

LEMMA OpenTypes ==
  ASSUME MapTypes, MapInv, NEW m \in Manager, NEW file \in File, Open(m, file)
  PROVE  /\ dataFd' \in [Manager -> 0 .. MaxFd]
         /\ fdStat' \in [Manager -> File \union {None}]
         /\ opened' \in [Fd -> File \union {None}]
<1>1. dataFd'[m] \in 0 .. MaxFd
  BY AfterOpen, DataAssumption DEF Fd
<1>2. Released(m) \in [Fd -> File \union {None}]
  BY AfterRelease
<1>3. dataFd' \in [Manager -> 0 .. MaxFd]
  BY <1>1, AfterOpen DEF MapTypes
<1>4. fdStat' \in [Manager -> File \union {None}]
  BY AfterOpen DEF MapTypes
<1>5. opened' \in [Fd -> File \union {None}]
  BY <1>2, AfterOpen
<1> QED
  BY <1>3, <1>4, <1>5

LEMMA MapSound ==
  ASSUME MapTypes, MapInv, NEW m \in Manager, NEW file \in File,
         Map(m, file)
  PROVE  MapTypes' /\ MapInv'
<1> USE DataAssumption
<1>1. Open(m, file) /\ mapped' = [mapped EXCEPT ![m] = file] /\ lost' = lost
  BY DEF Map
<1>2. file /= None
  BY DEF File
<1>3. MapTypes'
  BY <1>1, OpenTypes, AfterOpen DEF MapTypes
<1>4. LostStayOpen' /\ Apart' /\ \A k \in Manager : Holds(k)'
  BY <1>1, <1>2, AfterRelease, AfterOpen
  DEF MapTypes, MapInv, LostStayOpen, Holds, Apart, Other, Manager
<1>5. Accounted'
  BY <1>1, <1>2, AfterRelease, AfterOpen
  DEF MapTypes, Accounted, Other, Manager
<1> QED
  BY <1>3, <1>4, <1>5 DEF MapInv

LEMMA MmapFailsSound ==
  ASSUME MapTypes, MapInv, NEW m \in Manager, NEW file \in File,
         MmapFails(m, file)
  PROVE  MapTypes' /\ MapInv'
<1> USE DataAssumption
<1>1. /\ Open(m, file) /\ mapped' = [mapped EXCEPT ![m] = None]
      /\ lost' = lost \union {dataFd'[m]}
  BY DEF MmapFails
<1>2. file /= None
  BY DEF File
<1>3. MapTypes'
  BY <1>1, OpenTypes, AfterOpen DEF MapTypes
<1>4. LostStayOpen' /\ Apart' /\ \A k \in Manager : Holds(k)'
  BY <1>1, <1>2, AfterRelease, AfterOpen
  DEF MapTypes, MapInv, LostStayOpen, Holds, Apart, Other, Manager
<1>5. Accounted'
  BY <1>1, <1>2, AfterRelease, AfterOpen
  DEF MapTypes, Accounted, Other, Manager
<1> QED
  BY <1>3, <1>4, <1>5 DEF MapInv

LEMMA OpenFailsSound ==
  ASSUME MapTypes, MapInv, NEW m \in Manager, NEW file \in File,
         OpenFails(m, file)
  PROVE  MapTypes' /\ MapInv'
<1> USE DataAssumption
<1>1. /\ opened' = Released(m) /\ dataFd' = [dataFd EXCEPT ![m] = 0]
      /\ mapped' = [mapped EXCEPT ![m] = None]
      /\ fdStat' = fdStat /\ lost' = lost
  BY DEF OpenFails
<1>2. MapTypes'
  BY <1>1, AfterRelease DEF MapTypes, Fd
<1>3. LostStayOpen' /\ Apart' /\ \A k \in Manager : Holds(k)'
  BY <1>1, AfterRelease
  DEF MapTypes, MapInv, LostStayOpen, Holds, Apart, Other, Manager
<1>4. Accounted'
  BY <1>1, AfterRelease DEF MapTypes, Accounted, Other, Manager
<1> QED
  BY <1>2, <1>3, <1>4 DEF MapInv

\* Whatever a manager does with a file.
LEMMA ManagerSound ==
  ASSUME MapTypes, MapInv, NEW m \in Manager, NEW file \in File,
         Map(m, file) \/ MapFails(m, file)
  PROVE  MapTypes' /\ MapInv'
  BY MapSound, MmapFailsSound, OpenFailsSound DEF MapFails

LEMMA MapInit == DataInit => MapInv
  BY DEF DataInit, MapInv, LostStayOpen, Holds, Apart, Accounted, Manager

\* The buffers spell languages, so that what is switched to is a file.
SpellsLanguages == spelled \in [Buffer -> Lang]

LEMMA SpellsLanguagesAlways == DataSpec => []SpellsLanguages
<1>1. DataInit => SpellsLanguages
  BY DEF DataInit, SpellsLanguages
<1>2. SpellsLanguages /\ [DataNext]_dataVars => SpellsLanguages'
  BY DEF SpellsLanguages, DataNext, Managers, Surroundings, CreateMmap, SwitchLanguage,
         SwitchIgnored, Switch, SwitchFails, Rewrite, Provide, dataVars
<1> QED
  BY <1>1, <1>2, PTL DEF DataSpec

LEMMA MapNext ==
  ASSUME SpellsLanguages, MapTypes, MapInv, [DataNext]_dataVars
  PROVE  MapTypes' /\ MapInv'
<1>a. ASSUME UNCHANGED mapVars PROVE MapTypes' /\ MapInv'
  BY <1>a DEF mapVars, MapTypes, MapInv, LostStayOpen, Holds, Apart, Accounted
<1>1. ASSUME NEW f \in DataFile, CreateMmap(f) PROVE MapTypes' /\ MapInv'
  <2>1. f \in File /\ "data" \in Manager
    BY DEF File, Manager
  <2> QED
    BY <1>1, <2>1, ManagerSound DEF CreateMmap
<1>2. ASSUME NEW p \in Buffer, Switch(p) \/ SwitchFails(p)
      PROVE  MapTypes' /\ MapInv'
  <2>1. spelled[p] \in File /\ "text" \in Manager
    BY DEF SpellsLanguages, File, Manager
  <2> QED
    BY <1>2, <2>1, ManagerSound DEF Switch, SwitchFails
<1>3. ASSUME NEW p \in Buffer, SwitchIgnored(p) PROVE MapTypes' /\ MapInv'
  BY <1>3, <1>a DEF SwitchIgnored
<1>4. CASE Surroundings
  BY <1>4, <1>a DEF Surroundings, Rewrite, Provide
<1>5. CASE UNCHANGED dataVars
  BY <1>5, <1>a DEF dataVars
<1> QED
  BY <1>1, <1>2, <1>3, <1>4, <1>5 DEF DataNext, Managers, SwitchLanguage

(***************************************************************************)
(* For any files, any descriptor limit and any failures of open and mmap:  *)
(* size and descriptor are those of the mapping, and nothing is left open  *)
(* but what an mmap that failed left (GameDataManager.cpp:18-37,           *)
(* I18nTextManager.cpp:13-38).                                             *)
(***************************************************************************)
THEOREM MappingsStaySound == DataSpec => []MappingsSound
<1>1. DataInit => MapTypes /\ MapInv
  BY MapTypesInit, MapInit
<1>2. SpellsLanguages /\ MapTypes /\ MapInv /\ [DataNext]_dataVars => MapTypes' /\ MapInv'
  BY MapNext
<1>3. MapInv => MappingsSound
  BY MapInvIsSound
<1> QED
  BY <1>1, <1>2, <1>3, SpellsLanguagesAlways, PTL DEF DataSpec

-----------------------------------------------------------------------------
(***************************************************************************)
(* The look-ups in a data file: the walk through a chain stops at the      *)
(* first entry that fits, and an entry that fits is in no other chain.     *)
(***************************************************************************)
\* The first place in s that is in I, or 0.
LEMMA FirstPlace ==
  ASSUME NEW I \in SUBSET Nat, I /= {}
  PROVE  Min(I) \in I
  BY LeastNumber DEF Min

DiskTypes ==
  /\ disk.texts \in [Lang -> Seq(Id)]
  /\ disk.infos \in [InfoSlot -> Seq(Name)]
  /\ disk.keys \in [KeySlot -> Seq(Key)]

LEMMA DiskWellWritten ==
  ASSUME disk \in Disk
  PROVE  DiskTypes /\ WellWritten(disk)
  BY DataAssumption DEF DiskTypes

LEMMA SlotsInRange ==
  /\ \A n \in Name : Hash[n] % infoCapacity \in InfoSlot
  /\ \A k \in Key : Slot(k) \in KeySlot
<1>1. ASSUME NEW n \in Name PROVE Hash[n] % infoCapacity \in InfoSlot
  <2>1. Hash[n] \in Nat /\ infoCapacity \in Nat \ {0}
    BY DataAssumption
  <2> QED
    BY <2>1 DEF InfoSlot
<1>2. ASSUME NEW k \in Key PROVE Slot(k) \in KeySlot
  <2>1. /\ k \in Int /\ UintRange \in Nat \ {0}
        /\ keyCapacity \in Nat \ {0}
    BY DataAssumption
  <2>2. k % UintRange \in Nat
    BY <2>1
  <2>3. (k % UintRange) % keyCapacity \in 0 .. keyCapacity - 1
    BY <2>1, <2>2
  <2> QED
    BY <2>3 DEF Slot, KeySlot
<1> QED
  BY <1>1, <1>2

LEMMA NameFound ==
  ASSUME disk \in Disk, NEW n \in Name
  PROVE  GetKeyTableOffset(n) =
           IF \E s \in InfoSlot : n \in ToSet(disk.infos[s]) THEN n ELSE None
<1> DEFINE chain == disk.infos[Hash[n] % infoCapacity]
           I == {i \in 1 .. Len(chain) : Hash[chain[i]] = Hash[n] /\ chain[i] = n}
<1>1. chain \in Seq(Name)
  BY DiskWellWritten, SlotsInRange DEF DiskTypes
<1>2. (\E s \in InfoSlot : n \in ToSet(disk.infos[s])) <=> n \in ToSet(chain)
  BY DiskWellWritten, SlotsInRange DEF WellWritten
<1>3. n \in ToSet(chain) <=> I /= {}
  BY <1>1 DEF ToSet
<1>4. GetKeyTableOffset(n) =
        LET i == IF I /= {} THEN Min(I) ELSE 0
        IN  IF i = 0 THEN None ELSE chain[i]
  BY DEF GetKeyTableOffset, SelectInSeq
<1>5. I \in SUBSET Nat /\ 0 \notin I /\ \A i \in I : chain[i] = n
  BY <1>1
<1> HIDE DEF I, chain
<1>6. I /= {} => Min(I) \in I
  BY ONLY <1>5, FirstPlace
<1> QED
  BY <1>2, <1>3, <1>4, <1>5, <1>6

LEMMA RowFound ==
  ASSUME disk \in Disk, NEW k \in Key
  PROVE  GetDataPointer(k) =
           IF \E s \in KeySlot : k \in ToSet(disk.keys[s]) THEN {k} ELSE {}
<1> DEFINE chain == disk.keys[Slot(k)]
           I == {i \in 1 .. Len(chain) : chain[i] = k}
<1>1. chain \in Seq(Key)
  BY DiskWellWritten, SlotsInRange DEF DiskTypes
<1>2. (\E s \in KeySlot : k \in ToSet(disk.keys[s])) <=> k \in ToSet(chain)
  BY DiskWellWritten, SlotsInRange DEF WellWritten, Slot
<1>3. k \in ToSet(chain) <=> I /= {}
  BY <1>1 DEF ToSet
<1>4. GetDataPointer(k) =
        LET i == IF I /= {} THEN Min(I) ELSE 0
        IN  IF i = 0 THEN {} ELSE {chain[i]}
  BY DEF GetDataPointer, SelectInSeq
<1>5. I \in SUBSET Nat /\ 0 \notin I /\ \A i \in I : chain[i] = k
  BY <1>1
<1> HIDE DEF I, chain
<1>6. I /= {} => Min(I) \in I
  BY ONLY <1>5, FirstPlace
<1> QED
  BY <1>2, <1>3, <1>4, <1>5, <1>6

LEMMA DiskStays == DataSpec => [](disk \in Disk)
<1>1. DataInit => disk \in Disk
  BY DEF DataInit
<1>2. disk \in Disk /\ [DataNext]_dataVars => (disk \in Disk)'
  BY DEF DataNext, Managers, Surroundings, CreateMmap, SwitchLanguage, SwitchIgnored,
         Switch, SwitchFails, Rewrite, Provide, dataVars
<1> QED
  BY <1>1, <1>2, PTL DEF DataSpec

(***************************************************************************)
(* A table is found under its name and a row under its key, for any        *)
(* hashes, capacities, widths of a uint, keys of either sign and chains in *)
(* any order (GameDataManager.cpp:39-81).                                  *)
(***************************************************************************)
THEOREM LookUpsFind == DataSpec => []DataFound
<1>1. disk \in Disk => DataFound
  BY NameFound, RowFound DEF DataFound
<1> QED
  BY <1>1, DiskStays, PTL

-----------------------------------------------------------------------------
(***************************************************************************)
(* Binary search. What probe has to return is what Searched says; it says  *)
(* so of a function that meets the definition of probe, and of any other   *)
(* that does, by the least range on which they would differ.               *)
(***************************************************************************)
Mid(range) == (range[1] + range[2]) \div 2

Ranges(table) == (0 .. Len(table)) \X (-1 .. Len(table) - 1)

\* One step of probe: f says what the search has to return in what is left.
Step(table, lang, id, f, range) ==
  IF range[2] - range[1] < 0 THEN NoText
  ELSE IF id = table[Mid(range) + 1] THEN Text(lang, id)
  ELSE IF id < table[Mid(range) + 1] THEN f[<<range[1], Mid(range) - 1>>]
  ELSE f[<<Mid(range) + 1, range[2]>>]

\* The definition of probe, as an equation for the function f.
Probes(table, lang, id, f) ==
  f = [range \in Ranges(table) |-> Step(table, lang, id, f, range)]

Within(table, id, min, max) == \E i \in min .. max : table[i + 1] = id

Searched(table, lang, id) ==
  [range \in Ranges(table) |->
     IF Within(table, id, range[1], range[2]) THEN Text(lang, id) ELSE NoText]

Ascending(table) ==
  \A i, j \in 1 .. Len(table) : i < j => table[i] < table[j]

\* The middle of a range is in it, and what is on either side of it is again a
\* range of the table.
LEMMA MidWithin ==
  ASSUME NEW n \in Nat, NEW min \in 0 .. n, NEW max \in -1 .. n - 1, min <= max
  PROVE  /\ Mid(<<min, max>>) \in min .. max
         /\ Mid(<<min, max>>) - 1 \in -1 .. n - 1
         /\ Mid(<<min, max>>) + 1 \in 0 .. n
         /\ Mid(<<min, max>>) + 1 \in 1 .. n
  BY DEF Mid

\* One step of the search looks at one element, and is left with the part of
\* an ascending table in which the id can be.
LEMMA OneProbe ==
  ASSUME NEW table \in Seq(Nat), Ascending(table), NEW id \in Nat,
         NEW min \in 0 .. Len(table), NEW max \in -1 .. Len(table) - 1,
         min <= max, NEW mid \in min .. max, mid + 1 \in 1 .. Len(table)
  PROVE  /\ id = table[mid + 1] => Within(table, id, min, max)
         /\ id < table[mid + 1] => (Within(table, id, min, max)
                                      <=> Within(table, id, min, mid - 1))
         /\ id > table[mid + 1] => (Within(table, id, min, max)
                                      <=> Within(table, id, mid + 1, max))
<1> DEFINE key == table[mid + 1]
<1>1. key \in Nat /\ Len(table) \in Nat
  OBVIOUS
<1>2. id = key => Within(table, id, min, max)
  BY DEF Within
<1>3. ASSUME id < key, NEW i \in min .. max, table[i + 1] = id
      PROVE  i \in min .. mid - 1
  <2>1. i /= mid
    BY <1>1, <1>3
  <2>2. ~ mid < i
    <3>1. SUFFICES ASSUME mid < i PROVE FALSE
      OBVIOUS
    <3>2. mid + 1 < i + 1 /\ i + 1 \in 1 .. Len(table)
      BY <1>1, <3>1
    <3>3. table[mid + 1] < table[i + 1]
      BY <3>2 DEF Ascending
    <3> QED
      BY <1>1, <1>3, <3>3
  <2> QED
    BY <2>1, <2>2
<1>4. ASSUME id > key, NEW i \in min .. max, table[i + 1] = id
      PROVE  i \in mid + 1 .. max
  <2>1. i /= mid
    BY <1>1, <1>4
  <2>2. ~ i < mid
    <3>1. SUFFICES ASSUME i < mid PROVE FALSE
      OBVIOUS
    <3>2. i + 1 < mid + 1 /\ i + 1 \in 1 .. Len(table)
      BY <1>1, <3>1
    <3>3. table[i + 1] < table[mid + 1]
      BY <3>2 DEF Ascending
    <3> QED
      BY <1>1, <1>4, <3>3
  <2> QED
    BY <2>1, <2>2
<1>5. min .. mid - 1 \subseteq min .. max /\ mid + 1 .. max \subseteq min .. max
  OBVIOUS
<1> QED
  BY <1>2, <1>3, <1>4, <1>5 DEF Within

LEMMA SearchedProbes ==
  ASSUME NEW table \in Seq(Nat), Ascending(table), NEW id \in Nat, NEW lang
  PROVE  Probes(table, lang, id, Searched(table, lang, id))
<1> DEFINE f == Searched(table, lang, id)
           n == Len(table)
<1>n. n \in Nat
  OBVIOUS
<1>f. \A x \in 0 .. n, y \in -1 .. n - 1 :
        f[<<x, y>>] =
          IF Within(table, id, x, y) THEN Text(lang, id) ELSE NoText
  BY DEF Searched, Ranges
<1>1. ASSUME NEW min \in 0 .. n, NEW max \in -1 .. n - 1
      PROVE  f[<<min, max>>] = Step(table, lang, id, f, <<min, max>>)
  <2> HIDE DEF f
  <2>1. CASE max - min < 0
    <3>1. ~Within(table, id, min, max)
      BY <1>n, <2>1 DEF Within
    <3> QED
      BY <1>f, <2>1, <3>1 DEF Step
  <2>2. CASE ~(max - min < 0)
    <3> DEFINE mid == Mid(<<min, max>>)
    <3>1. min <= max
      BY <1>n, <2>2
    <3>2. /\ mid \in min .. max /\ mid - 1 \in -1 .. n - 1
          /\ mid + 1 \in 0 .. n /\ mid + 1 \in 1 .. n
      BY <1>n, <3>1, MidWithin
    <3>d. Step(table, lang, id, f, <<min, max>>) =
            IF id = table[mid + 1] THEN Text(lang, id)
            ELSE IF id < table[mid + 1] THEN f[<<min, mid - 1>>]
            ELSE f[<<mid + 1, max>>]
      BY <2>2 DEF Step
    <3> HIDE DEF mid
    <3>3. /\ id = table[mid + 1] => Within(table, id, min, max)
          /\ id < table[mid + 1] => (Within(table, id, min, max)
                                       <=> Within(table, id, min, mid - 1))
          /\ id > table[mid + 1] => (Within(table, id, min, max)
                                       <=> Within(table, id, mid + 1, max))
      BY <3>1, <3>2, OneProbe
    <3>4. id = table[mid + 1] \/ id < table[mid + 1] \/ id > table[mid + 1]
      BY <3>2
    <3> QED
      BY <1>f, <3>2, <3>3, <3>4, <3>d
  <2> QED
    BY <2>1, <2>2
<1>2. \A range \in Ranges(table) : f[range] = Step(table, lang, id, f, range)
  <2> SUFFICES ASSUME NEW range \in Ranges(table)
               PROVE  f[range] = Step(table, lang, id, f, range)
    OBVIOUS
  <2>1. PICK x \in 0 .. n, y \in -1 .. n - 1 : range = <<x, y>>
    BY DEF Ranges
  <2> HIDE DEF f, n
  <2> QED
    BY <1>1, <2>1
<1>3. f = [range \in Ranges(table) |-> f[range]]
  BY DEF Searched
<1> HIDE DEF f
<1>4. f = [range \in Ranges(table) |-> Step(table, lang, id, f, range)]
  BY <1>2, <1>3
<1> QED
  BY <1>4 DEF Probes, f

Agree(table, f, g) ==
  \A x \in 0 .. Len(table), y \in -1 .. Len(table) - 1 :
    f[<<x, y>>] = g[<<x, y>>]

LEMMA ProbesAgree ==
  ASSUME NEW table \in Seq(Nat), NEW id, NEW lang, NEW f, NEW g,
         Probes(table, lang, id, f), Probes(table, lang, id, g)
  PROVE  Agree(table, f, g)
<1> DEFINE n == Len(table)
           Differ(x, y) == f[<<x, y>>] /= g[<<x, y>>]
           S == {d \in Nat : \E x \in 0 .. n, y \in -1 .. n - 1 :
                               y - x < d /\ Differ(x, y)}
<1>n. n \in Nat
  OBVIOUS
<1>s. \A x \in 0 .. n, y \in -1 .. n - 1 :
        /\ f[<<x, y>>] = Step(table, lang, id, f, <<x, y>>)
        /\ g[<<x, y>>] = Step(table, lang, id, g, <<x, y>>)
  BY DEF Probes, Ranges
<1> HIDE DEF n
<1>1. S = {}
  <2> SUFFICES ASSUME S /= {}  PROVE FALSE
    OBVIOUS
  <2>1. PICK d \in S : \A e \in S : d <= e
    <3>1. S \in SUBSET Nat
      OBVIOUS
    <3> HIDE DEF S
    <3> QED
      BY <3>1, LeastNumber
  <2>2. d \in Nat
    OBVIOUS
  <2>3. PICK x \in 0 .. n, y \in -1 .. n - 1 : y - x < d /\ Differ(x, y)
    OBVIOUS
  <2>4. \A v \in 0 .. n, w \in -1 .. n - 1 : w - v < d - 1 => ~Differ(v, w)
    <3> SUFFICES ASSUME NEW v \in 0 .. n, NEW w \in -1 .. n - 1, w - v < d - 1,
                        Differ(v, w)
                 PROVE  FALSE
      OBVIOUS
    <3>1. CASE d = 0
      <4>1. w - v < 0
        BY <1>n, <2>2, <3>1
      <4>2. \A h : Step(table, lang, id, h, <<v, w>>) = NoText
        BY ONLY <4>1 DEF Step
      <4>3. f[<<v, w>>] = g[<<v, w>>]
        <5>1. v \in 0 .. n /\ w \in -1 .. n - 1
          OBVIOUS
        <5> QED
          BY ONLY <1>s, <4>2, <5>1
      <4> QED
        BY <4>3
    <3>2. CASE d > 0
      <4>1. d - 1 \in Nat /\ ~ d <= d - 1
        BY <2>2, <3>2
      <4>2. d - 1 \in S
        BY <4>1
      <4> HIDE DEF S
      <4> QED
        BY <2>1, <4>1, <4>2
    <3> QED
      BY <2>2, <3>1, <3>2
  <2>5. CASE y - x < 0
    <3>1. \A h : Step(table, lang, id, h, <<x, y>>) = NoText
      BY ONLY <2>5 DEF Step
    <3>2. f[<<x, y>>] = g[<<x, y>>]
      <4>1. x \in 0 .. n /\ y \in -1 .. n - 1
        OBVIOUS
      <4> QED
        BY ONLY <1>s, <3>1, <4>1
    <3> QED
      BY <2>3, <3>2
  <2>6. CASE ~(y - x < 0)
    <3> DEFINE mid == Mid(<<x, y>>)
    <3>1. x <= y
      BY <1>n, <2>6
    <3>2. /\ mid \in x .. y /\ mid - 1 \in -1 .. n - 1
          /\ mid + 1 \in 0 .. n
      BY <1>n, <3>1, MidWithin
    <3>3. (mid - 1) - x < d - 1 /\ y - (mid + 1) < d - 1
      <4> HIDE DEF mid
      <4> QED
        BY <1>n, <2>2, <2>3, <3>2, SMTT(30)
    <3>4. /\ f[<<x, mid - 1>>] = g[<<x, mid - 1>>]
          /\ f[<<mid + 1, y>>] = g[<<mid + 1, y>>]
      BY <2>4, <3>2, <3>3
    <3>5. Step(table, lang, id, f, <<x, y>>) = Step(table, lang, id, g, <<x, y>>)
      BY <3>4 DEF Step
    <3> QED
      BY <1>s, <2>3, <3>5
  <2> QED
    BY <2>5, <2>6
<1>2. ASSUME NEW x \in 0 .. n, NEW y \in -1 .. n - 1, Differ(x, y)
      PROVE  FALSE
  <2>1. n + 1 \in Nat /\ y - x < n + 1
    BY <1>n
  <2>2. n + 1 \in S
    BY <1>2, <2>1
  <2> QED
    BY <1>1, <2>2
<1> QED
  BY <1>2 DEF n, Agree

\* What the search returns, for any ascending table.
LEMMA SearchFinds ==
  ASSUME NEW lang, disk.texts[lang] \in Seq(Nat), Ascending(disk.texts[lang]),
         NEW id \in Nat
  PROVE  Search(lang, id, 0) =
           IF id \in ToSet(disk.texts[lang]) THEN Text(lang, id) ELSE NoText
<1> DEFINE table == disk.texts[lang]
           probe == CHOOSE f : Probes(table, lang, id, f)
           done == Searched(table, lang, id)
<1>1. Search(lang, id, 0) = probe[<<0, Len(table) - 1>>]
  BY DEF Search, Probes, Step, Mid, Ranges
<1>2. Probes(table, lang, id, done)
  BY SearchedProbes
<1>3. Probes(table, lang, id, probe)
  BY <1>2
<1>n. table \in Seq(Nat) /\ Len(table) \in Nat
  OBVIOUS
<1> HIDE DEF table, probe
<1>4. 0 \in 0 .. Len(table) /\ Len(table) - 1 \in -1 .. Len(table) - 1
  BY <1>n
<1>5. probe[<<0, Len(table) - 1>>] = done[<<0, Len(table) - 1>>]
  <2> HIDE DEF done
  <2>1. Agree(table, probe, done)
    BY ONLY <1>n, <1>2, <1>3, ProbesAgree
  <2> QED
    BY ONLY <1>4, <2>1 DEF Agree
<1>6. done[<<0, Len(table) - 1>>] =
        IF Within(table, id, 0, Len(table) - 1) THEN Text(lang, id) ELSE NoText
  BY <1>4 DEF Searched, Ranges
<1>7. Within(table, id, 0, Len(table) - 1) <=> id \in ToSet(table)
  <2>1. ASSUME NEW i \in 0 .. Len(table) - 1
        PROVE  i + 1 \in 1 .. Len(table)
    BY <1>n
  <2>2. ASSUME NEW i \in 1 .. Len(table)
        PROVE  i - 1 \in 0 .. Len(table) - 1 /\ (i - 1) + 1 = i
    BY <1>n
  <2>3. id \in ToSet(table) <=> \E i \in 1 .. Len(table) : table[i] = id
    BY <1>n DEF ToSet
  <2>4. ASSUME NEW i \in 1 .. Len(table), table[i] = id
        PROVE  Within(table, id, 0, Len(table) - 1)
    <3>1. \E k \in 0 .. Len(table) - 1 : table[k + 1] = id
      BY ONLY <2>2, <2>4, i \in 1 .. Len(table)
    <3> QED
      BY <3>1 DEF Within
  <2> QED
    BY ONLY <2>1, <2>3, <2>4 DEF Within
<1> QED
  BY <1>1, <1>5, <1>6, <1>7 DEF table

-----------------------------------------------------------------------------
(***************************************************************************)
(* Which language the texts are of: that of the buffer the manager keeps a *)
(* pointer to, as long as nobody wrote into it, and then the one last      *)
(* asked for; without a mapping, a switch has failed if one was asked for. *)
(***************************************************************************)
LangTypes ==
  /\ mapped \in [Manager -> File \union {None}]
  /\ mapped["text"] \in Lang \union {None}
  /\ currentLanguage \in Buffer \union {None}
  /\ SpellsLanguages

LangInv ==
  /\ mapped["text"] /= None /\ ~rewritten =>
       /\ currentLanguage /= None
       /\ spelled[currentLanguage] = mapped["text"]
       /\ asked = mapped["text"]
  /\ mapped["text"] = None /\ (asked /= None \/ currentLanguage /= None) =>
       failed

LEMMA LangStep ==
  ASSUME LangTypes, LangInv, [DataNext]_dataVars
  PROVE  LangTypes' /\ LangInv'
<1> USE DataAssumption DEF LangTypes, LangInv, SpellsLanguages
<1>1. ASSUME NEW file \in DataFile, CreateMmap(file)
      PROVE  LangTypes' /\ LangInv'
  <2>1. /\ \E x \in File \union {None} : mapped' = [mapped EXCEPT !["data"] = x]
        /\ UNCHANGED <<spelled, currentLanguage, asked, failed, rewritten>>
    BY <1>1 DEF CreateMmap, Map, MapFails, MmapFails, OpenFails, langVars, File
  <2>2. mapped'["text"] = mapped["text"]
        /\ mapped' \in [Manager -> File \union {None}]
    BY <2>1 DEF Manager
  <2> QED
    BY <2>1, <2>2
<1>2. ASSUME NEW p \in Buffer, SwitchIgnored(p)
      PROVE  LangTypes' /\ LangInv'
  <2>1. p = currentLanguage /\ asked' = spelled[p]
        /\ UNCHANGED <<spelled, mapped, currentLanguage, failed, rewritten>>
    BY <1>2 DEF SwitchIgnored, mapVars
  <2> QED
    BY <2>1 DEF File
<1>3. ASSUME NEW p \in Buffer, Switch(p)
      PROVE  LangTypes' /\ LangInv'
  <2>1. /\ mapped' = [mapped EXCEPT !["text"] = spelled[p]]
        /\ currentLanguage' = p /\ asked' = spelled[p] /\ UNCHANGED spelled
    BY <1>3 DEF Switch, Map
  <2>2. mapped'["text"] = spelled[p] /\ spelled[p] \in Lang /\ p /= None
        /\ mapped' \in [Manager -> File \union {None}]
        /\ spelled[p] /= None
    BY <2>1 DEF Manager, File
  <2> QED
    BY <2>1, <2>2
<1>4. ASSUME NEW p \in Buffer, SwitchFails(p)
      PROVE  LangTypes' /\ LangInv'
  <2>1. /\ mapped' = [mapped EXCEPT !["text"] = None] /\ failed'
        /\ UNCHANGED <<spelled, currentLanguage>>
    BY <1>4 DEF SwitchFails, MapFails, MmapFails, OpenFails
  <2>2. mapped'["text"] = None
        /\ mapped' \in [Manager -> File \union {None}]
    BY <2>1 DEF Manager
  <2> QED
    BY <2>1, <2>2
<1>5. ASSUME NEW p \in Buffer, NEW lang \in Lang, Rewrite(p, lang)
      PROVE  LangTypes' /\ LangInv'
  <2>1. /\ spelled' = [spelled EXCEPT ![p] = lang]
        /\ rewritten' = (rewritten \/ p = currentLanguage)
        /\ UNCHANGED <<mapped, currentLanguage, asked, failed>>
    BY <1>5 DEF Rewrite, mapVars
  <2> QED
    BY <2>1
<1>6. ASSUME NEW file \in File, Provide(file)
      PROVE  LangTypes' /\ LangInv'
  BY <1>6 DEF Provide, mapVars, langVars
<1>7. CASE UNCHANGED dataVars
  BY <1>7 DEF dataVars, mapVars, langVars
<1> QED
  BY <1>1, <1>2, <1>3, <1>4, <1>5, <1>6, <1>7
  DEF DataNext, Managers, Surroundings, SwitchLanguage

(***************************************************************************)
(* For any files, tables and failures: GetText finds every id of the       *)
(* mapped table and no other, and the texts are of the language last asked *)
(* for unless its name was overwritten or a switch failed                  *)
(* (I18nTextManager.cpp:13-71).                                            *)
(***************************************************************************)
THEOREM TextsAreRight == DataSpec => []TextsRight
<1>1. DataInit => LangTypes /\ LangInv
  BY DataAssumption
  DEF DataInit, LangTypes, LangInv, SpellsLanguages, File, Manager
<1>2. LangTypes /\ LangInv /\ [DataNext]_dataVars => LangTypes' /\ LangInv'
  BY LangStep
<1>3. disk \in Disk /\ LangTypes /\ LangInv => TextsRight
  <2> SUFFICES ASSUME disk \in Disk, LangTypes, LangInv
               PROVE  TextsRight
    OBVIOUS
  <2>1. ASSUME NEW id \in Id, mapped["text"] /= None
        PROVE  GetText(id) =
                 IF id \in ToSet(disk.texts[mapped["text"]])
                 THEN Text(mapped["text"], id) ELSE NoText
    <3>1. mapped["text"] \in Lang /\ id \in Nat
      BY <2>1, DataAssumption DEF LangTypes
    <3>2. disk.texts[mapped["text"]] \in Seq(Nat)
      <4>1. disk.texts[mapped["text"]] \in Seq(Id) /\ Id \subseteq Nat
        BY <3>1, DiskWellWritten, DataAssumption DEF DiskTypes
      <4> DEFINE t == disk.texts[mapped["text"]]
      <4>2. t \in Seq(Id) /\ Id \subseteq Nat
        BY <4>1
      <4> HIDE DEF t
      <4>3. /\ Len(t) \in Nat /\ t = [i \in 1 .. Len(t) |-> t[i]]
            /\ \A i \in 1 .. Len(t) : t[i] \in Nat
        BY ONLY <4>2
      <4>4. t \in Seq(Nat)
        BY ONLY <4>3
      <4> QED
        BY <4>4 DEF t
    <3>3. Ascending(disk.texts[mapped["text"]])
      BY <3>1, DiskWellWritten DEF WellWritten, Ascending
    <3> QED
      BY <2>1, <3>1, <3>2, <3>3, SearchFinds DEF GetText
  <2>2. \A id \in Id :
          GetText(id) = IF mapped["text"] = None THEN Number(id)
                        ELSE IF id \in ToSet(disk.texts[mapped["text"]])
                        THEN Text(mapped["text"], id) ELSE NoText
    BY <2>1 DEF GetText
  <2> QED
    BY <2>2 DEF TextsRight, LangInv
<1> QED
  BY <1>1, <1>2, <1>3, DiskStays, PTL DEF DataSpec

-----------------------------------------------------------------------------
\* The types of the variables not spoken of so far.
RestTypes ==
  /\ present \subseteq File
  /\ asked \in Lang \union {None}
  /\ failed \in BOOLEAN /\ rewritten \in BOOLEAN

LEMMA RestStep ==
  ASSUME SpellsLanguages, RestTypes, [DataNext]_dataVars
  PROVE  RestTypes'
<1> USE DEF RestTypes
<1>1. ASSUME NEW file \in DataFile, CreateMmap(file) PROVE RestTypes'
  BY <1>1 DEF CreateMmap, langVars
<1>2. ASSUME NEW p \in Buffer, SwitchLanguage(p) PROVE RestTypes'
  BY <1>2 DEF SwitchLanguage, SwitchIgnored, Switch, SwitchFails,
              SpellsLanguages
<1>3. ASSUME NEW p \in Buffer, NEW lang \in Lang, Rewrite(p, lang)
      PROVE  RestTypes'
  BY <1>3 DEF Rewrite
<1>4. ASSUME NEW file \in File, Provide(file) PROVE RestTypes'
  BY <1>4 DEF Provide, langVars
<1>5. CASE UNCHANGED dataVars
  BY <1>5 DEF dataVars, langVars
<1> QED
  BY <1>1, <1>2, <1>3, <1>4, <1>5 DEF DataNext, Managers, Surroundings

(***************************************************************************)
(* The types of all variables, for any files, limit and failures: no       *)
(* descriptor beyond the limit, and whatever is mapped, open or asked for  *)
(* is one of the files (GameDataManager.cpp:18-37,                         *)
(* I18nTextManager.cpp:13-38).                                             *)
(***************************************************************************)
THEOREM TypesCorrect == DataSpec => []DataTypeOK
<1>1. DataInit => /\ MapTypes /\ MapInv
              /\ LangTypes /\ LangInv /\ RestTypes
  <2>1. DataInit => LangTypes /\ LangInv /\ RestTypes
    BY DataAssumption
    DEF DataInit, LangTypes, LangInv, RestTypes, SpellsLanguages, File, Manager
  <2> QED
    BY <2>1, MapTypesInit, MapInit
<1>2. /\ MapTypes /\ MapInv /\ LangTypes /\ LangInv /\ RestTypes
      /\ [DataNext]_dataVars
      => (MapTypes /\ MapInv /\ LangTypes /\ LangInv /\ RestTypes)'
  <2>1. LangTypes => SpellsLanguages
    BY DEF LangTypes
  <2> QED
    BY <2>1, MapNext, LangStep, RestStep
<1>3. disk \in Disk /\ MapTypes /\ LangTypes /\ RestTypes => DataTypeOK
  BY DEF MapTypes, LangTypes, RestTypes, SpellsLanguages, DataTypeOK
<1> QED
  BY <1>1, <1>2, <1>3, DiskStays, PTL DEF DataSpec
=============================================================================

----------------------------- MODULE GameTimer -----------------------------
(***************************************************************************)
(* The frame clock of GameTimeManager and one timer on it, a CountdownTimer*)
(* or a LapTimer. Update ticks with the length of the frame before;        *)
(* LateUpdate measures the present frame and sleeps out one that was too   *)
(* short. OnLapTimeUp and OnTimeUp hand control to the game in the middle  *)
(* of a tick, and so do the callbacks of other timers, before the loop     *)
(* comes to this one and after it. Nothing in the repository calls Update  *)
(* and LateUpdate: the game is taken to call the one, do its own work,     *)
(* call the other, over and over.                                          *)
(*                                                                         *)
(* Times are whole numbers of one unit. Float rounding is left out: a time *)
(* is only scaled where the division is exact.                             *)
(***************************************************************************)
EXTENDS Integers

CONSTANTS
  minDeltaTimeTick,
  Time,      \* the times Set is given
  Laps,      \* the laps LapTimer's Set and Add are given
  Extra,     \* the times CountdownTimer's Add is given
  Ratio,     \* the ratios of Scale, as <<numerator, denominator>>
  MaxNow,    \* bound: how long time, and how long a time, is followed
  MaxLap,    \* bound: how many laps are followed
  MaxTicks   \* bound: how often a timer is ticked in one Update

ASSUME TimerAssumption ==
  /\ minDeltaTimeTick \in Nat \ {0}
  /\ Time \subseteq Nat \ {0} /\ Laps \subseteq Nat \ {0} /\ Extra \subseteq Int
  /\ Ratio \subseteq Int \X (Nat \ {0})
  /\ MaxNow \in Nat /\ MaxLap \in Nat /\ MaxTicks \in Nat

VARIABLES
  now,         \* steady_clock
  phase,       \* update (in the loop of Update), lap or tick (there, while
               \* OnLapTimeUp or OnTimeUp of the timer runs), frame (from
               \* Update to LateUpdate), between
  frameStart, deltaTime,
  ticked,      \* how often the loop has ticked the timer in this Update
  cleared,     \* in this Update Clear was called
  kind,        \* countdown or lap: the class of the timer
  isStop, interval, leftTime,
  listed,      \* the timer is linked
  scaledInterval, lapLeftTime, totalLap, leftLap,   \* a LapTimer's own
  gameTime,    \* history: the sum of the frame lengths LateUpdate reported
  whole,       \* history: the time the timer was last set or restarted to run
  startFrame,  \* history: frameStart at that time
  lead,        \* history: the frame length a tick in that same Update counts
  changed,     \* history: Add, Scale or a second tick in one Update since then
  tampered,    \* history: the last Set, Restart or Scale came from OnLapTimeUp
  slow         \* history: a frame since then was longer than a lap

loop == <<ticked, cleared>>
clockVars == <<now, phase, frameStart, deltaTime, gameTime>>
lapVars == <<scaledInterval, lapLeftTime, totalLap, leftLap, tampered, slow>>
timerVars == <<kind, isStop, interval, leftTime, listed>>
history == <<whole, startFrame, lead, changed>>
vars == <<clockVars, loop, timerVars, lapVars, history>>

Init ==
  /\ now = 0 /\ phase = "between" /\ frameStart = 0 /\ deltaTime = 0
  /\ gameTime = 0 /\ ticked = 0 /\ cleared = FALSE
  /\ kind \in {"countdown", "lap"}
  /\ isStop = TRUE /\ listed = FALSE
  /\ interval \in Time
  /\ totalLap \in IF kind = "lap" THEN Laps ELSE {1}
  /\ leftTime = interval * totalLap /\ whole = leftTime
  /\ scaledInterval = interval /\ lapLeftTime = interval /\ leftLap = totalLap
  /\ startFrame = 0 /\ lead = 0
  /\ changed = FALSE /\ tampered = FALSE /\ slow = FALSE

-----------------------------------------------------------------------------
(* Time and the frame.                                                     *)

Pass ==
  /\ now < MaxNow
  /\ now' = now + 1
  /\ UNCHANGED <<phase, frameStart, deltaTime, gameTime, loop, timerVars,
                 lapVars, history>>

\* From here on callbacks of other timers may run, which use this one too.
UpdateBegin ==
  /\ phase = "between"
  /\ frameStart' = now
  /\ phase' = "update"
  /\ UNCHANGED <<now, deltaTime, gameTime, loop, timerVars, lapVars, history>>

\* The loop is at the timer. It comes there once, unless the list was cleared
\* and linked anew: TimerList has the pointers that decide it.
Reached ==
  /\ phase = "update" /\ listed
  /\ ticked = 0 \/ (cleared /\ ticked < MaxTicks)

\* A timer that is stopped is unlinked. Start appends it behind the loop.
Unlink ==
  /\ Reached /\ isStop
  /\ listed' = FALSE
  /\ UNCHANGED <<clockVars, loop, kind, isStop, interval, leftTime, lapVars,
                 history>>

Tick ==
  /\ Reached /\ ~isStop
  /\ leftTime' = leftTime - deltaTime
  /\ ticked' = ticked + 1
  /\ changed' = (changed \/ ticked > 0)
  /\ UNCHANGED <<now, frameStart, deltaTime, gameTime, cleared, kind, interval,
                 listed, whole, startFrame, lead>>

\* OnTimeUp returns.
TickReturn ==
  /\ phase = "tick"
  /\ phase' = "update"
  /\ UNCHANGED <<now, frameStart, deltaTime, gameTime, loop, timerVars, lapVars,
                 history>>

\* The loop is at its end: no timer that is linked is left out, but for Clear.
UpdateEnd ==
  /\ phase = "update" /\ (ticked > 0 \/ cleared \/ ~listed)
  /\ phase' = "frame"
  /\ ticked' = 0 /\ cleared' = FALSE
  /\ UNCHANGED <<now, frameStart, deltaTime, gameTime, timerVars, lapVars,
                 history>>

Elapsed == now - frameStart

\* Mutant: a short frame is not slept out.
LateUpdateAwake ==
  /\ phase = "frame"
  /\ deltaTime' = IF Elapsed < minDeltaTimeTick THEN minDeltaTimeTick ELSE Elapsed
  /\ gameTime' = gameTime + deltaTime'
  /\ phase' = "between"
  /\ UNCHANGED <<now, frameStart, loop, timerVars, lapVars, history>>

\* A short frame is reported as minDeltaTimeTick, and slept out; a sleep may
\* take longer than it was asked to.
LateUpdate ==
  /\ phase = "frame"
  /\ IF Elapsed < minDeltaTimeTick
     THEN /\ deltaTime' = minDeltaTimeTick
          /\ now' \in frameStart + minDeltaTimeTick .. MaxNow
     ELSE deltaTime' = Elapsed /\ UNCHANGED now
  /\ gameTime' = gameTime + deltaTime'
  /\ phase' = "between"
  /\ UNCHANGED <<frameStart, loop, timerVars, lapVars, history>>

-----------------------------------------------------------------------------
(* What both timers share.                                                 *)

\* The time the game gave counts from here; in Update, the tick to come in
\* the same Update is of the frame before.
Counts(time) ==
  /\ whole' = time
  /\ startFrame' = frameStart
  /\ lead' = IF phase = "update" /\ ticked = 0 THEN deltaTime ELSE 0
  /\ changed' = FALSE

Begins(time) ==
  /\ leftTime' = time
  /\ Counts(time)
  /\ UNCHANGED <<clockVars, loop, kind, listed>>

Start ==
  /\ isStop' = FALSE
  /\ listed' = TRUE
  /\ UNCHANGED <<clockVars, loop, kind, interval, leftTime, lapVars, history>>

\* Stop, or Reset, which empties the Delegates as well.
Stop ==
  /\ isStop' = TRUE
  /\ UNCHANGED <<clockVars, loop, kind, interval, leftTime, listed, lapVars,
                 history>>

\* GameTimeManager::Clear resets and unlinks all timers.
Clear ==
  /\ isStop' = TRUE /\ listed' = FALSE
  /\ cleared' = (phase \in {"update", "lap", "tick"})
  /\ UNCHANGED <<clockVars, ticked, kind, interval, leftTime, lapVars, history>>

Changes ==
  /\ changed' = TRUE
  /\ UNCHANGED <<clockVars, loop, kind, isStop, interval, listed, whole,
                 startFrame, lead>>

\* A negative ratio divides by 1 - ratio, any other multiplies by 1 + ratio.
Above(r) == IF r[1] < 0 THEN r[2] ELSE r[2] + r[1]
Below(r) == IF r[1] < 0 THEN r[2] - r[1] ELSE r[2]

Scaled(t, r) == (t * Above(r)) \div Below(r)

Exact(t, r) == (t * Above(r)) % Below(r) = 0 /\ Scaled(t, r) <= MaxNow

-----------------------------------------------------------------------------
(* CountdownTimer.                                                         *)

CountdownSet(time) ==
  /\ kind = "countdown"
  /\ Begins(time)
  /\ interval' = time
  /\ UNCHANGED <<isStop, lapVars>>

\* Mutant: the timer goes on with the time that is left.
CountdownResume ==
  /\ kind = "countdown"
  /\ isStop' = FALSE
  /\ Counts(interval)
  /\ UNCHANGED <<clockVars, loop, kind, interval, leftTime, listed, lapVars>>

CountdownRestart ==
  /\ kind = "countdown"
  /\ Begins(interval)
  /\ isStop' = FALSE
  /\ UNCHANGED <<interval, lapVars>>

CountdownAdd(time) ==
  /\ kind = "countdown"
  /\ leftTime + time \in -MaxNow .. MaxNow
  /\ leftTime' = leftTime + time
  /\ Changes
  /\ UNCHANGED lapVars

CountdownScale(r) ==
  /\ kind = "countdown"
  /\ Exact(leftTime, r)
  /\ leftTime' = Scaled(leftTime, r)
  /\ Changes
  /\ UNCHANGED lapVars

\* The timer stops, and OnTimeUp is called, when no time is left.
CountdownTick ==
  /\ kind = "countdown"
  /\ Tick
  /\ isStop' = (leftTime' <= 0)
  /\ phase' = IF leftTime' <= 0 THEN "tick" ELSE "update"
  /\ UNCHANGED lapVars

-----------------------------------------------------------------------------
(* LapTimer.                                                               *)

LapsBegin(time, laps) ==
  /\ kind = "lap"
  /\ Begins(time * laps)
  /\ scaledInterval' = time /\ lapLeftTime' = time /\ leftLap' = laps
  /\ tampered' = (phase = "lap") /\ slow' = FALSE

LapSet(time, laps) ==
  /\ LapsBegin(time, laps)
  /\ interval' = time /\ totalLap' = laps
  /\ UNCHANGED isStop

LapRestart ==
  /\ LapsBegin(interval, totalLap)
  /\ isStop' = FALSE
  /\ UNCHANGED <<interval, totalLap>>

LapsAdded(laps, time) ==
  /\ kind = "lap"
  /\ leftLap + laps <= MaxLap
  /\ leftTime' = leftTime + time * laps
  /\ leftLap' = leftLap + laps
  /\ Changes
  /\ UNCHANGED <<scaledInterval, lapLeftTime, totalLap, tampered, slow>>

\* Mutant: the laps added are taken to last as long as unscaled ones.
LapAddUnscaled(laps) == LapsAdded(laps, interval)

LapAdd(laps) == LapsAdded(laps, scaledInterval)

LapScale(r) ==
  /\ kind = "lap"
  /\ Exact(scaledInterval, r) /\ Exact(lapLeftTime, r)
  /\ scaledInterval' = Scaled(scaledInterval, r)
  /\ lapLeftTime' = Scaled(lapLeftTime, r)
  /\ leftTime' = lapLeftTime' + scaledInterval' * (leftLap - 1)
  /\ tampered' = (phase = "lap")
  /\ Changes
  /\ UNCHANGED <<totalLap, leftLap, slow>>

\* What the frame took too much is carried over to a lap that lasts time, and
\* OnLapTimeUp is called.
LapTickInto(time) ==
  /\ kind = "lap"
  /\ Tick
  /\ slow' = (slow \/ deltaTime > scaledInterval)
  /\ LET left == lapLeftTime - deltaTime
     IN  /\ lapLeftTime' = IF left <= 0 THEN left + time ELSE left
         /\ phase' = IF left <= 0 THEN "lap" ELSE "update"
  /\ UNCHANGED <<isStop, scaledInterval, totalLap, leftLap, tampered>>

\* Mutant: the next lap begins with the unscaled interval.
LapTickUnscaled == LapTickInto(interval)

LapTick == LapTickInto(scaledInterval)

\* OnLapTimeUp returns; when it was the last lap the timer stops and OnTimeUp
\* is called.
LapReturnAs(last) ==
  /\ phase = "lap"
  /\ leftLap' = leftLap - 1
  /\ isStop' = (isStop \/ last)
  /\ phase' = IF last THEN "tick" ELSE "update"
  /\ UNCHANGED <<now, frameStart, deltaTime, gameTime, loop, kind, interval,
                 leftTime, listed, scaledInterval, lapLeftTime, totalLap,
                 tampered, slow, history>>

\* Mutant: the comparison is off by one.
LapReturnEarly == LapReturnAs(leftLap' <= 1)

LapReturn == LapReturnAs(leftLap' < 1)

-----------------------------------------------------------------------------
Frame ==
  \/ Pass \/ UpdateBegin \/ Unlink \/ CountdownTick \/ LapTick \/ LapReturn
  \/ TickReturn \/ UpdateEnd \/ LateUpdate

\* The game, anywhere in a frame and in the callbacks, this timer's and others'.
Game ==
  \/ Start \/ Stop \/ Clear
  \/ CountdownRestart \/ LapRestart
  \/ \E t \in Time : CountdownSet(t) \/ \E n \in Laps : LapSet(t, n)
  \/ \E t \in Extra : CountdownAdd(t)
  \/ \E n \in Laps : LapAdd(n)
  \/ \E r \in Ratio : CountdownScale(r) \/ LapScale(r)

Next == Frame \/ Game

Spec == Init /\ [][Next]_vars

-----------------------------------------------------------------------------
\* No frame but the one before the first is shorter than minDeltaTimeTick.
TypeOK ==
  /\ now \in 0 .. MaxNow /\ frameStart \in 0 .. MaxNow
  /\ phase \in {"update", "lap", "tick", "frame", "between"}
  /\ deltaTime \in {0} \cup minDeltaTimeTick .. MaxNow
  /\ kind \in {"countdown", "lap"}
  /\ ticked \in Nat /\ cleared \in BOOLEAN
  /\ isStop \in BOOLEAN /\ listed \in BOOLEAN /\ changed \in BOOLEAN
  /\ tampered \in BOOLEAN /\ slow \in BOOLEAN
  /\ interval \in Time /\ leftTime \in Int /\ whole \in Int
  /\ scaledInterval \in Int /\ lapLeftTime \in Int
  /\ totalLap \in Laps \cup {1} /\ leftLap \in Int
  /\ gameTime \in Nat /\ startFrame \in 0 .. MaxNow
  /\ lead \in {0} \cup minDeltaTimeTick .. MaxNow

(***************************************************************************)
(* Game time, the sum of the frame lengths LateUpdate reports, never runs  *)
(* ahead of the clock: a frame reported longer than it was is slept out    *)
(* before the next one begins, and what a sleep or the game takes longer   *)
(* only makes game time fall behind.                                       *)
(***************************************************************************)
GameTimeNotAhead ==
  gameTime <= IF phase = "between" THEN now ELSE frameStart

(***************************************************************************)
(* A timer of either class counts no more time than has passed since the   *)
(* beginning of the frame it was set or restarted in, with one exception:  *)
(* if a timer before it in the list did that from its callback, the loop   *)
(* comes to it in the same Update, and it counts the frame before at once, *)
(* once and no more. By the clock it expires early by no more than this    *)
(* and the part of the frame that had already passed. Not said of a timer  *)
(* that ticks twice in one Update, which takes a Clear in a callback.      *)
(***************************************************************************)
CountsFromItsFrame ==
  ~changed => whole - leftTime <= frameStart - startFrame + lead

(***************************************************************************)
(* A LapTimer's LeftTime() is what the present lap and the laps after it   *)
(* have left, through every mixture of ticks, Add, Scale and Restart. Only *)
(* a callback that sets, restarts or scales the timer puts it off by one   *)
(* lap, because the lap that has just ended is not yet subtracted there.   *)
(***************************************************************************)
LeftTimeConsistent ==
  kind = "lap" /\ ~tampered =>
    leftTime = lapLeftTime
                 + scaledInterval * (leftLap - IF phase = "lap" THEN 2 ELSE 1)

(***************************************************************************)
(* With no frame longer than a lap, a lap is announced in the frame it     *)
(* ends: between two ticks some of the present lap is always left, and     *)
(* never more than one lap.                                                *)
(***************************************************************************)
LapsOnTime ==
  kind = "lap" /\ ~slow => 0 < lapLeftTime /\ lapLeftTime <= scaledInterval

(***************************************************************************)
(* OnTimeUp is not called while time is left, whatever was added or scaled *)
(* during the last lap; and, with no frame longer than a lap, a LapTimer   *)
(* has no lap left over when its time is up.                               *)
(***************************************************************************)
TimeUpWhenDue ==
  [][~tampered' =>
       /\ phase /= "tick" /\ phase' = "tick" => leftTime' <= 0
       /\ kind = "lap" /\ ~slow' /\ phase' /= "lap" /\ leftTime' <= 0 =>
            leftLap' < 1]_vars

(***************************************************************************)
(* What the comment on GameTimerBase::Scale says: "0.8f equals +80%        *)
(* current time and -0.5f equals -50% current time."                       *)
(***************************************************************************)
ScaleAsDocumented ==
  [][\A r \in Ratio :
       CountdownScale(r) => leftTime' * r[2] = leftTime * (r[2] + r[1])]_vars
=============================================================================

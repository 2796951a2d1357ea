------------------------------ MODULE TimerList ------------------------------
(***************************************************************************)
(* GameTimeManager's list of timers. The nodes are the timers themselves,  *)
(* linked by nextNode; a timer is taken to be listed when its nextNode is  *)
(* set or it is the tail. Update goes through the list, unlinks what is    *)
(* stopped and ticks the rest, and a tick may call back into the game,     *)
(* which may start, stop, restart, reset or clear timers, the one that is  *)
(* ticking included.                                                       *)
(*                                                                         *)
(* How long a timer has left is not modelled here: a tick may expire or    *)
(* not. The arithmetic is LapTimer's and CountdownTimer's own.             *)
(***************************************************************************)
EXTENDS Naturals, Sequences, SequencesExt

CONSTANTS
  Timer,
  LapTimers,  \* the timers that are LapTimer; the others are CountdownTimer
  NoTimer,    \* nullptr
  Garbage,    \* what an uninitialized nextNode holds
  MaxOps      \* bound: operations of the game in one callback

ASSUME TimerAssumption ==
  /\ LapTimers \subseteq Timer
  /\ NoTimer \notin Timer /\ Garbage \notin Timer /\ NoTimer /= Garbage
  /\ MaxOps \in Nat

VARIABLES
  headNode, tailNode, nextNode,
  isStop,
  upc,               \* Update: game (not running), loop, callback, lapCallback
  prevNode, currNode,
  ops,               \* operations made in the present callback
  listed,            \* history: the timers linked, in the order of linking
  ticks,             \* history: ticks of each timer this frame (2: or more)
  due,               \* history: running when the frame began, not stopped since
  cleared            \* history: a callback called Clear this frame

listVars == <<headNode, tailNode, nextNode, listed>>
loopVars == <<prevNode, currNode>>
frameVars == <<ticks, due, cleared>>
vars == <<listVars, isStop, upc, loopVars, ops, frameVars>>

\* Neither isStop nor nextNode has an initializer: a timer that is default-
\* initialized starts with whatever its memory held.
Init ==
  /\ headNode = NoTimer /\ tailNode = NoTimer
  /\ nextNode \in [Timer -> {NoTimer, Garbage}]
  /\ isStop \in [Timer -> BOOLEAN]
  /\ upc = "game" /\ prevNode = NoTimer /\ currNode = NoTimer /\ ops = 0
  /\ listed = <<>>
  /\ ticks = [t \in Timer |-> 0] /\ due = {} /\ cleared = FALSE

-----------------------------------------------------------------------------
(* What the game may do, between two frames or in a callback.              *)

InCallback == upc \in {"callback", "lapCallback"}

MayOperate ==
  /\ upc /= "loop"
  /\ IF InCallback THEN ops < MaxOps /\ ops' = ops + 1 ELSE UNCHANGED ops
  /\ UNCHANGED <<upc, loopVars, ticks>>

\* Mutant: the tail, whose nextNode is null, is taken to be unlisted.
ListedByNext(t) == nextNode[t] /= NoTimer

Listed(t) == nextNode[t] /= NoTimer \/ t = tailNode

AddLast(t) ==
  IF Listed(t) THEN UNCHANGED listVars
  ELSE /\ tailNode' = t
       /\ listed' = Append(listed, t)
       /\ IF headNode = NoTimer
          THEN headNode' = t /\ UNCHANGED nextNode
          ELSE nextNode' = [nextNode EXCEPT ![tailNode] = t]
                 /\ UNCHANGED headNode

Start(t) ==
  /\ MayOperate
  /\ isStop' = [isStop EXCEPT ![t] = FALSE]
  /\ AddLast(t)
  /\ UNCHANGED <<due, cleared>>

\* Restart does not link the timer.
Restart(t) ==
  /\ MayOperate
  /\ isStop' = [isStop EXCEPT ![t] = FALSE]
  /\ UNCHANGED <<listVars, due, cleared>>

\* Stop, or Reset: neither unlinks the timer.
Stop(t) ==
  /\ MayOperate
  /\ isStop' = [isStop EXCEPT ![t] = TRUE]
  /\ due' = due \ {t}
  /\ UNCHANGED <<listVars, cleared>>

\* The walk from headNode resets and unlinks every node it meets. Those are
\* the timers of listed: ListWellFormed says so of every state.
Clear ==
  /\ MayOperate
  /\ isStop' = [t \in Timer |-> isStop[t] \/ t \in ToSet(listed)]
  /\ nextNode' = [t \in Timer |-> IF t \in ToSet(listed) THEN NoTimer
                                  ELSE nextNode[t]]
  /\ headNode' = NoTimer
  /\ tailNode' = NoTimer
  /\ listed' = <<>>
  /\ due' = {}
  /\ cleared' = (cleared \/ InCallback)

-----------------------------------------------------------------------------
(* Update.                                                                 *)

UpdateBegin ==
  /\ upc = "game"
  /\ upc' = "loop"
  /\ prevNode' = NoTimer
  /\ currNode' = headNode
  /\ ticks' = [t \in Timer |-> 0]
  /\ due' = {t \in ToSet(listed) : ~isStop[t]}
  /\ cleared' = FALSE
  /\ UNCHANGED <<listVars, isStop, ops>>

\* The node at currNode leaves the list; where the pointers go then.
UnlinkTo(tail, prev, curr) ==
  /\ upc = "loop"
  /\ currNode /= NoTimer
  /\ isStop[currNode]
  /\ headNode' = IF prevNode = NoTimer THEN nextNode[currNode] ELSE headNode
  /\ nextNode' = [t \in Timer |-> IF t = currNode THEN NoTimer
                                  ELSE IF t = prevNode THEN nextNode[currNode]
                                  ELSE nextNode[t]]
  /\ listed' = RemoveFirst(listed, currNode)
  /\ tailNode' = tail /\ prevNode' = prev /\ currNode' = curr
  /\ UNCHANGED <<isStop, upc, ops, frameVars>>

NewTail == IF nextNode[currNode] = NoTimer THEN prevNode ELSE tailNode

\* Mutant: the tail keeps pointing at the node that leaves.
UnlinkKeepsTail == UnlinkTo(tailNode, prevNode, nextNode[currNode])

\* Mutant: prevNode moves on to the node that leaves.
UnlinkAdvancesPrev == UnlinkTo(NewTail, currNode, nextNode[currNode])

\* Mutant: the next node is read after nextNode was set to null.
UnlinkLosesNext == UnlinkTo(NewTail, prevNode, NoTimer)

Unlink == UnlinkTo(NewTail, prevNode, nextNode[currNode])

Tick ==
  /\ upc = "loop"
  /\ currNode /= NoTimer
  /\ ~isStop[currNode]
  /\ prevNode' = currNode
  /\ ticks' = [ticks EXCEPT ![currNode] = IF @ = 0 THEN 1 ELSE 2]
  /\ UNCHANGED <<listVars, due, cleared>>

\* Time is left.
TickOn ==
  /\ Tick
  /\ currNode' = nextNode[currNode]
  /\ UNCHANGED <<isStop, upc, ops>>

\* A CountdownTimer is up: it stops, then OnTimeUp is called.
TickUp ==
  /\ Tick
  /\ currNode \notin LapTimers
  /\ isStop' = [isStop EXCEPT ![currNode] = TRUE]
  /\ upc' = "callback"
  /\ ops' = 0
  /\ UNCHANGED currNode

\* A lap of a LapTimer is up: OnLapTimeUp is called while it still runs.
TickLap ==
  /\ Tick
  /\ currNode \in LapTimers
  /\ upc' = "lapCallback"
  /\ ops' = 0
  /\ UNCHANGED <<isStop, currNode>>

\* OnLapTimeUp returns and it was the last lap: stop, then OnTimeUp.
LastLap ==
  /\ upc = "lapCallback"
  /\ isStop' = [isStop EXCEPT ![currNode] = TRUE]
  /\ upc' = "callback"
  /\ ops' = 0
  /\ UNCHANGED <<listVars, loopVars, frameVars>>

\* The tick returns; only now is the next node read.
TickReturn ==
  /\ InCallback
  /\ upc' = "loop"
  /\ ops' = 0
  /\ currNode' = nextNode[currNode]
  /\ UNCHANGED <<listVars, isStop, prevNode, frameVars>>

UpdateEnd ==
  /\ upc = "loop"
  /\ currNode = NoTimer
  /\ upc' = "game"
  /\ UNCHANGED <<listVars, isStop, loopVars, ops, frameVars>>

-----------------------------------------------------------------------------
Game == (\E t \in Timer : Start(t) \/ Restart(t) \/ Stop(t)) \/ Clear

Update ==
  \/ UpdateBegin \/ Unlink \/ TickOn \/ TickUp \/ TickLap \/ LastLap
  \/ TickReturn \/ UpdateEnd

Next == Game \/ Update

Spec == Init /\ [][Next]_vars

\* The game loop calls Update again and again, and callbacks return.
FairSpec == Spec /\ WF_vars(Update)

-----------------------------------------------------------------------------
TypeOK ==
  /\ headNode \in Timer \union {NoTimer}
  /\ tailNode \in Timer \union {NoTimer}
  /\ nextNode \in [Timer -> Timer \union {NoTimer, Garbage}]
  /\ isStop \in [Timer -> BOOLEAN]
  /\ upc \in {"game", "loop", "callback", "lapCallback"}
  /\ prevNode \in Timer \union {NoTimer}
  /\ currNode \in Timer \union {NoTimer}
  /\ ops \in 0 .. MaxOps
  /\ listed \in Seq(Timer)
  /\ ticks \in [Timer -> 0 .. 2]
  /\ due \subseteq Timer
  /\ cleared \in BOOLEAN

(***************************************************************************)
(* The pointers always spell out the timers that were linked and not yet   *)
(* unlinked, each once: head to tail along nextNode, with no cycle and     *)
(* nothing hanging off it, so that AddLast's test for being listed is      *)
(* right, whatever callbacks did to the list Update was in the middle of.  *)
(***************************************************************************)
ListWellFormed ==
  LET n == Len(listed)
  IN  /\ \A i, j \in 1 .. n : listed[i] = listed[j] => i = j
      /\ headNode = IF n = 0 THEN NoTimer ELSE listed[1]
      /\ tailNode = IF n = 0 THEN NoTimer ELSE listed[n]
      /\ \A i \in 1 .. n :
           nextNode[listed[i]] = IF i = n THEN NoTimer ELSE listed[i + 1]
      /\ \A t \in Timer \ ToSet(listed) : nextNode[t] \in {NoTimer, Garbage}

(***************************************************************************)
(* Update's two cursors are neighbours in the list while it goes through   *)
(* it: what it unlinks is behind prevNode, never behind a timer that left. *)
(***************************************************************************)
CursorsInList ==
  upc = "loop" /\ currNode /= NoTimer =>
    IF prevNode = NoTimer THEN currNode = headNode
    ELSE prevNode \in ToSet(listed) /\ nextNode[prevNode] = currNode

\* No timer is ticked twice in a frame, unless a callback cleared the list.
OncePerFrame == cleared \/ \A t \in Timer : ticks[t] <= 1

(***************************************************************************)
(* A timer that was linked and running when the frame began and that       *)
(* nobody stopped is ticked in that frame, although timers before it were  *)
(* unlinked or re-linked meanwhile.                                        *)
(***************************************************************************)
DueIsTicked == upc = "game" => \A t \in due : ticks[t] > 0

(***************************************************************************)
(* Update comes to an end, even when callbacks keep starting timers; a     *)
(* callback that clears the list and starts timers again can keep it going.*)
(***************************************************************************)
FrameEnds == upc = "loop" ~> upc = "game" \/ cleared
=============================================================================

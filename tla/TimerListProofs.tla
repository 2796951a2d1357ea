--------------------------- MODULE TimerListProofs ---------------------------
(***************************************************************************)
(* What TimerList guarantees for any timers and any number of operations   *)
(* in a callback: the pointers always spell out the linked timers, Update  *)
(* finds its way through them whatever callbacks do, and ticks every timer *)
(* that is due, once.                                                      *)
(***************************************************************************)
EXTENDS TimerList, TLAPS

USE TimerAssumption

-----------------------------------------------------------------------------
(* Sequences.                                                              *)

\* What the concatenation of two sequences is.
LEMMA Joined ==
  ASSUME NEW T, NEW a \in Seq(T), NEW b \in Seq(T)
  PROVE  /\ a \o b \in Seq(T) /\ Len(a \o b) = Len(a) + Len(b)
         /\ \A i \in 1 .. Len(a) + Len(b) :
              (a \o b)[i] = IF i <= Len(a) THEN a[i] ELSE b[i - Len(a)]
OBVIOUS

\* RemoveFirst takes one element out of a sequence without repetitions and
\* moves those behind it up by one.
LEMMA RemoveFound ==
  ASSUME NEW T, NEW s \in Seq(T), NEW p \in 1 .. Len(s),
         \A i, j \in 1 .. Len(s) : s[i] = s[j] => i = j
  PROVE  /\ RemoveFirst(s, s[p]) \in Seq(T)
         /\ Len(RemoveFirst(s, s[p])) = Len(s) - 1
         /\ \A k \in 1 .. Len(s) - 1 :
              RemoveFirst(s, s[p])[k] = IF k < p THEN s[k] ELSE s[k + 1]
<1>1. SelectInSeq(s, LAMBDA v : v = s[p]) = p
  <2>1. {i \in 1 .. Len(s) : s[i] = s[p]} = {p}
    OBVIOUS
  <2>2. Min({p}) = p
    BY DEF Min
  <2> QED
    BY <2>1, <2>2 DEF SelectInSeq
<1>2. RemoveFirst(s, s[p]) = SubSeq(s, 1, p - 1) \o SubSeq(s, p + 1, Len(s))
  BY <1>1 DEF RemoveFirst, RemoveAt
<1> DEFINE a == SubSeq(s, 1, p - 1)
           b == SubSeq(s, p + 1, Len(s))
<1>3. /\ a \in Seq(T) /\ Len(a) = p - 1
      /\ \A k \in 1 .. p - 1 : a[k] = s[k]
  OBVIOUS
<1>4. /\ b \in Seq(T) /\ Len(b) = Len(s) - p
      /\ \A k \in 1 .. Len(s) - p : b[k] = s[p + k]
  OBVIOUS
<1>5. /\ a \o b \in Seq(T) /\ Len(a \o b) = Len(s) - 1
      /\ \A k \in 1 .. Len(s) - 1 :
           (a \o b)[k] = IF k < p THEN a[k] ELSE b[k - (p - 1)]
  <2> HIDE DEF a, b
  <2>1. a \in Seq(T) /\ b \in Seq(T)
    BY <1>3, <1>4
  <2>2. /\ a \o b \in Seq(T) /\ Len(a \o b) = Len(a) + Len(b)
        /\ \A i \in 1 .. Len(a) + Len(b) :
             (a \o b)[i] = IF i <= Len(a) THEN a[i] ELSE b[i - Len(a)]
    BY ONLY <2>1, Joined
  <2>3. Len(a) = p - 1 /\ Len(a) + Len(b) = Len(s) - 1
    BY <1>3, <1>4
  <2> QED
    BY <2>2, <2>3
<1>6. ASSUME NEW k \in 1 .. Len(s) - 1
      PROVE  (a \o b)[k] = IF k < p THEN s[k] ELSE s[k + 1]
  <2> HIDE DEF a, b
  <2>1. CASE k < p
    BY <1>3, <1>5, <2>1
  <2>2. CASE ~(k < p)
    <3>1. k - (p - 1) \in 1 .. Len(s) - p /\ p + (k - (p - 1)) = k + 1
      BY <2>2
    <3> QED
      BY <1>4, <1>5, <2>2, <3>1
  <2> QED
    BY <2>1, <2>2
<1> QED
  BY <1>2, <1>5, <1>6

-----------------------------------------------------------------------------
(* The list.                                                               *)

ListTypes ==
  /\ headNode \in Timer \union {NoTimer}
  /\ tailNode \in Timer \union {NoTimer}
  /\ nextNode \in [Timer -> Timer \union {NoTimer, Garbage}]
  /\ listed \in Seq(Timer)

\* Only a linked timer has a timer behind it, and one without a next node
\* that is not the tail is not linked.
LEMMA LinkedByPointers ==
  ASSUME ListTypes, ListWellFormed, NEW t \in Timer
  PROVE  /\ nextNode[t] \in Timer => t \in ToSet(listed)
         /\ t \in ToSet(listed) => /\ nextNode[t] \in ToSet(listed) \union {NoTimer}
                                   /\ Listed(t)
  BY DEF ListTypes, ListWellFormed, ToSet, Listed

\* Linking puts a timer that was not linked behind all others; the test for
\* being linked is right, so no timer is linked twice.
LEMMA AddLastLinks ==
  ASSUME ListTypes, ListWellFormed, NEW t \in Timer, AddLast(t), ~Listed(t)
  PROVE  /\ t \notin ToSet(listed) /\ nextNode[t] = NoTimer
         /\ Len(listed') = Len(listed) + 1
         /\ listed'[Len(listed) + 1] = t
         /\ \A k \in 1 .. Len(listed) : listed'[k] = listed[k]
         /\ \A u \in Timer \ ToSet(listed) : nextNode'[u] = nextNode[u]
         /\ ListTypes' /\ ListWellFormed'
<1> DEFINE n == Len(listed)
<1>0. n \in Nat /\ \A k \in 1 .. n : listed[k] \in Timer
  BY DEF ListTypes
<1>1. t \notin ToSet(listed) /\ nextNode[t] = NoTimer
  BY LinkedByPointers DEF Listed
<1>2. /\ Len(listed') = n + 1 /\ listed'[n + 1] = t
      /\ \A k \in 1 .. n : listed'[k] = listed[k]
      /\ listed' \in Seq(Timer)
  BY DEF AddLast, ListTypes
<1>3. \A k \in 1 .. n + 1 : k \in 1 .. n \/ k = n + 1
  BY <1>0
<1>4. ToSet(listed') = ToSet(listed) \union {t}
  BY <1>0, <1>2, <1>3 DEF ToSet, ListTypes
<1>5. \A k \in 1 .. n : listed[k] /= t
  BY <1>0, <1>1 DEF ToSet, ListTypes
<1>6. tailNode' = t
  BY DEF AddLast
<1>7. CASE n = 0
  <2>1. headNode = NoTimer
    BY <1>7 DEF ListWellFormed
  <2>2. headNode' = t /\ nextNode' = nextNode
    BY <2>1 DEF AddLast
  <2> QED
    BY <1>1, <1>2, <1>4, <1>6, <1>7, <2>2
    DEF ListTypes, ListWellFormed, ToSet
<1>8. CASE n > 0
  <2>1. /\ headNode = listed[1] /\ tailNode = listed[n]
        /\ headNode /= NoTimer
        /\ listed[n] \in ToSet(listed)
    BY <1>0, <1>8 DEF ListWellFormed, ToSet, ListTypes
  <2>2. headNode' = headNode /\ nextNode' = [nextNode EXCEPT ![listed[n]] = t]
    BY <2>1 DEF AddLast
  <2>3. \A u \in Timer \ ToSet(listed) : nextNode'[u] = nextNode[u]
    BY <2>1, <2>2 DEF ListTypes
  <2>4. ListTypes'
    BY <1>2, <1>6, <2>2 DEF ListTypes
  <2>5. \A i, j \in 1 .. n + 1 : listed'[i] = listed'[j] => i = j
    BY <1>2, <1>3, <1>5 DEF ListWellFormed
  <2>6. \A i \in 1 .. n + 1 :
          nextNode'[listed'[i]] = IF i = n + 1 THEN NoTimer ELSE listed'[i + 1]
    <3> TAKE i \in 1 .. n + 1
    <3>1. CASE i = n + 1
      BY <1>1, <1>2, <2>3, <3>1
    <3>2. CASE i = n
      BY <1>0, <1>2, <1>8, <2>2, <3>2 DEF ListTypes
    <3>3. CASE i \in 1 .. n /\ i /= n
      <4>1. listed[i] /= listed[n] /\ nextNode[listed[i]] = listed[i + 1]
        BY <1>0, <1>8, <3>3 DEF ListWellFormed
      <4>2. listed'[i] = listed[i] /\ listed'[i + 1] = listed[i + 1]
        BY <1>0, <1>2, <3>3
      <4> QED
        BY <1>0, <2>2, <3>3, <4>1, <4>2 DEF ListTypes
    <3> QED
      BY <1>3, <3>1, <3>2, <3>3
  <2>7. \A u \in Timer \ ToSet(listed') : nextNode'[u] \in {NoTimer, Garbage}
    BY <1>4, <2>3 DEF ListWellFormed
  <2>8. /\ headNode' = listed'[1] /\ tailNode' = listed'[n + 1]
        /\ n + 1 /= 0
    BY <1>0, <1>2, <1>6, <1>8, <2>1, <2>2
  <2>9. ListWellFormed'
    BY <1>2, <2>5, <2>6, <2>7, <2>8 DEF ListWellFormed
  <2> QED
    BY <1>1, <1>2, <2>3, <2>4, <2>9
<1> QED
  BY <1>0, <1>7, <1>8

LEMMA ClearUnlinks ==
  ASSUME ListTypes, ListWellFormed, Clear
  PROVE  ListTypes' /\ ListWellFormed' /\ ToSet(listed') = {}
<1>1. /\ nextNode' \in [Timer -> Timer \union {NoTimer, Garbage}]
      /\ \A t \in Timer : nextNode'[t] \in {NoTimer, Garbage}
  BY DEF Clear, ListTypes, ListWellFormed
<1>2. listed' = <<>> /\ headNode' = NoTimer /\ tailNode' = NoTimer
  BY DEF Clear
<1> QED
  BY <1>1, <1>2 DEF ListTypes, ListWellFormed, ToSet

-----------------------------------------------------------------------------
(* Where Update's cursors are.                                             *)

\* currNode is in the list, right behind prevNode.
CursorAt(p) ==
  /\ p \in 1 .. Len(listed)
  /\ listed[p] = currNode
  /\ IF p = 1 THEN prevNode = NoTimer ELSE prevNode = listed[p - 1]

LEMMA CursorPosition ==
  ASSUME ListTypes, ListWellFormed, CursorsInList, upc = "loop",
         prevNode \in Timer \union {NoTimer}, currNode /= NoTimer
  PROVE  \E p \in 1 .. Len(listed) : CursorAt(p)
<1>1. CASE prevNode = NoTimer
  <2>1. currNode = headNode
    BY <1>1 DEF CursorsInList
  <2>2. Len(listed) /= 0 /\ headNode = listed[1] /\ Len(listed) \in Nat
    BY <2>1 DEF ListWellFormed, ListTypes
  <2> QED
    BY <1>1, <2>1, <2>2 DEF CursorAt
<1>2. CASE prevNode /= NoTimer
  <2>1. prevNode \in ToSet(listed) /\ nextNode[prevNode] = currNode
    BY <1>2 DEF CursorsInList
  <2>2. PICK q \in 1 .. Len(listed) : prevNode = listed[q]
    BY <2>1 DEF ToSet, ListTypes
  <2>3. q /= Len(listed) /\ currNode = listed[q + 1]
    BY <2>1, <2>2 DEF ListWellFormed
  <2>4. q + 1 \in 1 .. Len(listed) /\ q + 1 /= 1 /\ (q + 1) - 1 = q
    BY <2>2, <2>3 DEF ListTypes
  <2> QED
    BY <2>2, <2>3, <2>4 DEF CursorAt
<1> QED
  BY <1>1, <1>2

\* Unlinking closes the gap and leaves prevNode where it is: the list is what
\* it was without currNode, and the cursors are neighbours again.
LEMMA UnlinkCloses ==
  ASSUME ListTypes, ListWellFormed, NEW p, CursorAt(p), Unlink,
         prevNode \in Timer \union {NoTimer}, currNode \in Timer
  PROVE  /\ Len(listed') = Len(listed) - 1
         /\ \A k \in 1 .. Len(listed) - 1 :
              listed'[k] = IF k < p THEN listed[k] ELSE listed[k + 1]
         /\ \A t \in Timer : t \in ToSet(listed') <=>
                               t \in ToSet(listed) /\ t /= currNode
         /\ currNode' = IF p = Len(listed) THEN NoTimer ELSE listed'[p]
         /\ ListTypes' /\ ListWellFormed' /\ CursorsInList'
<1> DEFINE n == Len(listed)
           next == IF p = n THEN NoTimer ELSE listed[p + 1]
<1>0. /\ n \in Nat /\ p \in 1 .. n /\ \A k \in 1 .. n : listed[k] \in Timer
      /\ listed[p] = currNode
      /\ p = 1 => prevNode = NoTimer
      /\ p /= 1 => prevNode = listed[p - 1] /\ p - 1 \in 1 .. n
  BY DEF CursorAt, ListTypes
<1>1. \A i, j \in 1 .. n : listed[i] = listed[j] => i = j
  BY DEF ListWellFormed
<1>2. /\ listed' \in Seq(Timer) /\ Len(listed') = n - 1
      /\ \A k \in 1 .. n - 1 :
           listed'[k] = IF k < p THEN listed[k] ELSE listed[k + 1]
  <2>1. listed' = RemoveFirst(listed, listed[p])
    BY <1>0 DEF Unlink, UnlinkTo
  <2>2. listed \in Seq(Timer) /\ p \in 1 .. Len(listed)
    BY <1>0 DEF ListTypes
  <2>3. /\ RemoveFirst(listed, listed[p]) \in Seq(Timer)
        /\ Len(RemoveFirst(listed, listed[p])) = Len(listed) - 1
        /\ \A k \in 1 .. Len(listed) - 1 :
             RemoveFirst(listed, listed[p])[k] =
               IF k < p THEN listed[k] ELSE listed[k + 1]
    BY ONLY <1>1, <2>2, RemoveFound
  <2> QED
    BY <2>1, <2>3
<1>3. /\ nextNode[currNode] = next
      /\ next = NoTimer <=> p = n
      /\ next \in Timer \union {NoTimer}
      /\ p /= n => next = listed'[p] /\ p \in 1 .. n - 1
  <2>1. nextNode[currNode] = next
    BY <1>0 DEF ListWellFormed
  <2>2. p /= n => p + 1 \in 1 .. n /\ p \in 1 .. n - 1
    BY <1>0
  <2> QED
    BY <1>0, <1>2, <2>1, <2>2
<1>4. /\ headNode' = IF prevNode = NoTimer THEN next ELSE headNode
      /\ tailNode' = IF p = n THEN prevNode ELSE tailNode
      /\ prevNode' = prevNode /\ currNode' = next
      /\ nextNode' = [t \in Timer |-> IF t = currNode THEN NoTimer
                                      ELSE IF t = prevNode THEN next
                                      ELSE nextNode[t]]
  BY <1>3 DEF Unlink, UnlinkTo, NewTail
<1> HIDE DEF next
<1>5. ASSUME NEW t \in Timer
      PROVE  t \in ToSet(listed') <=> t \in ToSet(listed) /\ t /= currNode
  <2>1. ASSUME t \in ToSet(listed')
        PROVE  t \in ToSet(listed) /\ t /= currNode
    <3>1. PICK k \in 1 .. n - 1 : t = listed'[k]
      BY <1>2, <2>1 DEF ToSet
    <3>2. CASE k < p
      BY <1>0, <1>1, <1>2, <3>1, <3>2, SMTT(30) DEF ToSet, ListTypes
    <3>3. CASE ~(k < p)
      <4>1. t = listed[k + 1] /\ k + 1 \in 1 .. n /\ k + 1 /= p
        BY <1>0, <1>2, <3>1, <3>3
      <4> QED
        BY <1>0, <1>1, <4>1 DEF ToSet, ListTypes
    <3> QED
      BY <3>2, <3>3
  <2>2. ASSUME t \in ToSet(listed), t /= currNode
        PROVE  t \in ToSet(listed')
    <3>1. PICK k \in 1 .. n : t = listed[k]
      BY <2>2 DEF ToSet, ListTypes
    <3>2. k /= p
      BY <1>0, <2>2, <3>1
    <3>3. CASE k < p
      <4>1. k \in 1 .. n - 1 /\ listed'[k] = t
        BY <1>0, <1>2, <3>1, <3>3
      <4> QED
        BY <1>2, <4>1 DEF ToSet
    <3>4. CASE k > p
      <4>1. k - 1 \in 1 .. n - 1 /\ ~(k - 1 < p) /\ (k - 1) + 1 = k
        BY <1>0, <3>4
      <4>2. listed'[k - 1] = t
        BY <1>2, <3>1, <4>1
      <4> QED
        BY <1>2, <4>1, <4>2 DEF ToSet
    <3> QED
      BY <1>0, <3>2, <3>3, <3>4
  <2> QED
    BY <2>1, <2>2
<1>6. ListTypes'
  BY <1>2, <1>3, <1>4 DEF ListTypes
<1>7. prevNode /= NoTimer =>
        /\ prevNode \in ToSet(listed') /\ prevNode /= currNode
        /\ nextNode'[prevNode] = next
        /\ p - 1 \in 1 .. n - 1 /\ listed'[p - 1] = prevNode
  <2> SUFFICES ASSUME prevNode /= NoTimer
               PROVE  /\ prevNode \in ToSet(listed') /\ prevNode /= currNode
                      /\ nextNode'[prevNode] = next
                      /\ p - 1 \in 1 .. n - 1 /\ listed'[p - 1] = prevNode
    OBVIOUS
  <2>1. p /= 1 /\ prevNode = listed[p - 1] /\ p - 1 \in 1 .. n - 1 /\ p - 1 < p
    BY <1>0
  <2>2. prevNode /= currNode
    BY <1>0, <1>1, <2>1
  <2>3. listed'[p - 1] = prevNode
    BY <1>2, <2>1
  <2>4. prevNode \in ToSet(listed')
    BY <1>2, <2>1, <2>3 DEF ToSet
  <2> QED
    BY <1>4, <2>1, <2>2, <2>3, <2>4
<1>8. CursorsInList'
  BY <1>4, <1>7 DEF CursorsInList
<1>9. \A i, j \in 1 .. n - 1 : listed'[i] = listed'[j] => i = j
  <2> SUFFICES ASSUME NEW i \in 1 .. n - 1, NEW j \in 1 .. n - 1,
                      listed'[i] = listed'[j]
               PROVE  i = j
    OBVIOUS
  <2>1. i \in 1 .. n /\ j \in 1 .. n /\ i + 1 \in 1 .. n /\ j + 1 \in 1 .. n
    BY <1>0
  <2> QED
    BY <1>0, <1>1, <1>2, <2>1
<1>10. headNode' = IF n - 1 = 0 THEN NoTimer ELSE listed'[1]
  <2>1. n /= 0 /\ headNode = listed[1]
    BY <1>0 DEF ListWellFormed
  <2>2. CASE p = 1
    BY <1>0, <1>3, <1>4, <2>2
  <2>3. CASE p /= 1
    <3>1. prevNode /= NoTimer /\ 1 < p /\ 1 \in 1 .. n - 1
      BY <1>0, <2>3
    <3> QED
      BY <1>2, <1>4, <2>1, <3>1
  <2> QED
    BY <2>2, <2>3
<1>11. tailNode' = IF n - 1 = 0 THEN NoTimer ELSE listed'[n - 1]
  <2>1. tailNode = listed[n]
    BY <1>0 DEF ListWellFormed
  <2>2. CASE p = n
    <3>1. CASE n = 1
      BY <1>0, <1>4, <2>2, <3>1
    <3>2. CASE n /= 1
      BY <1>0, <1>4, <1>7, <2>2, <3>2
    <3> QED
      BY <3>1, <3>2
  <2>3. CASE p /= n
    <3>1. n - 1 \in 1 .. n - 1 /\ ~(n - 1 < p) /\ (n - 1) + 1 = n
      BY <1>0, <2>3
    <3>2. listed'[n - 1] = listed[n] /\ n - 1 /= 0
      BY <1>2, <3>1
    <3> QED
      BY <1>4, <2>1, <2>3, <3>2
  <2> QED
    BY <2>2, <2>3
<1>12. ASSUME NEW i \in 1 .. n - 1
       PROVE  nextNode'[listed'[i]] =
                IF i = n - 1 THEN NoTimer ELSE listed'[i + 1]
  <2>1. CASE i = p - 1
    <3>1. prevNode /= NoTimer /\ listed'[i] = prevNode
      BY <1>0, <1>7, <2>1
    <3>2. nextNode'[listed'[i]] = next
      BY <1>7, <3>1
    <3>3. i + 1 = p /\ (i = n - 1 <=> p = n)
      BY <1>0, <2>1
    <3> QED
      BY <1>3, <3>2, <3>3
  <2>2. CASE i < p - 1
    <3>1. /\ i \in 1 .. n /\ i + 1 \in 1 .. n /\ i < p /\ i + 1 < p
          /\ i /= n /\ i /= n - 1 /\ i + 1 \in 1 .. n - 1 /\ i /= p
          /\ i /= p - 1
      BY <1>0, <2>2
    <3>2. listed'[i] = listed[i] /\ listed'[i + 1] = listed[i + 1]
      BY <1>2, <3>1
    <3>3. listed[i] /= currNode /\ listed[i] /= prevNode
      BY <1>0, <1>1, <3>1
    <3>4. nextNode[listed[i]] = listed[i + 1]
      BY <3>1 DEF ListWellFormed
    <3> QED
      BY <1>0, <1>4, <3>1, <3>2, <3>3, <3>4
  <2>3. CASE i >= p
    <3>1. /\ i + 1 \in 1 .. n /\ ~(i < p) /\ i + 1 /= p /\ i + 1 /= p - 1
          /\ i + 1 = n <=> i = n - 1
          /\ i /= n - 1 => i + 1 \in 1 .. n - 1 /\ ~(i + 1 < p)
      BY <1>0, <2>3
    <3>2. /\ listed'[i] = listed[i + 1]
          /\ i /= n - 1 => listed'[i + 1] = listed[(i + 1) + 1]
      BY <1>2, <3>1
    <3>3. listed[i + 1] /= currNode /\ listed[i + 1] /= prevNode
      BY <1>0, <1>1, <3>1
    <3>4. nextNode[listed[i + 1]] =
            IF i + 1 = n THEN NoTimer ELSE listed[(i + 1) + 1]
      BY <3>1 DEF ListWellFormed
    <3> QED
      BY <1>0, <1>4, <3>1, <3>2, <3>3, <3>4
  <2> QED
    BY <1>0, <2>1, <2>2, <2>3
<1>13. \A t \in Timer \ ToSet(listed') : nextNode'[t] \in {NoTimer, Garbage}
  BY <1>4, <1>5, <1>7 DEF ListWellFormed
<1>14. ListWellFormed'
  BY <1>2, <1>9, <1>10, <1>11, <1>12, <1>13 DEF ListWellFormed
<1> QED
  BY <1>2, <1>3, <1>4, <1>5, <1>6, <1>8, <1>14

-----------------------------------------------------------------------------
(* The inductive invariant.                                                *)

(***************************************************************************)
(* While a callback runs, the timer that called it is in hand: both        *)
(* cursors are on it, and it is still linked unless the list was cleared,  *)
(* after which nothing is due any more.                                    *)
(***************************************************************************)
InHand ==
  /\ InCallback => /\ currNode \in Timer /\ prevNode = currNode
                   /\ nextNode[currNode] /= Garbage
                   /\ cleared \/ currNode \in ToSet(listed)
  /\ cleared => due = {}

Behind(l, c, t) == \E i, j \in 1 .. Len(l) : l[i] = c /\ l[j] = t /\ i < j
FromOn(l, c, t) == \E i, j \in 1 .. Len(l) : l[i] = c /\ l[j] = t /\ i <= j

\* What Update has still to come to: the rest of the list from the cursor on,
\* without the timer whose callback is running.
Ahead(t) == IF upc = "loop" THEN FromOn(listed, currNode, t)
            ELSE Behind(listed, currNode, t)

(***************************************************************************)
(* What is ahead, and what is not linked and could be linked behind it,    *)
(* was not ticked yet; what is due and was not ticked is ahead.            *)
(***************************************************************************)
AheadNotTicked ==
  upc /= "game" /\ ~cleared =>
    \A t \in Timer : t \notin ToSet(listed) \/ Ahead(t) => ticks[t] = 0

DueAhead ==
  upc /= "game" =>
    \A t \in due : ticks[t] > 0 \/ (Ahead(t) /\ ~isStop[t])

TickInv == AheadNotTicked /\ DueAhead

ListInv == TypeOK /\ ListWellFormed /\ CursorsInList /\ InHand

LEMMA InitInv ==
  Init => ListInv /\ TickInv /\ OncePerFrame /\ DueIsTicked
<1> SUFFICES ASSUME Init
             PROVE  ListInv /\ TickInv /\ OncePerFrame /\ DueIsTicked
  OBVIOUS
<1>1. TypeOK
  <2>1. listed \in Seq(Timer) /\ due \subseteq Timer /\ ops \in 0 .. MaxOps
    BY DEF Init
  <2>3. cleared \in BOOLEAN
    BY DEF Init
  <2>2. ticks \in [Timer -> 0 .. 2]
    BY DEF Init
  <2> QED
    BY <2>1, <2>2, <2>3 DEF Init, TypeOK
<1>2. ListWellFormed
  BY DEF Init, ListWellFormed, ToSet
<1> QED
  BY <1>1, <1>2 DEF Init, ListInv, CursorsInList, InHand, InCallback, TickInv,
                    AheadNotTicked, DueAhead,
                    OncePerFrame, DueIsTicked

LEMMA TypesOfList == TypeOK => ListTypes
  BY DEF TypeOK, ListTypes

\* What the game does, between frames or in a callback, keeps ListInv.
LEMMA GameKeepsList ==
  ASSUME ListInv, Game
  PROVE  ListInv'
<1> USE DEF ListInv
<1>1. ListTypes
  BY TypesOfList
<1>2. MayOperate
  BY DEF Game, Start, Restart, Stop, Clear
<1>3. /\ upc /= "loop" /\ upc' = upc /\ ops' \in 0 .. MaxOps
      /\ prevNode' = prevNode /\ currNode' = currNode /\ ticks' = ticks
      /\ prevNode' \in Timer \union {NoTimer}
      /\ currNode' \in Timer \union {NoTimer}
      /\ ticks' \in [Timer -> 0 .. 2]
      /\ upc' \in {"game", "loop", "callback", "lapCallback"}
  BY <1>2 DEF MayOperate, InCallback, loopVars, TypeOK
<1>4. CursorsInList'
  BY <1>3 DEF CursorsInList
<1>5. ASSUME NEW t \in Timer, Start(t)
      PROVE  ListInv'
  <2>1. /\ isStop' \in [Timer -> BOOLEAN] /\ AddLast(t)
        /\ due' = due /\ (cleared' = cleared) /\ cleared' \in BOOLEAN
        /\ due' \subseteq Timer
    BY <1>5 DEF Start, TypeOK
  <2>2. CASE Listed(t)
    <3>1. UNCHANGED listVars
      BY <2>1, <2>2 DEF AddLast
    <3> QED
      BY <1>3, <1>4, <2>1, <3>1
      DEF TypeOK, ListWellFormed, InHand, InCallback, listVars
  <2>3. CASE ~Listed(t)
    <3>1. /\ ListTypes' /\ ListWellFormed'
          /\ Len(listed') = Len(listed) + 1
          /\ \A k \in 1 .. Len(listed) : listed'[k] = listed[k]
      BY <1>1, <2>1, <2>3, AddLastLinks
    <3>2. ASSUME NEW u \in ToSet(listed)
          PROVE  u \in ToSet(listed')
      <4>1. PICK k \in 1 .. Len(listed) : u = listed[k]
        BY <1>1 DEF ToSet, ListTypes
      <4>2. k \in 1 .. Len(listed') /\ u = listed'[k]
        BY <1>1, <3>1, <4>1 DEF ListTypes
      <4> QED
        BY <3>1, <4>2 DEF ToSet, ListTypes
    <3>3. TypeOK'
      BY <1>3, <2>1, <3>1 DEF TypeOK, ListTypes
    <3>4. \A u \in Timer : nextNode[u] /= Garbage => nextNode'[u] /= Garbage
      BY <1>1, <2>1, <2>3 DEF AddLast, ListTypes
    <3>5. InHand'
      BY <1>3, <2>1, <3>2, <3>4 DEF InHand, InCallback
    <3> QED
      BY <1>4, <3>1, <3>3, <3>5
  <2> QED
    BY <2>2, <2>3
<1>6. ASSUME NEW t \in Timer, Restart(t) \/ Stop(t)
      PROVE  ListInv'
  <2>1. /\ isStop' \in [Timer -> BOOLEAN] /\ UNCHANGED listVars
        /\ due' \subseteq due /\ cleared' = cleared
    BY <1>6 DEF Restart, Stop, TypeOK
  <2> QED
    BY <1>3, <1>4, <2>1
    DEF TypeOK, ListWellFormed, InHand, InCallback, listVars
<1>7. CASE Clear
  <2>1. ListTypes' /\ ListWellFormed'
    BY <1>1, <1>7, ClearUnlinks
  <2>2. isStop' \in [Timer -> BOOLEAN] /\ cleared' \in BOOLEAN /\ due' = {}
    BY <1>7 DEF Clear, TypeOK, InCallback
  <2>3. TypeOK'
    BY <1>3, <2>1, <2>2 DEF TypeOK, ListTypes
  <2>4. InCallback => cleared' /\ nextNode'[currNode] /= Garbage
    BY <1>7 DEF Clear, InHand, TypeOK
  <2>5. InHand'
    BY <1>3, <2>2, <2>4 DEF InHand, InCallback
  <2> QED
    BY <1>4, <2>1, <2>3, <2>5
<1> QED
  BY <1>5, <1>6, <1>7 DEF Game

\* So does every step of Update: it follows nextNode only from timers that are
\* linked, or that a callback unlinked a moment ago.
LEMMA UpdateKeepsList ==
  ASSUME ListInv, Update
  PROVE  ListInv'
<1> USE DEF ListInv
<1>1. ListTypes
  BY TypesOfList
<1>2. upc = "loop" /\ currNode /= NoTimer =>
        /\ currNode \in ToSet(listed)
        /\ nextNode[currNode] \in ToSet(listed) \union {NoTimer}
  <2>1. ASSUME upc = "loop", currNode /= NoTimer
        PROVE  currNode \in ToSet(listed)
    <3>1. PICK p \in 1 .. Len(listed) : CursorAt(p)
      BY <1>1, <2>1, CursorPosition DEF TypeOK
    <3> QED
      BY <1>1, <3>1 DEF CursorAt, ToSet, ListTypes
  <2> QED
    BY <1>1, <2>1, LinkedByPointers DEF TypeOK
<1>3. \A t \in ToSet(listed) : t \in Timer
  BY <1>1 DEF ToSet, ListTypes
<1>4. ASSUME UNCHANGED listVars  PROVE ListWellFormed'
  BY <1>4 DEF ListWellFormed, listVars
<1>5. CASE UpdateBegin
  <2>0. ticks' \in [Timer -> 0 .. 2] /\ due' \subseteq Timer
    BY <1>3, <1>5 DEF UpdateBegin
  <2>a. cleared' \in BOOLEAN
    BY <1>5 DEF UpdateBegin
  <2>1. TypeOK'
    BY <2>0, <2>a, <1>3, <1>5 DEF UpdateBegin, TypeOK, listVars
  <2>2. CursorsInList' /\ InHand'
    BY <1>5 DEF UpdateBegin, CursorsInList, InHand, InCallback, listVars
  <2> QED
    BY <1>4, <1>5, <2>1, <2>2 DEF UpdateBegin
<1>6. CASE Unlink
  <2>1. upc = "loop" /\ currNode /= NoTimer
    BY <1>6 DEF Unlink, UnlinkTo
  <2>2. PICK p \in 1 .. Len(listed) : CursorAt(p)
    BY <1>1, <2>1, CursorPosition DEF TypeOK
  <2>3. ListTypes' /\ ListWellFormed' /\ CursorsInList'
    BY <1>1, <1>6, <2>1, <2>2, UnlinkCloses DEF TypeOK
  <2>4. /\ upc' = upc /\ isStop' = isStop /\ ops' = ops /\ ticks' = ticks
        /\ due' = due /\ cleared' = cleared /\ prevNode' = prevNode
        /\ currNode' = nextNode[currNode]
    BY <1>6 DEF Unlink, UnlinkTo, frameVars
  <2>5. TypeOK'
    BY <1>2, <1>3, <2>1, <2>3, <2>4 DEF TypeOK, ListTypes
  <2>6. InHand'
    BY <2>1, <2>4 DEF InHand, InCallback
  <2> QED
    BY <2>3, <2>5, <2>6
<1>7. CASE Tick /\ (TickOn \/ TickUp \/ TickLap)
  <2>1. /\ upc = "loop" /\ currNode \in Timer /\ prevNode' = currNode
        /\ UNCHANGED listVars /\ due' = due /\ cleared' = cleared
        /\ ticks' \in [Timer -> 0 .. 2]
        /\ currNode \in ToSet(listed)
        /\ nextNode[currNode] \in Timer \union {NoTimer}
    BY <1>2, <1>3, <1>7 DEF Tick, TypeOK
  <2>2. CASE TickOn
    <3>1. currNode' = nextNode[currNode] /\ UNCHANGED <<isStop, upc, ops>>
      BY <2>2 DEF TickOn
    <3>2. TypeOK'
      BY <2>1, <3>1 DEF TypeOK, listVars
    <3>3. CursorsInList' /\ InHand'
      BY <2>1, <3>1 DEF CursorsInList, InHand, InCallback, listVars, TypeOK
    <3> QED
      BY <1>4, <2>1, <3>2, <3>3
  <2>3. CASE TickUp \/ TickLap
    <3>1. /\ currNode' = currNode /\ isStop' \in [Timer -> BOOLEAN]
          /\ upc' \in {"callback", "lapCallback"} /\ ops' = 0
      BY <2>3 DEF TickUp, TickLap, TypeOK
    <3>2. TypeOK'
      BY <2>1, <3>1 DEF TypeOK, listVars
    <3>3. CursorsInList' /\ InHand'
      BY <2>1, <3>1 DEF CursorsInList, InHand, InCallback, listVars
    <3> QED
      BY <1>4, <2>1, <3>2, <3>3
  <2> QED
    BY <1>7, <2>2, <2>3
<1>8. CASE LastLap
  <2>1. /\ upc = "lapCallback" /\ upc' = "callback" /\ ops' = 0
        /\ isStop' \in [Timer -> BOOLEAN]
        /\ UNCHANGED <<listVars, loopVars, frameVars>>
    BY <1>8 DEF LastLap, TypeOK
  <2>2. TypeOK'
    BY <2>1 DEF TypeOK, listVars, loopVars, frameVars
  <2>3. CursorsInList' /\ InHand'
    BY <2>1 DEF CursorsInList, InHand, InCallback, listVars, loopVars, frameVars
  <2> QED
    BY <1>4, <2>1, <2>2, <2>3
<1>9. CASE TickReturn
  <2>1. /\ currNode \in Timer /\ prevNode = currNode
        /\ nextNode[currNode] /= Garbage
    BY <1>9 DEF TickReturn, InHand
  <2>2. /\ upc' = "loop" /\ ops' = 0 /\ currNode' = nextNode[currNode]
        /\ UNCHANGED <<listVars, isStop, prevNode, frameVars>>
    BY <1>9 DEF TickReturn
  <2>3. nextNode[currNode] /= NoTimer => currNode \in ToSet(listed)
    BY <1>1, <2>1, LinkedByPointers DEF TypeOK
  <2>4. TypeOK'
    BY <2>1, <2>2 DEF TypeOK, listVars, frameVars
  <2>5. CursorsInList' /\ InHand'
    BY <2>1, <2>2, <2>3
    DEF CursorsInList, InHand, InCallback, listVars, frameVars
  <2> QED
    BY <1>4, <2>2, <2>4, <2>5
<1>10. CASE UpdateEnd
  <2>1. TypeOK'
    BY <1>10 DEF UpdateEnd, TypeOK, listVars, loopVars, frameVars
  <2>2. CursorsInList' /\ InHand'
    BY <1>10 DEF UpdateEnd, CursorsInList, InHand, InCallback, listVars,
                 loopVars, frameVars
  <2> QED
    BY <1>4, <1>10, <2>1, <2>2 DEF UpdateEnd
<1> QED
  BY <1>5, <1>6, <1>7, <1>8, <1>9, <1>10 DEF Update, TickOn, TickUp, TickLap

\* ListInv is inductive.
LEMMA StepKeepsList ==
  ASSUME ListInv, [Next]_vars
  PROVE  ListInv'
<1>1. CASE UNCHANGED vars
  <2>1. TypeOK'
    BY <1>1 DEF ListInv, TypeOK, vars, listVars, loopVars, frameVars
  <2>2. ListWellFormed'
    BY <1>1 DEF ListInv, ListWellFormed, vars, listVars
  <2>3. CursorsInList' /\ InHand'
    BY <1>1 DEF ListInv, CursorsInList, InHand, InCallback, vars, listVars,
                loopVars, frameVars
  <2> QED
    BY <2>1, <2>2, <2>3 DEF ListInv
<1> QED
  BY <1>1, GameKeepsList, UpdateKeepsList DEF Next

(***************************************************************************)
(* The pointers spell out the linked timers and Update's cursors are       *)
(* neighbours among them, in every behaviour: AddLast's test for being     *)
(* linked can be trusted, and Update unlinks the node it means to, however *)
(* callbacks change the list meanwhile (GameTimeManager.cpp).              *)
(***************************************************************************)
THEOREM ListCorrect == Spec => []ListInv
<1>1. Init => ListInv
  BY InitInv
<1>2. ListInv /\ [Next]_vars => ListInv'
  BY StepKeepsList
<1> QED
  BY <1>1, <1>2, PTL DEF Spec

\* The list is head to tail along nextNode what was linked, and nothing else.
THEOREM ListStaysWellFormed == Spec => []ListWellFormed
<1>1. ListInv => ListWellFormed
  BY DEF ListInv
<1> QED
  BY <1>1, ListCorrect, PTL

\* Update never unlinks a node behind a timer that has left the list.
THEOREM CursorsStayInList == Spec => []CursorsInList
<1>1. ListInv => CursorsInList
  BY DEF ListInv
<1> QED
  BY <1>1, ListCorrect, PTL

-----------------------------------------------------------------------------
(* How the cursor moves through the list.                                  *)

NoRepetition(l) == \A i, j \in 1 .. Len(l) : l[i] = l[j] => i = j

LEMMA BehindSelf ==
  ASSUME NEW l \in Seq(Timer), NoRepetition(l), NEW p \in 1 .. Len(l), NEW t
  PROVE  /\ FromOn(l, l[p], t) <=> Behind(l, l[p], t) \/ t = l[p]
         /\ ~Behind(l, l[p], l[p])
<1>1. ASSUME t = l[p]  PROVE FromOn(l, l[p], t)
  BY <1>1 DEF Behind, FromOn
<1>2. ASSUME FromOn(l, l[p], t), t /= l[p]
      PROVE  Behind(l, l[p], t)
  BY <1>2 DEF Behind, FromOn
<1>3. Behind(l, l[p], t) => FromOn(l, l[p], t)
  BY DEF Behind, FromOn
<1>4. ~Behind(l, l[p], l[p])
  BY DEF Behind, FromOn, NoRepetition
<1> QED
  BY <1>1, <1>2, <1>3, <1>4

LEMMA NothingFromOn ==
  ASSUME NEW l \in Seq(Timer), NEW t
  PROVE  ~FromOn(l, NoTimer, t)
<1>1. \A i \in 1 .. Len(l) : l[i] /= NoTimer
  OBVIOUS
<1> QED
  BY <1>1 DEF FromOn

\* From a node to the next: the same timers are ahead.
LEMMA BehindNext ==
  ASSUME NEW l \in Seq(Timer), NoRepetition(l), NEW p \in 1 .. Len(l), NEW t,
         NEW next, next = IF p = Len(l) THEN NoTimer ELSE l[p + 1]
  PROVE  FromOn(l, next, t) <=> Behind(l, l[p], t)
<1>1. CASE p = Len(l)
  <2>1. next = NoTimer
    BY <1>1
  <2>2. ~FromOn(l, next, t)
    BY <2>1, NothingFromOn
  <2>3. ~Behind(l, l[p], t)
    BY <1>1 DEF Behind, FromOn, NoRepetition
  <2> QED
    BY <2>2, <2>3
<1>2. CASE p /= Len(l)
  <2>1. next = l[p + 1] /\ p + 1 \in 1 .. Len(l)
    BY <1>2
  <2>2. ASSUME FromOn(l, next, t)  PROVE Behind(l, l[p], t)
    <3>1. PICK i \in 1 .. Len(l), j \in 1 .. Len(l) :
            l[i] = next /\ l[j] = t /\ i <= j
      BY <2>2 DEF Behind, FromOn
    <3>2. i = p + 1
      BY <2>1, <3>1 DEF NoRepetition
    <3>3. p < j
      BY <3>1, <3>2
    <3> QED
      BY <3>1, <3>3 DEF Behind, FromOn
  <2>3. ASSUME Behind(l, l[p], t)  PROVE FromOn(l, next, t)
    <3>1. PICK i \in 1 .. Len(l), j \in 1 .. Len(l) :
            l[i] = l[p] /\ l[j] = t /\ i < j
      BY <2>3 DEF Behind, FromOn
    <3>2. i = p
      BY <3>1 DEF NoRepetition
    <3>3. p + 1 <= j
      BY <3>1, <3>2
    <3> QED
      BY <2>1, <3>1, <3>3 DEF Behind, FromOn
  <2> QED
    BY <2>2, <2>3
<1> QED
  BY <1>1, <1>2

\* Linking a timer puts it behind everything and changes nothing else.
LEMMA BehindAppended ==
  ASSUME NEW l \in Seq(Timer), NEW m \in Seq(Timer), Len(m) = Len(l) + 1,
         \A k \in 1 .. Len(l) : m[k] = l[k],
         NEW c, NEW t
  PROVE  /\ Behind(l, c, t) => Behind(m, c, t)
         /\ Behind(m, c, t) => Behind(l, c, t) \/ t = m[Len(l) + 1]
<1>1. ASSUME Behind(l, c, t)  PROVE Behind(m, c, t)
  <2>1. PICK i \in 1 .. Len(l), j \in 1 .. Len(l) :
          l[i] = c /\ l[j] = t /\ i < j
    BY <1>1 DEF Behind, FromOn
  <2>2. i \in 1 .. Len(m) /\ j \in 1 .. Len(m) /\ m[i] = c /\ m[j] = t
    BY <2>1
  <2> QED
    BY <2>1, <2>2 DEF Behind, FromOn
<1>2. ASSUME Behind(m, c, t), t /= m[Len(l) + 1]
      PROVE  Behind(l, c, t)
  <2>1. PICK i \in 1 .. Len(m), j \in 1 .. Len(m) :
          m[i] = c /\ m[j] = t /\ i < j
    BY <1>2 DEF Behind, FromOn
  <2>2. j \in 1 .. Len(l) /\ i \in 1 .. Len(l)
    BY <1>2, <2>1
  <2> QED
    BY <2>1, <2>2 DEF Behind, FromOn
<1> QED
  BY <1>1, <1>2

\* Unlinking the node at the cursor leaves the same timers ahead.
LEMMA BehindRemoved ==
  ASSUME NEW l \in Seq(Timer), NoRepetition(l), NEW p \in 1 .. Len(l),
         NEW m \in Seq(Timer), NoRepetition(m), Len(m) = Len(l) - 1,
         \A k \in 1 .. Len(l) - 1 : m[k] = IF k < p THEN l[k] ELSE l[k + 1],
         NEW t, NEW next, next = IF p = Len(l) THEN NoTimer ELSE m[p]
  PROVE  FromOn(m, next, t) <=> Behind(l, l[p], t)
<1>1. CASE p = Len(l)
  <2>1. next = NoTimer
    BY <1>1
  <2>2. ~FromOn(m, next, t)
    BY <2>1, NothingFromOn
  <2>3. ~Behind(l, l[p], t)
    BY <1>1 DEF Behind, FromOn, NoRepetition
  <2> QED
    BY <2>2, <2>3
<1>2. CASE p /= Len(l)
  <2>1. next = m[p] /\ p \in 1 .. Len(m)
    BY <1>2
  <2>2. ASSUME FromOn(m, next, t)  PROVE Behind(l, l[p], t)
    <3>1. PICK i \in 1 .. Len(m), j \in 1 .. Len(m) :
            m[i] = next /\ m[j] = t /\ i <= j
      BY <2>2 DEF Behind, FromOn
    <3>2. i = p
      BY <2>1, <3>1 DEF NoRepetition
    <3>3. ~(j < p) /\ j + 1 \in 1 .. Len(l) /\ p < j + 1 /\ j \in 1 .. Len(l) - 1
      BY <3>1, <3>2
    <3>4. l[j + 1] = t
      BY <3>1, <3>3
    <3> QED
      BY <3>3, <3>4 DEF Behind, FromOn
  <2>3. ASSUME Behind(l, l[p], t)  PROVE FromOn(m, next, t)
    <3>1. PICK i \in 1 .. Len(l), j \in 1 .. Len(l) :
            l[i] = l[p] /\ l[j] = t /\ i < j
      BY <2>3 DEF Behind, FromOn
    <3>2. i = p
      BY <3>1 DEF NoRepetition
    <3>3. /\ j - 1 \in 1 .. Len(m) /\ ~(j - 1 < p) /\ (j - 1) + 1 = j
          /\ p <= j - 1
      BY <3>1, <3>2
    <3>4. m[j - 1] = t
      BY <3>1, <3>3
    <3> QED
      BY <2>1, <3>3, <3>4 DEF Behind, FromOn
  <2> QED
    BY <2>2, <2>3
<1> QED
  BY <1>1, <1>2

-----------------------------------------------------------------------------
(* The ticks of a frame.                                                   *)

LEMMA GameKeepsTicks ==
  ASSUME ListInv, TickInv, OncePerFrame, DueIsTicked, Game
  PROVE  TickInv' /\ OncePerFrame' /\ DueIsTicked'
<1> USE DEF TickInv
<1>1. MayOperate
  BY DEF Game, Start, Restart, Stop, Clear
<1>2. /\ upc /= "loop" /\ upc' = upc
      /\ currNode' = currNode /\ ticks' = ticks
  BY <1>1 DEF MayOperate, InCallback, loopVars
<1>3. TypeOK /\ ListWellFormed /\ ListTypes
  BY TypesOfList DEF ListInv
<1>4. (cleared => cleared') /\ due' \subseteq due
  BY <1>3 DEF Game, Start, Restart, Stop, Clear, InCallback, TypeOK
<1>5. OncePerFrame' /\ DueIsTicked'
  <2>1. OncePerFrame'
    BY <1>2, <1>4 DEF OncePerFrame
  <2>2. DueIsTicked'
    BY <1>2, <1>4 DEF DueIsTicked
  <2> QED
    BY <2>1, <2>2
<1>a. \A u : /\ Ahead(u) <=> Behind(listed, currNode, u)
             /\ Ahead(u)' <=> Behind(listed', currNode, u)
  BY <1>2 DEF Ahead
<1>6. ASSUME NEW t \in Timer, Start(t), upc /= "game"
      PROVE  TickInv'
  <2>1. /\ isStop' = [isStop EXCEPT ![t] = FALSE] /\ AddLast(t)
        /\ due' = due
    BY <1>6 DEF Start
  <2>2. \A u \in Timer : ~isStop[u] => ~isStop'[u]
    BY <1>3, <2>1 DEF TypeOK
  <2>3. /\ \A u \in Timer : u \notin ToSet(listed') => u \notin ToSet(listed)
        /\ \A u \in Timer : Ahead(u)' => Ahead(u) \/ u \notin ToSet(listed)
        /\ \A u \in Timer : Ahead(u) => Ahead(u)'
    <3>1. CASE Listed(t)
      <4>1. listed' = listed
        BY <2>1, <3>1 DEF AddLast, listVars
      <4> QED
        BY <1>a, <4>1
    <3>2. CASE ~Listed(t)
      <4>1. /\ t \notin ToSet(listed)
            /\ listed \in Seq(Timer) /\ listed' \in Seq(Timer)
            /\ Len(listed') = Len(listed) + 1
            /\ listed'[Len(listed) + 1] = t
            /\ \A k \in 1 .. Len(listed) : listed'[k] = listed[k]
        BY <1>3, <2>1, <3>2, AddLastLinks DEF ListTypes
      <4>2. ASSUME NEW u \in Timer
            PROVE  /\ Behind(listed, currNode, u) => Behind(listed', currNode, u)
                   /\ Behind(listed', currNode, u) =>
                        Behind(listed, currNode, u) \/ u = listed'[Len(listed) + 1]
        BY ONLY <4>1, BehindAppended
      <4>3. \A u \in Timer : u \notin ToSet(listed') => u \notin ToSet(listed)
        <5>1. \A k \in 1 .. Len(listed) : listed'[k] \in ToSet(listed')
          BY <4>1 DEF ToSet
        <5> QED
          BY <4>1, <5>1 DEF ToSet
      <4> QED
        BY <1>a, <4>1, <4>2, <4>3
    <3> QED
      BY <3>1, <3>2
  <2>4. AheadNotTicked'
    BY <1>2, <1>4, <1>6, <2>3 DEF AheadNotTicked
  <2>5. DueAhead'
    BY <1>2, <1>3, <1>6, <2>1, <2>2, <2>3 DEF DueAhead, TypeOK
  <2> QED
    BY <2>4, <2>5
<1>7. ASSUME NEW t \in Timer, Restart(t) \/ Stop(t), upc /= "game"
      PROVE  TickInv'
  <2>1. /\ listed' = listed /\ due' \subseteq due
        /\ \A u \in due' : ~isStop[u] => ~isStop'[u]
    BY <1>3, <1>7 DEF Restart, Stop, listVars, TypeOK
  <2>2. \A u : Ahead(u)' <=> Ahead(u)
    BY <1>a, <2>1
  <2>4. AheadNotTicked'
    BY <1>2, <1>4, <1>7, <2>1, <2>2 DEF AheadNotTicked
  <2>5. DueAhead'
    BY <1>2, <1>7, <2>1, <2>2 DEF DueAhead
  <2> QED
    BY <2>4, <2>5
<1>8. ASSUME Clear, upc /= "game"
      PROVE  TickInv'
  <2>1. cleared' /\ due' = {}
    BY <1>2, <1>3, <1>8 DEF Clear, InCallback, TypeOK
  <2> QED
    BY <2>1 DEF AheadNotTicked, DueAhead
<1>9. upc = "game" => TickInv'
  BY <1>2 DEF AheadNotTicked, DueAhead
<1> QED
  BY <1>5, <1>6, <1>7, <1>8, <1>9 DEF Game

LEMMA UpdateKeepsTicks ==
  ASSUME ListInv, TickInv, OncePerFrame, DueIsTicked, Update
  PROVE  TickInv' /\ OncePerFrame' /\ DueIsTicked'
<1> USE DEF TickInv
<1>0. /\ TypeOK /\ ListWellFormed /\ ListTypes /\ CursorsInList
      /\ listed \in Seq(Timer) /\ NoRepetition(listed)
  BY TypesOfList DEF ListInv, ListTypes, ListWellFormed, NoRepetition
<1>c. \A k \in 1 .. Len(listed) : listed[k] \in Timer /\ listed[k] \in ToSet(listed)
  BY <1>0 DEF ToSet
<1>n. \A t : FromOn(listed, NoTimer, t) => FALSE
  BY <1>0, NothingFromOn
<1>1. CASE UpdateBegin
  <2>1. /\ upc' = "loop" /\ ticks' = [t \in Timer |-> 0] /\ listed' = listed
        /\ currNode' = headNode /\ isStop' = isStop
        /\ due' = {t \in ToSet(listed) : ~isStop[t]}
    BY <1>1 DEF UpdateBegin, listVars
  <2>2. ASSUME NEW t \in due'
        PROVE  Ahead(t)'
    <3>1. PICK j \in 1 .. Len(listed) : t = listed[j]
      BY <1>0, <2>1, <2>2 DEF ToSet
    <3>2. 1 \in 1 .. Len(listed) /\ listed[1] = headNode /\ 1 <= j
      BY <1>0, <3>1 DEF ListWellFormed
    <3>3. FromOn(listed, headNode, t)
      BY <3>1, <3>2 DEF FromOn
    <3> QED
      BY <2>1, <3>3 DEF Ahead
  <2>3. AheadNotTicked'
    BY <2>1 DEF AheadNotTicked
  <2>4. DueAhead'
    BY <2>1, <2>2 DEF DueAhead
  <2>5. OncePerFrame' /\ DueIsTicked'
    BY <2>1 DEF OncePerFrame, DueIsTicked
  <2> QED
    BY <2>3, <2>4, <2>5
<1>2. CASE Unlink
  <2>1. /\ upc = "loop" /\ upc' = "loop" /\ currNode \in Timer
        /\ isStop[currNode] /\ isStop' = isStop
        /\ ticks' = ticks /\ due' = due /\ (cleared => cleared')
    BY <1>0, <1>2 DEF Unlink, UnlinkTo, frameVars, TypeOK
  <2>2. PICK p \in 1 .. Len(listed) : CursorAt(p)
    BY <1>0, <2>1, CursorPosition DEF TypeOK
  <2>3. /\ Len(listed') = Len(listed) - 1
        /\ \A k \in 1 .. Len(listed) - 1 :
             listed'[k] = IF k < p THEN listed[k] ELSE listed[k + 1]
        /\ \A t \in Timer : t \in ToSet(listed') <=>
                              t \in ToSet(listed) /\ t /= currNode
        /\ currNode' = IF p = Len(listed) THEN NoTimer ELSE listed'[p]
        /\ listed' \in Seq(Timer) /\ NoRepetition(listed')
        /\ listed[p] = currNode
    BY <1>0, <1>2, <2>1, <2>2, UnlinkCloses
    DEF TypeOK, ListTypes, ListWellFormed, NoRepetition, CursorAt
  <2>4. ASSUME NEW t
        PROVE  /\ FromOn(listed', currNode', t) <=> Behind(listed, currNode, t)
               /\ FromOn(listed, currNode, t) <=>
                    Behind(listed, currNode, t) \/ t = currNode
    <3>1. FromOn(listed', currNode', t) <=> Behind(listed, listed[p], t)
      BY ONLY <1>0, <2>3, BehindRemoved
    <3>2. FromOn(listed, listed[p], t) <=>
            Behind(listed, listed[p], t) \/ t = listed[p]
      BY ONLY <1>0, BehindSelf
    <3> QED
      BY <2>3, <3>1, <3>2
  <2>5. \A t : /\ Ahead(t) <=> FromOn(listed, currNode, t)
               /\ Ahead(t)' <=> FromOn(listed', currNode', t)
    BY <2>1 DEF Ahead
  <2>6. AheadNotTicked'
    BY <2>1, <2>3, <2>4, <2>5 DEF AheadNotTicked
  <2>7. DueAhead'
    BY <2>1, <2>4, <2>5 DEF DueAhead
  <2>8. OncePerFrame' /\ DueIsTicked'
    BY <2>1 DEF OncePerFrame, DueIsTicked
  <2> QED
    BY <2>6, <2>7, <2>8
<1>3. CASE Tick /\ (TickOn \/ TickUp \/ TickLap)
  <2>1. /\ upc = "loop" /\ currNode \in Timer
        /\ ticks' = [ticks EXCEPT ![currNode] = IF @ = 0 THEN 1 ELSE 2]
        /\ listed' = listed /\ due' = due /\ (cleared => cleared')
        /\ upc' /= "game"
    BY <1>0, <1>3 DEF Tick, TickOn, TickUp, TickLap, listVars, TypeOK
  <2>2. PICK p \in 1 .. Len(listed) : CursorAt(p)
    BY <1>0, <2>1, CursorPosition DEF TypeOK
  <2>3. listed[p] = currNode /\ currNode \in ToSet(listed)
    BY <1>c, <2>2 DEF CursorAt
  <2>4. /\ ticks'[currNode] > 0
        /\ ticks[currNode] = 0 => ticks'[currNode] <= 1
        /\ \A t \in Timer : t /= currNode => ticks'[t] = ticks[t]
    BY <1>0, <2>1 DEF TypeOK
  <2>5. ASSUME NEW t
        PROVE  /\ Ahead(t) <=> Behind(listed, currNode, t) \/ t = currNode
               /\ ~Behind(listed, currNode, currNode)
    <3>1. /\ FromOn(listed, listed[p], t) <=>
               Behind(listed, listed[p], t) \/ t = listed[p]
          /\ ~Behind(listed, listed[p], listed[p])
      BY ONLY <1>0, BehindSelf
    <3> QED
      BY <2>1, <2>3, <3>1 DEF Ahead
  <2>6. ASSUME NEW t
        PROVE  Ahead(t)' <=> Behind(listed, currNode, t)
    <3>1. CASE TickOn
      <4>1. upc' = "loop" /\ currNode' = nextNode[currNode]
        BY <2>1, <3>1 DEF TickOn
      <4>2. nextNode[listed[p]] =
              IF p = Len(listed) THEN NoTimer ELSE listed[p + 1]
        BY <1>0 DEF ListWellFormed
      <4>3. FromOn(listed, nextNode[listed[p]], t) <=>
              Behind(listed, listed[p], t)
        BY ONLY <1>0, <4>2, BehindNext
      <4> QED
        BY <2>1, <2>3, <4>1, <4>3 DEF Ahead
    <3>2. CASE TickUp \/ TickLap
      BY <2>1, <3>2 DEF TickUp, TickLap, Ahead
    <3> QED
      BY <1>3, <3>1, <3>2
  <2>7. \A t \in Timer : t /= currNode => (~isStop[t] => ~isStop'[t])
    BY <1>0, <1>3 DEF TickOn, TickUp, TickLap, TypeOK
  <2>8. AheadNotTicked'
    BY <2>1, <2>3, <2>4, <2>5, <2>6 DEF AheadNotTicked
  <2>9. DueAhead'
    BY <1>0, <2>1, <2>4, <2>5, <2>6, <2>7 DEF DueAhead, TypeOK
  <2>10. OncePerFrame'
    BY <2>1, <2>4, <2>5 DEF OncePerFrame, AheadNotTicked
  <2>11. DueIsTicked'
    BY <2>1 DEF DueIsTicked
  <2> QED
    BY <2>8, <2>9, <2>10, <2>11
<1>4. CASE LastLap
  <2>1. /\ upc = "lapCallback" /\ upc' = "callback"
        /\ isStop' = [isStop EXCEPT ![currNode] = TRUE]
        /\ listed' = listed /\ currNode' = currNode /\ ticks' = ticks
        /\ due' = due /\ (cleared => cleared')
    BY <1>4 DEF LastLap, listVars, loopVars, frameVars
  <2>2. \A t : /\ Ahead(t) <=> Behind(listed, currNode, t)
               /\ Ahead(t)' <=> Behind(listed, currNode, t)
    BY <2>1 DEF Ahead
  <2>3. ~Behind(listed, currNode, currNode)
    BY <1>0 DEF Behind, NoRepetition
  <2>4. \A t \in Timer : t /= currNode => (~isStop[t] => ~isStop'[t])
    BY <1>0, <2>1 DEF TypeOK
  <2>5. AheadNotTicked'
    BY <2>1, <2>2 DEF AheadNotTicked
  <2>6. DueAhead'
    BY <1>0, <2>1, <2>2, <2>3, <2>4 DEF DueAhead, TypeOK
  <2>7. OncePerFrame' /\ DueIsTicked'
    BY <2>1 DEF OncePerFrame, DueIsTicked
  <2> QED
    BY <2>5, <2>6, <2>7
<1>5. CASE TickReturn
  <2>1. /\ upc /= "loop" /\ upc /= "game" /\ upc' = "loop"
        /\ currNode' = nextNode[currNode] /\ currNode \in Timer
        /\ isStop' = isStop /\ listed' = listed /\ ticks' = ticks
        /\ due' = due /\ (cleared => cleared')
        /\ cleared => due = {}
        /\ ~cleared => currNode \in ToSet(listed)
    BY <1>5 DEF TickReturn, InCallback, listVars, frameVars, ListInv, InHand
  <2>2. ASSUME NEW t, currNode \in ToSet(listed)
        PROVE  Ahead(t)' <=> Ahead(t)
    <3>1. PICK p \in 1 .. Len(listed) : listed[p] = currNode
      BY <1>0, <2>2 DEF ToSet
    <3>2. nextNode[listed[p]] =
            IF p = Len(listed) THEN NoTimer ELSE listed[p + 1]
      BY <1>0 DEF ListWellFormed
    <3>3. FromOn(listed, nextNode[listed[p]], t) <=>
            Behind(listed, listed[p], t)
      BY ONLY <1>0, <3>2, BehindNext
    <3> QED
      BY <2>1, <3>1, <3>3 DEF Ahead
  <2>3. AheadNotTicked'
    BY <2>1, <2>2 DEF AheadNotTicked
  <2>4. DueAhead'
    BY <2>1, <2>2 DEF DueAhead
  <2>5. OncePerFrame' /\ DueIsTicked'
    BY <2>1 DEF OncePerFrame, DueIsTicked
  <2> QED
    BY <2>3, <2>4, <2>5
<1>6. CASE UpdateEnd
  <2>1. /\ upc = "loop" /\ currNode = NoTimer /\ upc' = "game"
        /\ ticks' = ticks /\ due' = due /\ (cleared => cleared')
    BY <1>6 DEF UpdateEnd, frameVars
  <2>2. \A t : ~Ahead(t)
    BY <1>n, <2>1 DEF Ahead
  <2>3. \A t \in due : ticks[t] > 0
    BY <2>1, <2>2 DEF DueAhead
  <2> QED
    BY <2>1, <2>3 DEF OncePerFrame, DueIsTicked, AheadNotTicked, DueAhead
<1> QED
  BY <1>1, <1>2, <1>3, <1>4, <1>5, <1>6 DEF Update, TickOn, TickUp, TickLap

LEMMA StepKeepsTicks ==
  ASSUME ListInv, TickInv, OncePerFrame, DueIsTicked, [Next]_vars
  PROVE  TickInv' /\ OncePerFrame' /\ DueIsTicked'
<1>1. CASE UNCHANGED vars
  BY <1>1 DEF TickInv, AheadNotTicked, DueAhead, Ahead, OncePerFrame,
              DueIsTicked, vars, listVars, loopVars, frameVars
<1> QED
  BY <1>1, GameKeepsTicks, UpdateKeepsTicks DEF Next

\* What makes the next two theorems inductive: the cursor tells the timers
\* ticked in this frame from those that are still due.
THEOREM TicksCorrect == Spec => [](TickInv /\ OncePerFrame /\ DueIsTicked)
<1>1. Init => TickInv /\ OncePerFrame /\ DueIsTicked
  BY InitInv
<1>2. /\ ListInv /\ TickInv /\ OncePerFrame /\ DueIsTicked
      /\ [Next]_vars
      => TickInv' /\ OncePerFrame' /\ DueIsTicked'
  BY StepKeepsTicks
<1> QED
  BY <1>1, <1>2, ListCorrect, PTL DEF Spec

\* No timer is ticked twice in a frame, as long as no callback clears the list
\* Update is going through.
THEOREM TickedOnce == Spec => []OncePerFrame
  BY TicksCorrect, PTL

\* A timer that was running when the frame began, and that nobody stopped, is
\* ticked in that frame, whatever the callbacks before it started, stopped or
\* linked.
THEOREM TickedWhenDue == Spec => []DueIsTicked
  BY TicksCorrect, PTL
=============================================================================

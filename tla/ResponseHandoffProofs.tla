------------------------ MODULE ResponseHandoffProofs ------------------------
(* What the TCP listener guarantees for responses, for any number of       *)
(* sending threads, responses and connections: exclusive use of the        *)
(* vectors, no lost wakeup, Send and SendResponses implement the abstract  *)
(* Mailbox, and the sockets are written to in the order of the pushes.     *)
EXTENDS ResponseHandoff, SequenceLemmas

-----------------------------------------------------------------------------
(***************************************************************************)
(* The inductive invariant: the lock is held exactly across a Send and     *)
(* from the test of the predicate to the reset, no pointer moves under a   *)
(* push, and the flag and the vector disagree only inside a critical       *)
(* section.                                                                *)
(***************************************************************************)
LockInv ==
  /\ \A s \in Sender :
       responseLocker = s <=>
         pc[s] \in {"load", "append", "flag", "notify", "unlock"}
  /\ responseLocker = "send" <=> spc \in {"check", "reset", "unlock"}

PointerInv ==
  /\ \A s \in Sender :
       /\ pc[s] = "append" => target[s] = producerResponses
       /\ pc[s] /= "idle" => resp[s] \in Response
  /\ spc \in {"lock", "check", "asleep", "woken"} =>
       /\ consumerResponses = producerResponses
       /\ temp /= producerResponses
       /\ vec[temp] = <<>>
  /\ spc \in {"idle", "reset", "unlock", "loop"} =>
       consumerResponses /= producerResponses
  /\ spc = "idle" => vec[consumerResponses] = <<>>

FlagInv ==
  /\ \A s \in Sender : pc[s] = "flag" => vec[producerResponses] /= <<>>
  /\ spc = "reset" => vec[producerResponses] = <<>>
  /\ spc /= "reset" /\ (\A s \in Sender : pc[s] /= "flag") =>
       (hasNewResponse <=> vec[producerResponses] /= <<>>)

HandoffInv == LockInv /\ PointerInv /\ FlagInv /\ NoLostWakeup

LEMMA PushedNotEmpty ==
  ASSUME NEW q \in Seq(Response), NEW r \in Response
  PROVE  Append(q, r) /= <<>>
  BY AppendProperties

USE ResponseAssumption DEF Vector

LEMMA SenderNames == \A s \in Sender : s /= "free" /\ s /= "send"
  OBVIOUS

LEMMA InitInv == Init => TypeOK /\ HandoffInv
<1> SUFFICES ASSUME Init  PROVE TypeOK /\ HandoffInv
  OBVIOUS
<1>1. TypeOK
  <2>1. <<>> \in Seq(Response) /\ <<>> \in Seq(Response \X Conn)
    OBVIOUS
  <2> QED  BY <2>1 DEF Init, TypeOK
<1>2. LockInv  BY SenderNames DEF Init, LockInv
<1>3. PointerInv  BY DEF Init, PointerInv
<1>4. FlagInv /\ NoLostWakeup  BY DEF Init, FlagInv, NoLostWakeup
<1> QED  BY <1>1, <1>2, <1>3, <1>4 DEF HandoffInv

\* What a sender's step is, whichever of the seven it is.
LEMMA SendCases ==
  ASSUME Next
  PROVE  \/ \E s \in Sender, r \in Response : SendBegin(s, r)
         \/ \E s \in Sender :
              \/ SendLock(s) \/ SendLoad(s) \/ SendAppend(s)
              \/ SendFlag(s) \/ SendNotify(s) \/ SendUnlock(s)
         \/ SendResponses
         \/ SpuriousWakeup
  BY DEF Next, Send

LEMMA StepType ==
  ASSUME TypeOK, HandoffInv, [Next]_vars
  PROVE  TypeOK'
<1> USE DEF TypeOK
<1>1. ASSUME NEW s \in Sender, NEW r \in Response, SendBegin(s, r)
      PROVE  TypeOK'
  BY <1>1 DEF SendBegin, pointers, threadVars, history
<1>2. ASSUME NEW s \in Sender, SendLock(s)  PROVE TypeOK'
  BY <1>2 DEF SendLock, pointers, threadVars, history
<1>3. ASSUME NEW s \in Sender, SendLoad(s)  PROVE TypeOK'
  BY <1>3 DEF SendLoad, pointers, threadVars, history
<1>4. ASSUME NEW s \in Sender, SendAppend(s)  PROVE TypeOK'
  <2>1. resp[s] \in Response
    BY <1>4 DEF SendAppend, HandoffInv, PointerInv
  <2>2. vec' \in [Vector -> Seq(Response)] /\ posted' \in Seq(Response)
    BY <1>4, <2>1 DEF SendAppend
  <2> QED  BY <1>4, <2>2 DEF SendAppend, pointers, threadVars
<1>5. ASSUME NEW s \in Sender, SendFlag(s)  PROVE TypeOK'
  BY <1>5 DEF SendFlag, pointers, threadVars, history
<1>6. ASSUME NEW s \in Sender, SendNotify(s)  PROVE TypeOK'
  BY <1>6 DEF SendNotify, pointers, history
<1>7. ASSUME NEW s \in Sender, SendUnlock(s)  PROVE TypeOK'
  BY <1>7 DEF SendUnlock, pointers, threadVars, history
<1>8. CASE Snapshot
  BY <1>8 DEF Snapshot, senderVars, history
<1>9. CASE Lock
  BY <1>9 DEF Lock, pointers, senderVars, history
<1>10. CASE Wait
  BY <1>10 DEF Wait, pointers, senderVars, history
<1>11. CASE Swap
  BY <1>11 DEF Swap, senderVars, history
<1>12. CASE Reset
  BY <1>12 DEF Reset, pointers, senderVars, history
<1>13. CASE Unlock
  BY <1>13 DEF Unlock, pointers, senderVars, history
<1>14. CASE Transmit
  <2>1. current \in Response
    BY <1>14, SMTT(30) DEF Transmit, current
  <2>2. ConnIds[current] \in Seq(Conn)  BY <2>1
  <2>3. ConnIds[current][conn + 1] \in Conn
    BY <1>14, <2>2 DEF Transmit
  <2>4. attempts' \in Seq(Response \X Conn)
    BY <1>14, <2>1, <2>3 DEF Transmit
  <2> QED  BY <1>14, <2>4 DEF Transmit, pointers, senderVars
<1>15. CASE NextResponse
  <2>1. current \in Response
    BY <1>15 DEF NextResponse, current
  <2>2. transmitted' \in Seq(Response)
    BY <1>15, <2>1 DEF NextResponse
  <2> QED  BY <1>15, <2>2 DEF NextResponse, pointers, senderVars
<1>16. CASE Clear
  BY <1>16 DEF Clear, pointers, senderVars, history
<1>17. CASE SpuriousWakeup
  BY <1>17 DEF SpuriousWakeup, pointers, senderVars, history
<1>18. CASE UNCHANGED vars
  BY <1>18 DEF vars, pointers, senderVars, threadVars, history
<1> QED
  BY <1>1, <1>2, <1>3, <1>4, <1>5, <1>6, <1>7, <1>8, <1>9, <1>10, <1>11,
     <1>12, <1>13, <1>14, <1>15, <1>16, <1>17, <1>18, SendCases
  DEF SendResponses

\* One step of the protocol, by what it does to the lock, the pointers and the
\* flag; a step of one thread leaves what another holds alone.
LEMMA StepInv ==
  ASSUME TypeOK, HandoffInv, [Next]_vars
  PROVE  HandoffInv'
<1> USE DEF TypeOK, HandoffInv, LockInv, PointerInv, FlagInv, NoLostWakeup
<1>1. ASSUME NEW s \in Sender, NEW r \in Response, SendBegin(s, r)
      PROVE  HandoffInv'
  BY <1>1 DEF SendBegin, pointers, threadVars
<1>2. ASSUME NEW s \in Sender, SendLock(s)  PROVE HandoffInv'
  BY <1>2 DEF SendLock, pointers, threadVars
<1>3. ASSUME NEW s \in Sender, SendLoad(s)  PROVE HandoffInv'
  BY <1>3 DEF SendLoad, pointers, threadVars
<1>4. ASSUME NEW s \in Sender, SendAppend(s)  PROVE HandoffInv'
  <2>1. /\ pc[s] = "append" /\ pc' = [pc EXCEPT ![s] = "flag"]
        /\ target[s] = producerResponses /\ resp[s] \in Response
        /\ responseLocker = s /\ spc \notin {"check", "reset", "unlock"}
    BY <1>4, SenderNames DEF SendAppend
  <2>2. /\ vec' = [vec EXCEPT ![producerResponses] = Append(@, resp[s])]
        /\ UNCHANGED <<producerResponses, consumerResponses, responseLocker,
                       hasNewResponse, resp, target, spc, temp>>
    BY <1>4, <2>1 DEF SendAppend, pointers, threadVars
  <2>3. /\ vec'[producerResponses] /= <<>>
        /\ \A v \in Vector : v /= producerResponses => vec'[v] = vec[v]
    <3>1. vec[producerResponses] \in Seq(Response)  OBVIOUS
    <3>2. vec'[producerResponses] = Append(vec[producerResponses], resp[s])
      BY <2>2
    <3>3. Append(vec[producerResponses], resp[s]) /= <<>>
      BY <2>1, <3>1, PushedNotEmpty
    <3>4. vec'[producerResponses] /= <<>>  BY <3>2, <3>3
    <3>5. \A v \in Vector : v /= producerResponses => vec'[v] = vec[v]
      BY <2>2
    <3> QED  BY <3>4, <3>5
  <2>4. LockInv'
    <3>1. \A t \in Sender : t /= s =>
            pc'[t] = pc[t] /\ responseLocker /= t
      BY <2>1
    <3> QED  BY <2>1, <2>2, <3>1, SenderNames
  <2>5. PointerInv'  BY <2>1, <2>2, <2>3
  <2>6. FlagInv' /\ NoLostWakeup'  BY <2>1, <2>2, <2>3
  <2> QED  BY <2>4, <2>5, <2>6
<1>5. ASSUME NEW s \in Sender, SendFlag(s)  PROVE HandoffInv'
  BY <1>5 DEF SendFlag, pointers, threadVars
<1>6. ASSUME NEW s \in Sender, SendNotify(s)  PROVE HandoffInv'
  BY <1>6 DEF SendNotify, pointers
<1>7. ASSUME NEW s \in Sender, SendUnlock(s)  PROVE HandoffInv'
  BY <1>7 DEF SendUnlock, pointers, threadVars
<1>8. CASE Snapshot
  BY <1>8 DEF Snapshot, senderVars
<1>9. CASE Lock
  BY <1>9 DEF Lock, pointers, senderVars
<1>10. CASE Wait
  BY <1>10 DEF Wait, pointers, senderVars
<1>11. CASE Swap
  BY <1>11 DEF Swap, senderVars
<1>12. CASE Reset
  BY <1>12 DEF Reset, pointers, senderVars
<1>13. CASE Unlock
  BY <1>13 DEF Unlock, pointers, senderVars
<1>14. CASE Transmit
  BY <1>14 DEF Transmit, pointers, senderVars
<1>15. CASE NextResponse
  BY <1>15 DEF NextResponse, pointers, senderVars
<1>16. CASE Clear
  BY <1>16 DEF Clear, pointers, senderVars
<1>17. CASE SpuriousWakeup
  BY <1>17 DEF SpuriousWakeup, pointers, senderVars
<1>18. CASE UNCHANGED vars
  BY <1>18 DEF vars, pointers, senderVars, threadVars
<1> QED
  BY <1>1, <1>2, <1>3, <1>4, <1>5, <1>6, <1>7, <1>8, <1>9, <1>10, <1>11,
     <1>12, <1>13, <1>14, <1>15, <1>16, <1>17, <1>18, SendCases
  DEF SendResponses

\* The types and the protocol invariant hold for every set of sending threads.
THEOREM HandoffCorrect == Spec => [](TypeOK /\ HandoffInv)
<1>1. Init => TypeOK /\ HandoffInv  BY InitInv
<1>2. TypeOK /\ HandoffInv /\ [Next]_vars => (TypeOK /\ HandoffInv)'
  BY StepType, StepInv
<1> QED  BY <1>1, <1>2, PTL DEF Spec

\* SendResponses iterates and clears its vector without the lock, and no Send
\* has a push open on that vector.
THEOREM VectorsExclusive == Spec => []ExclusiveVectors
<1>1. TypeOK /\ HandoffInv => ExclusiveVectors
  BY DEF TypeOK, HandoffInv, PointerInv, ExclusiveVectors
<1> QED  BY <1>1, HandoffCorrect, PTL

\* The send thread never sleeps on a response it was told about.
THEOREM WakeupsReachTheThread == Spec => []NoLostWakeup
<1>1. HandoffInv => NoLostWakeup  BY DEF HandoffInv
<1> QED  BY <1>1, HandoffCorrect, PTL

\* With the lock free, hasNewResponse is set exactly when there is something to
\* send.
THEOREM FlagIsExact == Spec => []FlagTracksBox
<1>1. TypeOK /\ HandoffInv => FlagTracksBox
  <2> SUFFICES ASSUME TypeOK, HandoffInv, responseLocker = "free"
               PROVE  hasNewResponse <=> vec[producerResponses] /= <<>>
    BY DEF FlagTracksBox
  <2>1. spc /= "reset"  BY DEF HandoffInv, LockInv
  <2>2. \A s \in Sender : pc[s] /= "flag"
    BY SenderNames DEF HandoffInv, LockInv
  <2> QED  BY <2>1, <2>2 DEF HandoffInv, FlagInv
<1> QED  BY <1>1, HandoffCorrect, PTL

-----------------------------------------------------------------------------
LEMMA InitRefines == Init => MB!Init
  BY DEF Init, MB!Init, box, batch, pos

\* The push is Post, the swap is Collect, the end of a response is Consume,
\* clear is Retire; every other step leaves the abstract mailbox alone.
LEMMA StepRefines ==
  ASSUME TypeOK, HandoffInv, [Next]_vars
  PROVE  [MB!Next]_(MB!vars)
<1> USE DEF TypeOK, box, batch, pos, MB!vars
<1>1. ASSUME NEW s \in Sender, NEW r \in Response, SendBegin(s, r)
      PROVE  UNCHANGED MB!vars
  BY <1>1 DEF SendBegin, pointers, threadVars, history
<1>2. ASSUME NEW s \in Sender, SendLock(s)  PROVE UNCHANGED MB!vars
  BY <1>2 DEF SendLock, pointers, threadVars, history
<1>3. ASSUME NEW s \in Sender, SendLoad(s)  PROVE UNCHANGED MB!vars
  BY <1>3 DEF SendLoad, pointers, threadVars, history
<1>4. ASSUME NEW s \in Sender, SendAppend(s)  PROVE MB!Next
  <2>1. /\ target[s] = producerResponses
        /\ resp[s] \in Response
        /\ spc \in {"reset", "unlock", "loop"} =>
             consumerResponses /= producerResponses
    BY <1>4 DEF SendAppend, HandoffInv, PointerInv
  <2>2. box' = Append(box, resp[s]) /\ posted' = Append(posted, resp[s])
    BY <1>4, <2>1 DEF SendAppend, pointers
  <2>3. UNCHANGED <<batch, pos, transmitted>>
    BY <1>4, <2>1 DEF SendAppend, pointers, threadVars
  <2>4. MB!Post(resp[s])  BY <2>2, <2>3 DEF MB!Post
  <2> QED  BY <2>1, <2>4 DEF MB!Next
<1>5. ASSUME NEW s \in Sender, SendFlag(s)  PROVE UNCHANGED MB!vars
  BY <1>5 DEF SendFlag, pointers, threadVars, history
<1>6. ASSUME NEW s \in Sender, SendNotify(s)  PROVE UNCHANGED MB!vars
  BY <1>6 DEF SendNotify, pointers, history
<1>7. ASSUME NEW s \in Sender, SendUnlock(s)  PROVE UNCHANGED MB!vars
  BY <1>7 DEF SendUnlock, pointers, threadVars, history
<1>8. CASE Snapshot
  BY <1>8 DEF Snapshot, senderVars, history
<1>9. CASE Lock
  BY <1>9 DEF Lock, pointers, senderVars, history
<1>10. CASE Wait
  BY <1>10 DEF Wait, pointers, senderVars, history
<1>11. CASE Swap
  <2>1. /\ consumerResponses = producerResponses /\ vec[temp] = <<>>
        /\ producerResponses' = temp /\ spc = "check" /\ spc' = "reset"
        /\ UNCHANGED <<vec, consumerResponses, posted, transmitted>>
    BY <1>11 DEF Swap, HandoffInv, PointerInv, history
  <2>2. batch = <<>> /\ batch' = box /\ box' = <<>>  BY <2>1
  <2>3. UNCHANGED <<pos, posted, transmitted>>  BY <2>1
  <2>4. MB!Collect  BY <2>2, <2>3 DEF MB!Collect
  <2> QED  BY <2>4 DEF MB!Next
<1>12. CASE Reset
  BY <1>12 DEF Reset, pointers, senderVars, history
<1>13. CASE Unlock
  BY <1>13 DEF Unlock, pointers, senderVars, history
<1>14. CASE Transmit
  BY <1>14 DEF Transmit, pointers, senderVars
<1>15. CASE NextResponse
  <2>1. MB!Consume
    BY <1>15 DEF NextResponse, MB!Consume, pointers, current
  <2> QED  BY <2>1 DEF MB!Next
<1>16. CASE Clear
  <2>1. consumerResponses /= producerResponses
    BY <1>16 DEF Clear, HandoffInv, PointerInv
  <2>2. MB!Retire
    BY <1>16, <2>1 DEF Clear, MB!Retire, pointers, history
  <2> QED  BY <2>2 DEF MB!Next
<1>17. CASE SpuriousWakeup
  BY <1>17 DEF SpuriousWakeup, pointers, senderVars, history
<1>18. CASE UNCHANGED vars
  BY <1>18 DEF vars, pointers, senderVars, threadVars, history
<1> QED
  BY <1>1, <1>2, <1>3, <1>4, <1>5, <1>6, <1>7, <1>8, <1>9, <1>10, <1>11,
     <1>12, <1>13, <1>14, <1>15, <1>16, <1>17, <1>18, SendCases
  DEF SendResponses

\* Send and SendResponses implement the abstract mailbox.
THEOREM HandoffRefines == Spec => ImplementsMailbox
<1>1. Init => MB!Init  BY InitRefines
<1>2. TypeOK /\ HandoffInv /\ [Next]_vars => [MB!Next]_(MB!vars)
  BY StepRefines
<1> QED
  BY <1>1, <1>2, HandoffCorrect, PTL DEF Spec, ImplementsMailbox, MB!Spec

(***************************************************************************)
(* The order of the responses, as one equation: what the send thread is    *)
(* done with, what is left of its batch and what is in the box are the     *)
(* responses in the order they were pushed.                                *)
(***************************************************************************)
InBatch == spc = "loop" => it <= Len(vec[consumerResponses])

InOrder == posted = Queue(transmitted, batch, pos + 1, box)

LEMMA QueueTypes ==
  ASSUME TypeOK, InBatch
  PROVE  /\ box \in Seq(Response) /\ batch \in Seq(Response)
         /\ pos \in Nat /\ pos <= Len(batch) /\ pos + 1 \in Nat \ {0}
         /\ posted \in Seq(Response) /\ transmitted \in Seq(Response)
  BY DEF TypeOK, InBatch, box, batch, pos

\* Each step of the abstract mailbox moves a response, or a part of the queue.
LEMMA StepOrder ==
  ASSUME TypeOK, HandoffInv, InBatch, InOrder, [Next]_vars
  PROVE  InOrder'
<1> DEFINE m == pos + 1
<1>0. /\ box \in Seq(Response) /\ batch \in Seq(Response)
      /\ transmitted \in Seq(Response) /\ m \in Nat \ {0}
  BY QueueTypes
<1>i. posted = Queue(transmitted, batch, m, box)
  BY DEF InOrder
<1> HIDE DEF m
<1>1. ASSUME NEW r \in Response, MB!Post(r)  PROVE InOrder'
  <2>1. /\ box' = Append(box, r) /\ posted' = Append(posted, r)
        /\ UNCHANGED <<batch, m, transmitted>>
    BY <1>1 DEF MB!Post, m
  <2>2. Queue(transmitted, batch, m, Append(box, r))
          = Append(Queue(transmitted, batch, m, box), r)
    BY ONLY <1>0, r \in Response, QueuePost
  <2> QED BY <1>i, <2>1, <2>2 DEF InOrder, m
<1>2. CASE MB!Collect
  <2>1. /\ batch = <<>> /\ batch' = box /\ box' = <<>>
        /\ UNCHANGED <<pos, posted, transmitted>>
    BY <1>2 DEF MB!Collect
  <2>2. m = 1 /\ pos' + 1 = 1
    <3>1. pos = 0
      BY <2>1, QueueTypes
    <3> QED BY <2>1, <3>1 DEF m
  <2>3. Queue(transmitted, <<>>, 1, box) = Queue(transmitted, box, 1, <<>>)
    BY ONLY <1>0, QueueCollect
  <2> QED BY <1>i, <2>1, <2>2, <2>3 DEF InOrder
<1>3. CASE MB!Consume
  <2>1. /\ pos' + 1 = m + 1 /\ transmitted' = Append(transmitted, batch[m])
        /\ UNCHANGED <<box, batch, posted>>
    BY <1>3 DEF MB!Consume, m
  <2>2. m \in 1 .. Len(batch)
    BY <1>3, QueueTypes DEF MB!Consume, m
  <2>3. Queue(transmitted, batch, m, box)
          = Queue(Append(transmitted, batch[m]), batch, m + 1, box)
    BY ONLY <1>0, <2>2, QueueConsume
  <2> QED BY <1>i, <2>1, <2>3 DEF InOrder
<1>4. CASE MB!Retire
  <2>1. /\ m = Len(batch) + 1 /\ batch' = <<>> /\ pos' + 1 = 1
        /\ UNCHANGED <<box, posted, transmitted>>
    BY <1>4 DEF MB!Retire, m
  <2>2. Queue(transmitted, batch, Len(batch) + 1, box)
          = Queue(transmitted, <<>>, 1, box)
    BY ONLY <1>0, QueueRetire
  <2> QED BY <1>i, <2>1, <2>2 DEF InOrder
<1>5. CASE UNCHANGED MB!vars
  BY <1>5 DEF InOrder, MB!vars
<1>6. [MB!Next]_(MB!vars)
  BY StepRefines
<1> QED BY <1>1, <1>2, <1>3, <1>4, <1>5, <1>6 DEF MB!Next

LEMMA StepInBatch ==
  ASSUME TypeOK, HandoffInv, InBatch, [Next]_vars
  PROVE  InBatch'
<1> USE DEF TypeOK, InBatch
<1>1. CASE SendResponses
  <2>1. CASE Snapshot \/ Lock \/ Wait \/ Swap \/ Reset \/ Clear
    <3>1. spc' /= "loop"
      BY <2>1 DEF Snapshot, Lock, Wait, Swap, Reset, Clear
    <3> QED BY <3>1
  <2>2. CASE Unlock
    <3>1. it' = 0 /\ vec[consumerResponses]' \in Seq(Response)
      BY <2>2 DEF Unlock, pointers
    <3> QED BY <3>1
  <2>3. CASE Transmit
    <3>1. UNCHANGED <<consumerResponses, vec, it>> /\ spc = "loop"
      BY <2>3, Zenon DEF Transmit, pointers
    <3> QED BY <3>1
  <2>4. CASE NextResponse
    <3>1. /\ UNCHANGED <<consumerResponses, vec>> /\ spc = "loop"
          /\ it < Len(vec[consumerResponses]) /\ it' = it + 1
      BY <2>4, Zenon DEF NextResponse, pointers
    <3>2. Len(vec[consumerResponses]) \in Nat /\ it \in Nat
      OBVIOUS
    <3> HIDE DEF TypeOK
    <3> QED BY <3>1, <3>2
  <2> QED BY <1>1, <2>1, <2>2, <2>3, <2>4 DEF SendResponses
<1>2. ASSUME NEW s \in Sender, SendAppend(s)  PROVE InBatch'
  <2>1. /\ UNCHANGED <<consumerResponses, spc, it>>
        /\ spc = "loop" => vec'[consumerResponses] = vec[consumerResponses]
    BY <1>2 DEF SendAppend, pointers, threadVars, HandoffInv, PointerInv
  <2> QED BY <2>1
<1>3. ASSUME NEW s \in Sender, NEW r \in Response, SendBegin(s, r)
      PROVE  InBatch'
  BY <1>3 DEF SendBegin, pointers, threadVars
<1>4. ASSUME NEW s \in Sender,
             SendLock(s) \/ SendLoad(s) \/ SendFlag(s) \/ SendUnlock(s)
      PROVE  InBatch'
  BY <1>4 DEF SendLock, SendLoad, SendFlag, SendUnlock, pointers, threadVars
<1>5. ASSUME NEW s \in Sender, SendNotify(s)  PROVE InBatch'
  BY <1>5 DEF SendNotify, pointers
<1>6. CASE SpuriousWakeup
  BY <1>6 DEF SpuriousWakeup, pointers
<1>7. CASE UNCHANGED vars
  BY <1>7 DEF vars, pointers, threadVars
<1> HIDE DEF TypeOK, InBatch
<1> QED
  BY <1>1, <1>2, <1>3, <1>4, <1>5, <1>6, <1>7, SendCases

(***************************************************************************)
(* What was written to the sockets: everything for the responses the send  *)
(* thread is done with, and n connections of the one it is at.             *)
(***************************************************************************)
Writes(q) == [k \in 1 .. Len(q) |-> Deliveries(q[k])]

Sent(q, r, n) == FlattenSeq(Writes(q)) \o SubSeq(Deliveries(r), 1, n)

Write == Response \X Conn

LEMMA DeliveriesType ==
  ASSUME NEW r \in Response
  PROVE  /\ Deliveries(r) \in Seq(Write)
         /\ Len(Deliveries(r)) = Len(ConnIds[r])
         /\ \A k \in 1 .. Len(ConnIds[r]) :
              Deliveries(r)[k] = <<r, ConnIds[r][k]>>
<1>1. ConnIds[r] \in Seq(Conn)
  OBVIOUS
<1>2. \A k \in 1 .. Len(ConnIds[r]) : <<r, ConnIds[r][k]>> \in Write
  BY <1>1 DEF Write
<1>3. Len(ConnIds[r]) \in Nat
  BY <1>1
<1> QED BY <1>2, <1>3 DEF Deliveries

LEMMA WritesType ==
  ASSUME NEW q \in Seq(Response)
  PROVE  Writes(q) \in Seq(Seq(Write)) /\ Len(Writes(q)) = Len(q)
<1>1. \A k \in 1 .. Len(q) : Deliveries(q[k]) \in Seq(Write)
  BY DeliveriesType
<1>2. Len(q) \in Nat
  OBVIOUS
<1> QED BY <1>1, <1>2 DEF Writes

LEMMA WritesAppend ==
  ASSUME NEW q \in Seq(Response), NEW r \in Response
  PROVE  Writes(Append(q, r)) = Append(Writes(q), Deliveries(r))
<1> DEFINE p == Append(q, r)
<1>1. /\ p \in Seq(Response) /\ Len(p) = Len(q) + 1 /\ p[Len(q) + 1] = r
      /\ \A k \in 1 .. Len(q) : p[k] = q[k]
      /\ Len(q) \in Nat
  OBVIOUS
<1> HIDE DEF p
<1>2. Writes(q) \in Seq(Seq(Write)) /\ Deliveries(r) \in Seq(Write)
  BY WritesType, DeliveriesType
<1>3. /\ Len(Writes(q)) = Len(q) /\ Writes(p) \in Seq(Seq(Write))
      /\ Len(Writes(p)) = Len(q) + 1
  BY <1>1, WritesType
<1> DEFINE u == Append(Writes(q), Deliveries(r))
<1>4. /\ u \in Seq(Seq(Write)) /\ Len(u) = Len(q) + 1
      /\ u[Len(q) + 1] = Deliveries(r)
      /\ \A k \in 1 .. Len(q) : u[k] = Writes(q)[k]
  BY <1>2, <1>3
<1> HIDE DEF u
<1>5. ASSUME NEW k \in 1 .. Len(q) + 1
      PROVE  u[k] = Writes(p)[k]
  <2>1. Writes(p)[k] = Deliveries(p[k])
    BY <1>1 DEF Writes
  <2>2. CASE k \in 1 .. Len(q)
    <3>1. Writes(q)[k] = Deliveries(q[k])
      BY <2>2 DEF Writes
    <3> QED BY <1>1, <1>4, <2>1, <2>2, <3>1
  <2>3. CASE k = Len(q) + 1
    BY <1>1, <1>4, <2>1, <2>3
  <2> QED BY <1>1, <2>2, <2>3
<1>6. u = Writes(p)
  BY <1>3, <1>4, <1>5, SeqEqual
<1> QED BY <1>6 DEF u, p

LEMMA SentType ==
  ASSUME NEW q \in Seq(Response)
  PROVE  FlattenSeq(Writes(q)) \in Seq(Write)
<1>1. Writes(q) \in Seq(Seq(Write))
  BY WritesType
<1> QED BY ONLY <1>1, FlattenType

LEMMA SentNothing ==
  ASSUME NEW q \in Seq(Response), NEW r
  PROVE  Sent(q, r, 0) = FlattenSeq(Writes(q))
<1>1. SubSeq(Deliveries(r), 1, 0) = <<>>
  BY SubSeqEmpty
<1> DEFINE f == FlattenSeq(Writes(q))
<1>2. f \in Seq(Write)
  BY SentType
<1> HIDE DEF f
<1>3. f \o <<>> = f
  BY ONLY <1>2, ConcatEmptySeq
<1> QED BY <1>1, <1>3 DEF Sent, f

LEMMA SentOne ==
  ASSUME NEW q \in Seq(Response), NEW r \in Response, NEW n \in Nat,
         n < Len(ConnIds[r])
  PROVE  Sent(q, r, n + 1) = Append(Sent(q, r, n), <<r, ConnIds[r][n + 1]>>)
<1> DEFINE d == Deliveries(r)
           f == FlattenSeq(Writes(q))
           x == <<r, ConnIds[r][n + 1]>>
<1>1. /\ d \in Seq(Write) /\ n + 1 \in 1 .. Len(d) /\ d[n + 1] = x
  <2>1. Len(ConnIds[r]) \in Nat
    OBVIOUS
  <2> QED BY <2>1, DeliveriesType
<1>2. f \in Seq(Write)
  BY SentType
<1> HIDE DEF d, f, x
<1>3. SubSeq(d, 1, n + 1) = Append(SubSeq(d, 1, n), x)
  BY <1>1
<1> DEFINE s == SubSeq(d, 1, n)
<1>4. s \in Seq(Write) /\ x \in Write
  BY <1>1
<1> HIDE DEF s
<1>5. f \o Append(s, x) = Append(f \o s, x)
  BY ONLY <1>2, <1>4, AppendAssociative
<1> QED BY <1>3, <1>5 DEF Sent, d, f, x, s

LEMMA SentAll ==
  ASSUME NEW q \in Seq(Response), NEW r \in Response
  PROVE  Sent(q, r, Len(ConnIds[r])) = FlattenSeq(Writes(Append(q, r)))
<1> DEFINE d == Deliveries(r)
           w == Writes(q)
<1>1. d \in Seq(Write) /\ Len(d) = Len(ConnIds[r]) /\ w \in Seq(Seq(Write))
  BY DeliveriesType, WritesType
<1>2. Writes(Append(q, r)) = Append(w, d)
  BY WritesAppend
<1> HIDE DEF d, w
<1>3. FlattenSeq(Append(w, d)) = FlattenSeq(w) \o d
  BY ONLY <1>1, FlattenAppend
<1>4. SubSeq(d, 1, Len(d)) = d
  BY ONLY <1>1, SubSeqFull
<1> QED BY <1>1, <1>2, <1>3, <1>4 DEF Sent, d, w

\* Agreement up to the end of the shorter one is IsPrefix.
LEMMA PrefixIntro ==
  ASSUME NEW T, NEW s \in Seq(T), NEW t \in Seq(T), Len(s) <= Len(t),
         \A k \in 1 .. Len(s) : s[k] = t[k]
  PROVE  IsPrefix(s, t)
<1> DEFINE a == SubSeq(s, 1, Len(s))
           b == SubSeq(t, 1, Len(s))
<1>1. /\ a \in Seq(T) /\ Len(a) = Len(s)
      /\ \A k \in 1 .. Len(s) : a[k] = s[k]
  OBVIOUS
<1>2. /\ b \in Seq(T) /\ Len(b) = Len(s)
      /\ \A k \in 1 .. Len(s) : b[k] = t[k]
  OBVIOUS
<1> HIDE DEF a, b
<1>3. Len(a) = Len(b) /\ \A k \in 1 .. Len(a) : a[k] = b[k]
  BY <1>1, <1>2
<1>4. a = b
  BY <1>1, <1>2, <1>3, SeqEqual
<1> QED BY <1>4 DEF IsPrefix, a, b

LEMMA DonePrefix ==
  ASSUME NEW q \in Seq(Response), NEW p \in Seq(Response),
         Len(q) <= Len(p), \A k \in 1 .. Len(q) : q[k] = p[k]
  PROVE  /\ Len(FlattenSeq(Writes(q))) <= Len(FlattenSeq(Writes(p)))
         /\ \A k \in 1 .. Len(FlattenSeq(Writes(q))) :
              FlattenSeq(Writes(q))[k] = FlattenSeq(Writes(p))[k]
<1> DEFINE s == Writes(q)
           t == Writes(p)
<1>1. /\ s \in Seq(Seq(Write)) /\ t \in Seq(Seq(Write))
      /\ Len(s) = Len(q) /\ Len(t) = Len(p)
  BY WritesType
<1>2. Len(s) <= Len(t)
  BY <1>1
<1>3. \A k \in 1 .. Len(s) : s[k] = t[k]
  <2> TAKE k \in 1 .. Len(s)
  <2>1. k \in 1 .. Len(q) /\ k \in 1 .. Len(p)
    BY <1>1
  <2>2. s[k] = Deliveries(q[k]) /\ t[k] = Deliveries(p[k])
    BY <2>1 DEF Writes
  <2> QED BY <2>1, <2>2
<1> HIDE DEF s, t
<1>4. /\ Len(FlattenSeq(s)) <= Len(FlattenSeq(t))
      /\ \A k \in 1 .. Len(FlattenSeq(s)) : FlattenSeq(s)[k] = FlattenSeq(t)[k]
  BY ONLY <1>1, <1>2, <1>3, FlattenPrefix
<1> QED BY <1>4 DEF s, t

LEMMA SentPrefix ==
  ASSUME NEW q \in Seq(Response), NEW p \in Seq(Response),
         Len(q) + 1 <= Len(p), \A k \in 1 .. Len(q) : q[k] = p[k],
         NEW n \in 0 .. Len(ConnIds[p[Len(q) + 1]])
  PROVE  IsPrefix(Sent(q, p[Len(q) + 1], n), FlattenSeq(Writes(p)))
<1> DEFINE r == p[Len(q) + 1]
           one == Append(q, r)
           f == FlattenSeq(Writes(q))
           d == Deliveries(r)
           whole == FlattenSeq(Writes(p))
<1>1. /\ r \in Response /\ one \in Seq(Response) /\ Len(one) <= Len(p)
      /\ \A k \in 1 .. Len(one) : one[k] = p[k]
  OBVIOUS
<1>2. /\ f \in Seq(Write) /\ d \in Seq(Write) /\ n \in 0 .. Len(d)
      /\ whole \in Seq(Write)
  BY <1>1, SentType, DeliveriesType
<1>3. Sent(q, r, Len(ConnIds[r])) = FlattenSeq(Writes(one))
  BY <1>1, SentAll
<1>4. Len(ConnIds[r]) = Len(d) /\ SubSeq(d, 1, Len(d)) = d
  BY <1>1, <1>2, DeliveriesType, SubSeqFull
<1>5. FlattenSeq(Writes(one)) = f \o d
  BY <1>3, <1>4 DEF Sent
<1>6. /\ Len(f \o d) <= Len(whole)
      /\ \A k \in 1 .. Len(f \o d) : (f \o d)[k] = whole[k]
  <2> HIDE DEF one, f, d, whole
  <2> DEFINE g == FlattenSeq(Writes(one))
  <2>1. Len(g) <= Len(whole) /\ \A k \in 1 .. Len(g) : g[k] = whole[k]
    BY <1>1, DonePrefix DEF whole
  <2>2. g = f \o d
    BY <1>5
  <2> HIDE DEF g
  <2> QED BY ONLY <2>1, <2>2
<1> DEFINE s == SubSeq(d, 1, n)
<1>7. Sent(q, r, n) = f \o s
  BY DEF Sent
<1> HIDE DEF f, d, whole, r, one
<1>8. /\ s \in Seq(Write) /\ Len(s) = n /\ \A k \in 1 .. n : s[k] = d[k]
  BY <1>2
<1> HIDE DEF s
<1>9. /\ f \o s \in Seq(Write) /\ Len(f \o s) = Len(f) + Len(s)
      /\ \A k \in 1 .. Len(f) + Len(s) :
           (f \o s)[k] = IF k <= Len(f) THEN f[k] ELSE s[k - Len(f)]
  BY ONLY <1>2, <1>8, ConcatProperties
<1>10. /\ Len(f \o d) = Len(f) + Len(d)
       /\ \A k \in 1 .. Len(f) + Len(d) :
            (f \o d)[k] = IF k <= Len(f) THEN f[k] ELSE d[k - Len(f)]
  BY ONLY <1>2, ConcatProperties
<1>11. Len(f) \in Nat /\ Len(d) \in Nat /\ n \in Nat /\ n <= Len(d)
  BY <1>2
<1>12. Len(f \o s) <= Len(whole)
  <2>1. Len(whole) \in Nat
    BY <1>2
  <2> QED BY <1>6, <1>8, <1>9, <1>10, <1>11, <2>1
<1>13. ASSUME NEW k \in 1 .. Len(f \o s)
       PROVE  (f \o s)[k] = whole[k]
  <2>1. k \in 1 .. Len(f) + Len(s) /\ k \in 1 .. Len(f) + Len(d)
    BY <1>8, <1>9, <1>11
  <2>2. (f \o s)[k] = (f \o d)[k]
    <3>1. CASE k <= Len(f)
      BY <1>9, <1>10, <2>1, <3>1
    <3>2. CASE ~(k <= Len(f))
      <4>1. k - Len(f) \in 1 .. n
        BY <1>8, <1>11, <2>1, <3>2
      <4> QED BY <1>8, <1>9, <1>10, <2>1, <3>2, <4>1
    <3> QED BY <3>1, <3>2
  <2>3. k \in 1 .. Len(f \o d)
    BY <1>10, <2>1
  <2> QED BY <1>6, <2>2, <2>3
<1>14. IsPrefix(f \o s, whole)
  <2> DEFINE g == f \o s
  <2>1. /\ g \in Seq(Write) /\ Len(g) <= Len(whole)
        /\ \A k \in 1 .. Len(g) : g[k] = whole[k]
    BY <1>9, <1>12, <1>13
  <2> HIDE DEF g
  <2>2. IsPrefix(g, whole)
    BY ONLY <1>2, <2>1, PrefixIntro
  <2> QED BY <2>2 DEF g
<1> QED BY <1>7, <1>14 DEF r, whole

(***************************************************************************)
(* The inductive invariant of the writes.                                  *)
(***************************************************************************)
AtResponse == spc = "loop" /\ it < Len(vec[consumerResponses])

AttemptInv ==
  /\ AtResponse => conn <= Len(ConnIds[current])
  /\ spc = "loop" /\ ~AtResponse => conn = 0
  /\ attempts = IF AtResponse THEN Sent(transmitted, current, conn)
                              ELSE FlattenSeq(Writes(transmitted))

LEMMA CurrentType ==
  ASSUME TypeOK, AtResponse
  PROVE  /\ current \in Response /\ conn \in Nat
         /\ ConnIds[current] \in Seq(Conn) /\ Len(ConnIds[current]) \in Nat
<1>1. current \in Response /\ conn \in Nat
  BY DEF TypeOK, AtResponse, current
<1> HIDE DEF current
<1>2. ConnIds[current] \in Seq(Conn)
  BY <1>1
<1> QED BY <1>1, <1>2

LEMMA NextCurrentType ==
  ASSUME TypeOK', AtResponse'
  PROVE  Len(ConnIds[current']) \in Nat
<1>1. current' \in Response
  BY DEF TypeOK, AtResponse, current
<1> DEFINE r == current'
<1>2. r \in Response
  BY <1>1
<1> HIDE DEF r
<1>3. ConnIds[r] \in Seq(Conn)
  BY <1>2
<1>4. Len(ConnIds[r]) \in Nat
  BY <1>3
<1> QED BY <1>4 DEF r

LEMMA StepAttempts ==
  ASSUME TypeOK, HandoffInv, InBatch, AttemptInv, [Next]_vars
  PROVE  AttemptInv'
<1>0. transmitted \in Seq(Response) /\ conn \in Nat /\ it \in Nat
  BY DEF TypeOK
\* A step that changes nothing the invariant speaks of.
<1>a. ASSUME UNCHANGED <<spc, it, conn, transmitted, attempts>>,
             spc = "loop" => vec'[consumerResponses'] = vec[consumerResponses]
      PROVE  AttemptInv'
  BY <1>a DEF AttemptInv, AtResponse, current
\* One that is outside the loop before and after.
<1>b. ASSUME spc /= "loop", spc' /= "loop", UNCHANGED <<transmitted, attempts>>
      PROVE  AttemptInv'
  BY <1>b DEF AttemptInv, AtResponse
<1>1. ASSUME NEW s \in Sender, NEW r \in Response, SendBegin(s, r)
      PROVE  AttemptInv'
  BY <1>1, <1>a DEF SendBegin, pointers, threadVars, history
<1>2. ASSUME NEW s \in Sender,
             SendLock(s) \/ SendLoad(s) \/ SendFlag(s) \/ SendUnlock(s)
      PROVE  AttemptInv'
  BY <1>2, <1>a DEF SendLock, SendLoad, SendFlag, SendUnlock, pointers,
                    threadVars, history
<1>3. ASSUME NEW s \in Sender, SendAppend(s)  PROVE AttemptInv'
  <2>1. spc = "loop" => vec'[consumerResponses'] = vec[consumerResponses]
    BY <1>3 DEF SendAppend, pointers, TypeOK, HandoffInv, PointerInv
  <2> QED BY <1>3, <2>1, <1>a DEF SendAppend, threadVars
<1>4. ASSUME NEW s \in Sender, SendNotify(s)  PROVE AttemptInv'
  <2>1. CASE spc = "asleep"
    BY <1>4, <2>1, <1>b DEF SendNotify, history
  <2>2. CASE spc /= "asleep"
    BY <1>4, <2>2, <1>a DEF SendNotify, history, pointers
  <2> QED BY <2>1, <2>2
<1>5. CASE Snapshot \/ Lock \/ Wait \/ Swap \/ Reset \/ SpuriousWakeup
  BY <1>5, <1>b DEF Snapshot, Lock, Wait, Swap, Reset, SpuriousWakeup, history
<1>6. CASE Unlock
  <2>1. /\ spc = "unlock" /\ spc' = "loop" /\ conn' = 0
        /\ UNCHANGED <<transmitted, attempts>>
    BY <1>6 DEF Unlock, history
  <2>2. attempts' = FlattenSeq(Writes(transmitted'))
    BY <2>1 DEF AttemptInv, AtResponse
  <2>3. Sent(transmitted', current', conn') = FlattenSeq(Writes(transmitted'))
    BY <1>0, <2>1, SentNothing
  <2>4. AtResponse' => conn' <= Len(ConnIds[current'])
    <3> SUFFICES ASSUME AtResponse'  PROVE conn' <= Len(ConnIds[current'])
      OBVIOUS
    <3>1. TypeOK'
      BY StepType
    <3>2. Len(ConnIds[current']) \in Nat
      BY <3>1, NextCurrentType
    <3> QED BY <2>1, <3>2
  <2> QED BY <2>1, <2>2, <2>3, <2>4 DEF AttemptInv
<1>7. CASE Transmit
  <2>1. /\ AtResponse /\ conn < Len(ConnIds[current])
        /\ attempts' = Append(attempts, <<current, ConnIds[current][conn + 1]>>)
        /\ conn' = conn + 1 /\ current' = current /\ AtResponse'
        /\ transmitted' = transmitted
    BY <1>7 DEF Transmit, AtResponse, current, pointers
  <2>2. current \in Response /\ conn \in Nat /\ Len(ConnIds[current]) \in Nat
    BY <2>1, CurrentType
  <2>3. Sent(transmitted, current, conn + 1)
          = Append(Sent(transmitted, current, conn),
                   <<current, ConnIds[current][conn + 1]>>)
    <3>1. conn < Len(ConnIds[current])
      BY <2>1
    <3> HIDE DEF current
    <3> QED BY ONLY <1>0, <2>2, <3>1, SentOne
  <2>4. conn' <= Len(ConnIds[current'])
    BY <2>1, <2>2
  <2> QED BY <2>1, <2>3, <2>4 DEF AttemptInv
<1>8. CASE NextResponse
  <2>1. /\ AtResponse /\ conn = Len(ConnIds[current])
        /\ conn' = 0 /\ attempts' = attempts
        /\ transmitted' = Append(transmitted, current)
    BY <1>8 DEF NextResponse, AtResponse
  <2>2. current \in Response
    BY <2>1, CurrentType
  <2>3. attempts' = FlattenSeq(Writes(transmitted'))
    BY <1>0, <2>1, <2>2, SentAll DEF AttemptInv
  <2>4. TypeOK'
    BY StepType
  <2>5. Sent(transmitted', current', conn') = FlattenSeq(Writes(transmitted'))
    <3>1. transmitted' \in Seq(Response)
      BY <2>4 DEF TypeOK
    <3> QED BY <2>1, <3>1, SentNothing
  <2>6. AtResponse' => Len(ConnIds[current']) \in Nat
    BY <2>4, NextCurrentType
  <2> QED BY <2>1, <2>3, <2>5, <2>6 DEF AttemptInv
<1>9. CASE Clear
  <2>1. /\ ~AtResponse /\ spc' /= "loop" /\ UNCHANGED <<transmitted, attempts>>
    BY <1>9 DEF Clear, AtResponse, history, TypeOK
  <2> QED BY <2>1 DEF AttemptInv, AtResponse
<1>10. CASE UNCHANGED vars
  BY <1>10, <1>a DEF vars, pointers, threadVars, history
<1> QED
  BY <1>1, <1>2, <1>3, <1>4, <1>5, <1>6, <1>7, <1>8, <1>9, <1>10, SendCases
  DEF SendResponses

\* The responses pushed, read as a queue: those done come first, and the one
\* the send thread is at comes next.
LEMMA QueueGivesOrder ==
  ASSUME TypeOK, InBatch, InOrder
  PROVE  /\ Len(transmitted) <= Len(posted)
         /\ \A k \in 1 .. Len(transmitted) : transmitted[k] = posted[k]
         /\ AtResponse => /\ Len(transmitted) + 1 <= Len(posted)
                          /\ posted[Len(transmitted) + 1] = current
<1> DEFINE m == pos + 1
<1>1. /\ box \in Seq(Response) /\ batch \in Seq(Response)
      /\ transmitted \in Seq(Response) /\ m \in Nat \ {0}
  BY QueueTypes
<1>2. AtResponse => m <= Len(batch) /\ batch[m] = current
  BY DEF AtResponse, batch, pos, current, TypeOK
<1>3. posted = Queue(transmitted, batch, m, box)
  BY DEF InOrder
<1> HIDE DEF m
<1>4. /\ Len(transmitted) <= Len(Queue(transmitted, batch, m, box))
      /\ \A k \in 1 .. Len(transmitted) :
           Queue(transmitted, batch, m, box)[k] = transmitted[k]
      /\ m <= Len(batch) =>
           /\ Len(transmitted) + 1 <= Len(Queue(transmitted, batch, m, box))
           /\ Queue(transmitted, batch, m, box)[Len(transmitted) + 1] = batch[m]
  BY ONLY <1>1, QueueReads
<1> QED BY <1>2, <1>3, <1>4

\* The sockets are written to in the order the responses were pushed, each
\* response to its connections in their order, for any number of threads,
\* responses and connections (TcpListener_Unix.cpp:320-351).
THEOREM WritesInOrder == Spec => []TransmittedInOrder
<1>1. Init => InBatch /\ InOrder /\ AttemptInv
  <2> SUFFICES ASSUME Init  PROVE InBatch /\ InOrder /\ AttemptInv
    OBVIOUS
  <2>1. InBatch /\ ~AtResponse /\ spc /= "loop"
    BY DEF Init, InBatch, AtResponse
  <2>2. InOrder
    <3>1. /\ transmitted = <<>> /\ batch = <<>> /\ pos + 1 = 1 /\ box = <<>>
          /\ posted = <<>>
      BY DEF Init, batch, pos, box
    <3>2. Queue(<<>>, <<>>, 1, <<>>) = <<>>
      BY DEF Queue
    <3> QED BY <3>1, <3>2 DEF InOrder
  <2>3. attempts = FlattenSeq(Writes(transmitted))
    <3>1. Writes(<<>>) = <<>> /\ Len(<<>>) = 0
      BY DEF Writes
    <3> QED BY <3>1 DEF Init, FlattenSeq
  <2> QED BY <2>1, <2>2, <2>3 DEF AttemptInv
<1>2. TypeOK /\ HandoffInv /\ InBatch /\ InOrder /\ AttemptInv /\ [Next]_vars
        => (InBatch /\ InOrder /\ AttemptInv)'
  BY StepInBatch, StepOrder, StepAttempts
<1>3. TypeOK /\ InBatch /\ InOrder /\ AttemptInv => TransmittedInOrder
  <2> SUFFICES ASSUME TypeOK, InBatch, InOrder, AttemptInv
               PROVE  IsPrefix(attempts, FlattenSeq(Writes(posted)))
    BY DEF TransmittedInOrder, Writes
  <2>1. transmitted \in Seq(Response) /\ posted \in Seq(Response)
    BY DEF TypeOK
  <2>2. CASE AtResponse
    <3>1. current \in Response /\ conn \in 0 .. Len(ConnIds[current])
      BY <2>2, CurrentType DEF AttemptInv
    <3>2. attempts = Sent(transmitted, current, conn)
      BY <2>2 DEF AttemptInv
    <3>3. /\ Len(transmitted) + 1 <= Len(posted)
          /\ current = posted[Len(transmitted) + 1]
          /\ \A k \in 1 .. Len(transmitted) : transmitted[k] = posted[k]
      BY <2>2, QueueGivesOrder
    <3>4. IsPrefix(Sent(transmitted, posted[Len(transmitted) + 1], conn),
                   FlattenSeq(Writes(posted)))
      BY <2>1, <3>1, <3>3, SentPrefix
    <3> QED BY <3>2, <3>3, <3>4
  <2>3. CASE ~AtResponse
    <3>1. attempts = FlattenSeq(Writes(transmitted))
      BY <2>3 DEF AttemptInv
    <3> DEFINE s == FlattenSeq(Writes(transmitted))
               t == FlattenSeq(Writes(posted))
    <3>2. Len(s) <= Len(t) /\ \A k \in 1 .. Len(s) : s[k] = t[k]
      BY <2>1, QueueGivesOrder, DonePrefix
    <3>3. s \in Seq(Write) /\ t \in Seq(Write)
      BY <2>1, SentType
    <3> HIDE DEF s, t
    <3>4. IsPrefix(s, t)
      BY ONLY <3>2, <3>3, PrefixIntro
    <3> QED BY <3>1, <3>4 DEF s, t
  <2> QED BY <2>2, <2>3
<1> QED BY <1>1, <1>2, <1>3, HandoffCorrect, PTL DEF Spec
=============================================================================

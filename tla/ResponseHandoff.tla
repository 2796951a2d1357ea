--------------------------- MODULE ResponseHandoff ---------------------------
(***************************************************************************)
(* How responses reach the send thread of a TCP listener: the two response *)
(* vectors of SocketListenerBase, responseLocker, responseCv and           *)
(* hasNewResponse, TcpListener::Send and TcpListener::SendResponses.       *)
(*                                                                         *)
(* The vectors are swapped as in RequestHandoff, and the send thread also  *)
(* sleeps on the condition variable while hasNewResponse is false.         *)
(***************************************************************************)
EXTENDS Naturals, Sequences, SequencesExt

CONSTANTS
  Response,   \* the response objects the game may send
  Sender,     \* the threads that call Send
  Conn,       \* connections
  ConnIds,    \* resp.connIds of each response
  NoResponse  \* stands for "this thread is not in Send"

ASSUME ResponseAssumption ==
  /\ ConnIds \in [Response -> Seq(Conn)]
  /\ NoResponse \notin Response
  /\ Sender \intersect {"free", "send"} = {}

VARIABLES
  vec,                  \* the two vectors
  producerResponses,    \* which vector Send appends to
  consumerResponses,    \* which vector the send thread goes through
  responseLocker,       \* who holds the mutex
  hasNewResponse,
  pc, resp, target,     \* each sender: step, response in hand, vector loaded
  spc, temp, it, conn,  \* send thread: step, saved pointer, responses done,
                        \* connections of the present response done
  posted,               \* history: responses in the order they were pushed
  transmitted,          \* history: responses the send thread is done with
  attempts              \* history: each <<response, connection>> written to

senderVars == <<pc, resp, target>>
threadVars == <<spc, temp, it, conn>>
pointers   == <<producerResponses, consumerResponses>>
history    == <<posted, transmitted, attempts>>
vars == <<vec, pointers, responseLocker, hasNewResponse, senderVars,
          threadVars, history>>

Vector == {1, 2}

Init ==
  /\ vec = [v \in Vector |-> <<>>]
  /\ producerResponses = 1
  /\ consumerResponses = 2
  /\ responseLocker = "free"
  /\ hasNewResponse = FALSE
  /\ pc = [s \in Sender |-> "idle"]
  /\ resp = [s \in Sender |-> NoResponse]
  /\ target = [s \in Sender |-> 1]
  /\ spc = "idle" /\ temp = 2 /\ it = 0 /\ conn = 0
  /\ posted = <<>>
  /\ transmitted = <<>>
  /\ attempts = <<>>

-----------------------------------------------------------------------------
(* TcpListener::Send, called by thread s. Each response is sent once.      *)

SendBegin(s, r) ==
  /\ pc[s] = "idle"
  /\ r \notin ToSet(posted)
  /\ \A t \in Sender : resp[t] /= r
  /\ resp' = [resp EXCEPT ![s] = r]
  /\ pc' = [pc EXCEPT ![s] = "lock"]
  /\ UNCHANGED <<vec, pointers, responseLocker, hasNewResponse, target,
                 threadVars, history>>

\* Mutant: Send does not take the mutex.
SendUnlocked(s) ==
  /\ pc[s] = "lock"
  /\ pc' = [pc EXCEPT ![s] = "load"]
  /\ UNCHANGED <<vec, pointers, responseLocker, hasNewResponse, resp, target,
                 threadVars, history>>

SendLock(s) ==
  /\ pc[s] = "lock"
  /\ responseLocker = "free"
  /\ responseLocker' = s
  /\ pc' = [pc EXCEPT ![s] = "load"]
  /\ UNCHANGED <<vec, pointers, hasNewResponse, resp, target, threadVars,
                 history>>

SendLoad(s) ==
  /\ pc[s] = "load"
  /\ target' = [target EXCEPT ![s] = producerResponses]
  /\ pc' = [pc EXCEPT ![s] = "append"]
  /\ UNCHANGED <<vec, pointers, responseLocker, hasNewResponse, resp,
                 threadVars, history>>

SendAppend(s) ==
  /\ pc[s] = "append"
  /\ vec' = [vec EXCEPT ![target[s]] = Append(@, resp[s])]
  /\ posted' = Append(posted, resp[s])
  /\ pc' = [pc EXCEPT ![s] = "flag"]
  /\ UNCHANGED <<pointers, responseLocker, hasNewResponse, resp, target,
                 threadVars, transmitted, attempts>>

SendFlag(s) ==
  /\ pc[s] = "flag"
  /\ hasNewResponse' = TRUE
  /\ pc' = [pc EXCEPT ![s] = "notify"]
  /\ UNCHANGED <<vec, pointers, responseLocker, resp, target, threadVars,
                 history>>

\* Mutant: nobody is notified.
SendSilently(s) ==
  /\ pc[s] = "notify"
  /\ pc' = [pc EXCEPT ![s] = "unlock"]
  /\ UNCHANGED <<vec, pointers, responseLocker, hasNewResponse, resp, target,
                 threadVars, history>>

\* notify_one reaches the send thread only if it sleeps; it has to take the
\* lock again before it goes on.
SendNotify(s) ==
  /\ pc[s] = "notify"
  /\ spc' = IF spc = "asleep" THEN "woken" ELSE spc
  /\ pc' = [pc EXCEPT ![s] = "unlock"]
  /\ UNCHANGED <<vec, pointers, responseLocker, hasNewResponse, resp, target,
                 temp, it, conn, history>>

SendUnlock(s) ==
  /\ pc[s] = "unlock"
  /\ responseLocker' = "free"
  /\ resp' = [resp EXCEPT ![s] = NoResponse]
  /\ pc' = [pc EXCEPT ![s] = "idle"]
  /\ UNCHANGED <<vec, pointers, hasNewResponse, target, threadVars, history>>

-----------------------------------------------------------------------------
(* TcpListener::SendResponses, the loop of the send thread.                *)

\* Both assignments before the lock. Only this thread writes either pointer.
Snapshot ==
  /\ spc = "idle"
  /\ temp' = consumerResponses
  /\ consumerResponses' = producerResponses
  /\ spc' = "lock"
  /\ UNCHANGED <<vec, producerResponses, responseLocker, hasNewResponse,
                 senderVars, it, conn, history>>

\* uniqueLock.lock(), or the lock being taken again inside wait.
Lock ==
  /\ spc \in {"lock", "woken"}
  /\ responseLocker = "free"
  /\ responseLocker' = "send"
  /\ spc' = "check"
  /\ UNCHANGED <<vec, pointers, hasNewResponse, senderVars, temp, it, conn,
                 history>>

\* Mutant: wait is called without its predicate.
WaitUnconditionally ==
  /\ spc = "check"
  /\ responseLocker' = "free"
  /\ spc' = "asleep"
  /\ UNCHANGED <<vec, pointers, hasNewResponse, senderVars, temp, it, conn,
                 history>>

\* The predicate is false: release the lock and sleep, in one step.
Wait ==
  /\ spc = "check"
  /\ ~hasNewResponse
  /\ responseLocker' = "free"
  /\ spc' = "asleep"
  /\ UNCHANGED <<vec, pointers, hasNewResponse, senderVars, temp, it, conn,
                 history>>

SpuriousWakeup ==
  /\ spc = "asleep"
  /\ spc' = "woken"
  /\ UNCHANGED <<vec, pointers, responseLocker, hasNewResponse, senderVars,
                 temp, it, conn, history>>

Swap ==
  /\ spc = "check"
  /\ hasNewResponse
  /\ producerResponses' = temp
  /\ spc' = "reset"
  /\ UNCHANGED <<vec, consumerResponses, responseLocker, hasNewResponse,
                 senderVars, temp, it, conn, history>>

Reset ==
  /\ spc = "reset"
  /\ hasNewResponse' = FALSE
  /\ spc' = "unlock"
  /\ UNCHANGED <<vec, pointers, responseLocker, senderVars, temp, it, conn,
                 history>>

Unlock ==
  /\ spc = "unlock"
  /\ responseLocker' = "free"
  /\ it' = 0
  /\ conn' = 0
  /\ spc' = "loop"
  /\ UNCHANGED <<vec, pointers, hasNewResponse, senderVars, temp, history>>

current == vec[consumerResponses][it + 1]

\* One connection of the response that was packed. The socket does not block,
\* so the bytes leave or an error breaks the inner loop; either way the next
\* connection is served.
Transmit ==
  /\ spc = "loop"
  /\ it < Len(vec[consumerResponses])
  /\ conn < Len(ConnIds[current])
  /\ attempts' = Append(attempts, <<current, ConnIds[current][conn + 1]>>)
  /\ conn' = conn + 1
  /\ UNCHANGED <<vec, pointers, responseLocker, hasNewResponse, senderVars,
                 spc, temp, it, posted, transmitted>>

\* Mutant: the connection index survives into the next response.
NextKeepsConn ==
  /\ spc = "loop"
  /\ it < Len(vec[consumerResponses])
  /\ conn = Len(ConnIds[current])
  /\ it' = it + 1
  /\ transmitted' = Append(transmitted, current)
  /\ UNCHANGED <<vec, pointers, responseLocker, hasNewResponse, senderVars,
                 spc, temp, conn, posted, attempts>>

\* ++respIt. The response object is not deleted.
NextResponse ==
  /\ spc = "loop"
  /\ it < Len(vec[consumerResponses])
  /\ conn = Len(ConnIds[current])
  /\ it' = it + 1
  /\ conn' = 0
  /\ transmitted' = Append(transmitted, current)
  /\ UNCHANGED <<vec, pointers, responseLocker, hasNewResponse, senderVars,
                 spc, temp, posted, attempts>>

\* Mutant: the vector is not cleared.
Keep ==
  /\ spc = "loop"
  /\ it = Len(vec[consumerResponses])
  /\ spc' = "idle"
  /\ UNCHANGED <<vec, pointers, responseLocker, hasNewResponse, senderVars,
                 temp, it, conn, history>>

Clear ==
  /\ spc = "loop"
  /\ it = Len(vec[consumerResponses])
  /\ vec' = [vec EXCEPT ![consumerResponses] = <<>>]
  /\ spc' = "idle"
  /\ UNCHANGED <<pointers, responseLocker, hasNewResponse, senderVars, temp,
                 it, conn, history>>

-----------------------------------------------------------------------------
Send(s) == SendLock(s) \/ SendLoad(s) \/ SendAppend(s) \/ SendFlag(s)
             \/ SendNotify(s) \/ SendUnlock(s)

SendResponses ==
  \/ Snapshot \/ Lock \/ Wait \/ Swap \/ Reset \/ Unlock
  \/ Transmit \/ NextResponse \/ Clear

Next ==
  \/ \E s \in Sender, r \in Response : SendBegin(s, r)
  \/ \E s \in Sender : Send(s)
  \/ SendResponses
  \/ SpuriousWakeup

Spec == Init /\ [][Next]_vars

\* A thread inside Send and the send thread both go on when they can. Nobody
\* has to call Send, and no spurious wakeup has to come.
Fairness ==
  /\ \A s \in Sender : WF_vars(Send(s))
  /\ WF_vars(SendResponses)

FairSpec == Spec /\ Fairness

-----------------------------------------------------------------------------
TypeOK ==
  /\ vec \in [Vector -> Seq(Response)]
  /\ producerResponses \in Vector
  /\ consumerResponses \in Vector
  /\ responseLocker \in Sender \union {"free", "send"}
  /\ hasNewResponse \in BOOLEAN
  /\ pc \in [Sender -> {"idle", "lock", "load", "append", "flag", "notify",
                        "unlock"}]
  /\ resp \in [Sender -> Response \union {NoResponse}]
  /\ target \in [Sender -> Vector]
  /\ spc \in {"idle", "lock", "check", "asleep", "woken", "reset", "unlock",
              "loop"}
  /\ temp \in Vector
  /\ it \in Nat
  /\ conn \in Nat
  /\ posted \in Seq(Response)
  /\ transmitted \in Seq(Response)
  /\ attempts \in Seq(Response \X Conn)

(***************************************************************************)
(* The send thread iterates and clears consumerResponses without the lock: *)
(* no Send appends to that vector meanwhile, although both pointers were   *)
(* equal for as long as the thread slept.                                  *)
(***************************************************************************)
ExclusiveVectors ==
  spc = "loop" =>
    /\ producerResponses /= consumerResponses
    /\ \A s \in Sender : pc[s] = "append" => target[s] /= consumerResponses

(***************************************************************************)
(* The send thread never sleeps on a response: if hasNewResponse is set    *)
(* while it waits, the Send that set it has yet to notify.                 *)
(***************************************************************************)
NoLostWakeup ==
  spc = "asleep" /\ hasNewResponse => \E s \in Sender : pc[s] = "notify"

(***************************************************************************)
(* With the lock free, hasNewResponse says exactly whether the vector the  *)
(* producers append to holds a response.                                   *)
(***************************************************************************)
FlagTracksBox ==
  responseLocker = "free" =>
    (hasNewResponse <=> vec[producerResponses] /= <<>>)

(***************************************************************************)
(* The abstract listener queue.                                            *)
(***************************************************************************)
box   == vec[producerResponses]
batch == IF spc \in {"reset", "unlock", "loop"}
         THEN vec[consumerResponses] ELSE <<>>
pos   == IF spc = "loop" THEN it ELSE 0

MB == INSTANCE Mailbox WITH
        Message  <- Response,
        consumed <- transmitted

\* Every step of Send and SendResponses is a step of Mailbox, or none of its.
ImplementsMailbox == MB!Spec

(***************************************************************************)
(* The sockets are written to in the order the responses were pushed, and  *)
(* for each response in the order of its connIds, each connection once.    *)
(***************************************************************************)
Deliveries(r) == [k \in 1 .. Len(ConnIds[r]) |-> <<r, ConnIds[r][k]>>]

TransmittedInOrder ==
  IsPrefix(attempts,
           FlattenSeq([k \in 1 .. Len(posted) |-> Deliveries(posted[k])]))

(***************************************************************************)
(* A response that was pushed is written to every one of its connections,  *)
(* without any further Send having to wake the send thread.                *)
(***************************************************************************)
Delivered ==
  \A r \in Response :
    r \in ToSet(posted) ~> ToSet(Deliveries(r)) \subseteq ToSet(attempts)
=============================================================================

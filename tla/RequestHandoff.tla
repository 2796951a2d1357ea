--------------------------- MODULE RequestHandoff ---------------------------
(***************************************************************************)
(* How the receive thread hands requests to the game thread: the two       *)
(* request vectors of SocketListenerBase, requestLocker, the tail of       *)
(* TcpListener::Receive and TcpListener::Dispatch.                         *)
(*                                                                         *)
(* Two vectors exist. The receive thread appends to the one                *)
(* producerRequests points at, under the lock. The game thread points both *)
(* pointers at that vector without the lock, swaps producerRequests to the *)
(* other one under the lock, and then goes through what it took, lock      *)
(* free. Between the snapshot and the swap the two threads share a vector. *)
(***************************************************************************)
EXTENDS Naturals, Sequences

CONSTANTS
  Request,    \* the request objects the producer may allocate
  MsgId,      \* the values of header.msgId
  MsgIdOf,    \* the msgId each request carries
  NoRequest   \* stands for "the receive thread holds no request"

ASSUME RequestAssumption ==
  /\ MsgIdOf \in [Request -> MsgId]
  /\ NoRequest \notin Request

VARIABLES
  vec,               \* the two vectors
  producerRequests,  \* which vector the receive thread appends to
  consumerRequests,  \* which vector the game thread goes through
  requestLocker,     \* who holds the mutex
  rpc, req, target,  \* receive thread: step, request in hand, vector loaded
  gpc, temp, it,     \* game thread: step, saved pointer, requests gone through
  handlerMap,        \* msgIds with a Delegate in requestHandlerMap
  heap,              \* each request object: unborn, live or deleted
  skipped,           \* history: requests visited when they had no Delegate
  received,          \* history: requests in the order they were pushed
  dispatched         \* history: requests in the order they were visited

receiveVars == <<rpc, req, target>>
gameVars    == <<gpc, temp, it>>
pointers    == <<producerRequests, consumerRequests>>
history     == <<skipped, received, dispatched>>
vars == <<vec, pointers, requestLocker, receiveVars, gameVars, handlerMap,
          heap, history>>

Vector == {1, 2}

Init ==
  /\ vec = [v \in Vector |-> <<>>]
  /\ producerRequests = 1
  /\ consumerRequests = 2
  /\ requestLocker = "free"
  /\ rpc = "idle" /\ req = NoRequest /\ target = 1
  /\ gpc = "idle" /\ temp = 2 /\ it = 0
  /\ handlerMap = {}
  /\ heap = [r \in Request |-> "unborn"]
  /\ skipped = {}
  /\ received = <<>>
  /\ dispatched = <<>>

-----------------------------------------------------------------------------
(* Receive thread: a complete packet becomes a request object, which is    *)
(* pushed under requestLocker.                                             *)

Produce(r) ==
  /\ rpc = "idle"
  /\ heap[r] = "unborn"
  /\ heap' = [heap EXCEPT ![r] = "live"]
  /\ req' = r
  /\ rpc' = "lock"
  /\ UNCHANGED <<vec, pointers, requestLocker, target, gameVars, handlerMap,
                 history>>

ReceiveLock ==
  /\ rpc = "lock"
  /\ requestLocker = "free"
  /\ requestLocker' = "receive"
  /\ rpc' = "load"
  /\ UNCHANGED <<vec, pointers, req, target, gameVars, handlerMap, heap,
                 history>>

\* push_back reads the pointer first and writes the vector after.
ReceiveLoad ==
  /\ rpc = "load"
  /\ target' = producerRequests
  /\ rpc' = "append"
  /\ UNCHANGED <<vec, pointers, requestLocker, req, gameVars, handlerMap,
                 heap, history>>

ReceiveAppend ==
  /\ rpc = "append"
  /\ vec' = [vec EXCEPT ![target] = Append(@, req)]
  /\ received' = Append(received, req)
  /\ rpc' = "unlock"
  /\ UNCHANGED <<pointers, requestLocker, req, target, gameVars, handlerMap,
                 heap, skipped, dispatched>>

\* Mutant: an early way out of the critical section leaves the mutex locked.
ReceiveLeavesLocked ==
  /\ rpc = "unlock"
  /\ req' = NoRequest
  /\ rpc' = "idle"
  /\ UNCHANGED <<vec, pointers, requestLocker, target, gameVars, handlerMap,
                 heap, history>>

ReceiveUnlock ==
  /\ rpc = "unlock"
  /\ requestLocker' = "free"
  /\ req' = NoRequest
  /\ rpc' = "idle"
  /\ UNCHANGED <<vec, pointers, target, gameVars, handlerMap, heap, history>>

-----------------------------------------------------------------------------
(* Game thread: one call of Dispatch, over and over.                       *)

\* Both assignments before the lock. Only this thread writes either pointer.
DispatchSnapshot ==
  /\ gpc = "idle"
  /\ temp' = consumerRequests
  /\ consumerRequests' = producerRequests
  /\ gpc' = "lock"
  /\ UNCHANGED <<vec, producerRequests, requestLocker, receiveVars, it,
                 handlerMap, heap, history>>

\* Mutant: the pointers are swapped without the mutex.
DispatchUnlocked ==
  /\ gpc = "lock"
  /\ gpc' = "swap"
  /\ UNCHANGED <<vec, pointers, requestLocker, receiveVars, temp, it,
                 handlerMap, heap, history>>

DispatchLock ==
  /\ gpc = "lock"
  /\ requestLocker = "free"
  /\ requestLocker' = "game"
  /\ gpc' = "swap"
  /\ UNCHANGED <<vec, pointers, receiveVars, temp, it, handlerMap, heap,
                 history>>

DispatchSwap ==
  /\ gpc = "swap"
  /\ producerRequests' = temp
  /\ gpc' = "unlock"
  /\ UNCHANGED <<vec, consumerRequests, requestLocker, receiveVars, temp, it,
                 handlerMap, heap, history>>

\* Mutant: the loop begins at the second request.
DispatchFromSecond ==
  /\ gpc = "unlock"
  /\ requestLocker' = "free"
  /\ it' = IF vec[consumerRequests] = <<>> THEN 0 ELSE 1
  /\ gpc' = "loop"
  /\ UNCHANGED <<vec, pointers, receiveVars, temp, handlerMap, heap, history>>

DispatchUnlock ==
  /\ gpc = "unlock"
  /\ requestLocker' = "free"
  /\ it' = 0
  /\ gpc' = "loop"
  /\ UNCHANGED <<vec, pointers, receiveVars, temp, handlerMap, heap, history>>

current == vec[consumerRequests][it + 1]

\* requestHandlerMap has no Delegate: the request is passed over, not deleted.
DispatchSkip ==
  /\ gpc = "loop"
  /\ it < Len(vec[consumerRequests])
  /\ MsgIdOf[current] \notin handlerMap
  /\ it' = it + 1
  /\ skipped' = skipped \union {current}
  /\ dispatched' = Append(dispatched, current)
  /\ UNCHANGED <<vec, pointers, requestLocker, receiveVars, gpc, temp,
                 handlerMap, heap, received>>

\* Mutant: the request is deleted before its handlers run.
DispatchDeleteFirst ==
  /\ gpc = "loop"
  /\ it < Len(vec[consumerRequests])
  /\ MsgIdOf[current] \in handlerMap
  /\ heap' = [heap EXCEPT ![current] = "deleted"]
  /\ gpc' = "handle"
  /\ UNCHANGED <<vec, pointers, requestLocker, receiveVars, temp, it,
                 handlerMap, history>>

\* A Delegate is found and its handlers start to run.
DispatchCall ==
  /\ gpc = "loop"
  /\ it < Len(vec[consumerRequests])
  /\ MsgIdOf[current] \in handlerMap
  /\ gpc' = "handle"
  /\ UNCHANGED <<vec, pointers, requestLocker, receiveVars, temp, it,
                 handlerMap, heap, history>>

\* The handlers return and the request is deleted.
DispatchDelete ==
  /\ gpc = "handle"
  /\ heap' = [heap EXCEPT ![current] = "deleted"]
  /\ it' = it + 1
  /\ dispatched' = Append(dispatched, current)
  /\ gpc' = "loop"
  /\ UNCHANGED <<vec, pointers, requestLocker, receiveVars, temp, handlerMap,
                 skipped, received>>

DispatchClear ==
  /\ gpc = "loop"
  /\ it = Len(vec[consumerRequests])
  /\ vec' = [vec EXCEPT ![consumerRequests] = <<>>]
  /\ gpc' = "idle"
  /\ UNCHANGED <<pointers, requestLocker, receiveVars, temp, it, handlerMap,
                 heap, history>>

\* The game registers a handler between two frames, or a handler does.
\* Unregister empties a Delegate but leaves it in the map.
Register(m) ==
  /\ gpc \in {"idle", "handle"}
  /\ handlerMap' = handlerMap \union {m}
  /\ UNCHANGED <<vec, pointers, requestLocker, receiveVars, gameVars, heap,
                 history>>

-----------------------------------------------------------------------------
ReceiveStep == ReceiveLock \/ ReceiveLoad \/ ReceiveAppend \/ ReceiveUnlock

Dispatch ==
  \/ DispatchSnapshot \/ DispatchLock \/ DispatchSwap \/ DispatchUnlock
  \/ DispatchSkip \/ DispatchCall \/ DispatchDelete \/ DispatchClear

Next ==
  \/ \E r \in Request : Produce(r)
  \/ ReceiveStep
  \/ Dispatch
  \/ \E m \in MsgId : Register(m)

Spec == Init /\ [][Next]_vars

\* The receive thread finishes a push it began, and the game loop keeps
\* calling Dispatch. Neither packets nor registrations have to come.
Fairness == WF_vars(ReceiveStep) /\ WF_vars(Dispatch)

FairSpec == Spec /\ Fairness

-----------------------------------------------------------------------------
TypeOK ==
  /\ vec \in [Vector -> Seq(Request)]
  /\ producerRequests \in Vector
  /\ consumerRequests \in Vector
  /\ requestLocker \in {"free", "receive", "game"}
  /\ rpc \in {"idle", "lock", "load", "append", "unlock"}
  /\ req \in Request \union {NoRequest}
  /\ target \in Vector
  /\ gpc \in {"idle", "lock", "swap", "unlock", "loop", "handle"}
  /\ temp \in Vector
  /\ it \in Nat
  /\ handlerMap \subseteq MsgId
  /\ heap \in [Request -> {"unborn", "live", "deleted"}]
  /\ skipped \subseteq Request
  /\ received \in Seq(Request)
  /\ dispatched \in Seq(Request)

(***************************************************************************)
(* The game thread iterates and clears consumerRequests without the lock.  *)
(* No push is then open on that vector: a push loads the pointer under the *)
(* lock, so one that loaded the shared vector ends before the swap can.    *)
(***************************************************************************)
Draining == gpc \in {"loop", "handle"}

ExclusiveVectors ==
  /\ Draining => producerRequests /= consumerRequests
  /\ Draining /\ rpc = "append" => target /= consumerRequests

(***************************************************************************)
(* The abstract listener queue: what is not taken yet sits in the vector   *)
(* the producer pointer designates, and the swap is the moment it is taken.*)
(***************************************************************************)
box   == vec[producerRequests]
batch == IF gpc \in {"unlock", "loop", "handle"}
         THEN vec[consumerRequests] ELSE <<>>
pos   == IF Draining THEN it ELSE 0

MB == INSTANCE Mailbox WITH
        Message  <- Request,
        posted   <- received,
        consumed <- dispatched

\* Every step of Receive and Dispatch is a step of Mailbox, or none of its.
ImplementsMailbox == MB!Spec

\* No request is lost, visited twice or visited out of order, although
\* Dispatch aliases the vector the receive thread may be appending to.
Fifo == MB!Fifo

(***************************************************************************)
(* delete *it in the loop: no request still to be visited is a dangling    *)
(* pointer, and the only objects alive that nothing points at any more are *)
(* those Dispatch passed over for want of a Delegate.                      *)
(***************************************************************************)
Pending == {req} \union {box[k] : k \in 1 .. Len(box)}
                 \union {batch[k] : k \in pos + 1 .. Len(batch)}

HeapAccounted ==
  \A r \in Request :
    /\ r \in Pending => heap[r] = "live"
    /\ heap[r] = "live" => r \in Pending \/ r \in skipped

(***************************************************************************)
(* A request that was pushed is visited by a later Dispatch, whatever the  *)
(* receive thread does meanwhile.                                          *)
(***************************************************************************)
Delivered ==
  \A r \in Request :
    (\E k \in 1 .. Len(received) : received[k] = r)
      ~> (\E k \in 1 .. Len(dispatched) : dispatched[k] = r)
=============================================================================

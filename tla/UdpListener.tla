----------------------------- MODULE UdpListener -----------------------------
(***************************************************************************)
(* The UDP listener: Send and the send thread, which share the response    *)
(* vectors as in ResponseHandoff but not its locking; and the receive      *)
(* thread, which throws every datagram away. Its Dispatch therefore never  *)
(* finds a request, and is left out.                                       *)
(*                                                                         *)
(* SendResponses waits with a lock it does not own and then unlocks the    *)
(* mutex. Both are undefined in C++. What the Linux library does is        *)
(* modelled: pthread mutexes of the default kind keep no owner, so         *)
(* unlocking one that another thread holds frees it, and unlocking a free  *)
(* one does nothing. A vector that two threads change at once ends up as   *)
(* the order of their loads and stores leaves it; its memory, reserved     *)
(* when the listener is built, does not move.                              *)
(***************************************************************************)
EXTENDS Naturals, Sequences, SequencesExt

CONSTANTS
  Sender,       \* the threads that call Send
  MaxEvents     \* bound: calls of Send and datagrams, together

ASSUME UdpAssumption ==
  /\ Sender \intersect {"free", "send"} = {}
  /\ MaxEvents \in Nat

\* The responses, numbered as the calls of Send begin; 0 is none.
Response == 1 .. MaxEvents
NoResponse == 0

VARIABLES
  mem, size,            \* the response vectors: memory, and how much counts
  producerResponses, consumerResponses,
  responseLocker,       \* who locked the mutex last, if it is not free
  hasNewResponse,
  sends,                \* how often Send was called
  pc, resp, target, at, \* each sender: step, response, vector and its end
  spc, temp, it,        \* send thread: step, saved pointer, responses done
  posted,               \* history: responses in the order they were pushed
  transmitted,          \* history: responses in the order they were sent
  raced,                \* history: see Racing
  arrivals,             \* how many datagrams have come
  datagrams, ready, rpc,        \* socket, epoll event, receive thread
  gaveUp                \* history: Receive left on an unexpected error

pointers == <<producerResponses, consumerResponses>>
mutexVars == <<responseLocker, hasNewResponse>>
senderVars == <<sends, pc, resp, target, at>>
threadVars == <<spc, temp, it>>
history == <<posted, transmitted>>
sendVars == <<mem, size, pointers, mutexVars, senderVars, threadVars, history,
              raced>>
receiveVars == <<arrivals, datagrams, ready, rpc, gaveUp>>
udpVars == <<sendVars, receiveVars>>

Vector == {1, 2}

UdpInit ==
  /\ mem = [v \in Vector |-> <<>>] /\ size = [v \in Vector |-> 0]
  /\ producerResponses = 1 /\ consumerResponses = 2
  /\ responseLocker = "free" /\ hasNewResponse = FALSE
  /\ sends = 0 /\ pc = [s \in Sender |-> "idle"]
  /\ resp = [s \in Sender |-> NoResponse]
  /\ target = [s \in Sender |-> 1] /\ at = [s \in Sender |-> 0]
  /\ spc = "idle" /\ temp = 2 /\ it = 0
  /\ posted = <<>> /\ transmitted = <<>> /\ raced = FALSE
  /\ arrivals = 0 /\ datagrams = 0 /\ ready = FALSE /\ rpc = "epoll"
  /\ gaveUp = FALSE

-----------------------------------------------------------------------------
(* UdpListener::Send, called by thread s. Each response is sent once.      *)

SendBegin(s) ==
  /\ pc[s] = "idle" /\ sends + arrivals < MaxEvents
  /\ sends' = sends + 1
  /\ resp' = [resp EXCEPT ![s] = sends']
  /\ pc' = [pc EXCEPT ![s] = "lock"]
  /\ UNCHANGED <<mem, size, pointers, mutexVars, target, at, threadVars,
                 history>>

SendLock(s) ==
  /\ pc[s] = "lock" /\ responseLocker = "free"
  /\ responseLocker' = s
  /\ pc' = [pc EXCEPT ![s] = "load"]
  /\ UNCHANGED <<mem, size, pointers, hasNewResponse, sends, resp, target, at,
                 threadVars, history>>

\* push_back, up to reading the end of the vector,
SendLoad(s) ==
  /\ pc[s] = "load"
  /\ target' = [target EXCEPT ![s] = producerResponses]
  /\ at' = [at EXCEPT ![s] = size[producerResponses]]
  /\ pc' = [pc EXCEPT ![s] = "append"]
  /\ UNCHANGED <<mem, size, pointers, mutexVars, sends, resp, threadVars, history>>

\* and from writing there.
SendAppend(s) ==
  LET v == target[s]
      n == at[s]
  IN  /\ pc[s] = "append"
      /\ mem' = [mem EXCEPT ![v] = SubSeq(@, 1, n) \o <<resp[s]>>
                                     \o SubSeq(@, n + 2, Len(@))]
      /\ size' = [size EXCEPT ![v] = n + 1]
      /\ posted' = Append(posted, resp[s])
      /\ pc' = [pc EXCEPT ![s] = "flag"]
      /\ UNCHANGED <<pointers, mutexVars, sends, resp, target, at, threadVars,
                     transmitted>>

SendFlag(s) ==
  /\ pc[s] = "flag"
  /\ hasNewResponse' = TRUE
  /\ pc' = [pc EXCEPT ![s] = "unlock"]
  /\ UNCHANGED <<mem, size, pointers, responseLocker, sends, resp, target,
                 at,
                 threadVars, history>>

SendUnlock(s) ==
  /\ pc[s] = "unlock"
  /\ responseLocker' = "free"
  /\ pc' = [pc EXCEPT ![s] = "notify"]
  /\ UNCHANGED <<mem, size, pointers, hasNewResponse, sends, resp, target, at,
                 threadVars, history>>

\* Mutant: nobody is notified.
SendSilently(s) ==
  /\ pc[s] = "notify"
  /\ resp' = [resp EXCEPT ![s] = NoResponse]
  /\ pc' = [pc EXCEPT ![s] = "idle"]
  /\ UNCHANGED <<mem, size, pointers, mutexVars, sends, target, at, threadVars,
                 history>>

\* After the unlock, unlike TcpListener::Send.
SendNotify(s) ==
  /\ pc[s] = "notify"
  /\ spc' = IF spc = "asleep" THEN "woken" ELSE spc
  /\ resp' = [resp EXCEPT ![s] = NoResponse]
  /\ pc' = [pc EXCEPT ![s] = "idle"]
  /\ UNCHANGED <<mem, size, pointers, mutexVars, sends, target, at, temp, it,
                 history>>

-----------------------------------------------------------------------------
(* UdpListener::SendResponses, the loop of the send thread.                *)

Snapshot ==
  /\ spc = "idle"
  /\ temp' = consumerResponses
  /\ consumerResponses' = producerResponses
  /\ spc' = "check"
  /\ UNCHANGED <<mem, size, producerResponses, mutexVars, senderVars, it,
                 history>>

\* The predicate of wait; the first time, nothing is locked.
Check ==
  /\ spc = "check"
  /\ spc' = IF hasNewResponse THEN "swap" ELSE "sleep"
  /\ UNCHANGED <<mem, size, pointers, mutexVars, senderVars, temp, it,
                 history>>

\* wait frees the mutex, whoever holds it, and sleeps.
Sleep ==
  /\ spc = "sleep"
  /\ responseLocker' = "free"
  /\ spc' = "asleep"
  /\ UNCHANGED <<mem, size, pointers, hasNewResponse, senderVars, temp, it,
                 history>>

SpuriousWakeup ==
  /\ spc = "asleep"
  /\ spc' = "woken"
  /\ UNCHANGED <<mem, size, pointers, mutexVars, senderVars, temp, it,
                 history>>

\* Before it returns, wait locks the mutex, and this time for this thread.
Relock ==
  /\ spc = "woken" /\ responseLocker = "free"
  /\ responseLocker' = "send"
  /\ spc' = "check"
  /\ UNCHANGED <<mem, size, pointers, hasNewResponse, senderVars, temp, it,
                 history>>

Swap ==
  /\ spc = "swap"
  /\ producerResponses' = temp
  /\ spc' = "reset"
  /\ UNCHANGED <<mem, size, consumerResponses, mutexVars, senderVars, temp,
                 it, history>>

Reset ==
  /\ spc = "reset"
  /\ hasNewResponse' = FALSE
  /\ spc' = "unlock"
  /\ UNCHANGED <<mem, size, pointers, responseLocker, senderVars, temp, it,
                 history>>

\* Frees the mutex, whoever holds it.
Unlock ==
  /\ spc = "unlock"
  /\ responseLocker' = "free"
  /\ it' = 0
  /\ spc' = "loop"
  /\ UNCHANGED <<mem, size, pointers, hasNewResponse, senderVars, temp,
                 history>>

\* Packs one response and sends it to all its connections; sendto takes a
\* datagram whole or fails, and either way the next connection is served.
Transmit ==
  /\ spc = "loop"
  /\ it /= size[consumerResponses]
  /\ it < Len(mem[consumerResponses])
  /\ transmitted' = Append(transmitted, mem[consumerResponses][it + 1])
  /\ it' = it + 1
  /\ UNCHANGED <<mem, size, pointers, mutexVars, senderVars, spc, temp,
                 posted>>

\* The end has moved behind the iterator: it leaves the vector.
RunOff ==
  /\ spc = "loop"
  /\ it /= size[consumerResponses]
  /\ it >= Len(mem[consumerResponses])
  /\ spc' = "wild"
  /\ UNCHANGED <<mem, size, pointers, mutexVars, senderVars, temp, it,
                 history>>

\* Mutant: the vector is not cleared.
Keep ==
  /\ spc = "loop"
  /\ it = size[consumerResponses]
  /\ spc' = "idle"
  /\ UNCHANGED <<mem, size, pointers, mutexVars, senderVars, temp, it,
                 history>>

Clear ==
  /\ spc = "loop"
  /\ it = size[consumerResponses]
  /\ size' = [size EXCEPT ![consumerResponses] = 0]
  /\ spc' = "idle"
  /\ UNCHANGED <<mem, pointers, mutexVars, senderVars, temp, it, history>>

-----------------------------------------------------------------------------
(* The receive thread, and Dispatch on the game thread.                    *)

\* The kernel: under edge triggering every arrival is reported once.
Arrive ==
  /\ sends + arrivals < MaxEvents
  /\ arrivals' = arrivals + 1
  /\ datagrams' = datagrams + 1
  /\ ready' = TRUE
  /\ UNCHANGED <<rpc, gaveUp>>

\* EINTR and other errors of epoll_wait lead back to it.
EpollWait ==
  /\ rpc = "epoll" /\ ready
  /\ ready' = FALSE
  /\ gaveUp' = FALSE
  /\ rpc' = "receive"
  /\ UNCHANGED <<arrivals, datagrams>>

\* Mutant: one datagram per event.
ReceiveOnce ==
  /\ rpc = "receive" /\ datagrams > 0
  /\ datagrams' = datagrams - 1
  /\ rpc' = "epoll"
  /\ UNCHANGED <<arrivals, ready, gaveUp>>

\* Of any length, also 0: what is received goes nowhere.
ReceiveOne ==
  /\ rpc = "receive" /\ datagrams > 0
  /\ datagrams' = datagrams - 1
  /\ UNCHANGED <<arrivals, ready, rpc, gaveUp>>

\* EAGAIN.
ReceiveEmpty ==
  /\ rpc = "receive" /\ datagrams = 0
  /\ rpc' = "epoll"
  /\ UNCHANGED <<arrivals, datagrams, ready, gaveUp>>

\* Any other error but EINTR, such as the answer of a host to what was sent
\* to it, leaves the datagrams where they are.
ReceiveFails ==
  /\ rpc = "receive"
  /\ gaveUp' = TRUE
  /\ rpc' = "epoll"
  /\ UNCHANGED <<arrivals, datagrams, ready>>

-----------------------------------------------------------------------------
(***************************************************************************)
(* A Send is between its lock and its unlock while the send thread goes    *)
(* from the predicate to its own unlock without the mutex.                 *)
(***************************************************************************)
Racing ==
  /\ spc \in {"sleep", "swap", "reset", "unlock"}
  /\ responseLocker /= "send"
  /\ \E s \in Sender : pc[s] \in {"load", "append", "flag", "unlock"}

Send(s) == SendLock(s) \/ SendLoad(s) \/ SendAppend(s) \/ SendFlag(s)
             \/ SendUnlock(s) \/ SendNotify(s)

SendResponses ==
  \/ Snapshot \/ Check \/ Sleep \/ Relock \/ Swap \/ Reset \/ Unlock
  \/ Transmit \/ RunOff \/ Clear

Noted(action) ==
  /\ action
  /\ raced' = (raced \/ Racing')
  /\ UNCHANGED receiveVars

Receive == EpollWait \/ ReceiveOne \/ ReceiveEmpty \/ ReceiveFails

UdpNext ==
  \/ \E s \in Sender : Noted(SendBegin(s)) \/ Noted(Send(s))
  \/ Noted(SendResponses)
  \/ Noted(SpuriousWakeup)
  \/ (Arrive \/ Receive) /\ UNCHANGED sendVars

UdpSpec == UdpInit /\ [][UdpNext]_udpVars

\* A thread inside Send, the send thread and the receive thread go on when
\* they can. Nobody has to call Send, no spurious wakeup has to come.
Fairness ==
  /\ \A s \in Sender : WF_udpVars(Noted(Send(s)))
  /\ WF_udpVars(Noted(SendResponses))
  /\ WF_udpVars(Receive /\ UNCHANGED sendVars)

FairUdpSpec == UdpSpec /\ Fairness

-----------------------------------------------------------------------------
UdpTypeOK ==
  /\ mem \in [Vector -> Seq(Response)]
  /\ size \in [Vector -> Nat]
  /\ \A v \in Vector : size[v] <= Len(mem[v])
  /\ producerResponses \in Vector /\ consumerResponses \in Vector
  /\ responseLocker \in Sender \union {"free", "send"}
  /\ hasNewResponse \in BOOLEAN
  /\ sends \in 0 .. MaxEvents
  /\ pc \in [Sender -> {"idle", "lock", "load", "append", "flag", "unlock",
                        "notify"}]
  /\ resp \in [Sender -> Response \union {NoResponse}]
  /\ target \in [Sender -> Vector] /\ at \in [Sender -> Nat]
  /\ spc \in {"idle", "check", "sleep", "asleep", "woken", "swap", "reset",
              "unlock", "loop", "wild"}
  /\ temp \in Vector /\ it \in Nat
  /\ posted \in Seq(Response) /\ transmitted \in Seq(Response)
  /\ raced \in BOOLEAN
  /\ arrivals \in 0 .. MaxEvents /\ datagrams \in 0 .. arrivals
  /\ ready \in BOOLEAN /\ gaveUp \in BOOLEAN
  /\ rpc \in {"epoll", "receive"}

Contents(v) == SubSeq(mem[v], 1, size[v])

\* What the send thread has still to send, in the order it will.
Outstanding ==
  CASE spc = "loop" ->
         SubSeq(Contents(consumerResponses), it + 1, size[consumerResponses])
           \o Contents(producerResponses)
    [] spc \in {"reset", "unlock"} ->
         Contents(consumerResponses) \o Contents(producerResponses)
    [] OTHER -> Contents(producerResponses)

(***************************************************************************)
(* The missing lock does harm through one kind of race and no other: as    *)
(* long as no Send was between its lock and its unlock while the send      *)
(* thread went on from the predicate without the mutex, no response is     *)
(* lost, repeated or reordered, although the two threads share the vectors *)
(* and the send thread goes on to free a mutex it never took.              *)
(***************************************************************************)
HarmOnlyByRace == ~raced => transmitted \o Outstanding = posted

(***************************************************************************)
(* Without such a race a response is also sent without a further Send to   *)
(* wake the send thread, although Send notifies after it has unlocked.     *)
(***************************************************************************)
DeliveredUnlessRaced ==
  \A r \in Response :
    r \in ToSet(posted) ~> r \in ToSet(transmitted) \/ raced

(***************************************************************************)
(* Datagrams stay in the socket only after an unexpected error, and then   *)
(* until the next one arrives: each edge is answered by reading it empty.  *)
(***************************************************************************)
SocketDrained == rpc = "epoll" /\ datagrams > 0 => ready \/ gaveUp
=============================================================================

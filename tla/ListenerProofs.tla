--------------------------- MODULE ListenerProofs ---------------------------
(***************************************************************************)
(* What is proved about listeners. NetworkManager: what becomes of the     *)
(* port, and what a game must not do, for any sequence of calls, any       *)
(* listeners and any clients. UdpListener, at the end: how far the missing *)
(* lock does harm, and that no datagram is forgotten.                      *)
(***************************************************************************)
EXTENDS NetworkManager, UdpListener, SequenceLemmas

-----------------------------------------------------------------------------
(* The port. A listener that is not there yet, or not any more, has no     *)
(* socket; only a TCP listener that was started ever has connections; and  *)
(* to delete a started one is undefined.                                   *)

PortTypes ==
  /\ socketListener \in Listener \union {0}
  /\ protocol \in [Listener -> {"TCP", "UDP"}]
  /\ life \in [Listener -> {"unborn", "built", "deleted"}]
  /\ socket \in [Listener -> BOOLEAN]
  /\ threads \in [Listener -> Nat]
  /\ clients \in [Listener -> Nat]
  /\ lingering \in [Listener -> Nat]

Connected(l) == clients[l] > 0 \/ lingering[l] > 0

PortInv ==
  \A l \in Listener :
    /\ socket[l] => life[l] = "built"
    /\ Connected(l) => protocol[l] = "TCP" /\ threads[l] > 0
    /\ life[l] = "unborn" => threads[l] = 0
    /\ life[l] = "deleted" /\ threads[l] > 0 => undefined

LEMMA PortInit == Init => PortTypes /\ PortInv
  BY DEF Init, PortTypes, PortInv, Connected

\* What a step leaves of all this when it does not concern the descriptors.
PortKept ==
  /\ UNCHANGED <<socketListener, life, protocol, socket, threads, clients,
                 lingering>>
  /\ undefined => undefined'

LEMMA PortNext ==
  ASSUME PortTypes, PortInv, [Next]_vars
  PROVE  PortTypes' /\ PortInv'
<1>a. ASSUME PortKept PROVE PortTypes' /\ PortInv'
  BY <1>a DEF PortKept, PortTypes, PortInv, Connected
<1>1. ASSUME NEW p \in {"TCP", "UDP"}, NEW w \in BOOLEAN, Initialize(p, w)
      PROVE  PortTypes' /\ PortInv'
  <2>1. PICK l \in Listener :
          /\ socketListener' = l
          /\ life[l] = "unborn"
          /\ life' = [life EXCEPT ![l] = "built"]
          /\ protocol' = [protocol EXCEPT ![l] = p]
          /\ socket' = [socket EXCEPT ![l] = TRUE]
          /\ UNCHANGED <<undefined, threads, clients, lingering>>
    BY <1>1 DEF Initialize
  <2> QED
    BY <2>1 DEF PortTypes, PortInv, Connected
<1>2. ASSUME NEW how, Ends(how) PROVE PortTypes' /\ PortInv'
  BY <1>2 DEF Ends, object, PortTypes, PortInv, Connected
<1>3. CASE Listen
  <2>1. /\ threads' = [threads EXCEPT ![socketListener] = @ + 1]
        /\ life[socketListener] = "built" /\ socketListener \in Listener
        /\ UNCHANGED <<socketListener, life, protocol, socket, clients,
                       lingering>>
        /\ undefined => undefined'
    BY <1>3 DEF Listen, Usable, Current, object, descriptors, PortTypes
  <2>2. PortTypes'
    BY <2>1 DEF PortTypes
  <2>3. \A l \in Listener :
          /\ l /= socketListener => threads'[l] = threads[l]
          /\ l = socketListener => threads'[l] = threads[l] + 1
    BY <2>1 DEF PortTypes
  <2>4. \A l \in Listener : threads[l] \in Nat
    BY DEF PortTypes
  <2>5. PortInv'
    BY <2>1, <2>3, <2>4 DEF PortInv, Connected
  <2> QED
    BY <2>2, <2>5
<1>4. CASE ListenFails \/ Use \/ UseNothing \/ ReleaseNothing
  <2>1. UNCHANGED listeners
    BY <1>4 DEF ListenFails, Use, UseNothing, ReleaseNothing
  <2>2. undefined => undefined'
    BY <1>4 DEF ListenFails, Use, UseNothing, ReleaseNothing
  <2> QED
    BY <2>1, <2>2, <1>a DEF listeners, object, descriptors, PortKept
<1>5. CASE Release
  BY <1>5 DEF Release, Destroyed, ThreadsRunOn, PortTypes, PortInv, Connected
<1>6. ASSUME NEW id \in MsgId, NEW h \in Handler,
             Register(id, h) \/ Unregister(id, h)
      PROVE  PortTypes' /\ PortInv'
  BY <1>6, <1>a
  DEF Register, Unregister, listeners, object, descriptors, PortKept
<1>7. ASSUME NEW l \in Listener, Accept(l) PROVE PortTypes' /\ PortInv'
  BY <1>7 DEF Accept, Serves, object, PortTypes, PortInv, Connected
<1>8. ASSUME NEW l \in Listener, Closed(l) PROVE PortTypes' /\ PortInv'
  BY <1>8 DEF Closed, object, PortTypes, PortInv, Connected
<1>9. ASSUME NEW l \in Listener, NoProducer(l) PROVE PortTypes' /\ PortInv'
  BY <1>9, <1>a DEF NoProducer, listeners, object, descriptors, PortKept
<1>10. ASSUME NEW l \in Listener, Expire(l) PROVE PortTypes' /\ PortInv'
  BY <1>10 DEF Expire, object, PortTypes, PortInv, Connected
<1>11. CASE UNCHANGED vars
  BY <1>11, <1>a DEF vars, listeners, object, descriptors, PortKept
<1> QED
  BY <1>1, <1>2, <1>3, <1>4, <1>5, <1>6, <1>7, <1>8, <1>9, <1>10, <1>11
  DEF Next, Game, InitializeFails, Crash, Close, Refuse

(***************************************************************************)
(* Whatever the game, the clients and the kernel do: only a listener that  *)
(* is there has the port, or one that had been started and was released,   *)
(* which is undefined, with its connections, the closed ones included      *)
(* (TcpListener_Unix.cpp:19-26, 66-100, 251-285).                          *)
(***************************************************************************)
THEOREM PortIsHeldForCause == Spec => []PortHeldForCause
<1>1. PortTypes /\ PortInv => PortHeldForCause
  BY DEF PortTypes, PortInv, Connected, PortHeldForCause, PortHolders
<1> QED
  BY <1>1, PortInit, PortNext, PTL DEF Spec

-----------------------------------------------------------------------------
(* The history of calls.                                                   *)

Short == {<<n>> : n \in {"Initialize", "Listen", "ListenFails", "Use",
                         "Release"}}
Built == {"Initialize"} \X {"TCP", "UDP"} \X BOOLEAN
Long == {"Register", "Unregister"} \X MsgId \X Handler
CallName == Short \union Built \union Long

\* What one more call adds to the history, and what Orderly asks of it.
LEMMA Appended ==
  ASSUME calls \in Seq(CallName), NEW name \in CallName, Call(name)
  PROVE  /\ calls' \in Seq(CallName)
         /\ Len(calls) \in Nat /\ Len(calls') = Len(calls) + 1
         /\ DOMAIN calls = 1 .. Len(calls)
         /\ DOMAIN calls' = 1 .. Len(calls) + 1
         /\ \A i \in 1 .. Len(calls) : calls'[i] = calls[i]
         /\ \A i \in 1 .. Len(calls) : \A n : Called(i, n)' <=> Called(i, n)
         /\ calls'[Len(calls) + 1] = name
         /\ \A k, n : k = Len(calls) + 1 => (Called(k, n)' <=> name[1] = n)
<1>1. /\ calls' \in Seq(CallName)
      /\ Len(calls) \in Nat /\ Len(calls') = Len(calls) + 1
      /\ \A i \in 1 .. Len(calls) : calls'[i] = calls[i]
      /\ calls'[Len(calls) + 1] = name
  BY DEF Call
<1>2. /\ \A i \in 1 .. Len(calls) : \A n : Called(i, n)' <=> Called(i, n)
      /\ \A k, n : k = Len(calls) + 1 => (Called(k, n)' <=> name[1] = n)
  BY <1>1 DEF Called
<1> QED
  BY <1>1, <1>2

LEMMA AskedBefore ==
  ASSUME calls \in Seq(CallName), NEW name \in CallName, Call(name),
         NEW k \in 1 .. Len(calls) + 1
  PROVE  /\ Initialized(k)' <=> Initialized(k)
         /\ Startable(k)' <=> Startable(k)
<1>1. /\ Len(calls) \in Nat
      /\ \A i \in 1 .. Len(calls) : calls'[i] = calls[i]
      /\ \A i \in 1 .. Len(calls) : \A n : Called(i, n)' <=> Called(i, n)
  BY Appended
<1>2. \A i \in 1 .. k - 1 : /\ i \in 1 .. Len(calls)
                           /\ \A j \in i + 1 .. k - 1 : j \in 1 .. Len(calls)
  BY <1>1
<1>3. Initialized(k)' <=> Initialized(k)
  BY <1>1, <1>2 DEF Initialized
<1>4. Startable(k)' <=> Startable(k)
  BY <1>1, <1>2 DEF Startable
<1> QED
  BY <1>3, <1>4

LEMMA OrderlyBefore ==
  ASSUME calls \in Seq(CallName), NEW name \in CallName, Call(name), Orderly'
  PROVE  Orderly
<1>1. /\ DOMAIN calls = 1 .. Len(calls) /\ Len(calls) \in Nat
      /\ DOMAIN calls' = 1 .. Len(calls) + 1
      /\ \A i \in 1 .. Len(calls) : \A n : Called(i, n)' <=> Called(i, n)
  BY Appended
<1>2. \A k \in DOMAIN calls : /\ Initialized(k)' <=> Initialized(k)
                              /\ Startable(k)' <=> Startable(k)
  BY <1>1, AskedBefore
<1> QED
  BY <1>1, <1>2 DEF Orderly

-----------------------------------------------------------------------------
(* Undefined behaviour. While the process runs, the pointer is set exactly *)
(* if Initialize was called, and the listener pointed to is what the last  *)
(* of these calls asked for; a listener with threads was started since it  *)
(* was built; and in an orderly game the listener pointed to is there, and *)
(* only TCP listeners with a producer have threads.                        *)

CallTypes ==
  /\ calls \in Seq(CallName)
  /\ socketListener \in Listener \union {0}
  /\ life \in [Listener -> {"unborn", "built", "deleted"}]
  /\ protocol \in [Listener -> {"TCP", "UDP"}]
  /\ producer \in [Listener -> BOOLEAN]
  /\ threads \in [Listener -> Nat]

StartedSince ==
  \E j \in DOMAIN calls :
    /\ Called(j, "Listen")
    /\ \A i \in DOMAIN calls : i > j => ~Called(i, "Initialize")

LastBuilt(k) ==
  /\ Called(k, "Initialize")
  /\ \A i \in DOMAIN calls : i > k => ~Called(i, "Initialize")

AsAsked ==
  \A k \in DOMAIN calls : LastBuilt(k) =>
    calls[k] = <<"Initialize", protocol[socketListener],
                 producer[socketListener]>>

PointerInv ==
  /\ \A l \in Listener : life[l] = "unborn" => threads[l] = 0
  /\ process = "runs" =>
       /\ (socketListener /= 0) <=> Initialized(Len(calls) + 1)
       /\ socketListener /= 0 /\ threads[socketListener] > 0 => StartedSince
       /\ AsAsked
  /\ Orderly =>
       /\ socketListener /= 0 => life[socketListener] = "built"
       /\ \A l \in Listener :
            threads[l] > 0 => protocol[l] = "TCP" /\ producer[l]

DefinedInv == PointerInv /\ OrderlyIsDefined

LEMMA DefinedInit == Init => CallTypes /\ DefinedInv
  BY DEF Init, CallTypes, DefinedInv, PointerInv, OrderlyIsDefined, Initialized,
         AsAsked, Listener

\* A step that is no call of the game.
NoCall ==
  /\ UNCHANGED <<calls, socketListener, life, protocol, producer, threads>>
  /\ process' = "runs" => process = "runs"

\* A call that changes neither pointer, nor object, nor threads.
CallOnly(name) ==
  /\ Call(name)
  /\ UNCHANGED <<process, socketListener, life, protocol, producer, threads>>

LEMMA KeptByNoCall ==
  ASSUME CallTypes, DefinedInv, NoCall, Orderly /\ undefined' => undefined
  PROVE  CallTypes' /\ DefinedInv'
<1>1. calls' = calls
  BY DEF NoCall
<1>2. /\ \A k : Initialized(k)' <=> Initialized(k)
      /\ \A k : Startable(k)' <=> Startable(k)
      /\ StartedSince' <=> StartedSince
      /\ \A k : LastBuilt(k)' <=> LastBuilt(k)
  BY <1>1 DEF Initialized, Startable, StartedSince, LastBuilt, Called
<1>3. Orderly' <=> Orderly
  BY <1>1, <1>2 DEF Orderly, Called
<1>4. AsAsked' <=> AsAsked
  BY <1>1, <1>2 DEF AsAsked, NoCall
<1>5. Initialized(Len(calls) + 1)' <=> Initialized(Len(calls) + 1)
  BY <1>1 DEF Initialized, Called
<1> QED
  BY <1>2, <1>3, <1>4, <1>5
  DEF NoCall, CallTypes, DefinedInv, PointerInv, OrderlyIsDefined

\* A call other than Initialize does not change which Initialize was the last.
LEMMA AsAskedKept ==
  ASSUME CallTypes, AsAsked, NEW name \in CallName, Call(name),
         name[1] /= "Initialize",
         UNCHANGED <<socketListener, protocol, producer>>
  PROVE  AsAsked'
<1>1. /\ Len(calls) \in Nat /\ DOMAIN calls = 1 .. Len(calls)
      /\ DOMAIN calls' = 1 .. Len(calls) + 1
      /\ \A i \in 1 .. Len(calls) : calls'[i] = calls[i]
      /\ \A i \in 1 .. Len(calls) : \A n : Called(i, n)' <=> Called(i, n)
      /\ \A k, n : k = Len(calls) + 1 => (Called(k, n)' <=> name[1] = n)
  BY Appended DEF CallTypes
<1>2. \A k \in DOMAIN calls' :
        LastBuilt(k)' => k \in DOMAIN calls /\ LastBuilt(k)
  BY <1>1 DEF LastBuilt
<1> QED
  BY <1>1, <1>2 DEF AsAsked

LEMMA PointerKept ==
  ASSUME CallTypes, PointerInv, NEW name \in CallName, CallOnly(name),
         name[1] /= "Initialize"
  PROVE  CallTypes' /\ PointerInv'
<1>1. CallTypes'
  BY Appended DEF CallTypes, CallOnly
<1>2. /\ Len(calls) \in Nat /\ DOMAIN calls = 1 .. Len(calls)
      /\ DOMAIN calls' = 1 .. Len(calls) + 1 /\ Len(calls') = Len(calls) + 1
      /\ \A i \in 1 .. Len(calls) : \A n : Called(i, n)' <=> Called(i, n)
      /\ \A k, n : k = Len(calls) + 1 => (Called(k, n)' <=> name[1] = n)
  BY Appended DEF CallTypes, CallOnly
<1>3. \A k \in DOMAIN calls' :
        k = Len(calls) + 1 => ~Called(k, "Initialize")'
  BY <1>2
<1>4. Initialized(Len(calls) + 1)' <=> Initialized(Len(calls) + 1)
  BY <1>2, <1>3 DEF Initialized
<1>5. StartedSince => StartedSince'
  BY <1>2, <1>3 DEF StartedSince
<1>6. Orderly' => Orderly
  BY OrderlyBefore DEF CallTypes, CallOnly
<1>7. AsAsked => AsAsked'
  BY AsAskedKept DEF CallOnly
<1> QED
  BY <1>1, <1>4, <1>5, <1>6, <1>7 DEF PointerInv, CallOnly, Call

\* An orderly call that uses the listener finds it; one that could delete it
\* finds none; and one that starts it finds what can be started.
LEMMA OrderlyFinds ==
  ASSUME CallTypes, PointerInv, NEW name \in CallName, Call(name), Orderly'
  PROVE  /\ name = <<"Use">> => Usable
         /\ name = <<"Release">> => socketListener = 0
         /\ name = <<"Listen">> => Startable(Len(calls) + 1)
<1>1. /\ Len(calls) \in Nat /\ DOMAIN calls' = 1 .. Len(calls) + 1
      /\ \A k, n : k = Len(calls) + 1 => (Called(k, n)' <=> name[1] = n)
  BY Appended DEF CallTypes
<1>2. \A k \in DOMAIN calls' : /\ Initialized(k)' <=> Initialized(k)
                               /\ Startable(k)' <=> Startable(k)
  BY <1>1, AskedBefore DEF CallTypes
<1>3. \A n : name = <<n>> => name[1] = n
  OBVIOUS
<1>4. /\ name = <<"Use">> => Initialized(Len(calls) + 1)
      /\ name = <<"Release">> => ~Initialized(Len(calls) + 1)
      /\ name = <<"Listen">> => Startable(Len(calls) + 1)
  BY <1>1, <1>2, <1>3 DEF Orderly
<1>5. Orderly
  BY OrderlyBefore DEF CallTypes
<1> QED
  BY <1>4, <1>5 DEF PointerInv, Call, Usable, Current

LEMMA InitializeDefined ==
  ASSUME CallTypes, DefinedInv, NEW p \in {"TCP", "UDP"}, NEW w \in BOOLEAN,
         Initialize(p, w)
  PROVE  CallTypes' /\ DefinedInv'
<1> DEFINE name == <<"Initialize", p, w>>
<1>1. name \in CallName /\ Call(name) /\ name[1] = "Initialize"
  BY DEF CallName, Built, Initialize
<1>2. /\ Len(calls) \in Nat /\ Len(calls') = Len(calls) + 1
      /\ calls' \in Seq(CallName) /\ DOMAIN calls' = 1 .. Len(calls) + 1
      /\ calls'[Len(calls) + 1] = name
      /\ \A k, n : k = Len(calls) + 1 => (Called(k, n)' <=> name[1] = n)
  BY <1>1, Appended DEF CallTypes
<1>3. PICK l \in Listener : /\ life[l] = "unborn"
                            /\ socketListener' = l
                            /\ life' = [life EXCEPT ![l] = "built"]
                            /\ protocol' = [protocol EXCEPT ![l] = p]
                            /\ producer' = [producer EXCEPT ![l] = w]
  BY DEF Initialize
<1>4. threads' = threads /\ undefined' = undefined /\ l /= 0
  BY DEF Initialize, Listener
<1>5. CallTypes'
  BY <1>2, <1>3, <1>4 DEF CallTypes
<1>6. Initialized(Len(calls) + 1 + 1)'
  BY <1>1, <1>2 DEF Initialized
<1>7. Orderly' => Orderly
  BY <1>1, OrderlyBefore DEF CallTypes
<1>8. AsAsked'
  <2>1. \A k \in DOMAIN calls' : LastBuilt(k)' => k = Len(calls) + 1
    BY <1>1, <1>2 DEF LastBuilt
  <2>2. protocol'[socketListener'] = p /\ producer'[socketListener'] = w
    BY <1>3 DEF CallTypes
  <2> QED
    BY <1>2, <2>1, <2>2 DEF AsAsked
<1>9. Initialized(Len(calls) + 1)'
  BY <1>1, <1>2 DEF Initialized
<1>10. threads[l] = 0
  BY <1>3 DEF DefinedInv, PointerInv
<1>11. PointerInv'
  <2>1. /\ \A m \in Listener : life'[m] = "unborn" => threads'[m] = 0
        /\ socketListener' /= 0 /\ threads'[socketListener'] = 0
    BY <1>3, <1>4, <1>10 DEF CallTypes, DefinedInv, PointerInv
  <2>2. Orderly' => /\ life'[socketListener'] = "built"
                    /\ \A m \in Listener :
                         threads'[m] > 0 => protocol'[m] = "TCP" /\ producer'[m]
    BY <1>3, <1>4, <1>7, <1>10 DEF CallTypes, DefinedInv, PointerInv
  <2> QED
    BY <1>8, <1>9, <2>1, <2>2 DEF PointerInv
<1> QED
  BY <1>4, <1>5, <1>7, <1>11 DEF DefinedInv, OrderlyIsDefined

\* An orderly Listen finds a TCP listener with a producer, not started.
LEMMA StartableFinds ==
  ASSUME CallTypes, AsAsked, NEW k, k = Len(calls) + 1, Startable(k)
  PROVE  /\ ~StartedSince
         /\ protocol[socketListener] = "TCP" /\ producer[socketListener]
<1>1. /\ Len(calls) \in Nat /\ DOMAIN calls = 1 .. Len(calls)
      /\ k - 1 = Len(calls)
  BY DEF CallTypes
<1>2. PICK i \in 1 .. Len(calls) :
        /\ calls[i] = <<"Initialize", "TCP", TRUE>>
        /\ \A j \in i + 1 .. Len(calls) :
             ~Called(j, "Initialize") /\ ~Called(j, "Listen")
  BY <1>1 DEF Startable
<1>3. Called(i, "Initialize") /\ ~Called(i, "Listen")
  BY <1>2 DEF Called
<1>4. LastBuilt(i)
  BY <1>1, <1>2, <1>3 DEF LastBuilt
<1>5. ~StartedSince
  BY <1>1, <1>2, <1>3 DEF StartedSince
<1>6. <<"Initialize", protocol[socketListener], producer[socketListener]>>
        = <<"Initialize", "TCP", TRUE>>
  BY <1>1, <1>2, <1>4 DEF AsAsked
<1> QED
  BY <1>5, <1>6

\* A second Listen on the same listener is not orderly, nor is one on UDP.
LEMMA ListenDefined ==
  ASSUME CallTypes, DefinedInv, Listen
  PROVE  CallTypes' /\ DefinedInv'
<1> DEFINE name == <<"Listen">>
<1>1. name \in CallName /\ Call(name) /\ name[1] = "Listen"
  BY DEF CallName, Short, Listen
<1>2. /\ Len(calls) \in Nat /\ Len(calls') = Len(calls) + 1
      /\ calls' \in Seq(CallName)
      /\ DOMAIN calls = 1 .. Len(calls) /\ DOMAIN calls' = 1 .. Len(calls) + 1
      /\ \A i \in 1 .. Len(calls) : \A n : Called(i, n)' <=> Called(i, n)
      /\ \A k, n : k = Len(calls) + 1 => (Called(k, n)' <=> name[1] = n)
  BY <1>1, Appended DEF CallTypes
<1>3. \A k \in DOMAIN calls' : k = Len(calls) + 1 =>
        Called(k, "Listen")' /\ ~Called(k, "Initialize")'
  BY <1>1, <1>2
<1>4. /\ socketListener \in Listener /\ life[socketListener] = "built"
      /\ threads' = [threads EXCEPT ![socketListener] = @ + 1]
      /\ undefined' = (undefined \/ threads[socketListener] > 0
                                 \/ protocol[socketListener] = "UDP")
      /\ UNCHANGED <<process, socketListener, life, protocol, producer>>
  BY DEF Listen, Usable, Current, CallTypes, object
<1>5. CallTypes'
  BY <1>2, <1>4 DEF CallTypes
<1>6. Initialized(Len(calls) + 1)' <=> Initialized(Len(calls) + 1)
  BY <1>2, <1>3 DEF Initialized
<1>7. StartedSince'
  BY <1>2, <1>3 DEF StartedSince
<1>8. Orderly' => Orderly
  BY <1>1, OrderlyBefore DEF CallTypes
<1>9. process = "runs" /\ socketListener /= 0
  BY <1>1, <1>4 DEF Call, Listener
<1>10. AsAsked /\ AsAsked'
  BY <1>1, <1>4, <1>9, AsAskedKept DEF DefinedInv, PointerInv
<1>11. Orderly' => /\ ~StartedSince
                   /\ protocol[socketListener] = "TCP"
                   /\ producer[socketListener]
  BY <1>1, <1>10, OrderlyFinds, StartableFinds DEF DefinedInv
<1>12. PointerInv'
  BY <1>4, <1>6, <1>7, <1>8, <1>10, <1>11
  DEF CallTypes, DefinedInv, PointerInv
<1>13. OrderlyIsDefined'
  <2>1. Orderly' => ~(threads[socketListener] > 0)
    BY <1>9, <1>11 DEF DefinedInv, PointerInv
  <2> QED
    BY <1>4, <1>8, <1>11, <2>1 DEF DefinedInv, OrderlyIsDefined
<1> QED
  BY <1>5, <1>12, <1>13 DEF DefinedInv

\* A Release of a listener is not orderly, whatever it finds.
LEMMA ReleaseDefined ==
  ASSUME CallTypes, DefinedInv, Release
  PROVE  CallTypes' /\ DefinedInv'
<1> DEFINE name == <<"Release">>
<1>1. name \in CallName /\ Call(name) /\ name[1] = "Release"
  BY DEF CallName, Short, Release
<1>2. /\ socketListener \in Listener /\ socketListener /= 0
      /\ life' = [life EXCEPT ![socketListener] = "deleted"]
      /\ UNCHANGED <<process, socketListener, protocol, producer, threads>>
  BY DEF Release, Destroyed, Usable, Current, CallTypes
<1>3. ~Orderly'
  BY <1>1, <1>2, OrderlyFinds DEF DefinedInv
<1>4. /\ Len(calls) \in Nat /\ Len(calls') = Len(calls) + 1
      /\ calls' \in Seq(CallName)
      /\ DOMAIN calls = 1 .. Len(calls) /\ DOMAIN calls' = 1 .. Len(calls) + 1
      /\ \A i \in 1 .. Len(calls) : \A n : Called(i, n)' <=> Called(i, n)
      /\ \A k, n : k = Len(calls) + 1 => (Called(k, n)' <=> name[1] = n)
  BY <1>1, Appended DEF CallTypes
<1>5. \A k \in DOMAIN calls' :
        k = Len(calls) + 1 => ~Called(k, "Initialize")'
  BY <1>1, <1>4
<1>6. Initialized(Len(calls) + 1)' <=> Initialized(Len(calls) + 1)
  BY <1>4, <1>5 DEF Initialized
<1>7. StartedSince => StartedSince'
  BY <1>4, <1>5 DEF StartedSince
<1>8. AsAsked => AsAsked'
  BY <1>1, <1>2, AsAskedKept
<1> QED
  BY <1>2, <1>3, <1>4, <1>6, <1>7, <1>8
  DEF CallTypes, DefinedInv, PointerInv, OrderlyIsDefined

\* The other calls.
LEMMA CallOnlyDefined ==
  ASSUME CallTypes, DefinedInv, NEW name \in CallName, CallOnly(name),
         name[1] /= "Initialize", Orderly' /\ undefined' => undefined
  PROVE  CallTypes' /\ DefinedInv'
<1>1. Orderly' => Orderly
  BY OrderlyBefore DEF CallTypes, CallOnly
<1> QED
  BY <1>1, PointerKept DEF DefinedInv, OrderlyIsDefined

LEMMA DefinedNext ==
  ASSUME PortInv, CallTypes, DefinedInv, [Next]_vars
  PROVE  CallTypes' /\ DefinedInv'
<1>1. CASE Use \/ ListenFails
  <2>1. \E name \in {<<"Use">>, <<"ListenFails">>} :
          CallOnly(name) /\ name[1] /= "Initialize"
    BY <1>1 DEF Use, ListenFails, CallOnly, listeners, object
  <2>2. undefined' = undefined
    BY <1>1 DEF Use, ListenFails
  <2> QED
    BY <2>1, <2>2, CallOnlyDefined DEF CallName, Short
<1>2. CASE UseNothing
  <2>1. CallOnly(<<"Use">>) /\ <<"Use">> \in CallName
    BY <1>2 DEF UseNothing, CallOnly, listeners, object, CallName, Short
  <2>2. ~Orderly'
    BY <1>2, <2>1, OrderlyFinds DEF UseNothing, CallOnly, DefinedInv
  <2> QED
    BY <2>1, <2>2, CallOnlyDefined
<1>3. CASE ReleaseNothing
  <2>1. CallOnly(<<"Release">>) /\ <<"Release">> \in CallName
    BY <1>3 DEF ReleaseNothing, CallOnly, listeners, object, CallName, Short
  <2>2. Orderly' => socketListener = 0
    BY <2>1, OrderlyFinds DEF CallOnly, DefinedInv
  <2>3. Orderly' /\ undefined' => undefined
    BY <1>3, <2>2 DEF ReleaseNothing, Current
  <2> QED
    BY <2>1, <2>3, CallOnlyDefined
<1>4. ASSUME NEW id \in MsgId, NEW h \in Handler,
             Register(id, h) \/ Unregister(id, h)
      PROVE  CallTypes' /\ DefinedInv'
  <2>1. <<"Register", id, h>> \in CallName /\ <<"Unregister", id, h>> \in CallName
    BY DEF CallName, Long
  <2>2. \/ CallOnly(<<"Register", id, h>>)
        \/ CallOnly(<<"Unregister", id, h>>)
    BY <1>4 DEF Register, Unregister, CallOnly, listeners, object
  <2>3. undefined' = undefined
    BY <1>4 DEF Register, Unregister
  <2>4. /\ <<"Register", id, h>>[1] /= "Initialize"
        /\ <<"Unregister", id, h>>[1] /= "Initialize"
    OBVIOUS
  <2> QED
    BY <2>1, <2>2, <2>3, <2>4, CallOnlyDefined
<1>5. CASE InitializeFails
  <2>1. <<"Initialize">> \in CallName /\ Call(<<"Initialize">>)
    BY <1>5 DEF CallName, Short, InitializeFails
  <2>2. /\ calls' \in Seq(CallName) /\ process' /= "runs"
        /\ UNCHANGED <<undefined, socketListener, life, protocol, producer,
                       threads>>
    BY <1>5, <2>1, Appended DEF InitializeFails, Ends, object, CallTypes
  <2>3. Orderly' => Orderly
    BY <2>1, OrderlyBefore DEF CallTypes
  <2> QED
    BY <2>2, <2>3 DEF CallTypes, DefinedInv, PointerInv, OrderlyIsDefined
<1>6. CASE \/ \E l \in Listener : Accept(l) \/ Closed(l) \/ Expire(l)
           \/ Crash \/ UNCHANGED vars
  <2>1. NoCall /\ undefined' = undefined
    BY <1>6 DEF NoCall, Accept, Closed, Expire, Crash, Ends, vars, listeners,
                object
  <2> QED
    BY <2>1, KeptByNoCall
<1>7. ASSUME NEW l \in Listener, NoProducer(l) PROVE CallTypes' /\ DefinedInv'
  <2>1. NoCall
    BY <1>7 DEF NoProducer, NoCall, listeners, object
  <2>2. clients[l] > 0 /\ ~producer[l]
    BY <1>7 DEF NoProducer
  <2>3. ~Orderly
    BY <2>2 DEF PortInv, Connected, DefinedInv, PointerInv
  <2> QED
    BY <2>1, <2>3, KeptByNoCall
<1> QED
  BY <1>1, <1>2, <1>3, <1>4, <1>5, <1>6, <1>7, InitializeDefined, ListenDefined,
     ReleaseDefined
  DEF Next, Game, Close, Refuse

(***************************************************************************)
(* A game that calls Listen, Dispatch and Send on an initialized listener, *)
(* starts each once and only one that is TCP and has a producer, and never *)
(* releases one brings no undefined behaviour about by its calls, however  *)
(* many listeners, clients, handlers and failures there are                *)
(* (NetworkManager.cpp:9-33, NetworkManager.hpp:33-35,                     *)
(* UdpListener_Unix.cpp:229-233, TcpListener_Unix.cpp:278).                *)
(***************************************************************************)
THEOREM OrderlyGamesAreDefined == Spec => []OrderlyIsDefined
<1>1. DefinedInv => OrderlyIsDefined
  BY DEF DefinedInv
<1>2. Init => PortTypes /\ PortInv /\ CallTypes /\ DefinedInv
  BY PortInit, DefinedInit
<1>3. PortTypes /\ PortInv /\ CallTypes /\ DefinedInv /\ [Next]_vars
      => (PortTypes /\ PortInv /\ CallTypes /\ DefinedInv)'
  BY PortNext, DefinedNext
<1> QED
  BY <1>1, <1>2, <1>3, PTL DEF Spec

-----------------------------------------------------------------------------
(* The handlers.                                                           *)

HandlerTypes ==
  /\ calls \in Seq(CallName)
  /\ requestHandlerMap = [id \in MsgId |-> requestHandlerMap[id]]

HandlerInv == HandlerTypes /\ HandlersCalled

\* One more call, as the history of a message id and a handler sees it.
LEMMA Remembered ==
  ASSUME calls \in Seq(CallName), NEW name \in CallName, Call(name),
         NEW id \in MsgId, NEW h \in Handler
  PROVE  LET last == Len(calls) + 1 IN
         /\ \A k \in 1 .. Len(calls) : Added(k, id, h)' <=> Added(k, id, h)
         /\ \A k : k = last =>
              (Added(k, id, h)' <=> name = <<"Register", id, h>>)
         /\ \A k \in 1 .. Len(calls) :
              Withdrawn(k, id, h)' <=>
                Withdrawn(k, id, h) \/ name = <<"Unregister", id, h>>
         /\ \A k : k = last => ~Withdrawn(k, id, h)'
<1>1. /\ Len(calls) \in Nat /\ Len(calls') = Len(calls) + 1
      /\ \A i \in 1 .. Len(calls) : calls'[i] = calls[i]
      /\ calls'[Len(calls) + 1] = name
  BY DEF Call
<1>2. \A k \in 1 .. Len(calls) : Added(k, id, h)' <=> Added(k, id, h)
  BY <1>1 DEF Added
<1>3. \A k : k = Len(calls) + 1 =>
        (Added(k, id, h)' <=> name = <<"Register", id, h>>)
  BY <1>1 DEF Added
<1> DEFINE Gone(c, m) == c[m] = <<"Unregister", id, h>>
<1>4. /\ \A m \in 1 .. Len(calls) : Gone(calls', m) <=> Gone(calls, m)
      /\ Gone(calls', Len(calls) + 1) <=> name = <<"Unregister", id, h>>
  BY <1>1
<1>5. /\ \A k : Withdrawn(k, id, h) <=>
                  \E m \in k + 1 .. Len(calls) : Gone(calls, m)
      /\ \A k : Withdrawn(k, id, h)' <=>
                  \E m \in k + 1 .. Len(calls') : Gone(calls', m)
  BY DEF Withdrawn
<1> HIDE DEF Gone
<1>6. \A k \in 1 .. Len(calls) :
        Withdrawn(k, id, h)' <=>
          Withdrawn(k, id, h) \/ name = <<"Unregister", id, h>>
  BY <1>1, <1>4, <1>5
<1>7. \A k : k = Len(calls) + 1 => ~Withdrawn(k, id, h)'
  BY <1>1, <1>5
<1> QED
  BY <1>2, <1>3, <1>6, <1>7

Adds(name, id, h) == name = <<"Register", id, h>>
Withdraws(name, id, h) == name = <<"Unregister", id, h>>

LEMMA FirstAfter ==
  ASSUME calls \in Seq(CallName), NEW name \in CallName, Call(name),
         NEW id \in MsgId
  PROVE  /\ \A k \in 1 .. Len(calls) + 1 :
              FirstAdded(k, id)' <=> FirstAdded(k, id)
         /\ FirstAdded(Len(calls) + 1, id)' <=>
              /\ FirstAdded(Len(calls) + 1, id)
              /\ \A h \in Handler : ~Adds(name, id, h)
<1>1. Len(calls) \in Nat /\ Len(calls') = Len(calls) + 1
  BY DEF Call
<1>2. \A h \in Handler :
        /\ \A k \in 1 .. Len(calls) : Added(k, id, h)' <=> Added(k, id, h)
        /\ \A k : k = Len(calls) + 1 => (Added(k, id, h)' <=> Adds(name, id, h))
  BY Remembered DEF Adds
<1> QED
  BY <1>1, <1>2 DEF FirstAdded

LEMMA ExpectedAfter ==
  ASSUME calls \in Seq(CallName), NEW name \in CallName, Call(name),
         NEW id \in MsgId, NEW h \in Handler
  PROVE  h \in Expected(id)' <=>
           \/ h \in Expected(id) /\ ~Withdraws(name, id, h)
           \/ Adds(name, id, h) /\ ~FirstAdded(Len(calls) + 1, id)
<1>1. /\ Len(calls) \in Nat /\ DOMAIN calls = 1 .. Len(calls)
      /\ DOMAIN calls' = 1 .. Len(calls) + 1
  BY Appended
<1>2. /\ \A k \in 1 .. Len(calls) :
           /\ Added(k, id, h)' <=> Added(k, id, h)
           /\ FirstAdded(k, id)' <=> FirstAdded(k, id)
           /\ Withdrawn(k, id, h)' <=>
                Withdrawn(k, id, h) \/ Withdraws(name, id, h)
      /\ \A k \in DOMAIN calls' : k = Len(calls) + 1 =>
           /\ Added(k, id, h)' <=> Adds(name, id, h)
           /\ FirstAdded(k, id)' <=> FirstAdded(k, id)
           /\ ~Withdrawn(k, id, h)'
  <2>1. \A k \in 1 .. Len(calls) + 1 : FirstAdded(k, id)' <=> FirstAdded(k, id)
    BY FirstAfter
  <2> QED
    BY <1>1, <2>1, Remembered DEF Adds, Withdraws
<1>3. Len(calls) + 1 \in DOMAIN calls' /\ DOMAIN calls \subseteq DOMAIN calls'
  BY <1>1
<1>4. /\ h \in Expected(id) <=>
           \E k \in DOMAIN calls : /\ Added(k, id, h) /\ ~FirstAdded(k, id)
                                   /\ ~Withdrawn(k, id, h)
      /\ h \in Expected(id)' <=>
           \E k \in DOMAIN calls' : /\ Added(k, id, h)' /\ ~FirstAdded(k, id)'
                                    /\ ~Withdrawn(k, id, h)'
  BY DEF Expected
<1>5. Adds(name, id, h) => ~Withdraws(name, id, h)
  BY DEF Adds, Withdraws
<1> QED
  BY <1>1, <1>2, <1>3, <1>4, <1>5

LEMMA HandlerInit == Init => HandlerInv
<1>1. ASSUME Init PROVE HandlerTypes
  BY <1>1 DEF Init, HandlerTypes
<1>2. ASSUME Init PROVE HandlersCalled
  <2>1. \A id \in MsgId : requestHandlerMap[id] = Null
    BY <1>2 DEF Init
  <2>2. \A id \in MsgId : FirstAdded(Len(calls) + 1, id)
    BY <1>2 DEF Init, FirstAdded
  <2> QED
    BY <2>1, <2>2 DEF HandlersCalled
<1> QED
  BY <1>1, <1>2 DEF HandlerInv

\* Neither the map nor, as far as handlers go, the history changes.
LEMMA HandlersKept ==
  ASSUME HandlerInv, NEW name \in CallName, Call(name),
         UNCHANGED requestHandlerMap,
         \A id \in MsgId, h \in Handler :
           ~Adds(name, id, h) /\ ~Withdraws(name, id, h)
  PROVE  HandlerInv'
<1>1. HandlerTypes'
  BY Appended DEF HandlerInv, HandlerTypes
<1>2. ASSUME NEW id \in MsgId
      PROVE  /\ FirstAdded(Len(calls) + 1, id)' <=> FirstAdded(Len(calls) + 1, id)
             /\ Expected(id)' = Expected(id)
  <2>1. Expected(id) \subseteq Handler /\ Expected(id)' \subseteq Handler
    BY DEF Expected
  <2>2. \A h \in Handler : h \in Expected(id)' <=> h \in Expected(id)
    BY ExpectedAfter DEF HandlerInv, HandlerTypes
  <2>3. FirstAdded(Len(calls) + 1, id)' <=> FirstAdded(Len(calls) + 1, id)
    BY FirstAfter DEF HandlerInv, HandlerTypes
  <2> QED
    BY <2>1, <2>2, <2>3
<1> QED
  BY <1>1, <1>2 DEF HandlerInv, HandlersCalled

LEMMA RegisterKeeps ==
  ASSUME HandlerInv, NEW id \in MsgId, NEW h \in Handler, Register(id, h)
  PROVE  HandlerInv'
<1> DEFINE name == <<"Register", id, h>>
<1>1. name \in CallName /\ Call(name)
  BY DEF CallName, Long, Register
<1>2. \A i \in MsgId, g \in Handler :
        /\ Adds(name, i, g) <=> i = id /\ g = h
        /\ ~Withdraws(name, i, g)
  BY DEF Adds, Withdraws
<1> HIDE DEF name
<1>3. /\ calls \in Seq(CallName)
      /\ requestHandlerMap = [i \in MsgId |-> requestHandlerMap[i]]
      /\ requestHandlerMap' =
           [requestHandlerMap EXCEPT ![id] = IF @ = Null THEN {}
                                             ELSE @ \union {h}]
  BY DEF HandlerInv, HandlerTypes, Register
<1>4. HandlerTypes'
  BY <1>1, <1>3, Appended DEF HandlerTypes
<1>5. ASSUME NEW i \in MsgId
      PROVE  /\ Expected(i) \subseteq Handler
             /\ FirstAdded(Len(calls) + 1, i)' <=>
                  FirstAdded(Len(calls) + 1, i) /\ i /= id
             /\ Expected(i)' =
                  IF i = id /\ ~FirstAdded(Len(calls) + 1, i)
                  THEN Expected(i) \union {h} ELSE Expected(i)
  <2>1. Expected(i) \subseteq Handler /\ Expected(i)' \subseteq Handler
    BY DEF Expected
  <2>2. \A g \in Handler :
          g \in Expected(i)' <=>
            \/ g \in Expected(i)
            \/ i = id /\ g = h /\ ~FirstAdded(Len(calls) + 1, i)
    BY <1>1, <1>2, <1>3, ExpectedAfter
  <2>3. FirstAdded(Len(calls) + 1, i)' <=>
          FirstAdded(Len(calls) + 1, i) /\ i /= id
    BY <1>1, <1>2, <1>3, FirstAfter
  <2> QED
    BY <2>1, <2>2, <2>3
<1>6. ASSUME NEW i \in MsgId, FirstAdded(Len(calls) + 1, i)
      PROVE  Expected(i) = {}
  <2>1. DOMAIN calls = 1 .. Len(calls) + 1 - 1
    BY <1>3
  <2> QED
    BY <1>6, <2>1 DEF Expected, FirstAdded
<1>7. \A S \in SUBSET Handler : S /= Null
  BY ManagerAssumption
<1>8. /\ {} \in SUBSET Handler
      /\ \A i \in MsgId : Expected(i) \union {h} \in SUBSET Handler
  BY <1>5
<1>9. HandlersCalled'
  BY <1>3, <1>5, <1>6, <1>7, <1>8 DEF HandlerInv, HandlersCalled
<1> QED
  BY <1>4, <1>9 DEF HandlerInv

LEMMA UnregisterKeeps ==
  ASSUME HandlerInv, NEW id \in MsgId, NEW h \in Handler, Unregister(id, h)
  PROVE  HandlerInv'
<1> DEFINE name == <<"Unregister", id, h>>
<1>1. name \in CallName /\ Call(name)
  BY DEF CallName, Long, Unregister
<1>2. \A i \in MsgId, g \in Handler :
        /\ Withdraws(name, i, g) <=> i = id /\ g = h
        /\ ~Adds(name, i, g)
  BY DEF Adds, Withdraws
<1> HIDE DEF name
<1>3. /\ calls \in Seq(CallName)
      /\ requestHandlerMap = [i \in MsgId |-> requestHandlerMap[i]]
      /\ requestHandlerMap' =
           [requestHandlerMap EXCEPT ![id] = @ \ {h}]
  BY DEF HandlerInv, HandlerTypes, Unregister, Removed
<1>4. HandlerTypes'
  BY <1>1, <1>3, Appended DEF HandlerTypes
<1>5. ASSUME NEW i \in MsgId
      PROVE  /\ Expected(i) \subseteq Handler
             /\ FirstAdded(Len(calls) + 1, i)' <=> FirstAdded(Len(calls) + 1, i)
             /\ Expected(i)' = IF i = id THEN Expected(i) \ {h} ELSE Expected(i)
  <2>1. Expected(i) \subseteq Handler /\ Expected(i)' \subseteq Handler
    BY DEF Expected
  <2>2. \A g \in Handler :
          g \in Expected(i)' <=> g \in Expected(i) /\ ~(i = id /\ g = h)
    BY <1>1, <1>2, <1>3, ExpectedAfter
  <2>3. FirstAdded(Len(calls) + 1, i)' <=> FirstAdded(Len(calls) + 1, i)
    BY <1>1, <1>2, <1>3, FirstAfter
  <2> QED
    BY <2>1, <2>2, <2>3
<1>6. ~FirstAdded(Len(calls) + 1, id)
  <2>1. Registered(id, h)
    BY DEF Unregister
  <2>2. DOMAIN calls = 1 .. Len(calls) + 1 - 1
    BY <1>3
  <2> QED
    BY <2>1, <2>2 DEF Registered, FirstAdded
<1>7. \A S \in SUBSET Handler : S /= Null
  BY ManagerAssumption
<1>8. \A i \in MsgId : Expected(i) \ {h} \in SUBSET Handler
  BY <1>5
<1>9. HandlersCalled'
  BY <1>3, <1>5, <1>6, <1>7, <1>8 DEF HandlerInv, HandlersCalled
<1> QED
  BY <1>4, <1>9 DEF HandlerInv

LEMMA HandlerNext ==
  ASSUME HandlerInv, [Next]_vars
  PROVE  HandlerInv'
<1>0. ASSUME NEW p \in {"TCP", "UDP"}, NEW w \in BOOLEAN, Initialize(p, w)
      PROVE  HandlerInv'
  <2>1. /\ Call(<<"Initialize", p, w>>) /\ UNCHANGED requestHandlerMap
        /\ <<"Initialize", p, w>> \in CallName
    BY <1>0 DEF Initialize, CallName, Built
  <2>2. \A i \in MsgId, g \in Handler :
          /\ ~Adds(<<"Initialize", p, w>>, i, g)
          /\ ~Withdraws(<<"Initialize", p, w>>, i, g)
    BY DEF Adds, Withdraws
  <2> QED
    BY <2>1, <2>2, HandlersKept
<1>1. CASE \/ InitializeFails \/ Listen \/ ListenFails \/ Use \/ UseNothing
           \/ Release \/ ReleaseNothing
  <2>1. PICK n \in {"Initialize", "Listen", "ListenFails", "Use", "Release"} :
          Call(<<n>>) /\ UNCHANGED requestHandlerMap
    BY <1>1 DEF InitializeFails, Ends, Listen, ListenFails, Use,
                UseNothing, Release, ReleaseNothing
  <2>2. <<n>> \in CallName
    BY DEF CallName, Short
  <2>3. \A i \in MsgId, g \in Handler :
          ~Adds(<<n>>, i, g) /\ ~Withdraws(<<n>>, i, g)
    BY DEF Adds, Withdraws
  <2> QED
    BY <2>1, <2>2, <2>3, HandlersKept
<1>2. CASE \E id \in MsgId, h \in Handler : Register(id, h) \/ Unregister(id, h)
  BY <1>2, RegisterKeeps, UnregisterKeeps
<1>3. CASE \/ \E l \in Listener :
                Accept(l) \/ Closed(l) \/ NoProducer(l) \/ Expire(l)
           \/ Crash \/ UNCHANGED vars
  <2>1. UNCHANGED <<requestHandlerMap, calls>>
    BY <1>3 DEF Accept, Closed, NoProducer, Expire, Crash, Ends, vars
  <2>2. \A id \in MsgId :
          /\ Expected(id)' = Expected(id)
          /\ FirstAdded(Len(calls) + 1, id)' <=> FirstAdded(Len(calls) + 1, id)
    BY <2>1 DEF FirstAdded, Expected, Added, Withdrawn
  <2> QED
    BY <2>1, <2>2 DEF HandlerInv, HandlerTypes, HandlersCalled
<1> QED
  BY <1>0, <1>1, <1>2, <1>3 DEF Next, Game, Close, Refuse

(***************************************************************************)
(* Whatever is registered and unregistered, and however often: the         *)
(* handlers that are called are those registered, but for the first of     *)
(* each message id (NetworkManager.hpp:37-60).                             *)
(***************************************************************************)
THEOREM RegisteredHandlersAreCalled == Spec => []HandlersCalled
<1>1. HandlerInv => HandlersCalled
  BY DEF HandlerInv
<1> QED
  BY <1>1, HandlerInit, HandlerNext, PTL DEF Spec

-----------------------------------------------------------------------------
(* The types of all variables; those of the handler map and of the history *)
(* follow from what was shown of them.                                     *)

ListenerTypes ==
  /\ process \in {"runs", "exited", "crashed"} /\ undefined \in BOOLEAN
  /\ socketListener \in 0 .. MaxListeners
  /\ producer \in [Listener -> BOOLEAN]
  /\ garbage \in [Listener -> BOOLEAN]
  /\ socket \in [Listener -> BOOLEAN]
  /\ epoll \in [Listener -> BOOLEAN]
  /\ \A l \in Listener : clients[l] + lingering[l] <= MaxClients
  /\ Len(calls) <= MaxCalls

LEMMA ListenerInit == Init => ListenerTypes
<1> SUFFICES ASSUME Init PROVE ListenerTypes
  OBVIOUS
<1>1. /\ process \in {"runs", "exited", "crashed"} /\ undefined \in BOOLEAN
      /\ producer \in [Listener -> BOOLEAN]
      /\ garbage \in [Listener -> BOOLEAN]
      /\ socket \in [Listener -> BOOLEAN]
      /\ epoll \in [Listener -> BOOLEAN]
  BY DEF Init
<1>2. /\ socketListener \in 0 .. MaxListeners
      /\ \A l \in Listener : clients[l] + lingering[l] <= MaxClients
  BY ManagerAssumption DEF Init
<1>3. Len(calls) <= MaxCalls
  <2>1. Len(calls) = 0
    BY DEF Init
  <2> QED
    BY <2>1, ManagerAssumption
<1> QED
  BY <1>1, <1>2, <1>3 DEF ListenerTypes

LEMMA CallCounts ==
  ASSUME calls \in Seq(CallName), NEW name, Call(name)
  PROVE  Len(calls') <= MaxCalls
  BY ManagerAssumption DEF Call

LEMMA ListenerNext ==
  ASSUME PortTypes, HandlerInv, ListenerTypes, [Next]_vars
  PROVE  ListenerTypes'
<1> USE ManagerAssumption DEF ListenerTypes, PortTypes
<1>c. calls \in Seq(CallName)
  BY DEF HandlerInv, HandlerTypes
<1>a. ASSUME UNCHANGED listeners, process' = process, undefined' \in BOOLEAN,
             Len(calls') <= MaxCalls
      PROVE  ListenerTypes'
  BY <1>a DEF listeners, object, descriptors
<1>b. ASSUME NEW how \in {"exited", "crashed"}, Ends(how),
             Len(calls') <= MaxCalls
      PROVE  ListenerTypes'
  BY <1>b DEF Ends, object
<1>1. ASSUME NEW p \in {"TCP", "UDP"}, NEW w \in BOOLEAN, Initialize(p, w)
      PROVE  ListenerTypes'
  <2>1. PICK l \in Listener :
          /\ socketListener' = l
          /\ producer' = [producer EXCEPT ![l] = w]
          /\ \E memory \in BOOLEAN : garbage' = [garbage EXCEPT ![l] = memory]
          /\ socket' = [socket EXCEPT ![l] = TRUE]
          /\ epoll' = [epoll EXCEPT ![l] = TRUE]
    BY <1>1 DEF Initialize
  <2>2. Len(calls') <= MaxCalls
    BY <1>1, <1>c, CallCounts DEF Initialize
  <2> QED
    BY <1>1, <2>1, <2>2, SMTT(30) DEF Initialize, Listener
<1>2. CASE InitializeFails
  BY <1>2, <1>b, <1>c, CallCounts DEF InitializeFails
<1>3. CASE Listen
  <2>1. Len(calls') <= MaxCalls
    BY <1>3, <1>c, CallCounts DEF Listen
  <2>2. Current \in Listener
    BY <1>3 DEF Listen, Usable, Current, Listener
  <2> QED
    BY <1>3, <2>1, <2>2 DEF Listen, object, descriptors
<1>4. CASE ListenFails \/ Use \/ UseNothing \/ ReleaseNothing
  <2>1. Len(calls') <= MaxCalls
    BY <1>4, <1>c, CallCounts DEF ListenFails, Use, UseNothing, ReleaseNothing
  <2> QED
    BY <1>4, <1>a, <2>1 DEF ListenFails, Use, UseNothing, ReleaseNothing
<1>5. CASE Release
  <2>1. Len(calls') <= MaxCalls
    BY <1>5, <1>c, CallCounts DEF Release
  <2>2. undefined' \in BOOLEAN
    BY <1>5 DEF Release
  <2> QED
    BY <1>5, <2>1, <2>2 DEF Release, Destroyed
<1>6. ASSUME NEW id \in MsgId, NEW h \in Handler,
             Register(id, h) \/ Unregister(id, h)
      PROVE  ListenerTypes'
  <2>1. Len(calls') <= MaxCalls
    BY <1>6, <1>c, CallCounts DEF Register, Unregister
  <2> QED
    BY <1>6, <1>a, <2>1 DEF Register, Unregister
<1>7. ASSUME NEW l \in Listener, Accept(l) PROVE ListenerTypes'
  <2>1. /\ \A m \in Listener : m /= l => clients'[m] = clients[m]
        /\ clients'[l] = clients[l] + 1 /\ lingering' = lingering
        /\ clients[l] \in Nat /\ lingering[l] \in Nat
        /\ clients[l] + lingering[l] < MaxClients
    BY <1>7 DEF Accept
  <2>2. ASSUME NEW m \in Listener
        PROVE  clients'[m] + lingering'[m] <= MaxClients
    <3>1. CASE m = l
      BY <2>1, <3>1
    <3>2. CASE m /= l
      BY <2>1, <3>2
    <3> QED
      BY <3>1, <3>2
  <2> QED
    BY <1>7, <2>2 DEF Accept, object
<1>8. ASSUME NEW l \in Listener, Closed(l) PROVE ListenerTypes'
  BY <1>8 DEF Closed, object
<1>9. ASSUME NEW l \in Listener, NoProducer(l) PROVE ListenerTypes'
  BY <1>9, <1>a DEF NoProducer
<1>10. ASSUME NEW l \in Listener, Expire(l) PROVE ListenerTypes'
  BY <1>10 DEF Expire, object
<1>11. CASE Crash
  BY <1>11, <1>b DEF Crash
<1>12. CASE UNCHANGED vars
  BY <1>12, <1>a DEF vars
<1> QED
  BY <1>1, <1>2, <1>3, <1>4, <1>5, <1>6, <1>7, <1>8, <1>9, <1>10, <1>11, <1>12
  DEF Next, Game, Close, Refuse

(***************************************************************************)
(* The types of all variables, for any listeners, clients and calls: a     *)
(* handler is never taken from a Delegate that is not there, nor a client  *)
(* from a listener that has none (NetworkManager.hpp:37-60).               *)
(***************************************************************************)
THEOREM TypesCorrect == Spec => []TypeOK
<1>1. HandlerInv => /\ DOMAIN requestHandlerMap = MsgId
                    /\ \A id \in MsgId : requestHandlerMap[id] = Null
                         \/ requestHandlerMap[id] \subseteq Handler
  <2>1. \A id \in MsgId : Expected(id) \subseteq Handler
    BY DEF Expected
  <2> QED
    BY <2>1 DEF HandlerInv, HandlerTypes, HandlersCalled
<1>2. PortTypes /\ HandlerInv /\ ListenerTypes => TypeOK
  <2>1. PortTypes /\ ListenerTypes => /\ clients \in [Listener -> 0 .. MaxClients]
                                     /\ lingering \in [Listener -> 0 .. MaxClients]
    BY ManagerAssumption DEF PortTypes, ListenerTypes
  <2> QED
    BY <1>1, <2>1 DEF PortTypes, ListenerTypes, TypeOK
<1>3. Init => PortTypes /\ PortInv /\ HandlerInv /\ ListenerTypes
  BY PortInit, HandlerInit, ListenerInit
<1>4. PortTypes /\ PortInv /\ HandlerInv /\ ListenerTypes /\ [Next]_vars
      => (PortTypes /\ PortInv /\ HandlerInv /\ ListenerTypes)'
  BY PortNext, HandlerNext, ListenerNext
<1> QED
  BY <1>2, <1>3, <1>4, PTL DEF Spec

-----------------------------------------------------------------------------
(***************************************************************************)
(* The UDP listener: harm comes of one race only. Its vectors and its      *)
(* socket, for any number of threads, responses and datagrams.             *)
(***************************************************************************)
LEMMA SenderNames == \A s \in Sender : s /= "free" /\ s /= "send"
  BY UdpAssumption

\* What a step of the send side is.
LEMMA UdpCases ==
  ASSUME UdpNext
  PROVE  \/ /\ raced' = (raced \/ Racing')
            /\ UNCHANGED receiveVars
            /\ \/ \E s \in Sender :
                    \/ SendBegin(s) \/ SendLock(s) \/ SendLoad(s)
                    \/ SendAppend(s) \/ SendFlag(s)
                    \/ SendUnlock(s) \/ SendNotify(s)
               \/ Snapshot \/ Check \/ Sleep \/ Relock
               \/ Swap \/ Reset \/ Unlock \/ Transmit
               \/ RunOff \/ Clear \/ SpuriousWakeup
         \/ (Arrive \/ Receive) /\ UNCHANGED sendVars
  BY DEF UdpNext, Noted, Send, SendResponses

\* Overwriting the element behind the first n.
Overwritten(q, n, x) ==
  SubSeq(q, 1, n) \o <<x>> \o SubSeq(q, n + 2, Len(q))

LEMMA RestLength ==
  ASSUME NEW T, NEW q \in Seq(T), NEW n \in 0 .. Len(q)
  PROVE  /\ SubSeq(q, n + 2, Len(q)) \in Seq(T)
         /\ n = Len(q) => Len(SubSeq(q, n + 2, Len(q))) = 0
         /\ n < Len(q) => Len(SubSeq(q, n + 2, Len(q))) = Len(q) - (n + 1)
  OBVIOUS

LEMMA Overwrite ==
  ASSUME NEW T, NEW q \in Seq(T), NEW n \in 0 .. Len(q), NEW x \in T
  PROVE  /\ Overwritten(q, n, x) \in Seq(T)
         /\ n + 1 <= Len(Overwritten(q, n, x))
         /\ SubSeq(Overwritten(q, n, x), 1, n + 1)
              = Append(SubSeq(q, 1, n), x)
<1> DEFINE b == SubSeq(q, n + 2, Len(q))
           ab == Append(SubSeq(q, 1, n), x)
           w == ab \o b
           c == SubSeq(w, 1, n + 1)
<1>1. ab = SubSeq(q, 1, n) \o <<x>>
  <2>1. SubSeq(q, 1, n) \in Seq(T)
    OBVIOUS
  <2> QED BY ONLY <2>1, x \in T, AppendIsConcat
<1>2. w = Overwritten(q, n, x)
  BY <1>1 DEF Overwritten
<1>3. ab \in Seq(T) /\ Len(ab) = n + 1
  OBVIOUS
<1>4. b \in Seq(T)
  BY RestLength
<1>5. n + 1 \in Nat /\ Len(b) \in Nat
  BY <1>4
<1> HIDE DEF ab, b
<1>6. /\ w \in Seq(T) /\ Len(w) = Len(ab) + Len(b)
      /\ \A i \in 1 .. Len(ab) + Len(b) :
           w[i] = IF i <= Len(ab) THEN ab[i] ELSE b[i - Len(ab)]
  BY ONLY <1>3, <1>4, ConcatProperties
<1> HIDE DEF w
<1>7. n + 1 <= Len(w)
  BY ONLY <1>3, <1>5, <1>6
<1>8. c = ab
  <2>1. c \in Seq(T) /\ Len(c) = n + 1
    BY ONLY <1>5, <1>6, <1>7
  <2>2. ASSUME NEW i \in 1 .. n + 1  PROVE c[i] = ab[i]
    <3>1. c[i] = w[i]
      BY ONLY <1>5, <1>6, <1>7, i \in 1 .. n + 1
    <3>2. i \in 1 .. Len(ab) + Len(b) /\ i <= Len(ab)
      BY ONLY <1>3, <1>5, i \in 1 .. n + 1
    <3> QED BY ONLY <1>6, <3>1, <3>2
  <2> HIDE DEF c
  <2> QED BY ONLY <1>3, <2>1, <2>2, SeqEqual
<1> QED BY <1>2, <1>6, <1>7, <1>8 DEF ab, c

(***************************************************************************)
(* What holds as long as no race was noted. The mutex is held across a     *)
(* Send, which the send thread has then never freed; a push is at the end  *)
(* of the vector the producers use; and the vectors change hands as in     *)
(* ResponseHandoff.                                                        *)
(***************************************************************************)
Holding == {"load", "append", "flag", "unlock"}

UdpTypes ==
  /\ mem \in [Vector -> Seq(Response)]
  /\ size \in [Vector -> Nat]
  /\ \A v \in Vector : size[v] <= Len(mem[v])
  /\ {producerResponses, consumerResponses, temp} \subseteq Vector
  /\ pc \in [Sender -> {"idle", "lock", "notify"} \union Holding]
  /\ resp \in [Sender -> Nat]
  /\ target \in [Sender -> Vector] /\ at \in [Sender -> Nat]
  /\ \A s \in Sender : pc[s] /= "idle" => resp[s] \in Response
  /\ it \in Nat /\ sends \in Nat /\ arrivals \in Nat
  /\ posted \in Seq(Response) /\ transmitted \in Seq(Response)

UdpLock ==
  /\ \A s \in Sender : responseLocker = s <=> pc[s] \in Holding
  /\ responseLocker = "send" =>
       spc \in {"check", "sleep", "swap", "reset", "unlock"}
  /\ ~Racing

UdpPointers ==
  /\ \A s \in Sender :
       pc[s] = "append" => target[s] = producerResponses
                             /\ at[s] = size[producerResponses]
  /\ \/ /\ spc \in {"check", "sleep", "asleep", "woken", "swap"}
        /\ consumerResponses = producerResponses
        /\ temp /= producerResponses
        /\ size[temp] = 0
     \/ /\ spc \in {"idle", "reset", "unlock", "loop"}
        /\ consumerResponses /= producerResponses
        /\ spc = "idle" => size[consumerResponses] = 0
        /\ spc = "loop" => it <= size[consumerResponses]

UdpBatch == IF spc \in {"reset", "unlock", "loop"}
            THEN Contents(consumerResponses) ELSE <<>>

UdpAt == IF spc = "loop" THEN it + 1 ELSE 1

UdpOrder ==
  posted = Queue(transmitted, UdpBatch, UdpAt, Contents(producerResponses))

UdpState == UdpTypes /\ UdpLock /\ UdpPointers

\* The actions of the send thread but those that move a response.
UdpQuiet ==
  \/ Snapshot \/ Check \/ Sleep \/ Relock \/ Reset
  \/ Unlock \/ SpuriousWakeup

\* What each action of the send thread changes.
LEMMA UdpThreadSteps ==
  /\ UdpQuiet => UNCHANGED <<mem, size, sends, pc, resp, target, at, posted,
                             transmitted>>
  /\ Swap => UNCHANGED <<mem, size, consumerResponses, responseLocker,
                             sends, pc, resp, target, at, temp, it, posted,
                             transmitted>>
  /\ Transmit => UNCHANGED <<mem, size, producerResponses,
                       consumerResponses, responseLocker, sends, pc, resp,
                       target, at, spc, temp, posted>>
  /\ Clear => UNCHANGED <<mem, producerResponses, consumerResponses,
                    responseLocker, sends, pc, resp, target, at, temp, it,
                    posted, transmitted>>
  BY DEF UdpQuiet, Snapshot, Check, Sleep, Relock, Swap,
     Reset, Unlock, Transmit, Clear, SpuriousWakeup,
     pointers, mutexVars, senderVars, history

\* The send thread does not run off its vector, and never frees the mutex of a
\* Send: then it would be racing.
LEMMA UdpThreadState ==
  ASSUME UdpState, ~Racing', UNCHANGED arrivals,
         UdpQuiet \/ Swap \/ Transmit \/ RunOff \/ Clear
  PROVE  UdpState' /\ ~RunOff
<1> USE DEF UdpState
<1>1. ~RunOff
  <2> SUFFICES ASSUME RunOff  PROVE FALSE
    OBVIOUS
  <2>1. /\ spc = "loop" /\ it /= size[consumerResponses]
        /\ it >= Len(mem[consumerResponses])
    BY DEF RunOff
  <2>2. it <= size[consumerResponses]
    BY <2>1 DEF UdpPointers
  <2>3. /\ size[consumerResponses] <= Len(mem[consumerResponses])
        /\ size[consumerResponses] \in Nat /\ it \in Nat
        /\ Len(mem[consumerResponses]) \in Nat
    BY DEF UdpTypes
  <2> QED BY <2>1, <2>2, <2>3
<1>2. CASE UdpQuiet
  <2>1. UNCHANGED <<mem, size, sends, pc, resp, target, at, posted, transmitted>>
    BY <1>2, UdpThreadSteps
  <2>2. /\ {producerResponses, consumerResponses, temp}' \subseteq Vector
        /\ it' \in Nat
    BY <1>2 DEF UdpQuiet, UdpTypes, Snapshot, Check, Sleep,
       Relock, Reset, Unlock, SpuriousWakeup, pointers,
       threadVars
  <2>3. UdpTypes'
    BY <2>1, <2>2 DEF UdpTypes
  <2>4. UdpPointers'
    BY <1>2, <2>1 DEF UdpPointers, UdpQuiet, UdpTypes, Snapshot,
       Check, Sleep, Relock, Reset, Unlock,
       SpuriousWakeup, pointers
  <2>5. UdpLock'
    BY <1>2, <2>1, SenderNames DEF UdpLock, Racing, Holding, UdpQuiet,
       Snapshot, Check, Sleep, Relock, Reset, Unlock,
       SpuriousWakeup, mutexVars
  <2> QED BY <1>1, <2>3, <2>4, <2>5
<1>3. CASE Swap
  <2>1. /\ spc = "swap" /\ spc' = "reset" /\ producerResponses' = temp
        /\ UNCHANGED <<mem, size, consumerResponses, responseLocker, sends, pc,
                       resp, target, at, temp, it, posted, transmitted>>
    BY <1>3, UdpThreadSteps DEF Swap
  <2>2. \A s \in Sender : pc[s] \notin Holding
    BY <2>1, SenderNames DEF UdpLock, Racing, Holding
  <2>3. UdpTypes'
    BY <2>1 DEF UdpTypes
  <2>4. UdpPointers'
    BY <2>1, <2>2 DEF UdpPointers, UdpTypes, Holding
  <2>5. UdpLock'
    BY <2>1, SenderNames DEF UdpLock
  <2> QED BY <1>1, <2>3, <2>4, <2>5
<1>4. CASE Transmit
  <2>1. /\ spc = "loop" /\ it' = it + 1 /\ it /= size[consumerResponses]
        /\ it < Len(mem[consumerResponses])
        /\ transmitted' = Append(transmitted, mem[consumerResponses][it + 1])
        /\ UNCHANGED <<mem, size, producerResponses, consumerResponses,
                       responseLocker, sends, pc, resp, target, at, spc, temp,
                       posted>>
    BY <1>4, UdpThreadSteps DEF Transmit
  <2>2. mem[consumerResponses][it + 1] \in Response
    <3>1. mem[consumerResponses] \in Seq(Response) /\ it \in Nat
      BY DEF UdpTypes
    <3>2. it + 1 \in 1 .. Len(mem[consumerResponses])
      BY <2>1, <3>1
    <3> QED BY <3>1, <3>2
  <2>3. transmitted' \in Seq(Response)
    BY <2>1, <2>2 DEF UdpTypes
  <2>4. UdpTypes'
    BY <2>1, <2>3 DEF UdpTypes
  <2>5. it' <= size[consumerResponses]
    BY <2>1 DEF UdpPointers, UdpTypes
  <2>6. UdpPointers'
    BY <2>1, <2>5 DEF UdpPointers
  <2>7. UdpLock'
    BY <2>1, SenderNames DEF UdpLock
  <2> QED BY <1>1, <2>4, <2>6, <2>7
<1>5. CASE Clear
  <2>1. /\ spc = "loop" /\ spc' = "idle"
        /\ size' = [size EXCEPT ![consumerResponses] = 0]
        /\ UNCHANGED <<mem, producerResponses, consumerResponses,
                       responseLocker, sends, pc, resp, target, at, temp, it,
                       posted, transmitted>>
    BY <1>5, UdpThreadSteps DEF Clear
  <2>2. UdpTypes'
    BY <2>1 DEF UdpTypes
  <2>3. UdpPointers'
    BY <2>1 DEF UdpPointers, UdpTypes
  <2>4. UdpLock'
    BY <2>1, SenderNames DEF UdpLock
  <2> QED BY <1>1, <2>2, <2>3, <2>4
<1> QED BY <1>1, <1>2, <1>3, <1>4, <1>5

\* What each step of a Send changes; UNCHANGED is said of all the rest.
LEMMA UdpSendState ==
  ASSUME UdpState, ~Racing', UNCHANGED arrivals,
         NEW s \in Sender,
         \/ SendBegin(s) \/ SendLock(s) \/ SendLoad(s)
         \/ SendAppend(s) \/ SendFlag(s) \/ SendUnlock(s)
         \/ SendNotify(s)
  PROVE  UdpState'
<1> USE DEF UdpState
<1>1. CASE SendBegin(s)
  <2>1. /\ pc[s] = "idle" /\ sends' = sends + 1 /\ sends + arrivals < MaxEvents
        /\ resp' = [resp EXCEPT ![s] = sends'] /\ pc' = [pc EXCEPT ![s] = "lock"]
        /\ UNCHANGED <<mem, size, producerResponses, consumerResponses,
                       responseLocker, target, at, spc, temp, it, posted,
                       transmitted>>
    BY <1>1 DEF SendBegin, pointers, mutexVars, threadVars,
                history
  <2>2. sends' \in Response /\ sends' \in Nat
    BY <2>1, UdpAssumption DEF UdpTypes, Response
  <2>3. UdpTypes'  BY <2>1, <2>2 DEF UdpTypes
  <2>4. UdpPointers'  BY <2>1 DEF UdpPointers, UdpTypes
  <2>5. UdpLock'  BY <2>1, SenderNames DEF UdpLock, UdpTypes, Holding
  <2> QED BY <2>3, <2>4, <2>5
<1>2. CASE SendLock(s)
  <2>1. /\ pc[s] = "lock" /\ pc' = [pc EXCEPT ![s] = "load"]
        /\ responseLocker = "free" /\ responseLocker' = s
        /\ UNCHANGED <<mem, size, producerResponses, consumerResponses, sends,
                       resp, target, at, spc, temp, it, posted, transmitted>>
    BY <1>2 DEF SendLock, pointers, threadVars, history
  <2>3. UdpTypes'  BY <2>1 DEF UdpTypes, Holding
  <2>4. UdpPointers'  BY <2>1 DEF UdpPointers, UdpTypes
  <2>5. UdpLock'  BY <2>1, SenderNames, SMTT(30) DEF UdpLock, UdpTypes, Holding
  <2> QED BY <2>3, <2>4, <2>5
<1>3. CASE SendLoad(s)
  <2>1. /\ pc[s] = "load" /\ pc' = [pc EXCEPT ![s] = "append"]
        /\ target' = [target EXCEPT ![s] = producerResponses]
        /\ at' = [at EXCEPT ![s] = size[producerResponses]]
        /\ UNCHANGED <<mem, size, producerResponses, consumerResponses,
                       responseLocker, sends, resp, spc, temp, it, posted,
                       transmitted>>
    BY <1>3 DEF SendLoad, pointers, mutexVars, threadVars,
                history
  <2>3. UdpTypes'  BY <2>1 DEF UdpTypes, Holding
  <2>4. UdpPointers'  BY <2>1 DEF UdpPointers, UdpTypes
  <2>5. UdpLock'  BY <2>1, SenderNames DEF UdpLock, UdpTypes, Holding
  <2> QED BY <2>3, <2>4, <2>5
<1>4. CASE SendAppend(s)
  <2> DEFINE v == producerResponses
             q == mem[v]
             n == size[v]
             x == resp[s]
             w == Overwritten(q, n, x)
  <2>0. pc[s] = "append" /\ target[s] = v /\ at[s] = n
    BY <1>4 DEF SendAppend, UdpPointers
  <2>1. /\ pc' = [pc EXCEPT ![s] = "flag"]
        /\ mem' = [mem EXCEPT ![v] = w] /\ size' = [size EXCEPT ![v] = n + 1]
        /\ posted' = Append(posted, x)
        /\ UNCHANGED <<producerResponses, consumerResponses, responseLocker,
                       sends, resp, target, at, spc, temp, it, transmitted>>
    BY <1>4, <2>0 DEF SendAppend, pointers, mutexVars,
                      threadVars, Overwritten
  <2>2. /\ v \in Vector /\ q \in Seq(Response) /\ n \in 0 .. Len(q)
        /\ x \in Response /\ posted \in Seq(Response)
    BY <2>0 DEF UdpTypes
  <2>3. w \in Seq(Response) /\ n + 1 <= Len(w) /\ n + 1 \in Nat
    <3>1. n \in 0 .. Len(q) /\ q \in Seq(Response) /\ x \in Response
      BY <2>2
    <3> HIDE DEF q, n, x
    <3>2. w \in Seq(Response) /\ n + 1 <= Len(w)
      BY ONLY <3>1, Overwrite
    <3>3. n + 1 \in Nat
      BY <3>1
    <3> QED BY ONLY <3>2, <3>3
  <2> HIDE DEF w
  <2>4. posted' \in Seq(Response)
    BY <2>1, <2>2
  <2>5. UdpTypes'
    BY <2>1, <2>2, <2>3, <2>4 DEF UdpTypes, Holding
  <2>6. UdpLock'
    BY <2>0, <2>1, SenderNames DEF UdpLock, UdpTypes, Holding
  <2>7. \A t \in Sender : pc'[t] /= "append"
    BY <2>0, <2>1, SenderNames DEF UdpLock, UdpTypes, Holding
  <2>8. UdpPointers'
    BY <2>1, <2>7 DEF UdpPointers, UdpTypes
  <2> QED BY <2>5, <2>6, <2>8
<1>5. CASE SendFlag(s)
  <2>1. /\ pc[s] = "flag" /\ pc' = [pc EXCEPT ![s] = "unlock"]
        /\ UNCHANGED <<mem, size, producerResponses, consumerResponses,
                       responseLocker, sends, resp, target, at, spc, temp, it,
                       posted, transmitted>>
    BY <1>5 DEF SendFlag, pointers, threadVars, history
  <2>3. UdpTypes'  BY <2>1 DEF UdpTypes, Holding
  <2>4. UdpPointers'  BY <2>1 DEF UdpPointers, UdpTypes
  <2>5. UdpLock'  BY <2>1, SenderNames DEF UdpLock, UdpTypes, Holding
  <2> QED BY <2>3, <2>4, <2>5
<1>6. CASE SendUnlock(s)
  <2>1. /\ pc[s] = "unlock" /\ pc' = [pc EXCEPT ![s] = "notify"]
        /\ responseLocker' = "free"
        /\ UNCHANGED <<mem, size, producerResponses, consumerResponses, sends,
                       resp, target, at, spc, temp, it, posted, transmitted>>
    BY <1>6 DEF SendUnlock, pointers, threadVars, history
  <2>3. UdpTypes'  BY <2>1 DEF UdpTypes, Holding
  <2>4. UdpPointers'  BY <2>1 DEF UdpPointers, UdpTypes
  <2>5. UdpLock'  BY <2>1, SenderNames DEF UdpLock, UdpTypes, Holding
  <2> QED BY <2>3, <2>4, <2>5
<1>7. CASE SendNotify(s)
  <2>1. /\ pc[s] = "notify" /\ pc' = [pc EXCEPT ![s] = "idle"]
        /\ spc' = IF spc = "asleep" THEN "woken" ELSE spc
        /\ resp' = [resp EXCEPT ![s] = 0]
        /\ UNCHANGED <<mem, size, producerResponses, consumerResponses,
                       responseLocker, sends, target, at, temp, it, posted,
                       transmitted>>
    BY <1>7 DEF SendNotify, pointers, mutexVars, history,
                NoResponse
  <2>3. UdpTypes'  BY <2>1 DEF UdpTypes, Holding
  <2>4. UdpPointers'  BY <2>1 DEF UdpPointers, UdpTypes
  <2>5. UdpLock'  BY <2>1, SenderNames DEF UdpLock, UdpTypes, Holding
  <2> QED BY <2>3, <2>4, <2>5
<1> QED BY <1>1, <1>2, <1>3, <1>4, <1>5, <1>6, <1>7

\* What a push leaves in its vector, and in the other one.
LEMMA UdpPushed ==
  ASSUME UdpState, NEW s \in Sender, SendAppend(s)
  PROVE  /\ Contents(producerResponses)'
              = Append(Contents(producerResponses), resp[s])
         /\ consumerResponses /= producerResponses =>
              UNCHANGED Contents(consumerResponses)
         /\ posted' = Append(posted, resp[s]) /\ resp[s] \in Response
         /\ UNCHANGED <<producerResponses, consumerResponses, spc, it,
                        transmitted>>
<1> USE DEF UdpState
<1> DEFINE v == producerResponses
           q == mem[v]
           n == size[v]
           x == resp[s]
           w == Overwritten(q, n, x)
<1>0. pc[s] = "append" /\ target[s] = v /\ at[s] = n
  BY DEF SendAppend, UdpPointers
<1>1. /\ mem' = [mem EXCEPT ![v] = w] /\ size' = [size EXCEPT ![v] = n + 1]
      /\ posted' = Append(posted, x)
      /\ UNCHANGED <<producerResponses, consumerResponses, spc, it, transmitted>>
  BY <1>0 DEF SendAppend, pointers, threadVars, Overwritten
<1>2. /\ v \in Vector /\ q \in Seq(Response) /\ n \in 0 .. Len(q)
      /\ x \in Response
  BY <1>0 DEF UdpTypes
<1>3. SubSeq(w, 1, n + 1) = Append(SubSeq(q, 1, n), x)
  <2>1. n \in 0 .. Len(q) /\ q \in Seq(Response) /\ x \in Response
    BY <1>2
  <2> HIDE DEF q, n, x
  <2> QED BY ONLY <2>1, Overwrite
<1> HIDE DEF w
<1>4. mem'[v'] = w /\ size'[v'] = n + 1
  BY <1>1, <1>2 DEF UdpTypes
<1>5. Contents(v)' = Append(Contents(v), x)
  BY <1>3, <1>4 DEF Contents
<1>6. consumerResponses /= v => UNCHANGED Contents(consumerResponses)
  BY <1>1 DEF Contents, UdpTypes
<1> QED BY <1>1, <1>2, <1>5, <1>6

UdpBox == Contents(producerResponses)

LEMMA UdpContents ==
  ASSUME UdpState, NEW v \in Vector
  PROVE  Contents(v) \in Seq(Response) /\ Len(Contents(v)) = size[v]
<1>1. /\ mem[v] \in Seq(Response) /\ size[v] \in Nat
      /\ size[v] <= Len(mem[v])
  BY DEF UdpState, UdpTypes
<1> QED BY <1>1 DEF Contents

LEMMA UdpQueueTypes ==
  ASSUME UdpState
  PROVE  /\ UdpBox \in Seq(Response) /\ UdpBatch \in Seq(Response)
         /\ transmitted \in Seq(Response) /\ UdpAt \in Nat \ {0}
<1>1. UdpBox \in Seq(Response)
  BY UdpContents DEF UdpBox, UdpState, UdpTypes
<1>2. UdpBatch \in Seq(Response)
  <2>1. Contents(consumerResponses) \in Seq(Response)
    BY UdpContents DEF UdpState, UdpTypes
  <2> QED BY <2>1 DEF UdpBatch
<1> QED BY <1>1, <1>2 DEF UdpAt, UdpState, UdpTypes

\* A push, a swap, a transmission and a clear each move a part of the queue.
LEMMA UdpStepOrder ==
  ASSUME UdpState, UdpOrder, ~Racing',
         \/ UdpQuiet \/ Swap \/ Transmit \/ Clear
         \/ \E s \in Sender :
              \/ SendBegin(s) \/ SendLock(s) \/ SendLoad(s)
              \/ SendAppend(s) \/ SendFlag(s) \/ SendUnlock(s)
              \/ SendNotify(s)
  PROVE  UdpOrder'
<1>0. /\ UdpBox \in Seq(Response) /\ UdpBatch \in Seq(Response)
      /\ transmitted \in Seq(Response) /\ UdpAt \in Nat \ {0}
  BY UdpQueueTypes
<1>i. posted = Queue(transmitted, UdpBatch, UdpAt, UdpBox)
  BY DEF UdpOrder, UdpBox
<1>1. ASSUME UNCHANGED <<UdpBatch, UdpAt, UdpBox, transmitted, posted>>
      PROVE  UdpOrder'
  BY <1>1, <1>i DEF UdpOrder, UdpBox
<1>2. CASE UdpQuiet
  <2>1. UNCHANGED <<mem, size, transmitted, posted>>
    BY <1>2, UdpThreadSteps
  <2>2. UNCHANGED producerResponses
    BY <1>2 DEF UdpQuiet, Snapshot, Check, Sleep, Relock,
       Reset, Unlock, SpuriousWakeup, pointers
  <2>3. UNCHANGED UdpBox
    BY <2>1, <2>2 DEF UdpBox, Contents
  <2>4. UNCHANGED <<UdpBatch, UdpAt>>
    BY <1>2, <2>1 DEF UdpBatch, UdpAt, Contents, UdpQuiet, Snapshot,
       Check, Sleep, Relock, Reset, Unlock,
       SpuriousWakeup, pointers
  <2> QED BY <1>1, <2>1, <2>3, <2>4
<1>3. CASE Swap
  <2>1. /\ spc = "swap" /\ spc' = "reset" /\ producerResponses' = temp
        /\ UNCHANGED <<mem, size, consumerResponses, posted, transmitted>>
    BY <1>3, UdpThreadSteps DEF Swap
  <2>2. /\ consumerResponses = producerResponses
        /\ size[temp] = 0 /\ temp \in Vector
    BY <2>1 DEF UdpState, UdpPointers, UdpTypes
  <2>3. UdpBatch = <<>> /\ UdpAt = 1
    BY <2>1 DEF UdpBatch, UdpAt
  <2>4. UdpBatch' = UdpBox /\ UdpAt' = 1
    BY <2>1, <2>2 DEF UdpBatch, UdpAt, UdpBox, Contents
  <2>5. UdpBox' = <<>>
    <3>1. Contents(temp) \in Seq(Response)
          /\ Len(Contents(temp)) = 0
      BY <2>2, UdpContents
    <3>2. UdpBox' = Contents(temp)
      BY <2>1 DEF UdpBox, Contents
    <3> QED BY <3>1, <3>2, EmptySeq
  <2>6. Queue(transmitted, <<>>, 1, UdpBox) = Queue(transmitted, UdpBox, 1, <<>>)
    BY ONLY <1>0, QueueCollect
  <2> QED BY <1>i, <2>1, <2>3, <2>4, <2>5, <2>6 DEF UdpOrder, UdpBox
<1>4. CASE Transmit
  <2>1. /\ spc = "loop" /\ spc' = "loop" /\ it /= size[consumerResponses]
        /\ it' = it + 1
        /\ transmitted' = Append(transmitted, mem[consumerResponses][it + 1])
        /\ UNCHANGED <<mem, size, producerResponses, consumerResponses, posted>>
    BY <1>4, UdpThreadSteps DEF Transmit
  <2>2. UdpAt = it + 1 /\ UdpAt' = UdpAt + 1
    BY <2>1 DEF UdpAt
  <2>3. UNCHANGED <<UdpBatch, UdpBox>>
    BY <2>1 DEF UdpBatch, UdpBox, Contents
  <2>4. UdpAt \in 1 .. Len(UdpBatch) /\ UdpBatch[UdpAt]
                                          = mem[consumerResponses][it + 1]
    <3>1. /\ mem[consumerResponses] \in Seq(Response) /\ it \in Nat
          /\ size[consumerResponses] \in Nat
          /\ size[consumerResponses] <= Len(mem[consumerResponses])
          /\ it <= size[consumerResponses]
      BY <2>1 DEF UdpState, UdpTypes, UdpPointers
    <3>2. UdpBatch = SubSeq(mem[consumerResponses], 1, size[consumerResponses])
      BY <2>1 DEF UdpBatch, Contents
    <3> QED BY <2>1, <2>2, <3>1, <3>2
  <2>5. Queue(transmitted, UdpBatch, UdpAt, UdpBox)
          = Queue(Append(transmitted, UdpBatch[UdpAt]), UdpBatch, UdpAt + 1,
                  UdpBox)
    BY ONLY <1>0, <2>4, QueueConsume
  <2> QED BY <1>i, <2>1, <2>2, <2>3, <2>4, <2>5 DEF UdpOrder, UdpBox
<1>5. CASE Clear
  <2>1. /\ spc = "loop" /\ spc' = "idle" /\ it = size[consumerResponses]
        /\ size' = [size EXCEPT ![consumerResponses] = 0]
        /\ UNCHANGED <<mem, producerResponses, consumerResponses, posted,
                       transmitted>>
    BY <1>5, UdpThreadSteps DEF Clear
  <2>2. consumerResponses /= producerResponses
        /\ {consumerResponses, producerResponses} \subseteq Vector
    BY <2>1 DEF UdpState, UdpPointers, UdpTypes
  <2>3. UdpBatch' = <<>> /\ UdpAt' = 1
    BY <2>1 DEF UdpBatch, UdpAt
  <2>4. UNCHANGED UdpBox
    BY <2>1, <2>2 DEF UdpBox, Contents, UdpState, UdpTypes
  <2>5. UdpAt = Len(UdpBatch) + 1
    <3>1. UdpBatch = Contents(consumerResponses) /\ UdpAt = it + 1
      BY <2>1 DEF UdpBatch, UdpAt
    <3> QED BY <2>1, <2>2, <3>1, UdpContents
  <2>6. Queue(transmitted, UdpBatch, Len(UdpBatch) + 1, UdpBox)
          = Queue(transmitted, <<>>, 1, UdpBox)
    BY ONLY <1>0, QueueRetire
  <2> QED BY <1>i, <2>1, <2>3, <2>4, <2>5, <2>6 DEF UdpOrder, UdpBox
<1>6. ASSUME NEW s \in Sender, SendAppend(s)  PROVE UdpOrder'
  <2>1. /\ UdpBox' = Append(UdpBox, resp[s])
        /\ posted' = Append(posted, resp[s]) /\ resp[s] \in Response
        /\ UNCHANGED <<producerResponses, consumerResponses, spc, it,
                       transmitted>>
        /\ consumerResponses /= producerResponses =>
             UNCHANGED Contents(consumerResponses)
    BY <1>6, UdpPushed DEF UdpBox
  <2>2. UNCHANGED <<UdpBatch, UdpAt>>
    BY <2>1 DEF UdpBatch, UdpAt, UdpState, UdpPointers
  <2>3. Queue(transmitted, UdpBatch, UdpAt, Append(UdpBox, resp[s]))
          = Append(Queue(transmitted, UdpBatch, UdpAt, UdpBox), resp[s])
    BY ONLY <1>0, <2>1, QueuePost
  <2> QED BY <1>i, <2>1, <2>2, <2>3 DEF UdpOrder, UdpBox
<1>7. ASSUME NEW s \in Sender,
             \/ SendBegin(s) \/ SendLock(s) \/ SendLoad(s)
             \/ SendFlag(s) \/ SendUnlock(s) \/ SendNotify(s)
      PROVE  UdpOrder'
  <2>1. /\ UNCHANGED <<mem, size, producerResponses, consumerResponses, it,
                       transmitted, posted>>
        /\ \/ UNCHANGED spc
           \/ spc = "asleep" /\ spc' = "woken"
    BY <1>7 DEF SendBegin, SendLock, SendLoad, SendFlag,
       SendUnlock, SendNotify, pointers, threadVars,
       history
  <2>2. UNCHANGED <<UdpBatch, UdpAt, UdpBox>>
    BY <2>1 DEF UdpBatch, UdpAt, UdpBox, Contents
  <2> QED BY <1>1, <2>1, <2>2
<1> QED BY <1>2, <1>3, <1>4, <1>5, <1>6, <1>7

(***************************************************************************)
(* The invariant: the state is the expected one unless a race was noted.   *)
(* raced is never taken back, so that a step which ends without it began   *)
(* without it, and did not end in a race.                                  *)
(***************************************************************************)
UdpInv == ~raced => UdpState /\ UdpOrder

LEMMA UdpInvInit == UdpInit => UdpInv
<1> SUFFICES ASSUME UdpInit  PROVE UdpState /\ UdpOrder
  BY DEF UdpInv
<1>1. UdpTypes
  BY DEF UdpInit, UdpTypes, Vector, NoResponse
<1>2. UdpLock
  BY SenderNames DEF UdpInit, UdpLock, Racing, Holding
<1>3. UdpPointers
  BY DEF UdpInit, UdpPointers, Vector
<1>4. UdpOrder
  <2>1. /\ posted = <<>> /\ transmitted = <<>> /\ UdpBatch = <<>> /\ UdpAt = 1
        /\ mem[producerResponses] = <<>> /\ size[producerResponses] = 0
    BY DEF UdpInit, UdpBatch, UdpAt, Vector
  <2>2. Contents(producerResponses) = <<>>
    BY <2>1 DEF Contents
  <2>3. Queue(<<>>, <<>>, 1, <<>>) = <<>>
    BY DEF Queue
  <2> QED BY <2>1, <2>2, <2>3 DEF UdpOrder
<1> QED BY <1>1, <1>2, <1>3, <1>4 DEF UdpState

\* Datagrams that come and are thrown away leave the send side alone.
LEMMA UdpReceives ==
  ASSUME Arrive \/ Receive, UNCHANGED sendVars, UdpInv
  PROVE  UdpInv'
<1> SUFFICES ASSUME UdpState, UdpOrder, ~raced'  PROVE (UdpState /\ UdpOrder)'
  BY DEF UdpInv, sendVars
<1>1. arrivals \in Nat => arrivals' \in Nat
  BY DEF Arrive, Receive, EpollWait, ReceiveOne,
     ReceiveEmpty, ReceiveFails
<1>2. UNCHANGED <<mem, size, producerResponses, consumerResponses,
                  responseLocker, sends, pc, resp, target, at, spc, temp, it,
                  posted, transmitted>>
  BY DEF sendVars, pointers, mutexVars, senderVars,
     threadVars, history
<1>3. UdpTypes'
  BY <1>1, <1>2 DEF UdpState, UdpTypes
<1>4. UdpLock'
  BY <1>2 DEF UdpState, UdpLock, Racing
<1>5. UdpPointers'
  BY <1>2 DEF UdpState, UdpPointers
<1>6. UdpOrder'
  BY <1>2 DEF UdpOrder, UdpBatch, UdpAt, Contents
<1> QED BY <1>3, <1>4, <1>5, <1>6 DEF UdpState

LEMMA UdpInvNext ==
  ASSUME UdpInv, [UdpNext]_udpVars
  PROVE  UdpInv'
<1>1. CASE (Arrive \/ Receive) /\ UNCHANGED sendVars
  BY <1>1, UdpReceives
<1>2. CASE UNCHANGED udpVars
  BY <1>2 DEF udpVars, sendVars, receiveVars, pointers,
     mutexVars, senderVars, threadVars, history, UdpInv,
     UdpState, UdpTypes, UdpLock, UdpPointers, UdpOrder, UdpBatch, UdpAt,
     Contents, Racing
<1>3. ASSUME raced' = (raced \/ Racing'), UNCHANGED receiveVars,
             NEW s \in Sender,
             \/ SendBegin(s) \/ SendLock(s) \/ SendLoad(s)
             \/ SendAppend(s) \/ SendFlag(s) \/ SendUnlock(s)
             \/ SendNotify(s)
      PROVE  UdpInv'
  <2> SUFFICES ASSUME ~raced'  PROVE (UdpState /\ UdpOrder)'
    BY DEF UdpInv
  <2>1. UdpState /\ UdpOrder /\ ~Racing' /\ UNCHANGED arrivals
    BY <1>3 DEF UdpInv, receiveVars
  <2>2. UdpState'
    BY <1>3, <2>1, UdpSendState
  <2>3. UdpOrder'
    BY <1>3, <2>1, UdpStepOrder
  <2> QED BY <2>2, <2>3
<1>4. ASSUME raced' = (raced \/ Racing'), UNCHANGED receiveVars,
             UdpQuiet \/ Swap \/ Transmit \/ RunOff \/ Clear
      PROVE  UdpInv'
  <2> SUFFICES ASSUME ~raced'  PROVE (UdpState /\ UdpOrder)'
    BY DEF UdpInv
  <2>1. UdpState /\ UdpOrder /\ ~Racing' /\ UNCHANGED arrivals
    BY <1>4 DEF UdpInv, receiveVars
  <2>2. UdpState' /\ ~RunOff
    BY <1>4, <2>1, UdpThreadState
  <2>3. UdpOrder'
    BY <1>4, <2>1, <2>2, UdpStepOrder
  <2> QED BY <2>2, <2>3
<1> QED
  BY <1>1, <1>2, <1>3, <1>4, UdpCases DEF UdpQuiet

\* The queue, as HarmOnlyByRace writes it.
LEMMA UdpQueueIsOutstanding ==
  ASSUME UdpState
  PROVE  Queue(transmitted, UdpBatch, UdpAt, UdpBox)
           = transmitted \o Outstanding
<1>1. /\ UdpBox \in Seq(Response)
      /\ Contents(consumerResponses) \in Seq(Response)
      /\ Len(Contents(consumerResponses)) = size[consumerResponses]
  BY UdpContents DEF UdpBox, UdpState, UdpTypes
<1>2. CASE spc = "loop"
  BY <1>1, <1>2 DEF Queue, UdpBatch, UdpAt, UdpBox, Outstanding
<1>3. CASE spc \in {"reset", "unlock"}
  <2>1. SubSeq(UdpBatch, 1, Len(UdpBatch)) = UdpBatch /\ UdpAt = 1
    <3>1. UdpBatch \in Seq(Response)
      BY <1>1, <1>3 DEF UdpBatch
    <3> QED BY <1>3, <3>1, SubSeqFull DEF UdpAt
  <2> QED BY <1>3, <2>1 DEF Queue, UdpBatch, UdpBox, Outstanding
<1>4. CASE spc \notin {"loop", "reset", "unlock"}
  <2>1. SubSeq(UdpBatch, UdpAt, Len(UdpBatch)) = <<>>
    BY <1>4, SubSeqEmpty DEF UdpBatch, UdpAt
  <2>2. <<>> \o UdpBox = UdpBox
    BY <1>1, ConcatEmptySeq
  <2>3. Outstanding = UdpBox
    BY <1>4 DEF Outstanding, UdpBox
  <2> QED BY <2>1, <2>2, <2>3 DEF Queue
<1> QED BY <1>2, <1>3, <1>4

\* For any number of threads and sends, the UDP listener loses, repeats or
\* reorders a response only after a Send was inside its lock while the send
\* thread went on without it (UdpListener_Unix.cpp:133-141, 205-259).
THEOREM HarmComesOfARace == UdpSpec => []HarmOnlyByRace
<1>1. UdpInit => UdpInv
  BY UdpInvInit
<1>2. UdpInv /\ [UdpNext]_udpVars => UdpInv'
  BY UdpInvNext
<1>3. UdpInv => HarmOnlyByRace
  BY UdpQueueIsOutstanding DEF UdpInv, UdpOrder, UdpBox, HarmOnlyByRace
<1> QED BY <1>1, <1>2, <1>3, PTL DEF UdpSpec

\* However datagrams, events and errors interleave, the UDP socket keeps a
\* datagram only until the next edge, and only after an unexpected error
\* (UdpListener_Unix.cpp:147-203).
THEOREM SocketIsDrained == UdpSpec => []SocketDrained
<1>1. UdpInit => SocketDrained
  BY DEF UdpInit, SocketDrained
<1>2. SocketDrained /\ [UdpNext]_udpVars => SocketDrained'
  <2> SUFFICES ASSUME SocketDrained, [UdpNext]_udpVars
               PROVE  SocketDrained'
    OBVIOUS
  <2>1. ASSUME UNCHANGED receiveVars  PROVE SocketDrained'
    BY <2>1 DEF SocketDrained, receiveVars
  <2>2. CASE Arrive \/ Receive
    BY <2>2 DEF SocketDrained, Arrive, Receive, EpollWait,
       ReceiveOne, ReceiveEmpty, ReceiveFails
  <2>3. CASE UNCHANGED udpVars
    BY <2>1, <2>3 DEF udpVars
  <2> QED BY <2>1, <2>2, <2>3, UdpCases
<1> QED BY <1>1, <1>2, PTL DEF UdpSpec
=============================================================================

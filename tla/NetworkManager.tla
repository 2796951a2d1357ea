--------------------------- MODULE NetworkManager ---------------------------
(***************************************************************************)
(* NetworkManager: the listener it creates, starts and deletes, with the   *)
(* constructors, Listen and the destructors of both listeners, and the     *)
(* handlers it registers. What a listener does while it lives is in the    *)
(* other modules.                                                          *)
(*                                                                         *)
(* Where the calls of the game lead to undefined behaviour, the process    *)
(* either ends, at once or later, or goes on as the source reads. How it   *)
(* goes on with a UDP listener, whose send thread waits without owning the *)
(* lock, is in UdpListener.                                                *)
(***************************************************************************)
EXTENDS Naturals, Sequences, SequencesExt

CONSTANTS
  MsgId, Handler,
  Null,           \* no Delegate
  MaxListeners,   \* bound: listeners that are ever built
  MaxClients,     \* bound: TCP connections of one listener at a time
  MaxCalls        \* bound: calls of NetworkManager

ASSUME ManagerAssumption ==
  /\ \A del \in SUBSET Handler : del /= Null
  /\ MaxListeners \in Nat /\ MaxClients \in Nat /\ MaxCalls \in Nat

Listener == 1 .. MaxListeners

VARIABLES
  process,            \* "runs", "exited" or "crashed"
  undefined,          \* something undefined has happened
  socketListener,     \* the listener pointed to; 0 is nullptr
  life, protocol, producer,     \* per listener: object, config
  garbage,            \* the thread pointers' memory does not read as nullptr
  threads,            \* pairs of threads started on the object
  socket, epoll,      \* its descriptors are open
  clients,            \* accepted connections that are open
  lingering,          \* connections that are closed and that the kernel keeps
  requestHandlerMap,  \* the Delegate of each message id
  calls               \* history: the calls of the game that had an effect

object == <<life, protocol, producer, garbage>>
descriptors == <<socket, epoll, clients, lingering>>
listeners == <<socketListener, object, threads, descriptors>>
vars == <<process, undefined, listeners, requestHandlerMap, calls>>

Init ==
  /\ process = "runs" /\ undefined = FALSE
  /\ socketListener = 0
  /\ life = [l \in Listener |-> "unborn"]
  /\ protocol = [l \in Listener |-> "TCP"]
  /\ producer = [l \in Listener |-> FALSE]
  /\ garbage = [l \in Listener |-> FALSE]
  /\ threads = [l \in Listener |-> 0]
  /\ socket = [l \in Listener |-> FALSE]
  /\ epoll = [l \in Listener |-> FALSE]
  /\ clients = [l \in Listener |-> 0]
  /\ lingering = [l \in Listener |-> 0]
  /\ requestHandlerMap = [id \in MsgId |-> Null]
  /\ calls = <<>>

Call(name) ==
  /\ process = "runs" /\ Len(calls) < MaxCalls
  /\ calls' = Append(calls, name)

\* The process is gone, and the kernel closes what it had open.
Ends(how) ==
  /\ process' = how
  /\ socket' = [l \in Listener |-> FALSE]
  /\ epoll' = [l \in Listener |-> FALSE]
  /\ clients' = [l \in Listener |-> 0]
  /\ lingering' = [l \in Listener |-> lingering[l] + clients[l]]
  /\ UNCHANGED <<undefined, socketListener, object, threads,
                 requestHandlerMap>>

-----------------------------------------------------------------------------
(* Initialize. A protocol that is neither TCP nor UDP does nothing.        *)

\* bind refuses the port while a socket has it. Connections have the port of
\* the socket they were accepted on, and keep it when they are closed until
\* the kernel has done with them: SO_REUSEADDR is not set.
PortHolders(p) ==
  {l \in Listener :
     protocol[l] = p /\ (socket[l] \/ clients[l] + lingering[l] > 0)}

Initialize(p, withProducer) ==
  /\ Call(<<"Initialize", p, withProducer>>)
  /\ PortHolders(p) = {}
  /\ \E l \in Listener :
       /\ life[l] = "unborn" /\ \A k \in 1 .. l - 1 : life[k] /= "unborn"
       /\ socketListener' = l
       /\ life' = [life EXCEPT ![l] = "built"]
       /\ protocol' = [protocol EXCEPT ![l] = p]
       /\ producer' = [producer EXCEPT ![l] = withProducer]
       /\ \E memory \in BOOLEAN : garbage' = [garbage EXCEPT ![l] = memory]
       /\ socket' = [socket EXCEPT ![l] = TRUE]
       /\ epoll' = [epoll EXCEPT ![l] = TRUE]
  /\ UNCHANGED <<process, undefined, threads, clients, lingering,
                 requestHandlerMap>>

\* socket, bind, fcntl, epoll_create or epoll_ctl fails.
InitializeFails ==
  /\ Call(<<"Initialize">>)
  /\ Ends("exited")

-----------------------------------------------------------------------------
(* The calls that go to the listener.                                      *)

Current == socketListener
Usable == Current /= 0 /\ life[Current] = "built"

\* A pair of threads. A second pair works on the same unguarded state; and
\* the UDP send thread waits on a lock it does not own, and unlocks a mutex it
\* does not hold.
Listen ==
  /\ Call(<<"Listen">>) /\ Usable
  /\ threads' = [threads EXCEPT ![Current] = @ + 1]
  /\ undefined' = (undefined \/ threads[Current] > 0
                             \/ protocol[Current] = "UDP")
  /\ UNCHANGED <<process, socketListener, object, descriptors,
                 requestHandlerMap>>

\* Mutant: the return after the failure is dropped.
ListenFailsGoesOn ==
  /\ Call(<<"ListenFails">>) /\ Usable /\ protocol[Current] = "TCP"
  /\ threads' = [threads EXCEPT ![Current] = @ + 1]
  /\ undefined' = (undefined \/ threads[Current] > 0)
  /\ UNCHANGED <<process, socketListener, object, descriptors,
                 requestHandlerMap>>

\* ::listen fails: no thread is started, and the game is not told.
ListenFails ==
  /\ Call(<<"ListenFails">>) /\ Usable /\ protocol[Current] = "TCP"
  /\ UNCHANGED <<process, undefined, listeners, requestHandlerMap>>

\* Dispatch or Send on a listener that is there. A look-up in the handler map
\* that finds nothing leaves a null behind, which is what it was.
Use ==
  /\ Call(<<"Use">>) /\ Usable
  /\ UNCHANGED <<process, undefined, listeners, requestHandlerMap>>

\* Listen, Dispatch or Send through a null or dangling pointer.
UseNothing ==
  /\ Call(<<"Use">>) /\ ~Usable
  /\ undefined' = TRUE
  /\ UNCHANGED <<process, listeners, requestHandlerMap>>

\* Mutant: the listening socket is not closed.
DestroyedLeaving(l) ==
  /\ life' = [life EXCEPT ![l] = "deleted"]
  /\ epoll' = [epoll EXCEPT ![l] = FALSE]
  /\ UNCHANGED <<socketListener, protocol, producer, garbage, threads, socket,
                 clients, lingering>>

\* Both destructors: the threads are detached and run on, the connections'
\* objects are deleted and their sockets are not closed.
Destroyed(l) ==
  /\ life' = [life EXCEPT ![l] = "deleted"]
  /\ socket' = [socket EXCEPT ![l] = FALSE]
  /\ epoll' = [epoll EXCEPT ![l] = FALSE]
  /\ UNCHANGED <<socketListener, protocol, producer, garbage, threads,
                 clients, lingering>>

\* What is undefined about it: the detached threads use the freed object; the
\* thread pointers were never set; both destructors delete the producer.
ThreadsRunOn(l) == threads[l] > 0
NeverSet(l) == threads[l] = 0 /\ garbage[l]
DeletedTwice(l) == producer[l]

Release ==
  /\ Call(<<"Release">>) /\ Usable
  /\ undefined' = \/ undefined \/ ThreadsRunOn(Current)
                  \/ NeverSet(Current) \/ DeletedTwice(Current)
  /\ Destroyed(Current)
  /\ UNCHANGED <<process, requestHandlerMap>>

\* delete nullptr does nothing; the pointer is not reset by a Release before.
ReleaseNothing ==
  /\ Call(<<"Release">>) /\ ~Usable
  /\ undefined' = (undefined \/ Current /= 0)
  /\ UNCHANGED <<process, listeners, requestHandlerMap>>

-----------------------------------------------------------------------------
(* The handlers. Delegate is a set of handlers; a handler is registered    *)
(* again only after it was unregistered.                                   *)

Added(k, id, h) == calls[k] = <<"Register", id, h>>
Withdrawn(k, id, h) ==
  \E m \in k + 1 .. Len(calls) : calls[m] = <<"Unregister", id, h>>

Registered(id, h) ==
  \E k \in DOMAIN calls : Added(k, id, h) /\ ~Withdrawn(k, id, h)

\* Mutant: Unregister deletes a Delegate that has become empty.
RemovedAtLast(del, h) == IF del = {h} THEN Null ELSE del \ {h}

Removed(del, h) == del \ {h}

Register(id, h) ==
  /\ Call(<<"Register", id, h>>) /\ ~Registered(id, h)
  /\ requestHandlerMap' =
       [requestHandlerMap EXCEPT ![id] = IF @ = Null THEN {}
                                         ELSE @ \union {h}]
  /\ UNCHANGED <<process, undefined, listeners>>

Unregister(id, h) ==
  /\ Call(<<"Unregister", id, h>>) /\ Registered(id, h)
  /\ requestHandlerMap' =
       [requestHandlerMap EXCEPT ![id] = Removed(@, h)]
  /\ UNCHANGED <<process, undefined, listeners>>

-----------------------------------------------------------------------------
(* The threads and the surroundings.                                       *)

Serves(l) == process = "runs" /\ life[l] = "built" /\ protocol[l] = "TCP"

Accept(l) ==
  /\ Serves(l) /\ threads[l] > 0 /\ clients[l] + lingering[l] < MaxClients
  /\ clients' = [clients EXCEPT ![l] = @ + 1]
  /\ UNCHANGED <<process, undefined, socketListener, object, threads, socket,
                 epoll, lingering, requestHandlerMap, calls>>

\* The receive thread closes a connection, and the kernel ends it.
Closed(l) ==
  /\ Serves(l) /\ clients[l] > 0
  /\ clients' = [clients EXCEPT ![l] = @ - 1]
  /\ lingering' = [lingering EXCEPT ![l] = @ + 1]
  /\ UNCHANGED <<process, undefined, socketListener, object, threads, socket,
                 epoll, requestHandlerMap, calls>>

\* A client has left: LAST_ACK, until it acknowledges. When the listener has
\* been deleted nobody closes.
Close(l) == Closed(l)

\* The producer refuses a message, and the server closes first: FIN_WAIT and
\* TIME_WAIT.
Refuse(l) == producer[l] /\ Closed(l)

\* A message is complete and there is no producer to call.
NoProducer(l) ==
  /\ Serves(l) /\ clients[l] > 0 /\ ~producer[l]
  /\ undefined' = TRUE
  /\ UNCHANGED <<process, listeners, requestHandlerMap, calls>>

\* The kernel has done with a connection: at once after a reset, a minute
\* later after TIME_WAIT.
Expire(l) ==
  /\ lingering[l] > 0
  /\ lingering' = [lingering EXCEPT ![l] = @ - 1]
  /\ UNCHANGED <<process, undefined, socketListener, object, threads, socket,
                 epoll, clients, requestHandlerMap, calls>>

Crash ==
  /\ process = "runs" /\ undefined
  /\ Ends("crashed")
  /\ UNCHANGED calls

Game ==
  \/ \E p \in {"TCP", "UDP"}, w \in BOOLEAN : Initialize(p, w)
  \/ InitializeFails
  \/ Listen \/ ListenFails \/ Use \/ UseNothing
  \/ Release \/ ReleaseNothing
  \/ \E id \in MsgId, h \in Handler : Register(id, h) \/ Unregister(id, h)

Next ==
  \/ Game
  \/ \E l \in Listener :
       Accept(l) \/ Close(l) \/ Refuse(l) \/ NoProducer(l) \/ Expire(l)
  \/ Crash

Spec == Init /\ [][Next]_vars

-----------------------------------------------------------------------------
TypeOK ==
  /\ process \in {"runs", "exited", "crashed"} /\ undefined \in BOOLEAN
  /\ socketListener \in 0 .. MaxListeners
  /\ life \in [Listener -> {"unborn", "built", "deleted"}]
  /\ protocol \in [Listener -> {"TCP", "UDP"}]
  /\ {producer, garbage, socket, epoll} \subseteq [Listener -> BOOLEAN]
  /\ threads \in [Listener -> Nat]
  /\ {clients, lingering} \subseteq [Listener -> 0 .. MaxClients]
  /\ DOMAIN requestHandlerMap = MsgId
  /\ \A id \in MsgId : requestHandlerMap[id] = Null
                         \/ requestHandlerMap[id] \subseteq Handler
  /\ Len(calls) <= MaxCalls

(***************************************************************************)
(* Dispatch calls exactly the handlers that are registered, except the one *)
(* whose Register was the first ever for its message id. Unregistering the *)
(* last handler does not bring that exception back.                        *)
(***************************************************************************)
FirstAdded(k, id) == \A j \in 1 .. k - 1, h \in Handler : ~Added(j, id, h)

Expected(id) ==
  {h \in Handler : \E k \in DOMAIN calls :
     Added(k, id, h) /\ ~FirstAdded(k, id) /\ ~Withdrawn(k, id, h)}

HandlersCalled ==
  \A id \in MsgId :
    /\ requestHandlerMap[id] = Null <=> FirstAdded(Len(calls) + 1, id)
    /\ requestHandlerMap[id] /= Null => requestHandlerMap[id] = Expected(id)

(***************************************************************************)
(* No undefined behaviour comes of the calls of a game, then or later, if  *)
(* it uses a listener only once one has been initialized, starts each once *)
(* and only one that is TCP and has a producer, and never releases one. A  *)
(* second Initialize is then harmless, and so are a Listen that failed and *)
(* a Release with nothing to delete. What no call can prevent is counted   *)
(* elsewhere: the memcpy in Receive, in PacketFraming.                     *)
(***************************************************************************)
Called(k, name) == calls[k][1] = name
Initialized(k) == \E i \in 1 .. k - 1 : Called(i, "Initialize")

\* At call k a TCP listener with a producer waits to be started.
Startable(k) ==
  \E i \in 1 .. k - 1 :
    /\ calls[i] = <<"Initialize", "TCP", TRUE>>
    /\ \A j \in i + 1 .. k - 1 :
         ~Called(j, "Initialize") /\ ~Called(j, "Listen")

Orderly ==
  \A k \in DOMAIN calls :
    /\ Called(k, "Use") => Initialized(k)
    /\ Called(k, "Release") => ~Initialized(k)
    /\ Called(k, "Listen") => Startable(k)

OrderlyIsDefined == Orderly => ~undefined

(***************************************************************************)
(* Once it has released its listener the process can take the port again   *)
(* at once, unless that was a TCP listener that had begun to listen: its   *)
(* connections keep the port, those a Release leaves open and those that   *)
(* were closed and are not over yet. To release such a listener is         *)
(* undefined anyway.                                                       *)
(***************************************************************************)
PortHeldForCause ==
  \A p \in {"TCP", "UDP"} : \A l \in PortHolders(p) :
    life[l] = "built" \/ (p = "TCP" /\ threads[l] > 0 /\ undefined)
=============================================================================

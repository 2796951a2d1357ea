--------------------------- MODULE TcpConnections ---------------------------
(***************************************************************************)
(* The connections of a TCP listener and the descriptors they live on:     *)
(* ProcessEvents, Accept and the closes of Receive, the Connection objects *)
(* that connectionMap keeps for each descriptor, and the answers the send  *)
(* thread writes to whatever the descriptor then is.                       *)
(*                                                                         *)
(* The kernel hands out the lowest free descriptor. The game's data files  *)
(* draw on the same numbers. A client connects once; a message comes in    *)
(* two pieces. The queues an answer passes through are RequestHandoff and  *)
(* ResponseHandoff; here it takes any time.                                *)
(***************************************************************************)
EXTENDS Naturals, Sequences, FiniteSets

CONSTANTS
  Client,
  Pieces,          \* bound: how many pieces each client may send
  MaxFd,           \* the descriptor limit; descriptors are 1 .. MaxFd
  maxConnections,  \* events taken by one epoll_wait
  Free, DataFile,  \* what else a descriptor may be
  Listen           \* the listening socket among the events

ASSUME ConnectionAssumption ==
  /\ Pieces \in [Client -> Nat]
  /\ MaxFd \in Nat /\ MaxFd > 0
  /\ maxConnections \in Nat /\ maxConnections > 0
  /\ Client \intersect {Free, DataFile} = {} /\ Free /= DataFile
  /\ Listen \notin 0 .. MaxFd

VARIABLES
  owner,     \* what each descriptor is open on
  backlog,   \* clients the kernel has queued for accept
  unread,    \* pieces of each client's message not received yet
  sent,      \* pieces each client has sent
  left,      \* clients that closed their end
  watched,   \* descriptors registered with epoll
  ready,     \* what epoll has to report
  events,    \* events the receive thread took and has not come to yet
  atEvent,   \* the one it is at: Listen, a descriptor, or 0 for none
  partial,   \* per Connection object: whose pieces its read buffer holds
  dataFd,    \* the descriptor the data manager remembers; 0 is none
  answers,   \* <<client, Connection object>> of answers not written yet
  astray,    \* history: clients whose answer was written to another client
  closed,    \* history: clients whose connection the server side closed
  refusal    \* history: Produce refused a message

clientVars == <<backlog, unread, sent, left>>
epollVars  == <<watched, ready>>
threadVars == <<events, atEvent>>
connHistory == <<astray, closed, refusal>>
connVars == <<owner, clientVars, epollVars, threadVars, partial, dataFd,
              answers, connHistory>>

Fd == 1 .. MaxFd
Unused == {f \in Fd : owner[f] = Free}
LowestFree == CHOOSE f \in Unused : \A g \in Unused : f <= g
Queued(c) == \E k \in 1 .. Len(backlog) : backlog[k] = c
At(c) == {f \in Fd : owner[f] = c}

ConnInit ==
  /\ owner = [f \in Fd |-> Free]
  /\ backlog = <<>> /\ left = {}
  /\ unread = [c \in Client |-> 0] /\ sent = [c \in Client |-> 0]
  /\ watched = {} /\ ready = {}
  /\ events = {} /\ atEvent = 0
  /\ partial = [f \in Fd |-> <<>>]
  /\ dataFd = 0
  /\ answers = {} /\ astray = {} /\ closed = {} /\ refusal = FALSE

-----------------------------------------------------------------------------
(* Clients and the kernel.                                                 *)

Present(c) == c \notin left /\ (Queued(c) \/ At(c) /= {})

Connect(c) ==
  /\ ~Queued(c) /\ At(c) = {} /\ c \notin left \union closed
  /\ backlog' = Append(backlog, c)
  /\ ready' = ready \union {Listen}
  /\ UNCHANGED <<owner, unread, sent, left, watched, threadVars, partial,
                 dataFd, answers, connHistory>>

SendPiece(c) ==
  /\ Present(c)
  /\ sent[c] < Pieces[c]
  /\ sent' = [sent EXCEPT ![c] = @ + 1]
  /\ unread' = [unread EXCEPT ![c] = @ + 1]
  /\ ready' = ready \union (At(c) \intersect watched)
  /\ UNCHANGED <<owner, backlog, left, watched, threadVars, partial, dataFd,
                 answers, connHistory>>

Leave(c) ==
  /\ Present(c)
  /\ left' = left \union {c}
  /\ ready' = ready \union (At(c) \intersect watched)
  /\ UNCHANGED <<owner, backlog, unread, sent, watched, threadVars, partial,
                 dataFd, answers, connHistory>>

\* close(f): whatever the number is open on goes, and epoll forgets it.
Close(f) ==
  /\ owner' = [owner EXCEPT ![f] = Free]
  /\ watched' = watched \ {f}
  /\ ready' = ready \ {f}
  /\ closed' = closed \union ({owner[f]} \intersect Client)

-----------------------------------------------------------------------------
(* The receive thread: epoll_wait, then each event, Accept or Receive.     *)

EpollWait(E) ==
  /\ atEvent = 0 /\ events = {}
  /\ E /= {} /\ Cardinality(E) <= maxConnections
  /\ events' = E
  /\ ready' = ready \ E
  /\ UNCHANGED <<owner, clientVars, watched, atEvent, partial, dataFd, answers,
                 connHistory>>

\* Mutant: one event of each epoll_wait is served and the rest dropped.
NextEventOnly(e) ==
  /\ atEvent = 0
  /\ atEvent' = e
  /\ events' = {}
  /\ UNCHANGED <<owner, clientVars, epollVars, partial, dataFd, answers,
                 connHistory>>

\* The order in which the kernel reported the events is not known.
NextEvent(e) ==
  /\ atEvent = 0
  /\ atEvent' = e
  /\ events' = events \ {e}
  /\ UNCHANGED <<owner, clientVars, epollVars, partial, dataFd, answers,
                 connHistory>>

\* Mutant: one accept for each event.
AcceptedOnce ==
  /\ atEvent = Listen
  /\ backlog /= <<>> /\ Unused /= {}
  /\ owner' = [owner EXCEPT ![LowestFree] = Head(backlog)]
  /\ backlog' = Tail(backlog)
  /\ atEvent' = 0
  /\ UNCHANGED <<unread, sent, left, events, dataFd, answers, connHistory>>

Accepted ==
  /\ atEvent = Listen
  /\ backlog /= <<>> /\ Unused /= {}
  /\ owner' = [owner EXCEPT ![LowestFree] = Head(backlog)]
  /\ backlog' = Tail(backlog)
  /\ UNCHANGED <<unread, sent, left, threadVars, dataFd, answers, connHistory>>

\* Mutant: the read state of the reused Connection is not reset.
AcceptNoReset ==
  /\ Accepted
  /\ watched' = watched \union {LowestFree}
  /\ ready' = IF unread[Head(backlog)] > 0 \/ Head(backlog) \in left
              THEN ready \union {LowestFree} ELSE ready
  /\ UNCHANGED partial

\* The Connection object of the descriptor is taken over and reset.
Accept ==
  /\ Accepted
  /\ watched' = watched \union {LowestFree}
  /\ ready' = IF unread[Head(backlog)] > 0 \/ Head(backlog) \in left
              THEN ready \union {LowestFree} ELSE ready
  /\ partial' = [partial EXCEPT ![LowestFree] = <<>>]

\* epoll_ctl fails: logged, and the connection is kept.
AcceptUnwatched ==
  /\ Accepted
  /\ partial' = [partial EXCEPT ![LowestFree] = <<>>]
  /\ UNCHANGED epollVars

\* fcntl fails: logged, and the descriptor is forgotten.
AcceptForgotten ==
  /\ Accepted
  /\ UNCHANGED <<epollVars, partial>>

\* accept says EAGAIN.
AcceptDone ==
  /\ atEvent = Listen
  /\ backlog = <<>>
  /\ atEvent' = 0
  /\ UNCHANGED <<owner, clientVars, epollVars, events, partial, dataFd, answers,
                 connHistory>>

\* At the descriptor limit accept fails, is logged and is called again.
AcceptFails ==
  /\ atEvent = Listen
  /\ backlog /= <<>> /\ Unused = {}
  /\ UNCHANGED connVars

\* What the socket in Receive's hand is open on.
Here == owner[atEvent]

Received ==
  /\ atEvent \in Fd
  /\ Here \in Client
  /\ unread[Here] > 0
  /\ unread' = [unread EXCEPT ![Here] = @ - 1]
  /\ UNCHANGED <<backlog, sent, left, threadVars, dataFd, astray>>

\* The message is not complete yet.
RecvPiece ==
  /\ Received
  /\ partial[atEvent] = <<>>
  /\ partial' = [partial EXCEPT ![atEvent] = <<Here>>]
  /\ UNCHANGED <<owner, epollVars, answers, closed, refusal>>

\* It is: a request is made, and the game answers to its connId.
RecvRequest ==
  /\ Received
  /\ partial[atEvent] /= <<>>
  /\ partial' = [partial EXCEPT ![atEvent] = <<>>]
  /\ answers' = answers \union {<<Here, atEvent>>}
  /\ UNCHANGED <<owner, epollVars, closed, refusal>>

\* Produce refuses it: the socket is closed, and recv is called once more.
RecvRefused ==
  /\ Received
  /\ partial[atEvent] /= <<>>
  /\ partial' = [partial EXCEPT ![atEvent] = Append(@, Here)]
  /\ Close(atEvent)
  /\ refusal' = TRUE
  /\ UNCHANGED answers

RecvAgain ==
  /\ atEvent \in Fd
  /\ Here \in Client /\ unread[Here] = 0 /\ Here \notin left
  /\ atEvent' = 0
  /\ UNCHANGED <<owner, clientVars, epollVars, events, partial, dataFd, answers,
                 connHistory>>

\* recv returns 0, or fails on a number that is no socket: close, in any case.
RecvEnds ==
  \/ Here \in Client /\ unread[Here] = 0 /\ Here \in left
  \/ Here \notin Client

RecvClose ==
  /\ atEvent \in Fd
  /\ RecvEnds
  /\ Close(atEvent)
  /\ atEvent' = 0
  /\ UNCHANGED <<clientVars, events, partial, dataFd, answers, astray, refusal>>

-----------------------------------------------------------------------------
(* The game and the send thread.                                           *)

\* The data manager opens a file, having closed the one it had.
OpenFile ==
  /\ dataFd = 0
  /\ Unused /= {}
  /\ owner' = [owner EXCEPT ![LowestFree] = DataFile]
  /\ \/ dataFd' = LowestFree
     \/ UNCHANGED dataFd      \* mmap fails: the descriptor stays open, unknown
  /\ UNCHANGED <<clientVars, epollVars, threadVars, partial, answers,
                 connHistory>>

\* Mutant: the number is remembered after the close.
CloseFileKeepsFd ==
  /\ dataFd /= 0
  /\ Close(dataFd)
  /\ UNCHANGED <<dataFd, clientVars, threadVars, partial, answers, astray,
                 refusal>>

CloseFile ==
  /\ dataFd /= 0
  /\ Close(dataFd)
  /\ dataFd' = 0
  /\ UNCHANGED <<clientVars, threadVars, partial, answers, astray, refusal>>

\* Mutant: every answer is written to one and the same connection.
AnswerFirst(a) ==
  /\ answers' = answers \ {a}
  /\ astray' = IF owner[1] \in Client \ {a[1]}
               THEN astray \union {a[1]} ELSE astray
  /\ UNCHANGED <<owner, clientVars, epollVars, threadVars, partial, dataFd,
                 closed, refusal>>

\* The answer is written to what the Connection's descriptor is by now.
Answer(a) ==
  /\ answers' = answers \ {a}
  /\ astray' = IF owner[a[2]] \in Client \ {a[1]}
               THEN astray \union {a[1]} ELSE astray
  /\ UNCHANGED <<owner, clientVars, epollVars, threadVars, partial, dataFd,
                 closed, refusal>>

-----------------------------------------------------------------------------
ReceiveThread ==
  \/ \E E \in SUBSET ready : EpollWait(E)
  \/ \E e \in events : NextEvent(e)
  \/ Accept \/ AcceptUnwatched \/ AcceptForgotten \/ AcceptDone \/ AcceptFails
  \/ RecvPiece \/ RecvRequest \/ RecvRefused \/ RecvAgain \/ RecvClose

Clients == \E c \in Client : Connect(c) \/ SendPiece(c) \/ Leave(c)

Game == OpenFile \/ CloseFile \/ \E a \in answers : Answer(a)

ConnNext == ReceiveThread \/ Clients \/ Game

ConnSpec == ConnInit /\ [][ConnNext]_connVars

\* The receive thread runs. Nobody has to connect, to send or to leave, and
\* the game need not open or close a file.
FairConnSpec == ConnSpec /\ WF_connVars(ReceiveThread)

-----------------------------------------------------------------------------
ConnTypeOK ==
  /\ owner \in [Fd -> Client \union {Free, DataFile}]
  /\ backlog \in Seq(Client)
  /\ unread \in [Client -> Nat] /\ sent \in [Client -> Nat]
  /\ left \subseteq Client
  /\ watched \subseteq Fd
  /\ ready \subseteq watched \union {Listen}
  /\ events \subseteq Fd \union {Listen}
  /\ atEvent \in Fd \union {Listen, 0}
  /\ partial \in [Fd -> Seq(Client)]
  /\ dataFd \in 0 .. MaxFd
  /\ answers \subseteq Client \X Fd
  /\ astray \subseteq Client
  /\ closed \subseteq Client
  /\ refusal \in BOOLEAN

(***************************************************************************)
(* What the read buffer of a live connection holds came from the client    *)
(* that is connected, never from the one that had the descriptor before    *)
(* it, however that one went and whatever it left half sent.               *)
(***************************************************************************)
BufferIsOwners ==
  \A f \in watched : \A k \in 1 .. Len(partial[f]) : partial[f][k] = owner[f]

(***************************************************************************)
(* An answer goes to the client that asked as long as that client's        *)
(* connection was not closed. Once it was, the answer may go to whoever    *)
(* has the descriptor: connId is a pointer to the reused Connection.       *)
(***************************************************************************)
AnswersReachTheAsker ==
  /\ \A a \in answers : owner[a[2]] = a[1] \/ a[1] \in closed
  /\ astray \subseteq closed

(***************************************************************************)
(* A client that neither left nor was refused keeps its connection, unless *)
(* the double close after some refusal hit a descriptor that was given out *)
(* again: no other path closes a descriptor it does not own.               *)
(***************************************************************************)
NoInnocentCut ==
  ~refusal =>
    /\ closed \subseteq left
    /\ dataFd /= 0 => owner[dataFd] = DataFile

(***************************************************************************)
(* Both sockets are edge-triggered, and one epoll_wait may not take all    *)
(* there is: whatever is not served when the thread goes back to wait is   *)
(* still going to be reported.                                             *)
(***************************************************************************)
NothingForgotten ==
  atEvent = 0 /\ events = {} =>
    /\ backlog /= <<>> => Listen \in ready
    /\ \A f \in watched : unread[owner[f]] > 0 \/ owner[f] \in left
                            => f \in ready

(***************************************************************************)
(* A client in the backlog is accepted, unless all descriptors are taken:  *)
(* then Accept never returns, and only the game can free one.              *)
(***************************************************************************)
EventuallyAccepted ==
  \A c \in Client : Queued(c) ~> ~Queued(c) \/ Unused = {}
=============================================================================

------------------------- MODULE ReceiveThreadProofs -------------------------
(***************************************************************************)
(* What is proved about the two sides of TcpListener's receive thread.     *)
(*                                                                         *)
(* Its connections (TcpConnections), for any clients, descriptors, data    *)
(* files and messages: types, and the four safety properties of the run.   *)
(*                                                                         *)
(* The requests it hands to the game (RequestHandoff), for any requests    *)
(* and message ids: types, that the two threads never use a vector at the  *)
(* same time, and that every step of Receive and Dispatch is a step of the *)
(* abstract Mailbox, so that requests reach the game in order, each once.  *)
(* What Mailbox itself guarantees is proved here too, on the instance MB.  *)
(***************************************************************************)
EXTENDS RequestHandoff, TcpConnections, SequenceLemmas

-----------------------------------------------------------------------------
(* The connections.                                                        *)

\* What the kernel gives out was not in use.
LEMMA LowestIsUnused ==
  ASSUME Unused /= {}
  PROVE  LowestFree \in Fd /\ owner[LowestFree] = Free
<1>1. Unused \subseteq Nat
  BY ConnectionAssumption DEF Unused, Fd
<1>2. \E x \in Unused : \A y \in Unused : x <= y
  BY <1>1, LeastNumber
<1>3. LowestFree \in Unused
  BY <1>2 DEF LowestFree
<1> QED
  BY <1>3 DEF Unused

\* Constants that are told apart.
LEMMA Distinct ==
  /\ Listen \notin Fd /\ Listen /= 0 /\ 0 \notin Fd
  /\ Free \notin Client /\ DataFile \notin Client /\ Free /= DataFile
  BY ConnectionAssumption DEF Fd

\* An accept, with the descriptor and the client given names.
Takes(f, c) ==
  /\ f \in Fd /\ c \in Client /\ owner[f] = Free
  /\ atEvent = Listen
  /\ owner' = [owner EXCEPT ![f] = c]
  /\ backlog' = Tail(backlog) /\ backlog' \in Seq(Client)
  /\ UNCHANGED <<unread, sent, left, threadVars, dataFd, answers, connHistory>>

LEMMA AcceptTakes ==
  ASSUME ConnTypeOK, Accepted
  PROVE  Takes(LowestFree, Head(backlog))
<1>1. LowestFree \in Fd /\ owner[LowestFree] = Free
  BY LowestIsUnused DEF Accepted
<1>2. Head(backlog) \in Client /\ Tail(backlog) \in Seq(Client)
  BY HeadTailProperties DEF Accepted, ConnTypeOK
<1> QED
  BY <1>1, <1>2 DEF Accepted, Takes

-----------------------------------------------------------------------------
\* Read buffers, one of them or all set to something.
LEMMA BuffersSet ==
  ASSUME NEW s \in Seq(Client)
  PROVE  /\ [f \in Fd |-> s] \in [Fd -> Seq(Client)]
         /\ \A f : partial \in [Fd -> Seq(Client)] =>
              [partial EXCEPT ![f] = s] \in [Fd -> Seq(Client)]
  OBVIOUS

LEMMA Pieces01 ==
  /\ <<>> \in Seq(Client)
  /\ \A c \in Client : <<c>> \in Seq(Client)
  OBVIOUS

LEMMA TypesInit == ConnInit => ConnTypeOK
<1>1. ConnInit => backlog \in Seq(Client) /\ partial \in [Fd -> Seq(Client)]
  BY BuffersSet, Pieces01 DEF ConnInit
<1>2. ConnInit => /\ owner \in [Fd -> Client \union {Free, DataFile}]
              /\ unread \in [Client -> Nat] /\ sent \in [Client -> Nat]
              /\ dataFd \in 0 .. MaxFd
  BY ConnectionAssumption DEF ConnInit
<1>3. ConnInit => /\ {left, watched, ready, events, answers, astray, closed} = {{}}
              /\ atEvent = 0 /\ refusal = FALSE
  BY DEF ConnInit
<1> QED
  BY <1>1, <1>2, <1>3 DEF ConnTypeOK

LEMMA TypesNext ==
  ASSUME ConnTypeOK, [ConnNext]_connVars
  PROVE  ConnTypeOK'
<1> USE DEF ConnTypeOK, clientVars, epollVars, threadVars, connHistory
<1>1. ASSUME NEW c \in Client, Connect(c) PROVE ConnTypeOK'
  <2>1. Append(backlog, c) \in Seq(Client)
    OBVIOUS
  <2> QED
    BY <1>1, <2>1 DEF Connect
<1>2. ASSUME NEW c \in Client, SendPiece(c) PROVE ConnTypeOK'
  BY <1>2, SMTT(30) DEF SendPiece
<1>3. ASSUME NEW c \in Client, Leave(c) PROVE ConnTypeOK'
  BY <1>3 DEF Leave
<1>4. ASSUME NEW E \in SUBSET ready, EpollWait(E) PROVE ConnTypeOK'
  BY <1>4 DEF EpollWait
<1>5. ASSUME NEW e \in events, NextEvent(e) PROVE ConnTypeOK'
  BY <1>5 DEF NextEvent
<1>6. CASE Accept
  <2>1. Takes(LowestFree, Head(backlog))
    BY <1>6, AcceptTakes DEF Accept
  <2>2. partial' \in [Fd -> Seq(Client)]
    BY <1>6, BuffersSet, Pieces01 DEF Accept
  <2>3. owner' \in [Fd -> Client \union {Free, DataFile}]
    BY <2>1 DEF Takes
  <2>4. watched' \subseteq Fd /\ ready' \subseteq watched' \union {Listen}
    BY <1>6, <2>1 DEF Accept, Takes
  <2> QED
    BY <2>1, <2>2, <2>3, <2>4 DEF Takes
<1>7. CASE AcceptUnwatched \/ AcceptForgotten
  <2>1. Takes(LowestFree, Head(backlog))
    BY <1>7, AcceptTakes DEF AcceptUnwatched, AcceptForgotten
  <2>2. partial' \in [Fd -> Seq(Client)]
    BY <1>7, BuffersSet, Pieces01 DEF AcceptUnwatched, AcceptForgotten
  <2>3. owner' \in [Fd -> Client \union {Free, DataFile}]
    BY <2>1 DEF Takes
  <2>4. UNCHANGED epollVars
    BY <1>7 DEF AcceptUnwatched, AcceptForgotten
  <2> QED
    BY <2>1, <2>2, <2>3, <2>4 DEF Takes
<1>8. CASE AcceptDone \/ AcceptFails \/ RecvAgain
  BY <1>8 DEF AcceptDone, AcceptFails, RecvAgain, connVars
<1>9. CASE RecvPiece \/ RecvRequest
  <2>1. Here \in Client /\ atEvent \in Fd
    BY <1>9 DEF RecvPiece, RecvRequest, Received
  <2>2. \/ partial' = [partial EXCEPT ![atEvent] = <<Here>>]
        \/ partial' = [partial EXCEPT ![atEvent] = <<>>]
    BY <1>9 DEF RecvPiece, RecvRequest
  <2>3. partial' \in [Fd -> Seq(Client)]
    BY <2>1, <2>2, BuffersSet, Pieces01
  <2>4. /\ unread[Here] > 0 /\ unread' = [unread EXCEPT ![Here] = @ - 1]
        /\ answers' \in {answers, answers \union {<<Here, atEvent>>}}
    BY <1>9 DEF RecvPiece, RecvRequest, Received
  <2>5. UNCHANGED <<owner, backlog, sent, left, watched, ready, events, atEvent,
                    dataFd, astray, closed, refusal>>
    BY <1>9 DEF RecvPiece, RecvRequest, Received
  <2>6. unread' \in [Client -> Nat] /\ answers' \subseteq Client \X Fd
    BY <2>1, <2>4
  <2> QED
    BY <2>3, <2>5, <2>6
<1>10. CASE RecvRefused
  <2>1. partial' \in [Fd -> Seq(Client)]
    BY <1>10 DEF RecvRefused, Received, Here
  <2> QED
    BY <1>10, <2>1 DEF RecvRefused, Received, Here, Close
<1>11. CASE RecvClose
  BY <1>11 DEF RecvClose, Close
<1>12. CASE OpenFile
  BY <1>12, LowestIsUnused, SMTT(30) DEF OpenFile, Fd
<1>13. CASE CloseFile
  <2>1. dataFd \in Fd /\ dataFd' \in 0 .. MaxFd
    BY <1>13, ConnectionAssumption DEF CloseFile, Fd
  <2> QED
    BY <1>13, <2>1 DEF CloseFile, Close
<1>14. ASSUME NEW a \in answers, Answer(a) PROVE ConnTypeOK'
  BY <1>14 DEF Answer
<1>15. CASE UNCHANGED connVars
  BY <1>15 DEF connVars
<1> QED
  BY <1>1, <1>2, <1>3, <1>4, <1>5, <1>6, <1>7, <1>8, <1>9, <1>10, <1>11,
     <1>12, <1>13, <1>14, <1>15
  DEF ConnNext, ReceiveThread, Clients, Game

(* The types of the state, for any constants.                              *)
THEOREM TypesCorrect == ConnSpec => []ConnTypeOK
  BY TypesInit, TypesNext, PTL DEF ConnSpec

\* A data file is opened on a descriptor that was free.
LEMMA OpenTakes ==
  ASSUME OpenFile
  PROVE  \E f \in Fd : /\ owner[f] = Free /\ dataFd = 0
                       /\ owner' = [owner EXCEPT ![f] = DataFile]
                       /\ dataFd' \in {0, f}
                       /\ UNCHANGED <<clientVars, epollVars, threadVars,
                                      partial, answers, connHistory>>
<1>1. LowestFree \in Fd /\ owner[LowestFree] = Free
  BY LowestIsUnused DEF OpenFile
<1> QED
  BY <1>1 DEF OpenFile

-----------------------------------------------------------------------------
(* Answers.                                                                *)

LEMMA AnswersInit == ConnInit => AnswersReachTheAsker
  BY DEF ConnInit, AnswersReachTheAsker

LEMMA AnswersNext ==
  ASSUME ConnTypeOK, AnswersReachTheAsker, [ConnNext]_connVars
  PROVE  AnswersReachTheAsker'
<1> USE DEF ConnTypeOK, AnswersReachTheAsker, clientVars, epollVars, threadVars,
            connHistory
<1>a. ASSUME UNCHANGED <<owner, answers, astray, closed>>
      PROVE  AnswersReachTheAsker'
  BY <1>a
<1>b. ASSUME NEW f \in Fd, NEW c, Takes(f, c) PROVE AnswersReachTheAsker'
  BY <1>b, Distinct DEF Takes
<1>c. ASSUME NEW f \in Fd, Close(f), UNCHANGED <<answers, astray>>
      PROVE  AnswersReachTheAsker'
  BY <1>c DEF Close
<1>1. CASE Accept \/ AcceptUnwatched \/ AcceptForgotten
  <2>1. Takes(LowestFree, Head(backlog)) /\ LowestFree \in Fd
    BY <1>1, AcceptTakes DEF Accept, AcceptUnwatched, AcceptForgotten, Takes
  <2> QED
    BY <2>1, <1>b
<1>2. CASE RecvRefused \/ RecvClose
  BY <1>2, <1>c DEF RecvRefused, RecvClose, Received
<1>3. CASE CloseFile
  <2>1. dataFd \in Fd
    BY <1>3, ConnectionAssumption DEF CloseFile, Fd
  <2> QED
    BY <1>3, <2>1, <1>c DEF CloseFile
<1>4. CASE RecvRequest
  BY <1>4 DEF RecvRequest, Received, Here
<1>5. CASE OpenFile
  BY <1>5, OpenTakes, Distinct
<1>6. ASSUME NEW a \in answers, Answer(a) PROVE AnswersReachTheAsker'
  BY <1>6 DEF Answer
<1>7. CASE \/ \E c \in Client : Connect(c) \/ SendPiece(c) \/ Leave(c)
           \/ \E E \in SUBSET ready : EpollWait(E)
           \/ \E e \in events : NextEvent(e)
           \/ AcceptDone \/ AcceptFails \/ RecvPiece \/ RecvAgain
           \/ UNCHANGED connVars
  <2>1. UNCHANGED <<owner, answers, astray, closed>>
    BY <1>7 DEF Connect, SendPiece, Leave, EpollWait, NextEvent, AcceptDone,
                AcceptFails, RecvPiece, Received, RecvAgain, connVars
  <2> QED
    BY <2>1, <1>a
<1> QED
  BY <1>1, <1>2, <1>3, <1>4, <1>5, <1>6, <1>7
  DEF ConnNext, ReceiveThread, Clients, Game

(***************************************************************************)
(* An answer reaches the client that asked unless that client's connection *)
(* was closed, for any clients and descriptors (TcpListener_Unix.cpp:338). *)
(***************************************************************************)
THEOREM AnswersDoReachTheAsker == ConnSpec => []AnswersReachTheAsker
  BY TypesCorrect, AnswersInit, AnswersNext, PTL DEF ConnSpec

-----------------------------------------------------------------------------
(* Read buffers. A watched descriptor is a client's, so the kernel does    *)
(* not give it out.                                                        *)

WatchedAreClients == \A f \in watched : owner[f] \in Client

BufferInv == WatchedAreClients /\ BufferIsOwners

LEMMA BufferInit == ConnInit => BufferInv
  BY DEF ConnInit, BufferInv, WatchedAreClients, BufferIsOwners

LEMMA BufferNext ==
  ASSUME ConnTypeOK, BufferInv, [ConnNext]_connVars
  PROVE  BufferInv'
<1> USE DEF ConnTypeOK, BufferInv, WatchedAreClients, BufferIsOwners, clientVars,
            epollVars, threadVars, connHistory
<1>a. ASSUME UNCHANGED <<owner, watched, partial>> PROVE BufferInv'
  BY <1>a
<1>b. ASSUME NEW f \in Fd, Close(f), \A g \in Fd \ {f} : partial'[g] = partial[g]
      PROVE  BufferInv'
  BY <1>b DEF Close
<1>1. CASE Accept
  <2>1. Takes(LowestFree, Head(backlog)) /\ LowestFree \in Fd
    BY <1>1, AcceptTakes DEF Accept, Takes
  <2>2. /\ partial' = [partial EXCEPT ![LowestFree] = <<>>]
        /\ watched' = watched \union {LowestFree}
    BY <1>1 DEF Accept
  <2>3. /\ partial'[LowestFree] = <<>>
        /\ \A f \in watched \ {LowestFree} :
             partial'[f] = partial[f] /\ owner'[f] = owner[f]
    BY <2>1, <2>2 DEF Takes
  <2>4. Len(<<>>) = 0
    OBVIOUS
  <2>5. \A f \in watched' : owner'[f] \in Client
    BY <2>1, <2>2, <2>3 DEF Takes
  <2>6. \A f \in watched' : \A k \in 1 .. Len(partial'[f]) :
          partial'[f][k] = owner'[f]
    BY <2>2, <2>3, <2>4
  <2> QED
    BY <2>5, <2>6
<1>2. CASE AcceptUnwatched \/ AcceptForgotten
  <2>1. Takes(LowestFree, Head(backlog)) /\ LowestFree \in Fd
    BY <1>2, AcceptTakes DEF AcceptUnwatched, AcceptForgotten, Takes
  <2>2. LowestFree \notin watched
    BY <2>1, Distinct DEF Takes
  <2>3. /\ watched' = watched
        /\ \A f \in Fd \ {LowestFree} :
             partial'[f] = partial[f] /\ owner'[f] = owner[f]
    BY <1>2, <2>1 DEF AcceptUnwatched, AcceptForgotten, Takes
  <2> QED
    BY <2>2, <2>3
<1>3. CASE RecvPiece
  <2>1. /\ partial' = [partial EXCEPT ![atEvent] = <<Here>>]
        /\ owner' = owner /\ watched' = watched /\ atEvent \in Fd
    BY <1>3 DEF RecvPiece, Received
  <2>2. Len(<<Here>>) = 1 /\ <<Here>>[1] = Here
    OBVIOUS
  <2> QED
    BY <2>1, <2>2 DEF Here
<1>4. CASE RecvRequest
  <2>1. /\ partial' = [partial EXCEPT ![atEvent] = <<>>]
        /\ owner' = owner /\ watched' = watched /\ atEvent \in Fd
    BY <1>4 DEF RecvRequest, Received
  <2>2. Len(<<>>) = 0
    OBVIOUS
  <2> QED
    BY <2>1, <2>2
<1>5. CASE RecvRefused
  <2>1. \A g \in Fd \ {atEvent} : partial'[g] = partial[g]
    BY <1>5 DEF RecvRefused, Received
  <2> QED
    BY <1>5, <2>1, <1>b DEF RecvRefused, Received
<1>6. CASE RecvClose
  BY <1>6, <1>b DEF RecvClose
<1>7. CASE CloseFile
  <2>1. dataFd \in Fd
    BY <1>7, ConnectionAssumption DEF CloseFile, Fd
  <2> QED
    BY <1>7, <2>1, <1>b DEF CloseFile
<1>8. CASE OpenFile
  <2>1. PICK f \in Fd : /\ owner[f] = Free
                        /\ owner' = [owner EXCEPT ![f] = DataFile]
                        /\ UNCHANGED <<watched, partial>>
    BY <1>8, OpenTakes
  <2>2. f \notin watched
    BY <2>1, Distinct
  <2> QED
    BY <2>1, <2>2
<1>9. CASE \/ \E c \in Client : Connect(c) \/ SendPiece(c) \/ Leave(c)
           \/ \E E \in SUBSET ready : EpollWait(E)
           \/ \E e \in events : NextEvent(e)
           \/ AcceptDone \/ AcceptFails \/ RecvAgain
           \/ \E a \in answers : Answer(a)
           \/ UNCHANGED connVars
  <2>1. UNCHANGED <<owner, watched, partial>>
    BY <1>9 DEF Connect, SendPiece, Leave, EpollWait, NextEvent, AcceptDone,
                AcceptFails, RecvAgain, Answer, connVars
  <2> QED
    BY <2>1, <1>a
<1> QED
  BY <1>1, <1>2, <1>3, <1>4, <1>5, <1>6, <1>7, <1>8, <1>9
  DEF ConnNext, ReceiveThread, Clients, Game

(***************************************************************************)
(* The read buffer of a live connection holds nothing of the client that   *)
(* had the descriptor before (TcpListener_Unix.cpp:205-231, 251-307).      *)
(***************************************************************************)
THEOREM BuffersAreTheOwners == ConnSpec => []BufferIsOwners
<1>1. BufferInv => BufferIsOwners
  BY DEF BufferInv
<1> QED
  BY <1>1, TypesCorrect, BufferInit, BufferNext, PTL DEF ConnSpec

(* epoll watches descriptors of clients only.                              *)
THEOREM WatchedStayClients == ConnSpec => []WatchedAreClients
<1>1. BufferInv => WatchedAreClients
  BY DEF BufferInv
<1> QED
  BY <1>1, TypesCorrect, BufferInit, BufferNext, PTL DEF ConnSpec

-----------------------------------------------------------------------------
(* Closes. Before the first refusal the thread has only watched            *)
(* descriptors in hand, and each of them once.                             *)

InHand ==
  /\ \A f \in events : f \in Fd => f \in watched
  /\ atEvent \in Fd => atEvent \in watched /\ atEvent \notin events

CutInv == ~refusal =>
  /\ closed \subseteq left
  /\ dataFd /= 0 => owner[dataFd] = DataFile
  /\ InHand

LEMMA CutInit == ConnInit => CutInv
  BY Distinct DEF ConnInit, CutInv, InHand

LEMMA CutNext ==
  ASSUME ConnTypeOK, WatchedAreClients, CutInv, [ConnNext]_connVars
  PROVE  CutInv'
<1> USE Distinct
    DEF ConnTypeOK, WatchedAreClients, CutInv, InHand, clientVars, epollVars,
        threadVars, connHistory
<1>a. ASSUME UNCHANGED <<owner, watched, events, atEvent, dataFd, closed,
                         refusal>>,
             left \subseteq left'
      PROVE  CutInv'
  BY <1>a
<1>1. CASE Accept \/ AcceptUnwatched \/ AcceptForgotten
  <2>1. Takes(LowestFree, Head(backlog)) /\ LowestFree \in Fd
    BY <1>1, AcceptTakes DEF Accept, AcceptUnwatched, AcceptForgotten, Takes
  <2>2. watched \subseteq watched'
    BY <1>1 DEF Accept, AcceptUnwatched, AcceptForgotten
  <2>3. dataFd /= 0 => dataFd \in Fd
    BY ConnectionAssumption DEF Fd
  <2> QED
    BY <2>1, <2>2, <2>3 DEF Takes
<1>2. CASE RecvRefused
  BY <1>2 DEF RecvRefused
<1>3. CASE RecvClose
  <2>1. ~refusal => Here \in Client /\ Here \in left /\ atEvent /= dataFd
    BY <1>3 DEF RecvClose, RecvEnds, Here
  <2>2. dataFd /= 0 => dataFd \in Fd
    BY ConnectionAssumption DEF Fd
  <2> QED
    BY <1>3, <2>1, <2>2 DEF RecvClose, Close, Here
<1>4. CASE CloseFile
  <2>1. dataFd \in Fd /\ dataFd' = 0
    BY <1>4, ConnectionAssumption DEF CloseFile, Fd
  <2>2. ~refusal => owner[dataFd] = DataFile /\ dataFd \notin watched
    BY <2>1
  <2> QED
    BY <1>4, <2>1, <2>2 DEF CloseFile, Close
<1>5. CASE OpenFile
  <2>1. PICK f \in Fd : /\ owner[f] = Free
                        /\ owner' = [owner EXCEPT ![f] = DataFile]
                        /\ dataFd' \in {0, f}
                        /\ UNCHANGED <<clientVars, epollVars, threadVars,
                                       connHistory>>
    BY <1>5, OpenTakes
  <2> QED
    BY <2>1
<1>6. ASSUME NEW E \in SUBSET ready, EpollWait(E) PROVE CutInv'
  BY <1>6 DEF EpollWait
<1>7. ASSUME NEW e \in events, NextEvent(e) PROVE CutInv'
  BY <1>7 DEF NextEvent
<1>8. CASE AcceptDone \/ RecvAgain
  BY <1>8 DEF AcceptDone, RecvAgain
<1>9. CASE \/ \E c \in Client : Connect(c) \/ SendPiece(c) \/ Leave(c)
           \/ AcceptFails \/ RecvPiece \/ RecvRequest
           \/ \E a \in answers : Answer(a)
           \/ UNCHANGED connVars
  <2>1. /\ UNCHANGED <<owner, watched, events, atEvent, dataFd, closed, refusal>>
        /\ left \subseteq left'
    BY <1>9 DEF Connect, SendPiece, Leave, AcceptFails, RecvPiece, RecvRequest,
                Received, Answer, connVars
  <2> QED
    BY <2>1, <1>a
<1> QED
  BY <1>1, <1>2, <1>3, <1>4, <1>5, <1>6, <1>7, <1>8, <1>9
  DEF ConnNext, ReceiveThread, Clients, Game

(***************************************************************************)
(* Until a message is refused nobody's connection and no data file is      *)
(* closed but its own (TcpListener_Unix.cpp:251-297).                      *)
(***************************************************************************)
THEOREM NobodyInnocentIsCut == ConnSpec => []NoInnocentCut
<1>1. CutInv => NoInnocentCut
  BY DEF CutInv, NoInnocentCut
<1> QED
  BY <1>1, TypesCorrect, WatchedStayClients, CutInit, CutNext, PTL DEF ConnSpec

-----------------------------------------------------------------------------
(* Edges. What is not served has an event that is due, taken or at hand.   *)

Due == ready \union events \union {atEvent}
Unserved(c) == unread[c] > 0 \/ c \in left

EdgeInv ==
  /\ backlog /= <<>> => Listen \in Due
  /\ \A f \in watched : Unserved(owner[f]) => f \in Due

LEMMA EdgeInit == ConnInit => EdgeInv
  BY DEF ConnInit, EdgeInv

LEMMA EdgeNext ==
  ASSUME ConnTypeOK, WatchedAreClients, EdgeInv, [ConnNext]_connVars
  PROVE  EdgeInv'
<1> USE Distinct
    DEF ConnTypeOK, WatchedAreClients, EdgeInv, Due, Unserved, clientVars,
        epollVars, threadVars, connHistory
<1>a. ASSUME UNCHANGED <<owner, backlog, unread, left, watched, ready, events,
                         atEvent>>
      PROVE  EdgeInv'
  BY <1>a
<1>1. ASSUME NEW c \in Client, Connect(c) PROVE EdgeInv'
  BY <1>1 DEF Connect
<1>2. ASSUME NEW c \in Client, SendPiece(c) \/ Leave(c) PROVE EdgeInv'
  BY <1>2 DEF SendPiece, Leave, At
<1>3. ASSUME NEW E \in SUBSET ready, EpollWait(E) PROVE EdgeInv'
  BY <1>3 DEF EpollWait
<1>4. ASSUME NEW e \in events, NextEvent(e) PROVE EdgeInv'
  BY <1>4 DEF NextEvent
<1>5. CASE Accept
  <2>1. Takes(LowestFree, Head(backlog)) /\ LowestFree \in Fd
    BY <1>5, AcceptTakes DEF Accept, Takes
  <2>2. /\ watched' = watched \union {LowestFree}
        /\ ready' = IF Unserved(Head(backlog)) THEN ready \union {LowestFree}
                    ELSE ready
    BY <1>5 DEF Accept
  <2> QED
    BY <2>1, <2>2 DEF Takes
<1>6. CASE AcceptUnwatched \/ AcceptForgotten
  <2>1. Takes(LowestFree, Head(backlog)) /\ LowestFree \in Fd
    BY <1>6, AcceptTakes DEF AcceptUnwatched, AcceptForgotten, Takes
  <2>2. UNCHANGED epollVars
    BY <1>6 DEF AcceptUnwatched, AcceptForgotten
  <2> QED
    BY <2>1, <2>2 DEF Takes
<1>7. CASE AcceptDone
  BY <1>7 DEF AcceptDone
<1>8. CASE RecvPiece \/ RecvRequest
  BY <1>8, ZenonT(30) DEF RecvPiece, RecvRequest, Received, Here
<1>9. CASE RecvRefused
  BY <1>9 DEF RecvRefused, Received, Close, Here
<1>10. CASE RecvAgain
  BY <1>10 DEF RecvAgain, Here
<1>11. CASE RecvClose
  BY <1>11 DEF RecvClose, Close
<1>12. CASE OpenFile
  <2>1. PICK f \in Fd : /\ owner[f] = Free
                        /\ owner' = [owner EXCEPT ![f] = DataFile]
                        /\ UNCHANGED <<clientVars, epollVars, threadVars>>
    BY <1>12, OpenTakes
  <2> QED
    BY <2>1
<1>13. CASE CloseFile
  <2>1. dataFd \in Fd
    BY <1>13, ConnectionAssumption DEF CloseFile, Fd
  <2> QED
    BY <1>13, <2>1 DEF CloseFile, Close
<1>14. CASE \/ AcceptFails \/ \E a \in answers : Answer(a)
            \/ UNCHANGED connVars
  <2>1. UNCHANGED <<owner, backlog, unread, left, watched, ready, events,
                    atEvent>>
    BY <1>14 DEF AcceptFails, Answer, connVars
  <2> QED
    BY <2>1, <1>a
<1> QED
  BY <1>1, <1>2, <1>3, <1>4, <1>5, <1>6, <1>7, <1>8, <1>9, <1>10, <1>11,
     <1>12, <1>13, <1>14
  DEF ConnNext, ReceiveThread, Clients, Game

(***************************************************************************)
(* No client and no byte is left behind by an edge, however many events    *)
(* one epoll_wait takes (TcpListener_Unix.cpp:144-179).                    *)
(***************************************************************************)
THEOREM NobodyIsForgotten == ConnSpec => []NothingForgotten
<1>1. ConnTypeOK /\ EdgeInv => NothingForgotten
  BY Distinct DEF ConnTypeOK, EdgeInv, Due, Unserved, NothingForgotten
<1> QED
  BY <1>1, TypesCorrect, WatchedStayClients, EdgeInit, EdgeNext, PTL DEF ConnSpec

-----------------------------------------------------------------------------
(* The requests.                                                           *)

(***************************************************************************)
(* The inductive invariant: the lock is held exactly across a push and a   *)
(* swap, the pointer a push loaded cannot change before it appends, and    *)
(* the vector that will take the next pushes is empty from one Dispatch to *)
(* the next.                                                               *)
(***************************************************************************)
LockInv ==
  /\ requestLocker = "receive" <=> rpc \in {"load", "append", "unlock"}
  /\ requestLocker = "game" <=> gpc \in {"swap", "unlock"}

PointerInv ==
  /\ rpc = "append" => target = producerRequests
  /\ gpc \in {"lock", "swap"} => /\ consumerRequests = producerRequests
                                /\ temp /= producerRequests
                                /\ vec[temp] = <<>>
  /\ gpc \notin {"lock", "swap"} => consumerRequests /= producerRequests
  /\ gpc = "idle" => vec[consumerRequests] = <<>>

VisitInv ==
  /\ gpc = "loop" => it <= Len(vec[consumerRequests])
  /\ gpc = "handle" => it < Len(vec[consumerRequests])
  /\ rpc /= "idle" => req \in Request

HandoffInv == LockInv /\ PointerInv /\ VisitInv

USE RequestAssumption DEF Vector

LEMMA InitInv == Init => TypeOK /\ HandoffInv
  BY DEF Init, TypeOK, HandoffInv, LockInv, PointerInv, VisitInv

\* Every action keeps the types; only a push and the visits of Dispatch build
\* new sequences, from a request in hand and from one in the vector.
LEMMA StepType ==
  ASSUME TypeOK, HandoffInv, [Next]_vars
  PROVE  TypeOK'
<1> USE DEF TypeOK
<1>1. ASSUME NEW r \in Request, Produce(r)  PROVE TypeOK'
  BY <1>1 DEF Produce, pointers, history, gameVars
<1>2. CASE ReceiveLock
  BY <1>2 DEF ReceiveLock, pointers, history, gameVars
<1>3. CASE ReceiveLoad
  BY <1>3 DEF ReceiveLoad, pointers, history, gameVars
<1>4. CASE ReceiveAppend
  <2>1. req \in Request
    BY <1>4 DEF ReceiveAppend, HandoffInv, VisitInv
  <2>2. vec' \in [Vector -> Seq(Request)] /\ received' \in Seq(Request)
    BY <1>4, <2>1 DEF ReceiveAppend
  <2> QED  BY <1>4, <2>2 DEF ReceiveAppend, pointers, history, gameVars
<1>5. CASE ReceiveUnlock
  BY <1>5 DEF ReceiveUnlock, pointers, history, gameVars
<1>6. CASE DispatchSnapshot
  BY <1>6 DEF DispatchSnapshot, receiveVars, history
<1>7. CASE DispatchLock
  BY <1>7 DEF DispatchLock, pointers, receiveVars, history
<1>8. CASE DispatchSwap
  BY <1>8 DEF DispatchSwap, receiveVars, history
<1>9. CASE DispatchUnlock
  BY <1>9 DEF DispatchUnlock, pointers, receiveVars, history
<1>10. CASE DispatchSkip
  <2>1. current \in Request
    BY <1>10 DEF DispatchSkip, current
  <2>2. dispatched' \in Seq(Request) /\ skipped' \subseteq Request
    BY <1>10, <2>1 DEF DispatchSkip
  <2> QED  BY <1>10, <2>2 DEF DispatchSkip, pointers, receiveVars
<1>11. CASE DispatchCall
  BY <1>11 DEF DispatchCall, pointers, receiveVars, history
<1>12. CASE DispatchDelete
  <2>1. current \in Request
    BY <1>12 DEF DispatchDelete, current, HandoffInv, VisitInv
  <2>2. dispatched' \in Seq(Request)
    BY <1>12, <2>1 DEF DispatchDelete
  <2> QED  BY <1>12, <2>2 DEF DispatchDelete, pointers, receiveVars
<1>13. CASE DispatchClear
  BY <1>13 DEF DispatchClear, pointers, receiveVars, history
<1>14. ASSUME NEW m \in MsgId, Register(m)  PROVE TypeOK'
  BY <1>14 DEF Register, pointers, receiveVars, gameVars, history
<1>15. CASE UNCHANGED vars
  BY <1>15 DEF vars, pointers, receiveVars, gameVars, history
<1> QED
  BY <1>1, <1>2, <1>3, <1>4, <1>5, <1>6, <1>7, <1>8, <1>9, <1>10, <1>11,
     <1>12, <1>13, <1>14, <1>15 DEF Next, ReceiveStep, Dispatch

\* Which thread holds the lock tells where both are, so neither pointer moves
\* under a push and nothing is pushed to a vector while it changes hands.
LEMMA StepInv ==
  ASSUME TypeOK, HandoffInv, [Next]_vars
  PROVE  HandoffInv'
<1> USE DEF TypeOK, HandoffInv, LockInv, PointerInv, VisitInv
<1>1. ASSUME NEW r \in Request, Produce(r)  PROVE HandoffInv'
  BY <1>1 DEF Produce, pointers, gameVars
<1>2. CASE ReceiveLock
  BY <1>2 DEF ReceiveLock, pointers, gameVars
<1>3. CASE ReceiveLoad
  BY <1>3 DEF ReceiveLoad, pointers, gameVars
<1>4. CASE ReceiveAppend
  <2>1. target = producerRequests /\ gpc \notin {"swap", "unlock"}
    BY <1>4 DEF ReceiveAppend
  <2>2. req \in Request /\ rpc' = "unlock"
    BY <1>4 DEF ReceiveAppend
  <2>3. vec'[producerRequests] = Append(vec[producerRequests], req)
    BY <1>4, <2>1 DEF ReceiveAppend
  <2>4. \A v \in Vector : v /= producerRequests => vec'[v] = vec[v]
    BY <1>4, <2>1 DEF ReceiveAppend
  <2>5. UNCHANGED <<producerRequests, consumerRequests, gpc, temp, it, target,
                    req, requestLocker>>
    BY <1>4 DEF ReceiveAppend, pointers, gameVars
  <2>6. LockInv' BY <1>4, <2>2, <2>5 DEF ReceiveAppend
  <2>7. PointerInv' BY <2>1, <2>2, <2>4, <2>5
  <2>8. VisitInv' BY <2>1, <2>2, <2>4, <2>5
  <2> QED  BY <2>6, <2>7, <2>8
<1>5. CASE ReceiveUnlock
  BY <1>5 DEF ReceiveUnlock, pointers, gameVars
<1>6. CASE DispatchSnapshot
  BY <1>6 DEF DispatchSnapshot, receiveVars
<1>7. CASE DispatchLock
  BY <1>7 DEF DispatchLock, pointers, receiveVars
<1>8. CASE DispatchSwap
  BY <1>8 DEF DispatchSwap, receiveVars
<1>9. CASE DispatchUnlock
  BY <1>9 DEF DispatchUnlock, pointers, receiveVars
<1>10. CASE DispatchSkip
  BY <1>10 DEF DispatchSkip, pointers, receiveVars
<1>11. CASE DispatchCall
  BY <1>11 DEF DispatchCall, pointers, receiveVars
<1>12. CASE DispatchDelete
  BY <1>12 DEF DispatchDelete, pointers, receiveVars
<1>13. CASE DispatchClear
  BY <1>13 DEF DispatchClear, pointers, receiveVars
<1>14. ASSUME NEW m \in MsgId, Register(m)  PROVE HandoffInv'
  BY <1>14 DEF Register, pointers, receiveVars, gameVars
<1>15. CASE UNCHANGED vars
  BY <1>15 DEF vars, pointers, receiveVars, gameVars
<1> QED
  BY <1>1, <1>2, <1>3, <1>4, <1>5, <1>6, <1>7, <1>8, <1>9, <1>10, <1>11,
     <1>12, <1>13, <1>14, <1>15 DEF Next, ReceiveStep, Dispatch

\* The types and the protocol invariant hold in every state that TcpListener's
\* two threads can reach, for every set of requests and message ids.
THEOREM HandoffCorrect == Spec => [](TypeOK /\ HandoffInv)
<1>1. Init => TypeOK /\ HandoffInv  BY InitInv
<1>2. TypeOK /\ HandoffInv /\ [Next]_vars => (TypeOK /\ HandoffInv)'
  BY StepType, StepInv
<1> QED  BY <1>1, <1>2, PTL DEF Spec

\* Dispatch iterates and clears its vector without the lock, and the receive
\* thread never has a push open on that vector.
THEOREM VectorsExclusive == Spec => []ExclusiveVectors
<1>1. TypeOK /\ HandoffInv => ExclusiveVectors
  BY DEF TypeOK, HandoffInv, PointerInv, ExclusiveVectors, Draining
<1> QED  BY <1>1, HandoffCorrect, PTL

-----------------------------------------------------------------------------
(***************************************************************************)
(* The abstract mailbox, which the hand-off implements: in every behaviour *)
(* of MB!Spec the box, the batch and what was consumed are the posted      *)
(* messages in order. box, batch and pos need no expanding here.           *)
(***************************************************************************)
LEMMA MailboxInit == MB!Init => MB!TypeOK /\ MB!Fifo
  BY DEF MB!Init, MB!TypeOK, MB!Fifo

\* No step takes the variables out of their types.
LEMMA MailboxType ==
  ASSUME MB!TypeOK, [MB!Next]_(MB!vars)
  PROVE  MB!TypeOK'
<1>1. CASE \E m \in Request : MB!Post(m)
  <2>1. PICK m \in Request : MB!Post(m)  BY <1>1
  <2>2. box' \in Seq(Request) /\ received' \in Seq(Request)
    BY <2>1 DEF MB!TypeOK, MB!Post
  <2> QED  BY <2>1, <2>2 DEF MB!TypeOK, MB!Post
<1>2. CASE MB!Collect
  BY <1>2 DEF MB!TypeOK, MB!Collect
<1>3. CASE MB!Consume
  <2>1. pos + 1 \in 1 .. Len(batch)  BY <1>3 DEF MB!TypeOK, MB!Consume
  <2>2. batch[pos + 1] \in Request  BY <2>1 DEF MB!TypeOK
  <2>3. dispatched' \in Seq(Request)  BY <1>3, <2>2 DEF MB!TypeOK, MB!Consume
  <2> QED  BY <1>3, <2>1, <2>3 DEF MB!TypeOK, MB!Consume
<1>4. CASE MB!Retire
  BY <1>4 DEF MB!TypeOK, MB!Retire
<1>5. CASE UNCHANGED MB!vars
  BY <1>5 DEF MB!TypeOK, MB!vars
<1> QED  BY <1>1, <1>2, <1>3, <1>4, <1>5 DEF MB!Next

\* Each action moves a message from one place to the next, at the right end.
LEMMA MailboxFifo ==
  ASSUME MB!TypeOK, MB!Fifo, [MB!Next]_(MB!vars)
  PROVE  MB!Fifo'
<1> DEFINE done == Len(dispatched)
           still == Len(batch) - pos
<1>0. /\ done \in Nat /\ still \in Nat /\ pos \in Nat
      /\ Len(batch) \in Nat /\ Len(box) \in Nat /\ Len(received) \in Nat
  BY DEF MB!TypeOK
<1>f. /\ Len(received) = done + still + Len(box)
      /\ \A k \in 1 .. done : dispatched[k] = received[k]
      /\ \A k \in 1 .. still : batch[pos + k] = received[done + k]
      /\ \A k \in 1 .. Len(box) : box[k] = received[done + still + k]
  BY DEF MB!Fifo
<1>1. ASSUME NEW m \in Request, MB!Post(m)
      PROVE  MB!Fifo'
  <2>1. /\ Len(box') = Len(box) + 1 /\ Len(received') = Len(received) + 1
        /\ box'[Len(box) + 1] = m /\ received'[Len(received) + 1] = m
        /\ \A k \in 1 .. Len(box) : box'[k] = box[k]
        /\ \A k \in 1 .. Len(received) : received'[k] = received[k]
    BY <1>1 DEF MB!Post, MB!TypeOK
  <2>2. UNCHANGED <<batch, pos, dispatched>>  BY <1>1 DEF MB!Post
  <2>3. Len(received') = Len(dispatched') + (Len(batch') - pos') + Len(box')
    BY <1>0, <1>f, <2>1, <2>2, SMTT(30)
  <2>4. \A k \in 1 .. Len(dispatched') : dispatched'[k] = received'[k]
    BY <1>0, <1>f, <2>1, <2>2
  <2>5. \A k \in 1 .. Len(batch') - pos' :
          batch'[pos' + k] = received'[Len(dispatched') + k]
    <3> TAKE k \in 1 .. Len(batch') - pos'
    <3>1. k \in 1 .. still /\ done + k \in 1 .. Len(received)
      BY <1>0, <1>f, <2>2
    <3> QED  BY <1>f, <2>1, <2>2, <3>1
  <2>6. \A k \in 1 .. Len(box') :
          box'[k] = received'[Len(dispatched') + (Len(batch') - pos') + k]
    <3> TAKE k \in 1 .. Len(box')
    <3>0. Len(dispatched') + (Len(batch') - pos') = done + still  BY <2>2
    <3>1. CASE k \in 1 .. Len(box)
      <4>1. done + still + k \in 1 .. Len(received)  BY <1>0, <1>f, <3>1
      <4> QED  BY <1>f, <2>1, <3>0, <3>1, <4>1
    <3>2. CASE k = Len(box) + 1
      <4>1. done + still + k = Len(received) + 1  BY <1>0, <1>f, <3>2
      <4> QED  BY <2>1, <3>0, <3>2, <4>1
    <3> QED  BY <1>0, <2>1, <3>1, <3>2
  <2> QED  BY <2>3, <2>4, <2>5, <2>6 DEF MB!Fifo
<1>2. CASE MB!Collect
  <2>1. /\ Len(batch) = 0 /\ Len(box') = 0
        /\ batch' = box
        /\ UNCHANGED <<pos, received, dispatched>>
    BY <1>2 DEF MB!Collect
  <2>2. pos = 0  BY <2>1 DEF MB!TypeOK
  <2> QED  BY <1>0, <1>f, <2>1, <2>2 DEF MB!Fifo
<1>3. CASE MB!Consume
  <2>1. batch[pos + 1] \in Request
    BY <1>0, <1>3 DEF MB!Consume, MB!TypeOK
  <2>2. /\ Len(dispatched') = done + 1
        /\ dispatched'[done + 1] = batch[pos + 1]
        /\ \A k \in 1 .. done : dispatched'[k] = dispatched[k]
    BY <1>3, <2>1 DEF MB!Consume, MB!TypeOK
  <2>3. /\ pos < Len(batch) /\ pos' = pos + 1
        /\ UNCHANGED <<box, batch, received>>
    BY <1>3 DEF MB!Consume
  <2>4. batch[pos + 1] = received[done + 1]
    <3>1. 1 \in 1 .. still  BY <1>0, <2>3
    <3>2. \A k \in 1 .. still : batch[pos + k] = received[done + k]
      BY <1>f
    <3> QED  BY ONLY <3>1, <3>2
  <2>0. /\ Len(dispatched') + (Len(batch') - pos') = done + still
        /\ UNCHANGED box /\ UNCHANGED batch /\ UNCHANGED received
    BY <1>0, <2>2, <2>3
  <2>5. Len(received') = Len(dispatched') + (Len(batch') - pos') + Len(box')
    BY <1>f, <2>0
  <2>6. \A k \in 1 .. Len(dispatched') : dispatched'[k] = received'[k]
    <3> TAKE k \in 1 .. Len(dispatched')
    <3>1. CASE k \in 1 .. done  BY <1>f, <2>0, <2>2, <3>1
    <3>2. CASE k = done + 1  BY <2>0, <2>2, <2>4, <3>2
    <3> QED  BY <1>0, <2>2, <3>1, <3>2
  <2>7. \A k \in 1 .. Len(batch') - pos' :
          batch'[pos' + k] = received'[Len(dispatched') + k]
    <3> TAKE k \in 1 .. Len(batch') - pos'
    <3>1. k + 1 \in 1 .. still  BY <1>0, <2>3
    <3>2. batch[pos + (k + 1)] = received[done + (k + 1)]  BY <1>f, <3>1
    <3> QED  BY <1>0, <2>2, <2>3, <3>2
  <2>8. \A k \in 1 .. Len(box') :
          box'[k] = received'[Len(dispatched') + (Len(batch') - pos') + k]
    BY <1>f, <2>0
  <2> QED  BY <2>5, <2>6, <2>7, <2>8 DEF MB!Fifo
<1>4. CASE MB!Retire
  <2>1. /\ still = 0 /\ Len(batch') = 0 /\ pos' = 0
        /\ UNCHANGED <<box, received, dispatched>>
    BY <1>0, <1>4 DEF MB!Retire
  <2>2. /\ Len(dispatched') + (Len(batch') - pos') = done + still
        /\ 1 .. Len(batch') - pos' = {}
        /\ UNCHANGED box /\ UNCHANGED received /\ UNCHANGED dispatched
    BY <1>0, <2>1
  <2> QED  BY <1>f, <2>2 DEF MB!Fifo
<1>5. CASE UNCHANGED MB!vars
  BY <1>5 DEF MB!Fifo, MB!vars
<1> QED  BY <1>1, <1>2, <1>3, <1>4, <1>5 DEF MB!Next

\* In every behaviour of the abstract mailbox the messages stay in order and
\* none is lost or repeated: what Dispatch and SendResponses have to provide.
THEOREM MailboxCorrect == MB!Spec => []MB!Fifo
<1>1. MB!Init => MB!TypeOK /\ MB!Fifo  BY MailboxInit
<1>2. MB!TypeOK /\ MB!Fifo /\ [MB!Next]_(MB!vars) => (MB!TypeOK /\ MB!Fifo)'
  BY MailboxType, MailboxFifo
<1> QED  BY <1>1, <1>2, PTL DEF MB!Spec

LEMMA InitRefines == Init => MB!Init
  BY DEF Init, MB!Init, box, batch, pos, Draining

\* The push is Post, the swap is Collect, a visit is Consume, clear is Retire;
\* every other step leaves the abstract mailbox alone.
LEMMA StepRefines ==
  ASSUME TypeOK, HandoffInv, [Next]_vars
  PROVE  [MB!Next]_(MB!vars)
<1> USE DEF TypeOK, box, batch, pos, Draining, MB!vars
<1>1. ASSUME NEW r \in Request, Produce(r)  PROVE UNCHANGED MB!vars
  BY <1>1 DEF Produce, pointers, history, gameVars
<1>2. CASE ReceiveLock
  BY <1>2 DEF ReceiveLock, pointers, history, gameVars
<1>3. CASE ReceiveLoad
  BY <1>3 DEF ReceiveLoad, pointers, history, gameVars
<1>4. CASE ReceiveAppend
  <2>1. /\ target = producerRequests
        /\ req \in Request
        /\ gpc \in {"unlock", "loop", "handle"} =>
             consumerRequests /= producerRequests
    BY <1>4 DEF ReceiveAppend, HandoffInv, PointerInv, VisitInv
  <2>2. box' = Append(box, req) /\ received' = Append(received, req)
    BY <1>4, <2>1 DEF ReceiveAppend, pointers
  <2>3. UNCHANGED <<batch, pos, dispatched>>
    BY <1>4, <2>1 DEF ReceiveAppend, pointers, gameVars
  <2>4. MB!Post(req)  BY <2>2, <2>3 DEF MB!Post
  <2> QED  BY <2>1, <2>4 DEF MB!Next
<1>5. CASE ReceiveUnlock
  BY <1>5 DEF ReceiveUnlock, pointers, history, gameVars
<1>6. CASE DispatchSnapshot
  BY <1>6 DEF DispatchSnapshot, receiveVars, history
<1>7. CASE DispatchLock
  BY <1>7 DEF DispatchLock, pointers, receiveVars, history
<1>8. CASE DispatchSwap
  <2>1. /\ consumerRequests = producerRequests /\ vec[temp] = <<>>
        /\ producerRequests' = temp /\ gpc = "swap" /\ gpc' = "unlock"
        /\ UNCHANGED <<vec, consumerRequests, received, dispatched>>
    BY <1>8 DEF DispatchSwap, HandoffInv, PointerInv, history
  <2>2. batch = <<>> /\ batch' = box /\ box' = <<>>  BY <2>1
  <2>3. UNCHANGED <<pos, received, dispatched>>  BY <2>1
  <2>4. MB!Collect  BY <2>2, <2>3 DEF MB!Collect
  <2> QED  BY <2>4 DEF MB!Next
<1>9. CASE DispatchUnlock
  BY <1>9 DEF DispatchUnlock, pointers, receiveVars, history
<1>10. CASE DispatchSkip
  <2>1. MB!Consume
    BY <1>10 DEF DispatchSkip, MB!Consume, pointers, current
  <2> QED  BY <2>1 DEF MB!Next
<1>11. CASE DispatchCall
  BY <1>11 DEF DispatchCall, pointers, receiveVars, history
<1>12. CASE DispatchDelete
  <2>1. it < Len(vec[consumerRequests])
    BY <1>12 DEF DispatchDelete, HandoffInv, VisitInv
  <2>2. MB!Consume
    BY <1>12, <2>1 DEF DispatchDelete, MB!Consume, pointers, current
  <2> QED  BY <2>2 DEF MB!Next
<1>13. CASE DispatchClear
  <2>1. consumerRequests /= producerRequests
    BY <1>13 DEF DispatchClear, HandoffInv, PointerInv
  <2>2. MB!Retire
    BY <1>13, <2>1 DEF DispatchClear, MB!Retire, pointers, history
  <2> QED  BY <2>2 DEF MB!Next
<1>14. ASSUME NEW m \in MsgId, Register(m)  PROVE UNCHANGED MB!vars
  BY <1>14 DEF Register, pointers, gameVars, history
<1>15. CASE UNCHANGED vars
  BY <1>15 DEF vars, pointers, receiveVars, gameVars, history
<1> QED
  BY <1>1, <1>2, <1>3, <1>4, <1>5, <1>6, <1>7, <1>8, <1>9, <1>10, <1>11,
     <1>12, <1>13, <1>14, <1>15 DEF Next, ReceiveStep, Dispatch

\* Receive and Dispatch implement the abstract mailbox: whatever the two
\* threads' interleaving, the game sees a queue taken batch by batch.
THEOREM HandoffRefines == Spec => ImplementsMailbox
<1>1. Init => MB!Init  BY InitRefines
<1>2. TypeOK /\ HandoffInv /\ [Next]_vars => [MB!Next]_(MB!vars)
  BY StepRefines
<1> QED
  BY <1>1, <1>2, HandoffCorrect, PTL DEF Spec, ImplementsMailbox, MB!Spec

\* No request is lost, visited twice or visited out of order.
THEOREM HandoffFifo == Spec => []Fifo
<1>1. MB!Spec => []MB!Fifo  BY MailboxCorrect
<1> QED  BY <1>1, HandoffRefines, PTL DEF ImplementsMailbox, Fifo

-----------------------------------------------------------------------------
(* The request objects. received has no repetition, because an object is   *)
(* produced once; so what Dispatch deletes is not pending any more.        *)

HeapInv ==
  /\ rpc \in {"lock", "load", "append"} =>
       heap[req] = "live" /\ \A k \in 1 .. Len(received) : received[k] /= req
  /\ rpc = "unlock" => box /= <<>> /\ box[Len(box)] = req
  /\ rpc = "idle" => req = NoRequest
  /\ \A j, k \in 1 .. Len(received) : received[j] = received[k] => j = k
  /\ \A k \in 1 .. Len(received) : heap[received[k]] /= "unborn"
  /\ \A k \in Len(dispatched) + 1 .. Len(received) : heap[received[k]] = "live"
  /\ \A r \in Request :
       heap[r] = "live" =>
         \/ r = req
         \/ r \in skipped
         \/ \E k \in Len(dispatched) + 1 .. Len(received) : received[k] = r

\* Fifo, read from the vectors: what is pending is the part of received that
\* was not dispatched.
LEMMA PendingIsUndispatched ==
  ASSUME TypeOK, HandoffInv, Fifo
  PROVE  /\ Len(dispatched) <= Len(received)
         /\ Pending = {req} \union {received[k] :
                          k \in Len(dispatched) + 1 .. Len(received)}
         /\ Draining /\ it < Len(vec[consumerRequests]) =>
              /\ Len(dispatched) + Len(box) < Len(received)
              /\ current = received[Len(dispatched) + 1]
         /\ box /= <<>> => /\ Len(dispatched) < Len(received)
                           /\ box[Len(box)] = received[Len(received)]
<1> DEFINE done == Len(dispatched)
           still == Len(batch) - pos
<1>1. /\ box \in Seq(Request) /\ batch \in Seq(Request)
      /\ pos \in 0 .. Len(batch) /\ done \in Nat /\ Len(received) \in Nat
  BY DEF TypeOK, HandoffInv, VisitInv, box, batch, pos, Draining
<1>2. /\ Len(received) = done + still + Len(box)
      /\ \A k \in 1 .. still : batch[pos + k] = received[done + k]
      /\ \A k \in 1 .. Len(box) : box[k] = received[done + still + k]
  BY DEF Fifo, MB!Fifo
<1>3. still \in Nat /\ Len(batch) \in Nat /\ Len(box) \in Nat /\ pos \in Nat
  BY <1>1
<1>4. \A k \in pos + 1 .. Len(batch) :
        /\ done + (k - pos) \in done + 1 .. Len(received)
        /\ batch[k] = received[done + (k - pos)]
  <2> TAKE k \in pos + 1 .. Len(batch)
  <2>1. k - pos \in 1 .. still  BY <1>3
  <2>2. pos + (k - pos) = k  BY <1>3
  <2>3. batch[pos + (k - pos)] = received[done + (k - pos)]  BY <1>2, <2>1
  <2> QED  BY <1>1, <1>2, <1>3, <2>1, <2>2, <2>3, SMTT(30)
<1>5. \A k \in 1 .. Len(box) :
        /\ done + still + k \in done + 1 .. Len(received)
        /\ box[k] = received[done + still + k]
  <2> TAKE k \in 1 .. Len(box)
  <2>1. box[k] = received[done + still + k]  BY <1>2
  <2>2. k \in 1 .. Len(box) /\ Len(received) = done + still + Len(box)
    BY <1>2
  <2>3. done \in Nat /\ still \in Nat /\ Len(box) \in Nat  BY <1>1, <1>3
  <2> HIDE DEF done, still
  <2>4. done + still + k \in done + 1 .. Len(received)
    BY ONLY <2>2, <2>3
  <2> QED  BY <2>1, <2>4
<1>6. ASSUME NEW k \in done + 1 .. Len(received)
      PROVE  \/ \E j \in pos + 1 .. Len(batch) : batch[j] = received[k]
             \/ \E j \in 1 .. Len(box) : box[j] = received[k]
  <2>1. CASE k <= done + still
    <3>1. k - done \in 1 .. still  BY <1>1, <1>3, <2>1
    <3>2. pos + (k - done) \in pos + 1 .. Len(batch)  BY <1>3, <3>1
    <3>3. batch[pos + (k - done)] = received[done + (k - done)]
      BY <1>2, <3>1
    <3>4. done + (k - done) = k  BY <1>1
    <3> QED  BY <3>2, <3>3, <3>4
  <2>2. CASE k > done + still
    <3>1. k - done - still \in 1 .. Len(box)  BY <1>1, <1>2, <1>3, <2>2
    <3>2. done + still + (k - done - still) = k  BY <1>1, <1>3
    <3> QED  BY <1>2, <3>1, <3>2
  <2> QED  BY <1>1, <1>3, <2>1, <2>2
<1>7. Pending = {req} \union {received[k] : k \in done + 1 .. Len(received)}
  <2>1. \A x \in Pending : x = req \/
          \E k \in done + 1 .. Len(received) : x = received[k]
    BY <1>4, <1>5 DEF Pending
  <2>2. \A k \in done + 1 .. Len(received) : received[k] \in Pending
    BY <1>6 DEF Pending
  <2> QED  BY <2>1, <2>2 DEF Pending
<1>8. ASSUME Draining, it < Len(vec[consumerRequests])
      PROVE  /\ Len(dispatched) + Len(box) < Len(received)
             /\ current = received[Len(dispatched) + 1]
  <2>1. batch = vec[consumerRequests] /\ pos = it
    BY <1>8 DEF Draining, batch, pos
  <2>2. 1 \in 1 .. still  BY <1>3, <1>8, <2>1
  <2> QED  BY <1>1, <1>2, <1>3, <2>1, <2>2 DEF current
<1>9. ASSUME box /= <<>>
      PROVE  /\ Len(dispatched) < Len(received)
             /\ box[Len(box)] = received[Len(received)]
  <2>1. Len(box) \in 1 .. Len(box)  BY <1>1, <1>9
  <2> QED  BY <1>1, <1>2, <1>3, <2>1
<1> QED  BY <1>1, <1>2, <1>3, <1>7, <1>8, <1>9

\* An object is pushed once and deleted only when it is visited, so a visit
\* never meets a deleted request.
LEMMA StepHeap ==
  ASSUME TypeOK, HandoffInv, Fifo, HeapInv, [Next]_vars
  PROVE  HeapInv'
<1> USE DEF HeapInv
<1>0. /\ Len(dispatched) \in Nat /\ Len(received) \in Nat
      /\ Len(dispatched) <= Len(received)
      /\ \A k \in 1 .. Len(received) : received[k] \in Request
      /\ heap \in [Request -> {"unborn", "live", "deleted"}]
  BY PendingIsUndispatched DEF TypeOK
<1>1. ASSUME NEW r \in Request, Produce(r)  PROVE HeapInv'
  <2>1. /\ rpc = "idle" /\ rpc' = "lock" /\ req' = r /\ heap[r] = "unborn"
        /\ heap' = [heap EXCEPT ![r] = "live"]
        /\ UNCHANGED <<box, received, dispatched, skipped>>
    BY <1>1 DEF Produce, pointers, history, box
  <2>2. \A k \in 1 .. Len(received) : received[k] /= r  BY <2>1
  <2>3. req \notin Request  BY <2>1
  <2> QED  BY <1>0, <2>1, <2>2, <2>3
<1>2. CASE ReceiveLock
  BY <1>2 DEF ReceiveLock, pointers, history, box
<1>3. CASE ReceiveLoad
  BY <1>3 DEF ReceiveLoad, pointers, history, box
<1>4. CASE ReceiveAppend
  <2>1. /\ rpc = "append" /\ rpc' = "unlock" /\ req \in Request
        /\ target = producerRequests
        /\ received' = Append(received, req) /\ box' = Append(box, req)
        /\ UNCHANGED <<req, heap, dispatched, skipped>>
    BY <1>4 DEF ReceiveAppend, pointers, box, TypeOK, HandoffInv, VisitInv,
                PointerInv
  <2>2. /\ Len(received') = Len(received) + 1
        /\ received'[Len(received) + 1] = req
        /\ \A k \in 1 .. Len(received) : received'[k] = received[k]
    BY <2>1 DEF TypeOK
  <2>3. box' /= <<>> /\ box'[Len(box')] = req  BY <2>1 DEF box, TypeOK
  <2>4. \A k \in 1 .. Len(received') :
          k \in 1 .. Len(received) \/ k = Len(received) + 1
    BY <1>0, <2>2
  <2>5. \A j, k \in 1 .. Len(received') : received'[j] = received'[k] => j = k
    BY <2>1, <2>2, <2>4
  <2>6. /\ \A k \in 1 .. Len(received') : heap'[received'[k]] /= "unborn"
        /\ \A k \in Len(dispatched') + 1 .. Len(received') :
             heap'[received'[k]] = "live"
    BY <1>0, <2>1, <2>2, <2>4
  <2>7. ASSUME NEW r \in Request, heap'[r] = "live", r /= req', r \notin skipped'
        PROVE  \E k \in Len(dispatched') + 1 .. Len(received') : received'[k] = r
    <3>1. PICK k \in Len(dispatched) + 1 .. Len(received) : received[k] = r
      BY <2>1, <2>7
    <3> QED  BY <1>0, <2>1, <2>2, <3>1
  <2> QED  BY <2>1, <2>3, <2>5, <2>6, <2>7
<1>5. CASE ReceiveUnlock
  <2>1. /\ rpc = "unlock" /\ rpc' = "idle" /\ req' = NoRequest
        /\ UNCHANGED <<heap, received, dispatched, skipped>>
    BY <1>5 DEF ReceiveUnlock, history
  <2>2. /\ req = received[Len(received)]
        /\ Len(dispatched) < Len(received)
    BY <2>1, PendingIsUndispatched
  <2>3. Len(received) \in Len(dispatched) + 1 .. Len(received)
    BY <1>0, <2>2
  <2> QED  BY <2>1, <2>2, <2>3
<1>6. CASE DispatchSnapshot
  BY <1>6 DEF DispatchSnapshot, receiveVars, history, box
<1>7. CASE DispatchLock
  BY <1>7 DEF DispatchLock, pointers, receiveVars, history, box
<1>8. CASE DispatchSwap
  <2>1. rpc /= "unlock"
    BY <1>8 DEF DispatchSwap, HandoffInv, LockInv
  <2> QED  BY <1>8, <2>1 DEF DispatchSwap, receiveVars, history
<1>9. CASE DispatchUnlock
  BY <1>9 DEF DispatchUnlock, pointers, receiveVars, history, box
<1>10. CASE DispatchSkip
  <2>1. /\ Len(dispatched) < Len(received)
        /\ current = received[Len(dispatched) + 1]
    BY <1>0, <1>10, PendingIsUndispatched DEF DispatchSkip, Draining, TypeOK, box
  <2>2. /\ Len(dispatched') = Len(dispatched) + 1
        /\ skipped' = skipped \union {current}
        /\ UNCHANGED <<heap, received, rpc, req, box>>
    BY <1>10 DEF DispatchSkip, TypeOK, pointers, receiveVars, box
  <2> QED  BY <1>0, <2>1, <2>2
<1>11. CASE DispatchCall
  BY <1>11 DEF DispatchCall, pointers, receiveVars, history, box
<1>12. CASE DispatchDelete
  <2>0. it < Len(vec[consumerRequests])
    BY <1>12 DEF DispatchDelete, HandoffInv, VisitInv
  <2>1. /\ Len(dispatched) < Len(received)
        /\ current = received[Len(dispatched) + 1]
        /\ box /= <<>> => Len(dispatched) + 1 < Len(received)
        /\ box /= <<>> => box[Len(box)] = received[Len(received)]
    BY <1>0, <1>12, <2>0, PendingIsUndispatched
    DEF DispatchDelete, Draining, TypeOK, box
  <2>2. /\ Len(dispatched') = Len(dispatched) + 1
        /\ heap' = [heap EXCEPT ![current] = "deleted"]
        /\ UNCHANGED <<skipped, received, rpc, req, box>>
    BY <1>12 DEF DispatchDelete, TypeOK, pointers, receiveVars, box
  <2>3. \A k \in 1 .. Len(received) :
          k /= Len(dispatched) + 1 => received[k] /= current
    BY <1>0, <2>1
  <2>4. rpc \in {"lock", "load", "append"} => req /= current
    BY <1>0, <2>1
  <2>5. ASSUME NEW r \in Request, heap'[r] = "live", r /= req', r \notin skipped'
        PROVE  \E k \in Len(dispatched') + 1 .. Len(received') : received'[k] = r
    <3>1. r /= current /\ heap[r] = "live"  BY <1>0, <2>2, <2>5
    <3>2. PICK k \in Len(dispatched) + 1 .. Len(received) : received[k] = r
      BY <2>2, <2>5, <3>1
    <3>3. k /= Len(dispatched) + 1  BY <2>1, <3>1, <3>2
    <3> QED  BY <1>0, <2>2, <3>2, <3>3
  <2>6. /\ \A k \in 1 .. Len(received') : heap'[received'[k]] /= "unborn"
        /\ \A k \in Len(dispatched') + 1 .. Len(received') :
             heap'[received'[k]] = "live"
    BY <1>0, <2>2, <2>3
  <2>7. rpc' \in {"lock", "load", "append"} => heap'[req'] = "live"
    BY <1>0, <2>2, <2>4
  <2> QED  BY <1>0, <2>2, <2>5, <2>6, <2>7
<1>13. CASE DispatchClear
  <2>1. UNCHANGED <<rpc, req, heap, skipped, received, dispatched>>
    BY <1>13 DEF DispatchClear, receiveVars, history
  <2>2. UNCHANGED box
    BY <1>13 DEF DispatchClear, pointers, box, HandoffInv, PointerInv, TypeOK
  <2> QED  BY <2>1, <2>2
<1>14. ASSUME NEW m \in MsgId, Register(m)  PROVE HeapInv'
  BY <1>14 DEF Register, pointers, receiveVars, history, box
<1>15. CASE UNCHANGED vars
  BY <1>15 DEF vars, pointers, receiveVars, history, box
<1> QED
  BY <1>1, <1>2, <1>3, <1>4, <1>5, <1>6, <1>7, <1>8, <1>9, <1>10, <1>11,
     <1>12, <1>13, <1>14, <1>15 DEF Next, ReceiveStep, Dispatch

\* No visit, and no push, meets a deleted request, and a request that nothing
\* points at and that is still allocated was passed over for want of a Delegate.
THEOREM HeapSafe == Spec => []HeapAccounted
<1>1. Init => HeapInv
  BY DEF Init, HeapInv, box
<1>2. TypeOK /\ HandoffInv /\ Fifo /\ HeapInv /\ [Next]_vars => HeapInv'
  BY StepHeap
<1>3. TypeOK /\ HandoffInv /\ Fifo /\ HeapInv => HeapAccounted
  <2> SUFFICES ASSUME TypeOK, HandoffInv, Fifo, HeapInv, NEW r \in Request
               PROVE  /\ r \in Pending => heap[r] = "live"
                      /\ heap[r] = "live" => r \in Pending \/ r \in skipped
    BY DEF HeapAccounted
  <2>1. Pending = {req} \union {received[k] :
                     k \in Len(dispatched) + 1 .. Len(received)}
    BY PendingIsUndispatched
  <2>2. ASSUME r = req  PROVE heap[r] = "live"
    <3>1. CASE rpc \in {"lock", "load", "append"}
      BY <2>2, <3>1 DEF HeapInv
    <3>2. CASE rpc = "unlock"
      <4>1. r = received[Len(received)] /\ Len(dispatched) < Len(received)
        BY <2>2, <3>2, PendingIsUndispatched DEF HeapInv
      <4>2. Len(received) \in Len(dispatched) + 1 .. Len(received)
        BY <4>1 DEF TypeOK
      <4> QED  BY <4>1, <4>2 DEF HeapInv
    <3>3. CASE rpc = "idle"
      BY <2>2, <3>3 DEF HeapInv
    <3> QED  BY <3>1, <3>2, <3>3 DEF TypeOK
  <2> QED  BY <2>1, <2>2 DEF HeapInv
<1> QED
  BY <1>1, <1>2, <1>3, HandoffCorrect, HandoffFifo, PTL DEF Spec
=============================================================================

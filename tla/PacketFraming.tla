---------------------------- MODULE PacketFraming ----------------------------
(***************************************************************************)
(* TcpListener::Receive on one connection: an edge-triggered event starts  *)
(* a loop of recv, cut the window of the read buffer into packets, move    *)
(* what is left to the front. A packet is a two-byte length and a body;    *)
(* TCP delivers the stream in pieces of any size.                          *)
(*                                                                         *)
(* A byte is its position in the stream the client writes, so the buffer   *)
(* says where each of its bytes came from.                                 *)
(***************************************************************************)
EXTENDS Integers, Sequences

CONSTANTS
  Body,            \* the body length of each packet the client sends
  Start,           \* the position of each packet in the stream, and its end
  maxPacketBytes,
  CopyOrder        \* the directions in which memcpy may move bytes

HeaderSize == 2    \* sizeof(PacketLengthSize)
Packet == 1 .. Len(Body)
Total == Start[Len(Body) + 1]

ASSUME FramingAssumption ==
  /\ maxPacketBytes \in Nat /\ maxPacketBytes >= HeaderSize
  /\ Body \in Seq(1 .. maxPacketBytes)
  /\ Start \in [1 .. Len(Body) + 1 -> Nat]
  /\ Start[1] = 0
  /\ \A k \in Packet : Start[k + 1] = Start[k] + HeaderSize + Body[k]
  /\ \A j, k \in 1 .. Len(Body) + 1 : j < k => Start[j] < Start[k]
  /\ CopyOrder \subseteq {"forward", "backward"}

VARIABLES
  arrived,              \* bytes of the stream the kernel has received
  read,                 \* bytes of it recv has returned
  peer,                 \* open, fin (orderly close) or reset
  ready,                \* epoll will report the socket
  final,                \* readState.packetBuf.final, below maxPacketBytes
  pendingBytes, processedBytes, waitingBytes, isWaitingPacketSize,
  rpc,                  \* the receive thread: epoll, recv, parse or compact
  closes,               \* how many times close was called on the descriptor
  rejected,             \* Produce returned nullptr
  requests              \* the bodies handed to Produce and pushed, in order

kernelVars == <<arrived, peer>>
stateVars == <<pendingBytes, processedBytes, waitingBytes, isWaitingPacketSize>>
vars == <<kernelVars, read, ready, final, stateVars, rpc, closes, rejected,
          requests>>

Index == 0 .. maxPacketBytes - 1

Init ==
  /\ arrived = 0 /\ read = 0 /\ peer = "open" /\ ready = FALSE
  /\ final = [i \in Index |-> -1]
  /\ pendingBytes = 0 /\ processedBytes = 0
  /\ waitingBytes = HeaderSize /\ isWaitingPacketSize = TRUE
  /\ rpc = "epoll" /\ closes = 0 /\ rejected = FALSE
  /\ requests = <<>>

-----------------------------------------------------------------------------
(* The client and the kernel. Closing the descriptor takes it out of epoll. *)

Arrive(n) ==
  /\ peer = "open"
  /\ arrived + n <= Total
  /\ arrived' = arrived + n
  /\ ready' = (closes = 0)
  /\ UNCHANGED <<peer, read, final, stateVars, rpc, closes, rejected, requests>>

PeerLeaves(how) ==
  /\ peer = "open"
  /\ peer' = how
  /\ ready' = (closes = 0)
  /\ UNCHANGED <<arrived, read, final, stateVars, rpc, closes, rejected,
                 requests>>

-----------------------------------------------------------------------------
(* The receive thread.                                                     *)

EpollWait ==
  /\ rpc = "epoll"
  /\ ready
  /\ ready' = FALSE
  /\ rpc' = "recv"
  /\ UNCHANGED <<kernelVars, read, final, stateVars, closes, rejected, requests>>

Room == maxPacketBytes - pendingBytes

RecvData(n) ==
  /\ rpc = "recv" /\ closes = 0
  /\ n <= Room /\ read + n <= arrived
  /\ final' = [i \in Index |-> IF i \in pendingBytes .. pendingBytes + n - 1
                               THEN read + (i - pendingBytes) ELSE final[i]]
  /\ pendingBytes' = pendingBytes + n
  /\ read' = read + n
  /\ rpc' = "parse"
  /\ UNCHANGED <<kernelVars, ready, processedBytes, waitingBytes,
                 isWaitingPacketSize, closes, rejected, requests>>

\* EAGAIN: the socket is drained.
RecvAgain ==
  /\ rpc = "recv" /\ closes = 0
  /\ Room > 0 /\ read = arrived /\ peer = "open"
  /\ rpc' = "epoll"
  /\ UNCHANGED <<kernelVars, read, ready, final, stateVars, closes, rejected,
                 requests>>

\* Mutant: EAGAIN is not told from the other errors.
RecvEndsAgain ==
  \/ closes = 0 /\ Room = 0
  \/ closes = 0 /\ read = arrived
  \/ closes = 0 /\ peer = "reset"
  \/ closes > 0

\* Mutant: that the peer closed is noticed before its last bytes are read.
RecvEndsEarly ==
  \/ closes = 0 /\ Room = 0
  \/ closes = 0 /\ peer = "fin"
  \/ closes = 0 /\ peer = "reset"
  \/ closes > 0

\* recv returns 0, or an error: the peer left, there was no room left to read
\* into, or the descriptor was closed already. All end with a close.
RecvEnds ==
  \/ closes = 0 /\ Room = 0
  \/ closes = 0 /\ read = arrived /\ peer = "fin"
  \/ closes = 0 /\ peer = "reset"
  \/ closes > 0

RecvClose ==
  /\ rpc = "recv"
  /\ RecvEnds
  /\ closes' = closes + 1
  /\ ready' = FALSE
  /\ rpc' = "epoll"
  /\ UNCHANGED <<kernelVars, read, final, stateVars, rejected, requests>>

\* The two bytes at processedBytes, read as a length; 0 stands for what comes
\* out of two bytes that are not one packet's length field.
LengthField ==
  LET here == {k \in Packet : /\ final[processedBytes] = Start[k]
                              /\ final[processedBytes + 1] = Start[k] + 1}
  IN  IF here = {} THEN 0 ELSE Body[CHOOSE k \in here : TRUE]

ParseLength ==
  /\ rpc = "parse"
  /\ pendingBytes >= waitingBytes
  /\ isWaitingPacketSize
  /\ isWaitingPacketSize' = FALSE
  /\ waitingBytes' = LengthField
  /\ pendingBytes' = pendingBytes - HeaderSize
  /\ processedBytes' = processedBytes + HeaderSize
  /\ UNCHANGED <<kernelVars, read, ready, final, rpc, closes, rejected,
                 requests>>

\* Mutant: the body stays at the front of the window.
ParseBodyInPlace ==
  /\ rpc = "parse"
  /\ pendingBytes >= waitingBytes
  /\ ~isWaitingPacketSize
  /\ requests' = Append(requests,
                   [i \in 1 .. waitingBytes |-> final[processedBytes + i - 1]])
  /\ pendingBytes' = pendingBytes - waitingBytes
  /\ isWaitingPacketSize' = TRUE
  /\ waitingBytes' = HeaderSize
  /\ UNCHANGED <<kernelVars, read, ready, final, processedBytes, rpc, closes,
                 rejected>>

\* Produce makes a request of the body and it is pushed.
ParseBody ==
  /\ rpc = "parse"
  /\ pendingBytes >= waitingBytes
  /\ ~isWaitingPacketSize
  /\ requests' = Append(requests,
                   [i \in 1 .. waitingBytes |-> final[processedBytes + i - 1]])
  /\ pendingBytes' = pendingBytes - waitingBytes
  /\ processedBytes' = processedBytes + waitingBytes
  /\ isWaitingPacketSize' = TRUE
  /\ waitingBytes' = HeaderSize
  /\ UNCHANGED <<kernelVars, read, ready, final, rpc, closes, rejected>>

\* Mutant: the parse loop goes on after the close.
RejectGoesOn ==
  /\ rpc = "parse"
  /\ pendingBytes >= waitingBytes
  /\ ~isWaitingPacketSize
  /\ rejected' = TRUE
  /\ closes' = closes + 1
  /\ ready' = FALSE
  /\ UNCHANGED <<kernelVars, read, final, stateVars, rpc, requests>>

\* Produce returns nullptr: close, and leave the parse loop only.
Reject ==
  /\ rpc = "parse"
  /\ pendingBytes >= waitingBytes
  /\ ~isWaitingPacketSize
  /\ rejected' = TRUE
  /\ closes' = closes + 1
  /\ ready' = FALSE
  /\ rpc' = "compact"
  /\ UNCHANGED <<kernelVars, read, final, stateVars, requests>>

ParseDone ==
  /\ rpc = "parse"
  /\ pendingBytes < waitingBytes
  /\ rpc' = "compact"
  /\ UNCHANGED <<kernelVars, read, ready, final, stateVars, closes, rejected,
                 requests>>

\* memcpy of the window to the front. Where the two regions overlap, a copy
\* from the last byte down reads bytes it has already overwritten.
Moved(order, i) ==
  IF order = "forward" \/ processedBytes = 0 THEN final[processedBytes + i]
  ELSE final[i + processedBytes *
                   ((pendingBytes - 1 - i) \div processedBytes + 1)]

\* Mutant: one recv for each event, as with level-triggered epoll.
CompactOnce(order) ==
  /\ rpc = "compact"
  /\ final' = [i \in Index |-> IF i < pendingBytes THEN Moved(order, i)
                               ELSE final[i]]
  /\ processedBytes' = 0
  /\ rpc' = "epoll"
  /\ UNCHANGED <<kernelVars, read, ready, pendingBytes, waitingBytes,
                 isWaitingPacketSize, closes, rejected, requests>>

Compact(order) ==
  /\ rpc = "compact"
  /\ final' = [i \in Index |-> IF i < pendingBytes THEN Moved(order, i)
                               ELSE final[i]]
  /\ processedBytes' = 0
  /\ rpc' = "recv"
  /\ UNCHANGED <<kernelVars, read, ready, pendingBytes, waitingBytes,
                 isWaitingPacketSize, closes, rejected, requests>>

-----------------------------------------------------------------------------
Kernel ==
  \/ \E n \in 1 .. Total : Arrive(n)
  \/ \E how \in {"fin", "reset"} : PeerLeaves(how)

ReceiveThread ==
  \/ EpollWait
  \/ \E n \in 1 .. maxPacketBytes : RecvData(n)
  \/ RecvAgain \/ RecvClose
  \/ ParseLength \/ ParseBody \/ Reject \/ ParseDone
  \/ \E order \in CopyOrder : Compact(order)

Next == Kernel \/ ReceiveThread

Spec == Init /\ [][Next]_vars

\* The receive thread runs; the client may stop sending at any point.
FairSpec == Spec /\ WF_vars(ReceiveThread)

-----------------------------------------------------------------------------
TypeOK ==
  /\ arrived \in 0 .. Total /\ read \in 0 .. arrived
  /\ peer \in {"open", "fin", "reset"}
  /\ ready \in BOOLEAN /\ isWaitingPacketSize \in BOOLEAN
  /\ rejected \in BOOLEAN
  /\ final \in [Index -> -1 .. Total - 1]
  /\ pendingBytes \in Nat /\ processedBytes \in Nat
  /\ processedBytes + pendingBytes <= maxPacketBytes
  /\ waitingBytes \in 0 .. maxPacketBytes
  /\ rpc \in {"epoll", "recv", "parse", "compact"}
  /\ closes \in Nat
  /\ requests \in Seq(Seq(-1 .. Total - 1))

(***************************************************************************)
(* The window of the buffer is the part of the stream that was read and    *)
(* not cut yet, in order, and it begins at a length field exactly when     *)
(* isWaitingPacketSize says so, whatever the pieces recv returned.         *)
(***************************************************************************)
WindowIntact ==
  LET cut  == read - pendingBytes
      next == Len(requests) + 1
  IN  /\ \A i \in 0 .. pendingBytes - 1 : final[processedBytes + i] = cut + i
      /\ isWaitingPacketSize =>
           cut = Start[next] /\ waitingBytes = HeaderSize
      /\ ~isWaitingPacketSize =>
           /\ next \in Packet
           /\ cut = Start[next] + HeaderSize
           /\ waitingBytes = Body[next]

(***************************************************************************)
(* The bodies handed on are the first bodies of the stream, byte for byte. *)
(***************************************************************************)
BodiesIntact ==
  /\ Len(requests) <= Len(Body)
  /\ \A k \in 1 .. Len(requests) :
       requests[k] = [i \in 1 .. Body[k] |-> Start[k] + HeaderSize + i - 1]

(***************************************************************************)
(* Edge-triggered epoll reports a change once: a thread that goes back to  *)
(* epoll_wait with no report due has read everything and cut every packet  *)
(* that is complete, and has noticed that the peer left.                   *)
(***************************************************************************)
NothingStranded ==
  rpc = "epoll" /\ ~ready /\ closes = 0 =>
    /\ peer = "open"
    /\ read = arrived
    /\ pendingBytes < waitingBytes

(***************************************************************************)
(* A client that sends packets within maxPacketBytes is not cut off: only  *)
(* its own leaving, or a body Produce refuses, closes the connection. In   *)
(* particular the buffer is never full when recv is called, which would    *)
(* read as an orderly close.                                               *)
(***************************************************************************)
ClosedForCause == closes > 0 => peer /= "open" \/ rejected

\* After Produce refused a body no further request is made of the stream.
NothingAfterReject == [][rejected => UNCHANGED requests]_vars

(***************************************************************************)
(* A packet that arrived completely becomes a request without any further  *)
(* byte having to arrive, even if the client closes after it; only a reset *)
(* or a refused body may prevent it.                                       *)
(***************************************************************************)
PacketsDelivered ==
  \A k \in Packet :
    arrived >= Start[k + 1]
      ~> Len(requests) >= k \/ rejected \/ peer = "reset"
=============================================================================

---------------------------- MODULE PacketProofs ----------------------------
(***************************************************************************)
(* The bytes of packets. Framing is right for every buffer size, every     *)
(* stream of packets that fit in it and every way TCP may cut the stream   *)
(* up, provided memcpy moves bytes in ascending order where its regions    *)
(* overlap. And what PacketWriter writes of a value, of a type nested to   *)
(* any depth, PacketReader reads back.                                     *)
(***************************************************************************)
EXTENDS PacketFraming, PacketCodec, SequenceLemmas

(***************************************************************************)
(* The read loop, step by step: recv is called with the window at the      *)
(* front of the buffer and less than one packet in it, and a connection    *)
(* that was closed is neither reported nor parsed again. With the window   *)
(* invariants this is inductive.                                           *)
(***************************************************************************)
LoopInv ==
  /\ rpc \in {"epoll", "recv"} => processedBytes = 0
  /\ rpc /= "parse" /\ closes = 0 => pendingBytes < waitingBytes
  /\ closes > 0 => ~ready /\ rpc /= "parse"
  /\ rejected => closes > 0

FramingInv == TypeOK /\ LoopInv /\ WindowIntact /\ BodiesIntact
                /\ NothingStranded /\ ClosedForCause

-----------------------------------------------------------------------------
(* The stream.                                                             *)

LEMMA Sizes ==
  /\ maxPacketBytes \in Nat /\ maxPacketBytes >= 2
  /\ Len(Body) \in Nat
  /\ \A k \in Packet : Body[k] \in 1 .. maxPacketBytes
  BY FramingAssumption DEF HeaderSize, Packet

LEMMA Positions ==
  /\ Total \in Nat
  /\ \A k \in 1 .. Len(Body) + 1 : Start[k] \in Nat /\ Start[k] <= Total
  /\ Start[1] = 0
  /\ \A k \in Packet : Start[k + 1] = Start[k] + 2 + Body[k]
<1>1. Len(Body) + 1 \in 1 .. Len(Body) + 1  BY Sizes
<1>2. \A k \in 1 .. Len(Body) + 1 : Start[k] \in Nat  BY FramingAssumption
<1>3. Total \in Nat  BY <1>1, <1>2 DEF Total
<1>4. ASSUME NEW k \in 1 .. Len(Body) + 1  PROVE Start[k] <= Total
  <2>1. CASE k = Len(Body) + 1  BY <1>3, <2>1 DEF Total
  <2>2. CASE k < Len(Body) + 1
    <3>1. Start[k] < Total  BY <1>1, <2>2, FramingAssumption DEF Total
    <3> QED  BY <1>2, <1>3, <3>1
  <2> QED  BY Sizes, <2>1, <2>2
<1>5. \A k \in Packet : Start[k + 1] = Start[k] + 2 + Body[k]
  BY FramingAssumption DEF HeaderSize
<1> QED  BY <1>2, <1>3, <1>4, <1>5, FramingAssumption

LEMMA PositionsDiffer ==
  ASSUME NEW j \in Packet, NEW k \in Packet, Start[j] = Start[k]
  PROVE  j = k
<1>1. j \in 1 .. Len(Body) + 1 /\ k \in 1 .. Len(Body) + 1
  BY Sizes DEF Packet
<1>2. ~(j < k)  BY <1>1, Positions, FramingAssumption
<1>3. ~(k < j)  BY <1>1, Positions, FramingAssumption
<1> QED  BY <1>1, <1>2, <1>3

\* What the invariant says where the parser stands: cut is the position of the
\* next byte to parse and next the packet it belongs to.
cut == read - pendingBytes
next == Len(requests) + 1

LEMMA Place ==
  ASSUME FramingInv
  PROVE  /\ pendingBytes \in Nat /\ processedBytes \in Nat /\ read \in Nat
         /\ processedBytes + pendingBytes <= maxPacketBytes
         /\ read <= arrived /\ arrived <= Total /\ arrived \in Nat
         /\ Len(requests) \in Nat /\ next \in 1 .. Len(Body) + 1
         /\ cut \in Nat /\ cut >= Start[next] /\ waitingBytes \in Nat
<1>1. /\ pendingBytes \in Nat /\ processedBytes \in Nat /\ read \in Nat
      /\ processedBytes + pendingBytes <= maxPacketBytes
      /\ read <= arrived /\ arrived <= Total /\ arrived \in Nat
      /\ Len(requests) \in Nat /\ waitingBytes \in Nat
  BY Positions, Sizes DEF FramingInv, TypeOK
<1>2. next \in 1 .. Len(Body) + 1
  <2>1. Len(requests) <= Len(Body)  BY DEF FramingInv, BodiesIntact
  <2> QED  BY <1>1, <2>1, Sizes DEF next
<1>3. Start[next] \in Nat  BY <1>2, Positions
<1>4. cut \in Nat /\ cut >= Start[next]
  BY <1>1, <1>3 DEF FramingInv, WindowIntact, HeaderSize, cut, next, TypeOK
<1> QED  BY <1>1, <1>2, <1>4

\* The cursors alone, for the steps that only do arithmetic.
LEMMA Cursors ==
  ASSUME FramingInv
  PROVE  /\ pendingBytes \in Nat /\ processedBytes \in Nat
         /\ read \in Nat /\ waitingBytes \in Nat
  BY Place

\* The length field the parser is at belongs to one packet only.
LEMMA LengthFieldIsBody ==
  ASSUME FramingInv, pendingBytes >= waitingBytes, isWaitingPacketSize
  PROVE  /\ next \in Packet
         /\ LengthField = Body[next]
<1>1. cut = Start[next] /\ waitingBytes = 2
  BY DEF FramingInv, WindowIntact, HeaderSize, cut, next
<1>2. cut + 2 <= Total  BY <1>1, Place, Positions DEF cut
<1>3. next \in Packet
  <2>1. next /= Len(Body) + 1  BY <1>1, <1>2, Positions, Place DEF Total
  <2> QED  BY <2>1, Place, Sizes DEF Packet
<1>4. final[processedBytes] = cut /\ final[processedBytes + 1] = cut + 1
  <2>1. \A i \in 0 .. pendingBytes - 1 : final[processedBytes + i] = cut + i
    BY DEF FramingInv, WindowIntact, cut
  <2>2. 0 \in 0 .. pendingBytes - 1 /\ 1 \in 0 .. pendingBytes - 1
    BY <1>1, Place
  <2> QED  BY <2>1, <2>2, Place
<1>5. \A k \in Packet : Start[k] = cut => k = next
  BY <1>1, <1>3, PositionsDiffer
<1>6. {k \in Packet : /\ final[processedBytes] = Start[k]
                      /\ final[processedBytes + 1] = Start[k] + 1} = {next}
  BY <1>1, <1>3, <1>4, <1>5
<1> QED  BY <1>3, <1>6 DEF LengthField

-----------------------------------------------------------------------------
LEMMA InitInv == Init => FramingInv
<1> SUFFICES ASSUME Init  PROVE FramingInv
  OBVIOUS
<1>1. TypeOK
  <2>1. final \in [Index -> -1 .. Total - 1]  BY Positions DEF Init
  <2>2. requests \in Seq(Seq(-1 .. Total - 1))  BY DEF Init
  <2>3. 0 \in 0 .. Total /\ 2 \in 0 .. maxPacketBytes  BY Positions, Sizes
  <2>4. /\ arrived \in 0 .. Total /\ read \in 0 .. arrived
        /\ processedBytes + pendingBytes <= maxPacketBytes
        /\ waitingBytes \in 0 .. maxPacketBytes
    BY <2>3, Sizes DEF Init, HeaderSize
  <2> QED  BY <2>1, <2>2, <2>4 DEF Init, TypeOK
<1>2. LoopInv  BY DEF Init, LoopInv, HeaderSize
<1>3. WindowIntact  BY Positions DEF Init, WindowIntact
<1>4. BodiesIntact  BY Sizes DEF Init, BodiesIntact
<1>5. NothingStranded /\ ClosedForCause
  BY DEF Init, NothingStranded, ClosedForCause, HeaderSize
<1> QED  BY <1>1, <1>2, <1>3, <1>4, <1>5 DEF FramingInv

\* Steps that touch neither the buffer nor the requests.
LEMMA WindowUnchanged ==
  ASSUME FramingInv, UNCHANGED <<read, final, stateVars, requests>>
  PROVE  WindowIntact' /\ BodiesIntact'
  BY DEF FramingInv, WindowIntact, BodiesIntact, stateVars

LEMMA KernelStep ==
  ASSUME FramingInv, Kernel
  PROVE  FramingInv'
<1> USE DEF FramingInv, TypeOK, LoopInv, NothingStranded, ClosedForCause
<1>1. ASSUME NEW n \in 1 .. Total, Arrive(n)  PROVE FramingInv'
  <2>1. WindowIntact' /\ BodiesIntact'
    BY <1>1, WindowUnchanged DEF Arrive
  <2>2. arrived' \in 0 .. Total /\ read' \in 0 .. arrived'
    BY <1>1, Place, Positions DEF Arrive
  <2>3. TypeOK'  BY <1>1, <2>2 DEF Arrive, stateVars
  <2>4. LoopInv'  BY <1>1, <2>2 DEF Arrive, stateVars
  <2>5. NothingStranded'  BY <1>1, <2>2 DEF Arrive, stateVars
  <2>6. ClosedForCause'  BY <1>1, <2>2 DEF Arrive, stateVars
  <2> QED  BY <2>1, <2>3, <2>4, <2>5, <2>6
<1>2. ASSUME NEW how \in {"fin", "reset"}, PeerLeaves(how)
      PROVE  FramingInv'
  <2>1. WindowIntact' /\ BodiesIntact'
    BY <1>2, WindowUnchanged DEF PeerLeaves
  <2>3. TypeOK'  BY <1>2 DEF PeerLeaves, stateVars
  <2>4. LoopInv'  BY <1>2 DEF PeerLeaves, stateVars
  <2>5. NothingStranded'  BY <1>2 DEF PeerLeaves, stateVars
  <2>6. ClosedForCause'  BY <1>2 DEF PeerLeaves, stateVars
  <2> QED  BY <2>1, <2>3, <2>4, <2>5, <2>6
<1> QED  BY <1>1, <1>2 DEF Kernel

\* recv appends the next bytes of the stream to the window.
LEMMA RecvDataStep ==
  ASSUME FramingInv, NEW n \in 1 .. maxPacketBytes, RecvData(n)
  PROVE  FramingInv'
<1>0. /\ rpc = "recv" /\ closes = 0 /\ n <= Room /\ read + n <= arrived
      /\ final' = [i \in Index |-> IF i \in pendingBytes .. pendingBytes + n - 1
                                   THEN read + (i - pendingBytes) ELSE final[i]]
      /\ pendingBytes' = pendingBytes + n /\ read' = read + n
      /\ rpc' = "parse"
      /\ UNCHANGED <<arrived, peer, ready, processedBytes, waitingBytes,
                     isWaitingPacketSize, closes, rejected, requests>>
  BY DEF RecvData, kernelVars
<1>1. processedBytes = 0 /\ n \in Nat /\ pendingBytes + n <= maxPacketBytes
  BY <1>0, Place, Sizes, SMTT(30) DEF FramingInv, LoopInv, Room
<1>2. \A i \in 0 .. pendingBytes - 1 : final[i] = read - pendingBytes + i
  BY <1>1, Place DEF FramingInv, WindowIntact
<1>3. TypeOK'
  <2>1. final' \in [Index -> -1 .. Total - 1]
    <3> SUFFICES ASSUME NEW i \in Index
                 PROVE  (IF i \in pendingBytes .. pendingBytes + n - 1
                         THEN read + (i - pendingBytes) ELSE final[i])
                           \in -1 .. Total - 1
      BY <1>0
    <3>1. CASE i \in pendingBytes .. pendingBytes + n - 1
      <4>1. pendingBytes \in Nat /\ read \in Nat  BY Cursors
      <4>2. n \in Nat  BY <1>1
      <4>3. /\ i \in Int /\ pendingBytes <= i
            /\ i <= pendingBytes + n - 1
        BY ONLY <3>1, <4>1, <4>2
      <4>4. Total \in Nat  BY Positions
      <4>5. read + n <= Total
        <5>1. arrived \in Nat /\ arrived <= Total  BY Place
        <5>2. read + n <= arrived  BY <1>0
        <5> QED  BY ONLY <4>1, <4>2, <4>4, <5>1, <5>2
      <4>6. read + (i - pendingBytes) \in -1 .. Total - 1
        BY ONLY <4>1, <4>2, <4>3, <4>4, <4>5
      <4> QED  BY <3>1, <4>6
    <3>2. CASE i \notin pendingBytes .. pendingBytes + n - 1
      BY <3>2 DEF FramingInv, TypeOK
    <3> QED  BY <3>1, <3>2
  <2>2. /\ read' \in 0 .. arrived' /\ pendingBytes' \in Nat
        /\ processedBytes' + pendingBytes' <= maxPacketBytes
    BY <1>0, <1>1, Place, Sizes
  <2> QED  BY <1>0, <2>1, <2>2 DEF FramingInv, TypeOK
<1>4. LoopInv'  BY <1>0 DEF FramingInv, LoopInv
<1>5. WindowIntact'
  <2>1. read' - pendingBytes' = read - pendingBytes  BY <1>0, <1>1, Place
  <2>2. ASSUME NEW i \in 0 .. pendingBytes' - 1
        PROVE  final'[processedBytes' + i] = read' - pendingBytes' + i
    <3>0. i \in Index /\ i \in Int /\ processedBytes' + i = i
      BY <1>0, <1>1, <2>2, Place, Sizes, SMTT(30) DEF Index
    <3>1. CASE i < pendingBytes
      <4>1. i \in 0 .. pendingBytes - 1  BY <2>2, <3>0, <3>1, Place
      <4>2. final'[i] = final[i]  BY <1>0, <3>0, <4>1, Place
      <4> QED  BY <1>2, <2>1, <3>0, <4>1, <4>2
    <3>2. CASE i >= pendingBytes
      <4>0. pendingBytes \in Nat /\ n \in Nat  BY Cursors, <1>1
      <4>a. i \in 0 .. pendingBytes' - 1  OBVIOUS
      <4>b. pendingBytes' = pendingBytes + n  BY <1>0
      <4>1. i \in pendingBytes .. pendingBytes + n - 1
        BY ONLY <3>2, <4>0, <4>a, <4>b
      <4>2. final'[i] = read + (i - pendingBytes)  BY <1>0, <3>0, <4>1
      <4> QED  BY <2>1, <3>0, <4>2, Place
    <3> QED  BY <3>0, <3>1, <3>2, Place
  <2>3. /\ isWaitingPacketSize' =>
             /\ read' - pendingBytes' = Start[Len(requests') + 1]
             /\ waitingBytes' = HeaderSize
        /\ ~isWaitingPacketSize' =>
             /\ Len(requests') + 1 \in Packet
             /\ read' - pendingBytes' = Start[Len(requests') + 1] + HeaderSize
             /\ waitingBytes' = Body[Len(requests') + 1]
    BY <1>0, <2>1 DEF FramingInv, WindowIntact
  <2> QED  BY <2>2, <2>3 DEF WindowIntact
<1>6. BodiesIntact'  BY <1>0 DEF FramingInv, BodiesIntact
<1>7. NothingStranded' /\ ClosedForCause'
  BY <1>0 DEF FramingInv, NothingStranded, ClosedForCause
<1> QED  BY <1>3, <1>4, <1>5, <1>6, <1>7 DEF FramingInv

LEMMA RecvEndSteps ==
  ASSUME FramingInv, EpollWait \/ RecvAgain \/ RecvClose \/ ParseDone \/ Reject
  PROVE  FramingInv'
<1> USE DEF FramingInv, TypeOK, LoopInv, NothingStranded, ClosedForCause,
            kernelVars, stateVars
<1>1. CASE EpollWait
  <2>1. WindowIntact' /\ BodiesIntact'
    BY <1>1, WindowUnchanged DEF EpollWait
  <2> QED  BY <1>1, <2>1 DEF EpollWait
<1>2. CASE RecvAgain
  <2>1. WindowIntact' /\ BodiesIntact'
    BY <1>2, WindowUnchanged DEF RecvAgain
  <2> QED  BY <1>2, <2>1 DEF RecvAgain
<1>3. CASE RecvClose
  <2>1. WindowIntact' /\ BodiesIntact'
    BY <1>3, WindowUnchanged DEF RecvClose
  <2>2. closes = 0 => Room > 0
    <3>1. closes = 0 => pendingBytes < waitingBytes  BY <1>3 DEF RecvClose
    <3> QED  BY <3>1, Place, Sizes DEF Room
  <2>3. closes' \in Nat /\ closes' > 0  BY <1>3 DEF RecvClose
  <2>4. ClosedForCause'
    BY <1>3, <2>2, Place, Sizes DEF RecvClose, RecvEnds, Room
  <2>5. TypeOK'  BY <1>3, <2>3 DEF RecvClose
  <2>6. LoopInv'  BY <1>3, <2>3 DEF RecvClose
  <2>7. NothingStranded'  BY <1>3, <2>3 DEF RecvClose
  <2> QED  BY <2>1, <2>4, <2>5, <2>6, <2>7
<1>4. CASE ParseDone
  <2>1. WindowIntact' /\ BodiesIntact'
    BY <1>4, WindowUnchanged DEF ParseDone
  <2> QED  BY <1>4, <2>1 DEF ParseDone
<1>5. CASE Reject
  <2>1. WindowIntact' /\ BodiesIntact'
    BY <1>5, WindowUnchanged DEF Reject
  <2>2. closes' \in Nat /\ closes' > 0  BY <1>5 DEF Reject
  <2>3. TypeOK'  BY <1>5, <2>2 DEF Reject
  <2>4. LoopInv'  BY <1>5, <2>2 DEF Reject
  <2>5. NothingStranded' /\ ClosedForCause'  BY <1>5, <2>2 DEF Reject
  <2> QED  BY <2>1, <2>3, <2>4, <2>5
<1> QED  BY <1>1, <1>2, <1>3, <1>4, <1>5

\* The length of the packet the window begins at is taken off its front.
LEMMA ParseLengthStep ==
  ASSUME FramingInv, ParseLength
  PROVE  FramingInv'
<1>0. /\ rpc = "parse" /\ pendingBytes >= waitingBytes /\ isWaitingPacketSize
      /\ isWaitingPacketSize' = FALSE
      /\ waitingBytes' = Body[next] /\ next \in Packet
      /\ pendingBytes' = pendingBytes - 2
      /\ processedBytes' = processedBytes + 2
      /\ UNCHANGED <<arrived, peer, read, ready, final, rpc, closes, rejected,
                     requests>>
  BY LengthFieldIsBody DEF ParseLength, HeaderSize, kernelVars
<1>1. waitingBytes = 2 /\ cut = Start[next]
  BY <1>0 DEF FramingInv, WindowIntact, HeaderSize, cut, next
<1>2. pendingBytes' \in Nat /\ processedBytes' \in Nat
      /\ processedBytes' + pendingBytes' = processedBytes + pendingBytes
  <2>1. pendingBytes \in Nat /\ processedBytes \in Nat  BY Place
  <2>2. pendingBytes >= 2  BY <1>0, <1>1
  <2>3. pendingBytes' = pendingBytes - 2 /\ processedBytes' = processedBytes + 2
    BY <1>0
  <2> QED  BY ONLY <2>1, <2>2, <2>3
<1>3. TypeOK'
  <2>1. waitingBytes' \in 0 .. maxPacketBytes  BY <1>0, Sizes
  <2> QED  BY <1>0, <1>2, <2>1 DEF FramingInv, TypeOK
<1>4. LoopInv'  BY <1>0 DEF FramingInv, LoopInv
<1>5. WindowIntact'
  <2>1. ASSUME NEW i \in 0 .. pendingBytes' - 1
        PROVE  final'[processedBytes' + i] = read' - pendingBytes' + i
    <3>1. i + 2 \in 0 .. pendingBytes - 1
      <4>1. i \in Nat /\ i <= pendingBytes - 2 - 1  BY <1>0, <1>2, <2>1
      <4>2. pendingBytes \in Nat  BY Cursors
      <4> QED  BY ONLY <4>1, <4>2
    <3>2. final[processedBytes + (i + 2)] = read - pendingBytes + (i + 2)
      BY <3>1 DEF FramingInv, WindowIntact
    <3>3. /\ processedBytes' + i = processedBytes + (i + 2)
          /\ read' - pendingBytes' + i = read - pendingBytes + (i + 2)
      <4>1. i \in Int  BY <2>1
      <4>2. processedBytes \in Nat /\ pendingBytes \in Nat /\ read \in Nat
        BY Cursors
      <4>3. /\ pendingBytes' = pendingBytes - 2
            /\ processedBytes' = processedBytes + 2 /\ read' = read
        BY <1>0
      <4> QED  BY ONLY <4>1, <4>2, <4>3
    <3> QED  BY <1>0, <3>2, <3>3
  <2>2. read' - pendingBytes' = Start[next] + 2
    BY <1>0, <1>1, Place, SMTT(30) DEF cut
  <2> QED  BY <1>0, <2>1, <2>2 DEF WindowIntact, HeaderSize, next
<1>6. BodiesIntact'  BY <1>0 DEF FramingInv, BodiesIntact
<1>7. NothingStranded' /\ ClosedForCause'
  BY <1>0 DEF FramingInv, NothingStranded, ClosedForCause
<1> QED  BY <1>3, <1>4, <1>5, <1>6, <1>7 DEF FramingInv

\* The body the parser waited for is in the window, and becomes the next request.
LEMMA ParseBodyStep ==
  ASSUME FramingInv, ParseBody
  PROVE  FramingInv'
<1> DEFINE body == [i \in 1 .. waitingBytes |-> final[processedBytes + i - 1]]
<1>0. /\ rpc = "parse" /\ pendingBytes >= waitingBytes
      /\ isWaitingPacketSize = FALSE /\ isWaitingPacketSize' = TRUE
      /\ waitingBytes' = 2
      /\ requests' = Append(requests, body)
      /\ pendingBytes' = pendingBytes - waitingBytes
      /\ processedBytes' = processedBytes + waitingBytes
      /\ UNCHANGED <<arrived, peer, read, ready, final, rpc, closes, rejected>>
  BY DEF ParseBody, HeaderSize, kernelVars, FramingInv, TypeOK
<1>1. /\ next \in Packet /\ waitingBytes = Body[next]
      /\ cut = Start[next] + 2 /\ waitingBytes \in 1 .. maxPacketBytes
  BY <1>0, Sizes DEF FramingInv, WindowIntact, HeaderSize, cut, next
<1>2. \A i \in 0 .. pendingBytes - 1 : final[processedBytes + i] = cut + i
  BY DEF FramingInv, WindowIntact, cut
<1>3. \A i \in 1 .. waitingBytes :
        /\ processedBytes + i - 1 \in Index
        /\ final[processedBytes + i - 1] = Start[next] + 2 + i - 1
  <2> TAKE i \in 1 .. waitingBytes
  <2>0. /\ pendingBytes \in Nat /\ processedBytes \in Nat
        /\ waitingBytes \in Nat
    BY Cursors
  <2>a. i \in 1 .. waitingBytes  OBVIOUS
  <2>b. pendingBytes >= waitingBytes  BY <1>0
  <2>1. i - 1 \in 0 .. pendingBytes - 1  BY ONLY <2>0, <2>a, <2>b
  <2>2. processedBytes + i - 1 = processedBytes + (i - 1)
    BY ONLY <2>0, <2>a
  <2>3. processedBytes + i - 1 \in Index  BY <2>1, Place, Sizes, SMTT(30) DEF Index
  <2>4. Start[next] \in Nat  BY Place, Positions
  <2> QED  BY <1>1, <1>2, <2>1, <2>2, <2>3, <2>4
<1>4. /\ pendingBytes' \in Nat /\ processedBytes' \in Nat
      /\ processedBytes' + pendingBytes' = processedBytes + pendingBytes
  <2>1. /\ processedBytes \in Nat /\ pendingBytes \in Nat
        /\ waitingBytes \in Nat
    BY Place
  <2> HIDE DEF body
  <2> QED  BY <1>0, <2>1
<1>5. body \in Seq(-1 .. Total - 1)
  <2>1. \A i \in 1 .. waitingBytes :
          final[processedBytes + i - 1] \in -1 .. Total - 1
    BY <1>3 DEF FramingInv, TypeOK
  <2>2. waitingBytes \in Nat  BY Place
  <2> QED  BY <2>1, <2>2
<1>6. TypeOK'
  <2>1. requests' \in Seq(Seq(-1 .. Total - 1))
    <3>1. requests \in Seq(Seq(-1 .. Total - 1))  BY DEF FramingInv, TypeOK
    <3> HIDE DEF body
    <3> QED  BY <1>0, <1>5, <3>1
  <2>2. waitingBytes' \in 0 .. maxPacketBytes  BY <1>0, Sizes
  <2> QED  BY <1>0, <1>4, <2>1, <2>2 DEF FramingInv, TypeOK
<1>7. LoopInv'  BY <1>0 DEF FramingInv, LoopInv
<1>8. /\ Len(requests') = next
      /\ requests'[next] = body
      /\ \A k \in 1 .. Len(requests) : requests'[k] = requests[k]
  <2>1. requests \in Seq(Seq(-1 .. Total - 1))  BY DEF FramingInv, TypeOK
  <2> HIDE DEF body
  <2> QED  BY <1>0, <1>5, <2>1 DEF next
<1>9. WindowIntact'
  <2>1. ASSUME NEW i \in 0 .. pendingBytes' - 1
        PROVE  final'[processedBytes' + i] = read' - pendingBytes' + i
    <3>1. i + waitingBytes \in 0 .. pendingBytes - 1
      <4>1. i \in Nat /\ i <= pendingBytes - waitingBytes - 1
        BY <1>0, <1>4, <2>1
      <4>2. pendingBytes \in Nat /\ waitingBytes \in Nat  BY Cursors
      <4> QED  BY ONLY <4>1, <4>2
    <3>2. final[processedBytes + (i + waitingBytes)] = cut + (i + waitingBytes)
      BY <1>2, <3>1
    <3>3. /\ processedBytes' + i = processedBytes + (i + waitingBytes)
          /\ read' - pendingBytes' + i = cut + (i + waitingBytes)
      <4>1. /\ pendingBytes \in Nat /\ processedBytes \in Nat
            /\ waitingBytes \in Nat /\ read \in Nat /\ i \in Int
        BY Cursors, <2>1
      <4>2. /\ pendingBytes' = pendingBytes - waitingBytes
            /\ processedBytes' = processedBytes + waitingBytes
            /\ read' = read
        BY <1>0
      <4> QED  BY ONLY <4>1, <4>2 DEF cut
    <3> QED  BY <1>0, <3>2, <3>3
  <2>2. read' - pendingBytes' = Start[next + 1]
    <3>1. Start[next + 1] = Start[next] + 2 + Body[next]  BY <1>1, Positions
    <3>2. read' - pendingBytes' = cut + waitingBytes  BY <1>0, Place, SMTT(30) DEF cut
    <3>3. Start[next] \in Nat  BY Place, Positions
    <3> QED  BY <1>1, <3>1, <3>2, <3>3
  <2> QED  BY <1>0, <1>8, <2>1, <2>2 DEF WindowIntact, HeaderSize
<1>10. BodiesIntact'
  <2>1. Len(requests') <= Len(Body)  BY <1>1, <1>8 DEF Packet
  <2>2. ASSUME NEW k \in 1 .. Len(requests')
        PROVE  requests'[k] =
                 [i \in 1 .. Body[k] |-> Start[k] + HeaderSize + i - 1]
    <3>1. CASE k \in 1 .. Len(requests)
      BY <1>8, <3>1 DEF FramingInv, BodiesIntact
    <3>2. CASE k = next
      <4>1. body = [i \in 1 .. Body[k] |-> Start[k] + 2 + i - 1]
        BY <1>1, <1>3, <3>2
      <4> QED  BY <1>8, <3>2, <4>1 DEF HeaderSize
    <3> QED  BY <1>8, <2>2, <3>1, <3>2, Place DEF next
  <2> QED  BY <2>1, <2>2 DEF BodiesIntact
<1>11. NothingStranded' /\ ClosedForCause'
  BY <1>0 DEF FramingInv, NothingStranded, ClosedForCause
<1> QED  BY <1>6, <1>7, <1>9, <1>10, <1>11 DEF FramingInv

\* The window is moved to the front of the buffer.
LEMMA CompactStep ==
  ASSUME FramingInv, Compact("forward")
  PROVE  FramingInv'
<1>0. /\ rpc = "compact" /\ rpc' = "recv" /\ processedBytes' = 0
      /\ final' = [i \in Index |-> IF i < pendingBytes
                                   THEN final[processedBytes + i] ELSE final[i]]
      /\ UNCHANGED <<arrived, peer, read, ready, pendingBytes, waitingBytes,
                     isWaitingPacketSize, closes, rejected, requests>>
  BY DEF Compact, Moved, kernelVars
<1>1. \A i \in 0 .. pendingBytes - 1 :
        i \in Index /\ processedBytes + i \in Index
  BY Place, Sizes, SMTT(30) DEF Index
<1>2. TypeOK'
  <2>1. final' \in [Index -> -1 .. Total - 1]
    <3>1. \A i \in Index : i < pendingBytes => i \in 0 .. pendingBytes - 1
      BY Place DEF Index
    <3> QED  BY <1>0, <1>1, <3>1 DEF FramingInv, TypeOK
  <2>2. processedBytes' + pendingBytes' <= maxPacketBytes
    BY <1>0, Place, Sizes
  <2> QED  BY <1>0, <2>1, <2>2 DEF FramingInv, TypeOK
<1>3. LoopInv'  BY <1>0 DEF FramingInv, LoopInv
<1>4. WindowIntact'
  <2>1. ASSUME NEW i \in 0 .. pendingBytes' - 1
        PROVE  final'[processedBytes' + i] = read' - pendingBytes' + i
    <3>1. i \in 0 .. pendingBytes - 1 /\ i < pendingBytes
          /\ processedBytes' + i = i
      BY <1>0, <2>1, Place
    <3>2. final'[i] = final[processedBytes + i]  BY <1>0, <1>1, <3>1
    <3> QED  BY <1>0, <3>1, <3>2 DEF FramingInv, WindowIntact
  <2> QED  BY <1>0, <2>1 DEF FramingInv, WindowIntact
<1>5. BodiesIntact'  BY <1>0 DEF FramingInv, BodiesIntact
<1>6. NothingStranded' /\ ClosedForCause'
  BY <1>0 DEF FramingInv, NothingStranded, ClosedForCause
<1> QED  BY <1>2, <1>3, <1>4, <1>5, <1>6 DEF FramingInv

LEMMA StepInv ==
  ASSUME CopyOrder \subseteq {"forward"}, FramingInv, [Next]_vars
  PROVE  FramingInv'
<1>1. CASE Kernel  BY <1>1, KernelStep
<1>2. CASE \E n \in 1 .. maxPacketBytes : RecvData(n)
  BY <1>2, RecvDataStep
<1>3. CASE EpollWait \/ RecvAgain \/ RecvClose \/ ParseDone \/ Reject
  BY <1>3, RecvEndSteps
<1>4. CASE ParseLength  BY <1>4, ParseLengthStep
<1>5. CASE ParseBody  BY <1>5, ParseBodyStep
<1>6. CASE \E order \in CopyOrder : Compact(order)
  BY <1>6, CompactStep
<1>7. CASE UNCHANGED vars
  <2>1. UNCHANGED <<read, final, stateVars, requests>>  BY <1>7 DEF vars
  <2>2. UNCHANGED <<arrived, peer, ready, pendingBytes, processedBytes,
                    waitingBytes, isWaitingPacketSize, rpc, closes, rejected>>
    BY <1>7 DEF vars, kernelVars, stateVars
  <2>3. WindowIntact' /\ BodiesIntact'  BY <2>1, WindowUnchanged
  <2>4. TypeOK'  BY <2>1, <2>2 DEF FramingInv, TypeOK
  <2>5. LoopInv' /\ NothingStranded' /\ ClosedForCause'
    BY <2>1, <2>2 DEF FramingInv, LoopInv, NothingStranded, ClosedForCause
  <2> QED  BY <2>3, <2>4, <2>5 DEF FramingInv
<1> QED
  BY <1>1, <1>2, <1>3, <1>4, <1>5, <1>6, <1>7 DEF Next, ReceiveThread

\* With a memcpy that moves bytes in ascending order, every invariant of
\* framing holds for every stream, buffer size and cutting of the stream.
THEOREM FramingCorrect ==
  ASSUME CopyOrder \subseteq {"forward"}
  PROVE  Spec => []FramingInv
<1>1. Init => FramingInv  BY InitInv
<1>2. FramingInv /\ [Next]_vars => FramingInv'  BY StepInv
<1> QED  BY <1>1, <1>2, PTL DEF Spec

\* What becomes a request is what the client sent, body for body.
THEOREM RequestsAreTheBodies ==
  ASSUME CopyOrder \subseteq {"forward"}
  PROVE  Spec => []BodiesIntact
<1>1. FramingInv => BodiesIntact  BY DEF FramingInv
<1> QED  BY <1>1, FramingCorrect, PTL

\* A client whose packets fit in the buffer is not disconnected for them.
THEOREM NoCloseWithoutCause ==
  ASSUME CopyOrder \subseteq {"forward"}
  PROVE  Spec => []ClosedForCause
<1>1. FramingInv => ClosedForCause  BY DEF FramingInv
<1> QED  BY <1>1, FramingCorrect, PTL

\* The receive thread never sleeps on bytes or a packet it has not dealt with.
THEOREM NoByteStranded ==
  ASSUME CopyOrder \subseteq {"forward"}
  PROVE  Spec => []NothingStranded
<1>1. FramingInv => NothingStranded  BY DEF FramingInv
<1> QED  BY <1>1, FramingCorrect, PTL

\* No request is made of a stream after one of its bodies was refused.
THEOREM RefusedStreamStops ==
  ASSUME CopyOrder \subseteq {"forward"}
  PROVE  Spec => NothingAfterReject
<1>1. FramingInv /\ [Next]_vars => (rejected => UNCHANGED requests)
  <2> SUFFICES ASSUME FramingInv, [Next]_vars, rejected
               PROVE  UNCHANGED requests
    OBVIOUS
  <2>1. rpc /= "parse"  BY DEF FramingInv, LoopInv, TypeOK
  <2> QED
    BY <2>1 DEF Next, Kernel, ReceiveThread, Arrive, PeerLeaves, EpollWait,
                RecvData, RecvAgain, RecvClose, ParseLength, ParseBody, Reject,
                ParseDone, Compact, vars
<1> QED  BY <1>1, FramingCorrect, PTL DEF Spec, NothingAfterReject

-----------------------------------------------------------------------------
(* PacketWriter and PacketReader: widths and bytes.                        *)

\* A byte has an even number of values, and more than two.
LEMMA ByteValues ==
  /\ Byte \in Nat /\ Byte > 2
  /\ Half \in Nat /\ Half > 1 /\ Byte = 2 * Half
  BY ByteAssumption DEF Half

\* Power is what its recursive definition says.
LEMMA PowerUnfolds ==
  /\ Power \in [Nat -> Nat]
  /\ \A w \in Nat : Power[w] = IF w = 0 THEN 1 ELSE Byte * Power[w - 1]
<1> DEFINE F == [f \in [Nat -> Nat] |->
                   [w \in Nat |-> IF w = 0 THEN 1 ELSE Byte * f[w - 1]]]
           rank == [w \in Nat |-> w]
<1>1. F \in [[Nat -> Nat] -> [Nat -> Nat]]
  <2>1. ASSUME NEW f \in [Nat -> Nat], NEW w \in Nat, w /= 0
        PROVE  Byte * f[w - 1] \in Nat
    <3>1. f[w - 1] \in Nat
      BY <2>1
    <3> QED BY ONLY <3>1, ByteValues
  <2> QED BY <2>1
<1>2. Recursive(F, rank, Nat, Nat)
  <2>1. ASSUME NEW f \in [Nat -> Nat], NEW g \in [Nat -> Nat], NEW w \in Nat,
               \A v \in Nat : rank[v] < rank[w] => f[v] = g[v]
        PROVE  F[f][w] = F[g][w]
    <3>1. w /= 0 => f[w - 1] = g[w - 1]
      BY <2>1
    <3> QED BY <3>1
  <2> QED BY <1>1, <2>1 DEF Recursive
<1>4. PICK f \in [Nat -> Nat] : f = F[f]
  <2> HIDE DEF F, rank
  <2> QED BY ONLY <1>2, RecursionExists
<1>5. \E p : p = [w \in Nat |-> IF w = 0 THEN 1 ELSE Byte * p[w - 1]]
  BY <1>4
<1>6. Power = [w \in Nat |-> IF w = 0 THEN 1 ELSE Byte * Power[w - 1]]
  BY <1>5 DEF Power
<1>7. \A w \in Nat : Power[w] \in Nat
  <2> DEFINE None == {w \in Nat : Power[w] \notin Nat}
  <2> SUFFICES ASSUME None /= {} PROVE FALSE
    OBVIOUS
  <2>1. PICK w \in None : \A v \in None : w <= v
    <3>1. None \in SUBSET Nat
      OBVIOUS
    <3> HIDE DEF None
    <3> QED BY <3>1, LeastNumber
  <2>2. w \in Nat /\ Power[w] = IF w = 0 THEN 1 ELSE Byte * Power[w - 1]
    BY <1>6, <2>1
  <2>3. w /= 0 /\ Power[w - 1] \in Nat
    BY <2>1, <2>2
  <2>4. Byte * Power[w - 1] \in Nat
    BY ONLY <2>3, ByteValues
  <2> QED BY <2>1, <2>2, <2>3, <2>4
<1> QED BY <1>6, <1>7

\* Quotient and remainder: the one representation of a number.
LEMMA Division ==
  ASSUME NEW n \in Int, NEW d \in Nat \ {0}
  PROVE  /\ n \div d \in Int /\ n % d \in 0 .. d - 1
         /\ n = d * (n \div d) + (n % d)
         /\ n \in Nat => n \div d \in Nat /\ n \div d <= n /\ n % d <= n
<1> DEFINE q == n \div d
           r == n % d
<1>1. q \in Int /\ r \in 0 .. d - 1
  OBVIOUS
<1>2. n = d * q + r
  OBVIOUS
<1> HIDE DEF q, r
<1>3. ASSUME n >= 0  PROVE q >= 0 /\ d * q >= q
  <2>1. q >= 0
    <3>1. q <= -1 => d * q <= -d
      BY <1>1
    <3> QED BY <1>1, <1>2, <1>3, <3>1
  <2>2. d * q >= q
    BY <1>1, <2>1
  <2> QED BY <2>1, <2>2
<1>4. n >= 0 => q >= 0 /\ q <= n /\ r <= n
  <2> DEFINE m == d * q
  <2>1. m \in Int
    BY <1>1
  <2> HIDE DEF m
  <2>2. n >= 0 => q >= 0 /\ m >= q
    BY <1>3 DEF m
  <2>3. n = m + r
    BY <1>2 DEF m
  <2> QED BY ONLY <2>1, <2>2, <2>3, <1>1, n \in Int
<1>5. /\ q \in Int /\ r \in 0 .. d - 1 /\ n = d * q + r
      /\ n \in Nat => q \in Nat /\ q <= n /\ r <= n
  BY <1>1, <1>2, <1>4
<1> QED BY ONLY <1>5 DEF q, r

\* Whatever represents a number that way is its quotient and remainder.
LEMMA DivisionIs ==
  ASSUME NEW d \in Nat \ {0}, NEW q \in Int, NEW r \in 0 .. d - 1
  PROVE  (d * q + r) \div d = q /\ (d * q + r) % d = r
<1> DEFINE n == d * q + r
           p == n \div d
           s == n % d
<1>1. n \in Int
  OBVIOUS
<1>2. p \in Int /\ s \in 0 .. d - 1 /\ n = d * p + s
  <2> HIDE DEF n
  <2> QED BY <1>1
<1>3. d * (q - p) = s - r
  BY <1>2
<1> HIDE DEF n, p, s
<1>4. ~(q - p >= 1)
  BY <1>2, <1>3
<1>5. ~(q - p <= -1)
  BY <1>2, <1>3
<1>6. q = p
  BY <1>2, <1>4, <1>5
<1>7. s = r
  BY <1>2, <1>3, <1>6
<1> QED BY <1>6, <1>7 DEF n, p, s

\* A number below the divisor is its own remainder.
LEMMA SmallRemainder ==
  ASSUME NEW d \in Nat \ {0}, NEW r \in 0 .. d - 1
  PROVE  r % d = r /\ r \div d = 0
<1>1. d * 0 + r = r
  OBVIOUS
<1> QED BY <1>1, DivisionIs

\* The powers of Byte.
LEMMA Powers ==
  ASSUME NEW w \in Nat
  PROVE  Power[w] \in Nat \ {0} /\ Power[w + 1] = Byte * Power[w]
<1>1. ASSUME NEW v \in Nat, Power[v] \in Nat \ {0}
      PROVE  Power[v + 1] \in Nat \ {0} /\ Power[v + 1] = Byte * Power[v]
  <2>1. Power[v + 1] = Byte * Power[v]
    BY PowerUnfolds
  <2> DEFINE p == Power[v]
  <2>2. p \in Nat \ {0}
    BY <1>1
  <2> HIDE DEF p
  <2>3. Byte * p \in Nat \ {0}
    BY <2>2, ByteValues
  <2> QED BY <2>1, <2>3 DEF p
<1>2. \A v \in Nat : Power[v] \in Nat \ {0}
  <2> DEFINE None == {v \in Nat : Power[v] \notin Nat \ {0}}
  <2> SUFFICES ASSUME None /= {} PROVE FALSE
    OBVIOUS
  <2>1. PICK v \in None : \A u \in None : v <= u
    <3>1. None \in SUBSET Nat
      OBVIOUS
    <3> HIDE DEF None
    <3> QED BY <3>1, LeastNumber
  <2>2. v /= 0
    BY <2>1, PowerUnfolds
  <2>3. v - 1 \in Nat /\ Power[v - 1] \in Nat \ {0} /\ (v - 1) + 1 = v
    BY <2>1, <2>2
  <2> QED BY <1>1, <2>1, <2>3
<1> QED BY <1>1, <1>2

\* Dividing by one number and then another divides by their product.
LEMMA DivisionTwice ==
  ASSUME NEW n \in Nat, NEW a \in Nat \ {0}, NEW b \in Nat \ {0}
  PROVE  (n \div a) \div b = n \div (b * a)
<1> DEFINE q == n \div a
           r == n % a
           p == q \div b
           s == q % b
<1>1. q \in Nat /\ r \in 0 .. a - 1 /\ n = a * q + r
  <2>1. n \in Int
    OBVIOUS
  <2>2. /\ n \div a \in Int /\ n % a \in 0 .. a - 1
        /\ n = a * (n \div a) + (n % a)
        /\ n \in Nat => n \div a \in Nat /\ n \div a <= n /\ n % a <= n
    BY ONLY <2>1, a \in Nat \ {0}, Division
  <2> QED BY <2>2
<1> HIDE DEF q, r
<1>2. p \in Int /\ s \in 0 .. b - 1 /\ q = b * p + s
  BY <1>1, Division
<1> HIDE DEF p, s
<1> DEFINE d == b * a
           t == a * s + r
<1>3. d \in Nat \ {0} /\ t \in Int /\ a * s \in Int
  BY <1>1, <1>2
<1>4. n = d * p + t
  BY <1>1, <1>2
<1>5. t >= 0
  BY <1>1, <1>2
<1>6. t < d
  <2>1. a * s <= a * (b - 1)
    BY <1>2
  <2>2. a * (b - 1) = d - a
    OBVIOUS
  <2> HIDE DEF d
  <2> QED BY <1>1, <1>3, <2>1, <2>2
<1> HIDE DEF d, t
<1>7. n \div d = p
  BY <1>2, <1>3, <1>4, <1>5, <1>6, DivisionIs
<1> QED BY <1>7 DEF p, q, d

\* The digits of a number from the i-th byte up.
LEMMA NextDigit ==
  ASSUME NEW n \in Nat, NEW i \in Nat
  PROVE  /\ n \div Power[i] \in Nat
         /\ n \div Power[i]
              = ((n \div Power[i]) % Byte) + Byte * (n \div Power[i + 1])
<1> DEFINE p == Power[i]
<1>1. p \in Nat \ {0} /\ Power[i + 1] = Byte * p
  BY Powers
<1> HIDE DEF p
<1> DEFINE q == n \div p
<1>2. q \in Nat
  <2>1. n \in Int
    OBVIOUS
  <2> QED BY ONLY <1>1, <2>1, n \in Nat, Division
<1>3. q \div Byte = n \div Power[i + 1]
  BY <1>1, ByteValues, DivisionTwice
<1> HIDE DEF q
<1> DEFINE k == q \div Byte
           r == q % Byte
<1>4. k \in Int /\ r \in Int /\ q = Byte * k + r
  <2>1. q \in Int /\ Byte \in Nat \ {0}
    BY <1>2, ByteValues
  <2>2. /\ q \div Byte \in Int /\ q % Byte \in 0 .. Byte - 1
        /\ q = Byte * (q \div Byte) + (q % Byte)
    BY ONLY <2>1, Division
  <2> QED BY <2>2, ByteValues
<1> HIDE DEF k, r
<1>5. q = r + Byte * k
  BY <1>4, ByteValues
<1> QED BY <1>2, <1>3, <1>5 DEF q, k, r, p

\* ZagZig undoes ZigZag.
LEMMA Zigzag ==
  ASSUME NEW n \in Int
  PROVE  ZigZag(n) \in Nat /\ ZagZig(ZigZag(n)) = n
<1>1. CASE n < 0
  <2>1. ZigZag(n) = -2 * n - 1
    BY <1>1 DEF ZigZag
  <2>2. (-2 * n - 1) % 2 = 1 /\ (-2 * n - 1) \div 2 = -n - 1
    OBVIOUS
  <2> QED BY <1>1, <2>1, <2>2 DEF ZagZig
<1>2. CASE n >= 0
  <2>1. ZigZag(n) = 2 * n
    BY <1>2 DEF ZigZag
  <2>2. (2 * n) % 2 = 0 /\ (2 * n) \div 2 = n
    OBVIOUS
  <2> QED BY <1>2, <2>1, <2>2 DEF ZagZig
<1> QED BY <1>1, <1>2

\* What a width keeps of a number.
LEMMA Widths ==
  ASSUME NEW n \in Int, NEW w \in Nat
  PROVE  /\ Unsigned(n, w) \in 0 .. Power[w] - 1
         /\ Unsigned(Unsigned(n, w), w) = Unsigned(n, w)
         /\ n \in Nat => Unsigned(n, w) <= n
         /\ n \in 0 .. Power[w] - 1 => Unsigned(n, w) = n
<1>1. Power[w] \in Nat \ {0}
  BY Powers
<1> DEFINE p == Power[w]
<1>2. n % p \in 0 .. p - 1 /\ (n \in Nat => n % p <= n)
  BY ONLY <1>1, n \in Int, Division
<1>3. (n % p) % p = n % p
  BY <1>1, <1>2, SmallRemainder
<1>4. n \in 0 .. p - 1 => n % p = n
  BY <1>1, SmallRemainder
<1> QED BY <1>2, <1>3, <1>4 DEF Unsigned

\* A number comes back from its bits.
LEMMA BitsToNumber ==
  ASSUME NEW w \in Nat, NEW signed \in BOOLEAN, NEW n \in NumberOf(w, signed)
  PROVE  n \in Int /\ Unsigned(n, w) \in Nat
         /\ OfWidth(Unsigned(n, w), w, signed) = n
<1>1. n \in Int /\ OfWidth(n, w, signed) = n
  BY DEF NumberOf
<1>2. Unsigned(Unsigned(n, w), w) = Unsigned(n, w) /\ Unsigned(n, w) \in Nat
  <2>1. Power[w] \in Nat
    BY Powers
  <2> QED BY <1>1, <2>1, Widths
<1>3. OfWidth(Unsigned(n, w), w, signed) = OfWidth(n, w, signed)
  BY <1>2 DEF OfWidth, Signed
<1> QED BY <1>1, <1>2, <1>3

-----------------------------------------------------------------------------
(* Reading what was written.                                               *)

\* piece is in the buffer, from the offset at on.
Holds(buffer, at, piece) ==
  /\ at + Len(piece) <= Len(buffer)
  /\ \A i \in 1 .. Len(piece) : buffer[at + i] = piece[i]

\* Of two pieces written one behind the other, each is where it should be.
LEMMA HoldsBoth ==
  ASSUME NEW buffer \in Bytes, NEW at \in Nat, NEW p \in Bytes, NEW q \in Bytes,
         Holds(buffer, at, p \o q)
  PROVE  Holds(buffer, at, p) /\ at + Len(p) \in Nat
         /\ Holds(buffer, at + Len(p), q)
<1>1. /\ Len(p \o q) = Len(p) + Len(q)
      /\ \A i \in 1 .. Len(p) + Len(q) :
           (p \o q)[i] = IF i <= Len(p) THEN p[i] ELSE q[i - Len(p)]
  BY ConcatProperties DEF Bytes
<1>2. Len(p) \in Nat /\ Len(q) \in Nat /\ Len(buffer) \in Nat
  BY DEF Bytes
<1>3. /\ at + (Len(p) + Len(q)) <= Len(buffer)
      /\ \A i \in 1 .. Len(p) + Len(q) :
           buffer[at + i] = IF i <= Len(p) THEN p[i] ELSE q[i - Len(p)]
  BY <1>1 DEF Holds
<1>4. Holds(buffer, at, p)
  BY <1>2, <1>3 DEF Holds
<1>5. ASSUME NEW i \in 1 .. Len(q)
      PROVE  buffer[(at + Len(p)) + i] = q[i]
  <2>1. /\ Len(p) + i \in 1 .. Len(p) + Len(q) /\ ~(Len(p) + i <= Len(p))
        /\ (Len(p) + i) - Len(p) = i /\ at + (Len(p) + i) = (at + Len(p)) + i
    BY <1>2
  <2> QED BY <1>3, <2>1
<1>6. (at + Len(p)) + Len(q) <= Len(buffer) /\ at + Len(p) \in Nat
  BY <1>2, <1>3
<1>7. Holds(buffer, at + Len(p), q)
  BY <1>5, <1>6 DEF Holds
<1> QED BY <1>4, <1>6, <1>7

\* What a codec writes of a value, it reads back.
Sound(codec) ==
  /\ codec.write \in [codec.values -> Bytes]
  /\ \A v \in codec.values, buffer \in Bytes, at \in Nat :
       Holds(buffer, at, codec.write[v]) =>
         codec.read[buffer][at] =
           Found(codec.kept[v], at + Len(codec.write[v]))

\* A number becomes as many bytes as it is wide.
LEMMA LittleType ==
  ASSUME NEW n \in Int, NEW w \in Nat
  PROVE  Little(n, w) \in Bytes /\ Len(Little(n, w)) = w
<1>1. ASSUME NEW i \in 1 .. w
      PROVE  (Unsigned(n, w) \div Power[i - 1]) % Byte \in Octet
  <2> DEFINE q == Unsigned(n, w) \div Power[i - 1]
  <2>1. q \in Int
    <3>1. Power[i - 1] \in Nat \ {0}
      BY Powers
    <3>2. Unsigned(n, w) \in Int
      <4>1. Power[w] \in Nat
        BY Powers
      <4> QED BY <4>1, Widths
    <3> QED BY <3>1, <3>2, Division
  <2> HIDE DEF q
  <2>2. q % Byte \in 0 .. Byte - 1
    BY <2>1, ByteValues, Division
  <2> QED BY <2>2 DEF Octet, q
<1>2. Little(n, w) \in [1 .. w -> Octet]
  BY <1>1 DEF Little
<1> QED BY <1>2 DEF Bytes

\* The bytes of a number read as that number.
LEMMA NumberReads ==
  ASSUME NEW n \in Int, NEW w \in Nat, NEW buffer \in Bytes, NEW at \in Nat,
         Holds(buffer, at, Little(n, w))
  PROVE  Number(buffer, at, w) = Unsigned(n, w)
<1> DEFINE u == Unsigned(n, w)
           Is(f) == f = [i \in 0 .. w |->
                           IF i = w THEN 0 ELSE buffer[at + i + 1] + Byte * f[i + 1]]
           s == [i \in 0 .. w |-> u \div Power[i]]
           g == CHOOSE f : Is(f)
<1>1. Power[w] \in Nat \ {0} /\ u \in Nat /\ u \in 0 .. Power[w] - 1
  <2>1. Power[w] \in Nat \ {0}
    BY Powers
  <2>2. u \in 0 .. Power[w] - 1
    BY Widths
  <2> HIDE DEF u
  <2> QED BY <2>1, <2>2
<1>2. ASSUME NEW i \in 0 .. w
      PROVE  u \div Power[i] = IF i = w THEN 0
                               ELSE buffer[at + i + 1] + Byte * (u \div Power[i + 1])
  <2>1. CASE i = w
    BY <1>1, <2>1, SmallRemainder
  <2>2. CASE i /= w
    <3>1. i + 1 \in 1 .. w /\ (i + 1) - 1 = i /\ at + (i + 1) = at + i + 1
      BY <2>2
    <3>2. Len(Little(n, w)) = w
      BY LittleType
    <3>3. Little(n, w)[i + 1] = (u \div Power[i]) % Byte
      BY <3>1 DEF Little
    <3>4. buffer[at + i + 1] = (u \div Power[i]) % Byte
      BY <3>1, <3>2, <3>3 DEF Holds
    <3>5. u \div Power[i]
            = ((u \div Power[i]) % Byte) + Byte * (u \div Power[i + 1])
      <4> HIDE DEF u
      <4> QED BY <1>1, NextDigit
    <3> QED BY <2>2, <3>4, <3>5
  <2> QED BY <2>1, <2>2
<1> HIDE DEF u
<1>3. Is(s)
  <2>1. \A i \in 0 .. w : i /= w => i + 1 \in 0 .. w
    OBVIOUS
  <2> QED BY <1>2, <2>1
<1>4. Is(g)
  BY <1>3
<1>5. g[0] = s[0]
  <2> DEFINE Off == {k \in 0 .. w : g[w - k] /= s[w - k]}
  <2>1. ASSUME Off /= {} PROVE FALSE
    <3>1. PICK k \in Off : \A j \in Off : k <= j
      <4>1. Off \in SUBSET Nat
        OBVIOUS
      <4> HIDE DEF Off
      <4> QED BY <2>1, <4>1, LeastNumber
    <3> DEFINE i == w - k
    <3>2. i \in 0 .. w /\ g[i] /= s[i] /\ k \in 0 .. w
      BY <3>1
    <3>3. i /= w => g[i + 1] = s[i + 1]
      <4>1. i /= w => k - 1 \in 0 .. w /\ w - (k - 1) = i + 1 /\ ~(k <= k - 1)
        BY <3>2
      <4> QED BY <3>1, <4>1
    <3>4. /\ g[i] = IF i = w THEN 0 ELSE buffer[at + i + 1] + Byte * g[i + 1]
          /\ s[i] = IF i = w THEN 0 ELSE buffer[at + i + 1] + Byte * s[i + 1]
      <4> HIDE DEF g, s, i
      <4> QED BY <1>3, <1>4, <3>2
    <3> QED BY <3>2, <3>3, <3>4
  <2>2. w \in 0 .. w /\ w - w = 0
    OBVIOUS
  <2> HIDE DEF g, s
  <2> QED BY <2>1, <2>2
<1>6. s[0] = u
  <2>1. Power[0] = 1
    BY PowerUnfolds
  <2>2. u \div 1 = u
    BY <1>1
  <2> QED BY <2>1, <2>2
<1>7. Number(buffer, at, w) = g[0]
  BY DEF Number
<1> QED BY <1>5, <1>6, <1>7 DEF u

\* WriteInt8 to WriteDouble and their readers.
LEMMA FixedIsSound ==
  ASSUME NEW w \in Nat, NEW signed \in BOOLEAN
  PROVE  Sound(FixedCodec(w, signed))
<1> DEFINE c == FixedCodec(w, signed)
<1>1. c.values = NumberOf(w, signed) /\ NumberOf(w, signed) \subseteq Int
  BY DEF FixedCodec, NumberOf
<1>2. c.write \in [c.values -> Bytes]
  BY <1>1, LittleType DEF FixedCodec
<1>3. ASSUME NEW v \in c.values, NEW buffer \in Bytes, NEW at \in Nat,
             Holds(buffer, at, c.write[v])
      PROVE  c.read[buffer][at] = Found(c.kept[v], at + Len(c.write[v]))
  <2>1. c.write[v] = Little(v, w) /\ c.kept[v] = v /\ v \in Int
        /\ v \in NumberOf(w, signed)
    BY <1>1 DEF FixedCodec
  <2>2. c.read[buffer][at] = Found(OfWidth(Number(buffer, at, w), w, signed), at + w)
    BY DEF FixedCodec
  <2>3. Number(buffer, at, w) = Unsigned(v, w)
    BY <1>3, <2>1, NumberReads
  <2>4. OfWidth(Unsigned(v, w), w, signed) = v
    BY <2>1, BitsToNumber
  <2>5. Len(Little(v, w)) = w
    BY <2>1, LittleType
  <2> HIDE DEF c
  <2> QED BY <2>1, <2>2, <2>3, <2>4, <2>5
<1> QED BY <1>2, <1>3 DEF Sound

\* Half a byte taken off a number leaves less of it.
LEMMA HalfLess ==
  ASSUME NEW u \in Nat, u >= Half
  PROVE  /\ u \div Half \in Nat /\ u \div Half < u
         /\ u % Half \in 0 .. Half - 1 /\ u = Half * (u \div Half) + (u % Half)
<1> DEFINE q == u \div Half
           r == u % Half
<1>1. q \in Nat /\ r \in 0 .. Half - 1 /\ u = Half * q + r
  <2>1. u \in Int /\ Half \in Nat \ {0}
    BY ByteValues
  <2> QED BY ONLY <2>1, u \in Nat, Division
<1> HIDE DEF q, r
<1>2. q < u
  <2>1. Half * q >= 2 * q
    BY <1>1, ByteValues
  <2> DEFINE m == Half * q
  <2>2. m \in Int
    BY <1>1, ByteValues
  <2> HIDE DEF m
  <2>3. m >= 2 * q /\ u = m + r
    BY <1>1, <2>1 DEF m
  <2>4. q = 0 => q < u
    BY <1>1, ByteValues
  <2> QED BY <1>1, <2>2, <2>3, <2>4, ByteValues
<1> QED BY <1>1, <1>2 DEF q, r

\* Varint is what its recursive definition says, and never empty.
LEMMA VarintUnfolds ==
  /\ Varint \in [Nat -> Bytes]
  /\ \A u \in Nat :
       Varint[u] = IF u < Half THEN <<u>>
                   ELSE <<Half + (u % Half)>> \o Varint[u \div Half]
<1> DEFINE F == [f \in [Nat -> Bytes] |->
                   [u \in Nat |-> IF u < Half THEN <<u>>
                                  ELSE <<Half + (u % Half)>> \o f[u \div Half]]]
           rank == [u \in Nat |-> u]
<1>1. F \in [[Nat -> Bytes] -> [Nat -> Bytes]]
  <2>1. ASSUME NEW u \in Nat, u < Half  PROVE <<u>> \in Bytes
    <3>1. u \in Octet
      BY <2>1, ByteValues DEF Octet
    <3> QED BY <3>1 DEF Bytes
  <2>2. ASSUME NEW f \in [Nat -> Bytes], NEW u \in Nat, ~(u < Half)
        PROVE  <<Half + (u % Half)>> \o f[u \div Half] \in Bytes
    <3>1. u \div Half \in Nat /\ u % Half \in 0 .. Half - 1
      BY <2>2, ByteValues, HalfLess
    <3>2. Half + (u % Half) \in Octet
      BY <3>1, ByteValues DEF Octet
    <3>3. <<Half + (u % Half)>> \in Bytes /\ f[u \div Half] \in Bytes
      BY <3>1, <3>2 DEF Bytes
    <3> QED BY ONLY <3>3, ConcatProperties DEF Bytes
  <2> QED BY <2>1, <2>2
<1>2. Recursive(F, rank, Nat, Bytes)
  <2>1. ASSUME NEW f \in [Nat -> Bytes], NEW g \in [Nat -> Bytes], NEW u \in Nat,
               \A v \in Nat : rank[v] < rank[u] => f[v] = g[v]
        PROVE  F[f][u] = F[g][u]
    <3>1. ~(u < Half) => f[u \div Half] = g[u \div Half]
      BY <2>1, HalfLess, ByteValues
    <3> QED BY <3>1
  <2>2. Bytes /= {}
    <3>1. <<>> \in Bytes
      BY DEF Bytes
    <3> QED BY <3>1
  <2>3. rank \in [Nat -> Nat]
    OBVIOUS
  <2> HIDE DEF F
  <2> QED BY <1>1, <2>1, <2>2, <2>3 DEF Recursive
<1>3. PICK f \in [Nat -> Bytes] : f = F[f]
  <2> HIDE DEF F, rank
  <2> QED BY ONLY <1>2, RecursionExists
<1> DEFINE Is(p) == p = [u \in Nat |-> IF u < Half THEN <<u>>
                                  ELSE <<Half + (u % Half)>> \o p[u \div Half]]
<1>4. Is(f)
  BY <1>3
<1>5. Is(CHOOSE p : Is(p))
  <2> HIDE DEF Is
  <2> QED BY <1>4
<1>6. Varint = [u \in Nat |-> IF u < Half THEN <<u>>
                               ELSE <<Half + (u % Half)>> \o Varint[u \div Half]]
  BY <1>5 DEF Varint
<1>7. \A u \in Nat : Varint[u] \in Bytes
  <2> DEFINE None == {u \in Nat : Varint[u] \notin Bytes}
  <2> SUFFICES ASSUME None /= {} PROVE FALSE
    OBVIOUS
  <2>1. PICK u \in None : \A v \in None : u <= v
    <3>1. None \in SUBSET Nat
      OBVIOUS
    <3> HIDE DEF None
    <3> QED BY <3>1, LeastNumber
  <2>2. u \in Nat /\ Varint[u] = IF u < Half THEN <<u>>
                               ELSE <<Half + (u % Half)>> \o Varint[u \div Half]
    BY <1>6, <2>1
  <2>3. CASE u < Half
    <3>1. u \in Octet
      BY <2>2, <2>3, ByteValues DEF Octet
    <3>2. <<u>> \in Bytes
      BY <3>1 DEF Bytes
    <3> QED BY <2>1, <2>2, <2>3, <3>2
  <2>4. CASE ~(u < Half)
    <3>1. u \div Half \in Nat /\ u % Half \in 0 .. Half - 1 /\ u \div Half < u
      BY <2>2, <2>4, ByteValues, HalfLess
    <3>2. Half + (u % Half) \in Octet
      BY <3>1, ByteValues DEF Octet
    <3>3. <<Half + (u % Half)>> \in Bytes
      BY <3>2 DEF Bytes
    <3>4. Varint[u \div Half] \in Bytes
      BY <2>1, <2>2, <3>1
    <3>5. <<Half + (u % Half)>> \o Varint[u \div Half] \in Bytes
      BY ONLY <3>3, <3>4, ConcatProperties DEF Bytes
    <3> QED BY <2>1, <2>2, <2>4, <3>5
  <2> QED BY <2>3, <2>4
<1> QED BY <1>6, <1>7

\* What ReadVarint's function is.
ReadsVarints(f, buffer, at) ==
  f = [i \in at .. Len(buffer) |->
         IF i = Len(buffer) THEN Found(0, i)
         ELSE IF buffer[i + 1] < Half THEN Found(buffer[i + 1], i + 1)
         ELSE LET more == f[i + 1]
              IN  Found(buffer[i + 1] - Half + Half * more.value, more.at)]

\* The reading of a varint is what its recursive definition says.
LEMMA VarintFunction ==
  ASSUME NEW buffer \in Bytes, NEW at \in Nat
  PROVE  \E f : ReadsVarints(f, buffer, at) /\ ReadVarint(buffer, at) = f[at]
<1> DEFINE D == at .. Len(buffer)
           S == [value : Nat, at : Nat]
           step(f, i) == IF i = Len(buffer) THEN Found(0, i)
                  ELSE IF buffer[i + 1] < Half THEN Found(buffer[i + 1], i + 1)
                  ELSE LET more == f[i + 1]
                       IN  Found(buffer[i + 1] - Half + Half * more.value, more.at)
           F == [f \in [D -> S] |-> [i \in D |-> step(f, i)]]
           rank == [i \in D |-> Len(buffer) - i]
<1>1. Len(buffer) \in Nat /\ \A i \in D : i /= Len(buffer) =>
                               i + 1 \in D /\ buffer[i + 1] \in Nat
  <2>1. Len(buffer) \in Nat /\ \A j \in 1 .. Len(buffer) : buffer[j] \in Nat
    BY ByteValues DEF Bytes, Octet
  <2> QED BY <2>1
<1>2. \A f \in [D -> S], i \in D : step(f, i) \in S
  <2> TAKE f \in [D -> S], i \in D
  <2>1. CASE i = Len(buffer)
    BY <1>1, <2>1 DEF Found
  <2>2. CASE i /= Len(buffer) /\ buffer[i + 1] < Half
    BY <1>1, <2>2 DEF Found
  <2>3. CASE i /= Len(buffer) /\ ~(buffer[i + 1] < Half)
    <3> DEFINE b == buffer[i + 1]
               m == f[i + 1]
    <3>1. b \in Nat /\ m \in S
      BY <1>1, <2>3
    <3>2. b - Half \in Nat
      BY <3>1, <2>3, ByteValues
    <3>3. m.value \in Nat /\ m.at \in Nat
      BY <3>1
    <3> HIDE DEF b, m
    <3>4. Half * m.value \in Nat
      BY <3>3, ByteValues
    <3>5. Found(b - Half + Half * m.value, m.at) \in S
      BY <3>2, <3>3, <3>4 DEF Found
    <3> QED BY <2>3, <3>5 DEF b, m
  <2> QED BY <2>1, <2>2, <2>3
<1>3. \A f, g \in [D -> S], i \in D :
        (i /= Len(buffer) => f[i + 1] = g[i + 1]) => step(f, i) = step(g, i)
  OBVIOUS
<1>4. rank \in [D -> Nat] /\ \A i \in D : i /= Len(buffer) => rank[i + 1] < rank[i]
  BY <1>1
<1> HIDE DEF step
<1>5. Recursive(F, rank, D, S)
  <2>1. F \in [[D -> S] -> [D -> S]]
    BY <1>2
  <2>2. ASSUME NEW f \in [D -> S], NEW g \in [D -> S], NEW i \in D,
               \A j \in D : rank[j] < rank[i] => f[j] = g[j]
        PROVE  F[f][i] = F[g][i]
    <3>1. i /= Len(buffer) => f[i + 1] = g[i + 1]
      BY <1>1, <1>4, <2>2
    <3>2. step(f, i) = step(g, i)
      BY <1>3, <3>1
    <3> QED BY <3>2
  <2>3. S /= {}
    <3>1. Found(0, 0) \in S
      BY DEF Found
    <3> QED BY <3>1
  <2> HIDE DEF F, rank, S, D
  <2> QED BY <1>4, <2>1, <2>2, <2>3 DEF Recursive
<1>6. PICK f \in [D -> S] : f = F[f]
  <2> HIDE DEF F, rank, D, S
  <2> QED BY ONLY <1>5, RecursionExists
<1> DEFINE Is(p) == ReadsVarints(p, buffer, at)
           g == CHOOSE p : Is(p)
<1>7. Is(f)
  BY <1>6 DEF ReadsVarints, step
<1>8. Is(g)
  <2> HIDE DEF Is
  <2> QED BY <1>7
<1>9. ReadVarint(buffer, at) = g[at]
  BY DEF ReadVarint, ReadsVarints
<1> QED BY <1>8, <1>9

\* A varint reads as what was written, up to its last byte.
LEMMA VarintReads ==
  ASSUME NEW u \in Nat, NEW buffer \in Bytes, NEW at \in Nat,
         Holds(buffer, at, Varint[u])
  PROVE  ReadVarint(buffer, at) = Found(u, at + Len(Varint[u]))
<1>1. PICK f : ReadsVarints(f, buffer, at) /\ ReadVarint(buffer, at) = f[at]
  BY VarintFunction
<1> DEFINE D == at .. Len(buffer)
           Reads(v) == \A i \in D : Holds(buffer, i, Varint[v]) =>
                                      f[i] = Found(v, i + Len(Varint[v]))
<1>2. ASSUME NEW v \in Nat, v < Half, NEW i \in D, Holds(buffer, i, Varint[v])
      PROVE  f[i] = Found(v, i + Len(Varint[v]))
  <2>1. Varint[v] = <<v>>
    BY <1>2, VarintUnfolds
  <2>2. Len(Varint[v]) = 1 /\ Varint[v][1] = v
    BY <2>1
  <2>3. i + 1 <= Len(buffer) /\ buffer[i + 1] = v
    BY <1>2, <2>2 DEF Holds
  <2>4. f[i] = IF i = Len(buffer) THEN Found(0, i)
               ELSE IF buffer[i + 1] < Half THEN Found(buffer[i + 1], i + 1)
               ELSE LET more == f[i + 1]
                    IN  Found(buffer[i + 1] - Half + Half * more.value, more.at)
    BY <1>1 DEF ReadsVarints
  <2>5. Len(buffer) \in Nat
    BY DEF Bytes
  <2> QED BY <1>2, <2>2, <2>3, <2>4, <2>5
<1>3. ASSUME NEW v \in Nat, v >= Half, Reads(v \div Half), NEW i \in D,
             Holds(buffer, i, Varint[v])
      PROVE  f[i] = Found(v, i + Len(Varint[v]))
  <2> DEFINE q == v \div Half
             r == v % Half
             head == <<Half + r>>
             tail == Varint[q]
  <2>1. q \in Nat /\ r \in 0 .. Half - 1 /\ v = Half * q + r
    BY <1>3, HalfLess
  <2>2. Varint[v] = head \o tail
    BY <1>3, VarintUnfolds, ByteValues
  <2>3. head \in Bytes /\ tail \in Bytes /\ Len(head) = 1 /\ head[1] = Half + r
    <3>1. Half + r \in Octet
      BY <2>1, ByteValues DEF Octet
    <3> QED BY <2>1, <3>1, VarintUnfolds DEF Bytes
  <2>4. i \in Nat /\ Len(buffer) \in Nat
    BY DEF Bytes
  <2> HIDE DEF head, tail
  <2>5. Holds(buffer, i, head) /\ Holds(buffer, i + 1, tail)
    <3>1. Holds(buffer, i, head \o tail)
      BY <1>3, <2>2
    <3> QED BY ONLY <2>3, <2>4, <3>1, buffer \in Bytes, HoldsBoth
  <2>6. i + 1 <= Len(buffer) /\ buffer[i + 1] = Half + r
    BY <2>3, <2>4, <2>5 DEF Holds
  <2>7. i + 1 \in D
    BY <2>4, <2>6
  <2>8. f[i + 1] = Found(q, i + 1 + Len(tail))
    BY <1>3, <2>5, <2>7 DEF tail
  <2> DEFINE more == f[i + 1]
  <2>9. f[i] = IF i = Len(buffer) THEN Found(0, i)
               ELSE IF buffer[i + 1] < Half THEN Found(buffer[i + 1], i + 1)
               ELSE Found(buffer[i + 1] - Half + Half * more.value, more.at)
    BY <1>1 DEF ReadsVarints
  <2>10. more.value = q /\ more.at = i + 1 + Len(tail)
    BY <2>8 DEF Found
  <2> HIDE DEF more, q, r
  <2>11. ~(buffer[i + 1] < Half) /\ i /= Len(buffer)
    BY <2>1, <2>4, <2>6, ByteValues
  <2>12. f[i] = Found(buffer[i + 1] - Half + Half * more.value, more.at)
    BY <2>9, <2>11
  <2>13. buffer[i + 1] - Half + Half * more.value = v
    <3> DEFINE m == Half * q
    <3>1. m \in Int
      BY <2>1, ByteValues
    <3>2. Half * more.value = m
      BY <2>10
    <3> HIDE DEF m
    <3>3. v = m + r
      BY <2>1 DEF m
    <3> QED BY <2>1, <2>6, <3>1, <3>2, <3>3, ByteValues
  <2>14. Len(Varint[v]) = 1 + Len(tail) /\ Len(tail) \in Nat
    <3>1. Len(head \o tail) = Len(head) + Len(tail)
      BY <2>3, ConcatProperties DEF Bytes
    <3>2. Len(tail) \in Nat
      BY <2>3 DEF Bytes
    <3> QED BY <2>2, <2>3, <3>1, <3>2
  <2>15. i + 1 + Len(tail) = i + Len(Varint[v])
    BY <2>4, <2>14
  <2> QED BY <2>10, <2>12, <2>13, <2>15
<1>4. \A v \in Nat : Reads(v)
  <2> DEFINE None == {v \in Nat : ~Reads(v)}
  <2> SUFFICES ASSUME None /= {} PROVE FALSE
    OBVIOUS
  <2>1. PICK v \in None : \A j \in None : v <= j
    <3>1. None \in SUBSET Nat
      OBVIOUS
    <3> HIDE DEF None
    <3> QED BY <3>1, LeastNumber
  <2>2. v \in Nat /\ ~Reads(v)
    BY <2>1
  <2>3. v >= Half
    BY <1>2, <2>2, ByteValues
  <2>4. v \div Half \in Nat /\ v \div Half < v
    BY <2>2, <2>3, HalfLess
  <2>5. Reads(v \div Half)
    <3> HIDE DEF Reads
    <3> QED BY <2>1, <2>2, <2>4
  <2>6. Reads(v)
    BY <1>3, <2>2, <2>3, <2>5
  <2> QED BY <2>2, <2>6
<1>5. at \in D
  <2>1. Len(Varint[u]) \in Nat /\ Len(buffer) \in Nat
    BY VarintUnfolds, SMTT(30) DEF Bytes
  <2> QED BY <2>1 DEF Holds
<1>6. Reads(u)
  <2> HIDE DEF Reads
  <2> QED BY <1>4
<1> QED BY <1>1, <1>5, <1>6

\* WriteVarInt and WriteVarUInt and their readers.
LEMMA VarintIsSound ==
  ASSUME NEW w \in Nat, NEW signed \in BOOLEAN
  PROVE  Sound(VarintCodec(w, signed))
<1> DEFINE c == VarintCodec(w, signed)
<1>1. /\ c.values = NumberOf(w, signed)
      /\ \A v \in c.values : /\ c.write[v] = Varint[Unsigned(v, w)]
                             /\ c.kept[v] = v
      /\ c.write = [n \in NumberOf(w, signed) |-> Varint[Unsigned(n, w)]]
      /\ \A buffer \in Bytes, at \in Nat :
           c.read[buffer][at] = LET v == ReadVarint(buffer, at)
                                IN  Found(OfWidth(v.value, w, signed), v.at)
  BY DEF VarintCodec
<1>2. \A v \in c.values : v \in Int /\ Unsigned(v, w) \in Nat
                          /\ OfWidth(Unsigned(v, w), w, signed) = v
  BY <1>1, BitsToNumber
<1> HIDE DEF c
<1>3. c.write \in [c.values -> Bytes]
  BY <1>1, <1>2, VarintUnfolds
<1>4. ASSUME NEW v \in c.values, NEW buffer \in Bytes, NEW at \in Nat,
             Holds(buffer, at, c.write[v])
      PROVE  c.read[buffer][at] = Found(c.kept[v], at + Len(c.write[v]))
  <2> DEFINE u == Unsigned(v, w)
             found == ReadVarint(buffer, at)
  <2>1. u \in Nat /\ Holds(buffer, at, Varint[u])
    BY <1>1, <1>2, <1>4
  <2>2. found = Found(u, at + Len(Varint[u]))
    <3> HIDE DEF u
    <3> QED BY <2>1, VarintReads
  <2>3. found.value = u /\ found.at = at + Len(Varint[u])
    BY <2>2 DEF Found
  <2> HIDE DEF found
  <2>4. c.read[buffer][at] = Found(OfWidth(found.value, w, signed), found.at)
    BY <1>1 DEF found
  <2> QED BY <1>1, <1>2, <2>3, <2>4
<1>5. Sound(c)
  BY ONLY <1>3, <1>4 DEF Sound
<1> QED BY <1>5 DEF c

\* WriteSVarInt and its reader.
LEMMA SVarintIsSound ==
  ASSUME NEW w \in Nat
  PROVE  Sound(SVarintCodec(w))
<1> DEFINE c == SVarintCodec(w)
<1>1. /\ c.values = NumberOf(w, TRUE)
      /\ \A v \in c.values : c.write[v] = Varint[ZigZag(v)] /\ c.kept[v] = v
      /\ c.write = [n \in NumberOf(w, TRUE) |-> Varint[ZigZag(n)]]
      /\ \A buffer \in Bytes, at \in Nat :
           c.read[buffer][at] = LET v == ReadVarint(buffer, at)
                                IN  Found(ZagZig(v.value), v.at)
  BY DEF SVarintCodec
<1>2. \A v \in c.values : ZigZag(v) \in Nat /\ ZagZig(ZigZag(v)) = v
  <2>1. \A v \in c.values : v \in Int
    BY <1>1 DEF NumberOf
  <2> QED BY <2>1, Zigzag
<1> HIDE DEF c
<1>3. c.write \in [c.values -> Bytes]
  BY <1>1, <1>2, VarintUnfolds
<1>4. ASSUME NEW v \in c.values, NEW buffer \in Bytes, NEW at \in Nat,
             Holds(buffer, at, c.write[v])
      PROVE  c.read[buffer][at] = Found(c.kept[v], at + Len(c.write[v]))
  <2> DEFINE u == ZigZag(v)
             found == ReadVarint(buffer, at)
  <2>1. u \in Nat /\ Holds(buffer, at, Varint[u])
    BY <1>1, <1>2, <1>4
  <2>2. found = Found(u, at + Len(Varint[u]))
    <3> HIDE DEF u
    <3> QED BY <2>1, VarintReads
  <2>3. found.value = u /\ found.at = at + Len(Varint[u])
    BY <2>2 DEF Found
  <2> HIDE DEF found
  <2>4. c.read[buffer][at] = Found(ZagZig(found.value), found.at)
    BY <1>1 DEF found
  <2> QED BY <1>1, <1>2, <2>3, <2>4
<1>5. Sound(c)
  BY ONLY <1>3, <1>4 DEF Sound
<1> QED BY <1>5 DEF c

\* What lies between two offsets.
LEMMA HoldsSubSeq ==
  ASSUME NEW buffer \in Bytes, NEW at \in Nat, NEW p \in Bytes,
         Holds(buffer, at, p)
  PROVE  SubSeq(buffer, at + 1, at + Len(p)) = p
<1> DEFINE s == SubSeq(buffer, at + 1, at + Len(p))
<1>1. Len(p) \in Nat /\ Len(buffer) \in Nat /\ at + Len(p) <= Len(buffer)
  BY DEF Bytes, Holds
<1>2. \A i \in at + 1 .. at + Len(p) : buffer[i] \in Octet
  BY <1>1 DEF Bytes
<1>3. /\ s \in Seq(Octet)
      /\ Len(s) = IF at + 1 <= at + Len(p) THEN at + Len(p) - (at + 1) + 1 ELSE 0
      /\ \A i \in 1 .. at + Len(p) - (at + 1) + 1 : s[i] = buffer[at + 1 + i - 1]
  <2>1. at + 1 \in Int /\ at + Len(p) \in Int
    BY <1>1
  <2> QED BY ONLY <2>1, <1>2, SubSeqProperties
<1> HIDE DEF s
<1>4. Len(s) = Len(p) /\ \A i \in 1 .. Len(p) : s[i] = buffer[at + i]
  <2>1. \A i \in 1 .. Len(p) : /\ i \in 1 .. at + Len(p) - (at + 1) + 1
                               /\ at + 1 + i - 1 = at + i
    BY <1>1
  <2> QED BY <1>1, <1>3, <2>1
<1>5. \A i \in 1 .. Len(s) : s[i] = p[i]
  BY <1>4 DEF Holds
<1>6. s = p
  BY ONLY <1>3, <1>4, <1>5, p \in Bytes, SeqEqual DEF Bytes
<1> QED BY <1>6 DEF s

\* WriteString and ReadString.
LEMMA StringIsSound == Sound(StringCodec)
<1> DEFINE c == StringCodec
<1>1. /\ c.values = Bytes
      /\ \A v \in Bytes : /\ c.write[v] = Varint[Unsigned(Len(v), 2)] \o Cropped(v)
                          /\ c.kept[v] = Cropped(v)
      /\ c.write = [s \in Bytes |-> Varint[Unsigned(Len(s), 2)] \o Cropped(s)]
      /\ \A buffer \in Bytes, at \in Nat :
           c.read[buffer][at] =
             LET length == ReadVarint(buffer, at)
                 end == length.at + length.value
             IN  Found(SubSeq(buffer, length.at + 1, end), end)
  BY DEF StringCodec
<1> HIDE DEF c
<1>2. ASSUME NEW v \in Bytes
      PROVE  /\ Unsigned(Len(v), 2) \in Nat /\ Varint[Unsigned(Len(v), 2)] \in Bytes
             /\ Cropped(v) \in Bytes /\ Len(Cropped(v)) = Unsigned(Len(v), 2)
  <2> DEFINE u == Unsigned(Len(v), 2)
  <2>1. Len(v) \in Nat
    BY DEF Bytes
  <2>2. u \in Nat /\ u <= Len(v)
    <3>1. Power[2] \in Nat
      BY Powers
    <3>2. Len(v) \in Int /\ 2 \in Nat
      BY <2>1
    <3>3. u \in 0 .. Power[2] - 1 /\ u <= Len(v)
      BY ONLY <2>1, <3>2, Widths
    <3> QED BY <3>1, <3>3
  <2> HIDE DEF u
  <2>3. SubSeq(v, 1, u) \in Bytes /\ Len(SubSeq(v, 1, u)) = u
    BY <2>2 DEF Bytes
  <2> QED BY <2>2, <2>3, VarintUnfolds DEF Cropped, u
<1>3. c.write \in [c.values -> Bytes]
  <2>1. ASSUME NEW v \in Bytes
        PROVE  Varint[Unsigned(Len(v), 2)] \o Cropped(v) \in Bytes
    BY <1>2, ConcatProperties DEF Bytes
  <2> QED BY <1>1, <2>1
<1>4. ASSUME NEW v \in c.values, NEW buffer \in Bytes, NEW at \in Nat,
             Holds(buffer, at, c.write[v])
      PROVE  c.read[buffer][at] = Found(c.kept[v], at + Len(c.write[v]))
  <2> DEFINE u == Unsigned(Len(v), 2)
             p == Varint[u]
             q == Cropped(v)
             found == ReadVarint(buffer, at)
  <2>1. v \in Bytes /\ c.write[v] = p \o q /\ c.kept[v] = q
    BY <1>1
  <2>2. u \in Nat /\ p \in Bytes /\ q \in Bytes /\ Len(q) = u
    BY <1>2, <2>1
  <2> HIDE DEF q
  <2>3. Holds(buffer, at, p) /\ Holds(buffer, at + Len(p), q) /\ at + Len(p) \in Nat
    <3>1. Holds(buffer, at, p \o q)
      BY <1>4, <2>1
    <3> HIDE DEF p
    <3> QED BY ONLY <2>2, <3>1, buffer \in Bytes, at \in Nat, HoldsBoth
  <2>4. found = Found(u, at + Len(p))
    BY <2>2, <2>3, VarintReads
  <2> HIDE DEF p
  <2>5. found.value = Len(q) /\ found.at = at + Len(p)
    BY <2>2, <2>4 DEF Found
  <2>6. SubSeq(buffer, at + Len(p) + 1, at + Len(p) + Len(q)) = q
    BY <2>2, <2>3, HoldsSubSeq
  <2> HIDE DEF found
  <2>7. c.read[buffer][at] =
          Found(SubSeq(buffer, found.at + 1, found.at + found.value),
                found.at + found.value)
    BY <1>1 DEF found
  <2>8. at + Len(p) + Len(q) = at + Len(p \o q)
    <3>1. Len(p \o q) = Len(p) + Len(q)
      BY ONLY <2>2, ConcatProperties DEF Bytes
    <3>2. Len(p) \in Nat /\ Len(q) \in Nat
      BY <2>2 DEF Bytes
    <3> QED BY <3>1, <3>2
  <2> QED BY ONLY <2>1, <2>5, <2>6, <2>7, <2>8
<1>5. Sound(c)
  BY ONLY <1>3, <1>4 DEF Sound
<1> QED BY <1>5 DEF c

\* A struct is written member by member.
LEMMA StructIsSound ==
  ASSUME NEW first, NEW rest, Sound(first), Sound(rest)
  PROVE  Sound(StructCodec(first, rest))
<1> DEFINE c == StructCodec(first, rest)
           V == first.values \X rest.values
<1>1. /\ c.values = V
      /\ \A v \in V : /\ c.write[v] = first.write[v[1]] \o rest.write[v[2]]
                      /\ c.kept[v] = <<first.kept[v[1]], rest.kept[v[2]]>>
      /\ c.write = [v \in V |-> first.write[v[1]] \o rest.write[v[2]]]
      /\ \A buffer \in Bytes, at \in Nat :
           c.read[buffer][at] =
             LET one == first.read[buffer][at]
                 others == rest.read[buffer][one.at]
             IN  Found(<<one.value, others.value>>, others.at)
  BY DEF StructCodec
<1> HIDE DEF c
<1>2. \A v \in V : /\ v[1] \in first.values /\ v[2] \in rest.values
                   /\ first.write[v[1]] \in Bytes /\ rest.write[v[2]] \in Bytes
  BY DEF Sound
<1> HIDE DEF V
<1>3. c.write \in [c.values -> Bytes]
  <2>1. ASSUME NEW v \in V
        PROVE  first.write[v[1]] \o rest.write[v[2]] \in Bytes
    BY <1>2, ConcatProperties DEF Bytes
  <2> QED BY <1>1, <2>1
<1>4. ASSUME NEW v \in c.values, NEW buffer \in Bytes, NEW at \in Nat,
             Holds(buffer, at, c.write[v])
      PROVE  c.read[buffer][at] = Found(c.kept[v], at + Len(c.write[v]))
  <2> DEFINE p == first.write[v[1]]
             q == rest.write[v[2]]
             one == first.read[buffer][at]
             others == rest.read[buffer][one.at]
  <2>1. /\ v \in V /\ c.write[v] = p \o q
        /\ c.kept[v] = <<first.kept[v[1]], rest.kept[v[2]]>>
    BY <1>1
  <2>2. /\ p \in Bytes /\ q \in Bytes
        /\ v[1] \in first.values /\ v[2] \in rest.values
    BY <1>2, <2>1
  <2>3. Holds(buffer, at, p) /\ Holds(buffer, at + Len(p), q) /\ at + Len(p) \in Nat
    <3> HIDE DEF p, q
    <3>1. p \in Bytes /\ q \in Bytes /\ Holds(buffer, at, p \o q)
      BY <1>4, <2>1, <2>2
    <3> QED BY ONLY <3>1, buffer \in Bytes, at \in Nat, HoldsBoth
  <2>4. one = Found(first.kept[v[1]], at + Len(p))
    BY <2>2, <2>3, SMTT(30) DEF Sound
  <2>5. one.at = at + Len(p) /\ one.value = first.kept[v[1]]
    BY <2>4 DEF Found
  <2>6. others = Found(rest.kept[v[2]], at + Len(p) + Len(q))
    <3> DEFINE o == at + Len(p)
    <3>1. o \in Nat /\ Holds(buffer, o, rest.write[v[2]])
      BY <2>3
    <3>2. others = rest.read[buffer][o]
      BY <2>5
    <3> HIDE DEF others, o
    <3>3. others = Found(rest.kept[v[2]], o + Len(rest.write[v[2]]))
      BY <2>2, <3>1, <3>2 DEF Sound
    <3> QED BY <3>3 DEF o
  <2>7. others.at = at + Len(p) + Len(q) /\ others.value = rest.kept[v[2]]
    BY <2>6 DEF Found
  <2>8. c.read[buffer][at] = Found(<<one.value, others.value>>, others.at)
    BY <1>1
  <2> HIDE DEF one, others, p, q
  <2>9. at + Len(p) + Len(q) = at + Len(p \o q)
    <3>1. Len(p \o q) = Len(p) + Len(q)
      BY ONLY <2>2, ConcatProperties DEF Bytes
    <3>2. Len(p) \in Nat /\ Len(q) \in Nat
      BY <2>2 DEF Bytes
    <3> QED BY <3>1, <3>2
  <2> QED BY ONLY <2>1, <2>5, <2>7, <2>8, <2>9
<1>5. Sound(c)
  BY ONLY <1>3, <1>4 DEF Sound
<1> QED BY <1>5 DEF c

\* Each of several pieces written one behind the other sits behind the others.
LEMMA HoldsEach ==
  ASSUME NEW buffer \in Bytes, NEW at \in Nat, NEW s \in Seq(Bytes),
         Holds(buffer, at, FlattenSeq(s)), NEW i \in 1 .. Len(s)
  PROVE  /\ at + Len(First(i - 1, s)) \in Nat
         /\ Holds(buffer, at + Len(First(i - 1, s)), s[i])
<1> DEFINE p == First(i - 1, s)
           q == s[i]
<1>1. /\ p \in Seq(Octet) /\ First(i, s) = p \o q
  <2>1. i - 1 \in 0 .. Len(s) /\ i - 1 < Len(s) /\ (i - 1) + 1 = i
    OBVIOUS
  <2>2. s \in Seq(Seq(Octet))
    BY DEF Bytes
  <2>3. First(i - 1, s) \in Seq(Octet)
    BY ONLY <2>1, <2>2, FirstUnfolds
  <2>4. First((i - 1) + 1, s) = First(i - 1, s) \o s[(i - 1) + 1]
    BY ONLY <2>1, <2>2, FirstUnfolds
  <2> QED BY <2>1, <2>3, <2>4
<1>2. q \in Seq(Octet)
  BY DEF Bytes
<1>3. Holds(buffer, at, First(i, s))
  <2>1. i \in 0 .. Len(s) /\ s \in Seq(Seq(Octet))
    BY DEF Bytes
  <2>2. /\ Len(First(i, s)) <= Len(FlattenSeq(s))
        /\ \A k \in 1 .. Len(First(i, s)) : First(i, s)[k] = FlattenSeq(s)[k]
    BY ONLY <2>1, FirstIsPrefix
  <2>3. Len(First(i, s)) \in Nat /\ Len(FlattenSeq(s)) \in Nat /\ Len(buffer) \in Nat
    <3>1. First(i, s) \in Seq(Octet) /\ FlattenSeq(s) \in Seq(Octet)
      BY ONLY <2>1, FirstUnfolds, FlattenType
    <3> QED BY <3>1 DEF Bytes
  <2> QED BY <2>2, <2>3 DEF Holds
<1> HIDE DEF p, q
<1>4. /\ p \in Bytes /\ q \in Bytes /\ Holds(buffer, at, p \o q)
  BY <1>1, <1>2, <1>3 DEF Bytes
<1>5. /\ Holds(buffer, at, p) /\ at + Len(p) \in Nat
      /\ Holds(buffer, at + Len(p), q)
  BY ONLY <1>4, buffer \in Bytes, at \in Nat, HoldsBoth
<1> QED BY <1>5 DEF p, q

\* Each applies a function to every element.
LEMMA EachType ==
  ASSUME NEW V, NEW S, NEW f, NEW v \in Seq(V), \A x \in V : f[x] \in S
  PROVE  /\ Each(f, v) \in Seq(S) /\ Len(Each(f, v)) = Len(v)
         /\ \A i \in 1 .. Len(v) : Each(f, v)[i] = f[v[i]] /\ v[i] \in V
<1>1. DOMAIN v = 1 .. Len(v) /\ Len(v) \in Nat /\ \A i \in 1 .. Len(v) : v[i] \in V
  OBVIOUS
<1>2. Each(f, v) = [i \in 1 .. Len(v) |-> f[v[i]]]
  BY <1>1 DEF Each
<1>3. Each(f, v) \in [1 .. Len(v) -> S]
  BY <1>1, <1>2
<1> QED BY <1>1, <1>2, <1>3

\* WriteVector and ReadVector.
LEMMA VectorIsSound ==
  ASSUME NEW of, Sound(of)
  PROVE  Sound(VectorCodec(of))
<1> DEFINE c == VectorCodec(of)
           V == of.values
           Step(f, count, buffer) ==
             [i \in 0 .. count.value |->
                IF i = 0 THEN Found(<<>>, count.at)
                ELSE LET before == f[i - 1]
                         item == of.read[buffer][before.at]
                     IN  Found(Append(before.value, item.value), item.at)]
           Reader(count, buffer) == CHOOSE f : f = Step(f, count, buffer)
<1>1. /\ c.values = Seq(V)
      /\ \A v \in Seq(V) :
           /\ c.write[v] = Varint[Len(v)] \o FlattenSeq(Each(of.write, v))
           /\ c.kept[v] = Each(of.kept, v)
      /\ c.write = [v \in Seq(V) |->
                      Varint[Len(v)] \o FlattenSeq(Each(of.write, v))]
      /\ \A buffer \in Bytes, at \in Nat :
           c.read[buffer][at] =
             LET count == ReadVarint(buffer, at)
             IN  Reader(count, buffer)[count.value]
  BY DEF VectorCodec
<1> HIDE DEF c
<1>2. /\ of.write \in [V -> Bytes]
      /\ \A v \in V, buffer \in Bytes, at \in Nat :
           Holds(buffer, at, of.write[v]) =>
             of.read[buffer][at] = Found(of.kept[v], at + Len(of.write[v]))
  BY DEF Sound
<1> HIDE DEF V
<1>3. ASSUME NEW v \in Seq(V)
      PROVE  /\ Len(v) \in Nat /\ Varint[Len(v)] \in Bytes
             /\ Each(of.write, v) \in Seq(Bytes)
             /\ Len(Each(of.write, v)) = Len(v)
             /\ \A i \in 1 .. Len(v) : Each(of.write, v)[i] = of.write[v[i]]
                                       /\ v[i] \in V
             /\ FlattenSeq(Each(of.write, v)) \in Bytes
  <2>1. \A x \in V : of.write[x] \in Bytes
    BY <1>2
  <2> DEFINE w == of.write
             e == Each(w, v)
  <2>2. /\ e \in Seq(Bytes) /\ Len(e) = Len(v)
        /\ \A i \in 1 .. Len(v) : e[i] = w[v[i]] /\ v[i] \in V
    <3> HIDE DEF w
    <3> QED BY ONLY <2>1, v \in Seq(V), EachType DEF w
  <2>3. FlattenSeq(e) \in Bytes
    <3> HIDE DEF e
    <3> QED BY <2>2, FlattenType DEF Bytes
  <2>4. Len(v) \in Nat /\ Varint[Len(v)] \in Bytes
    BY VarintUnfolds
  <2> QED BY <2>2, <2>3, <2>4
<1>4. c.write \in [c.values -> Bytes]
  <2>1. ASSUME NEW v \in Seq(V)
        PROVE  Varint[Len(v)] \o FlattenSeq(Each(of.write, v)) \in Bytes
    BY <1>3, ConcatProperties DEF Bytes
  <2> DEFINE w(v) == Varint[Len(v)] \o FlattenSeq(Each(of.write, v))
  <2>2. c.values = Seq(V) /\ c.write = [v \in Seq(V) |-> w(v)]
    BY <1>1
  <2>3. \A v \in Seq(V) : w(v) \in Bytes
    BY <2>1
  <2> HIDE DEF w
  <2>4. [v \in Seq(V) |-> w(v)] \in [Seq(V) -> Bytes]
    BY ONLY <2>3
  <2> QED BY ONLY <2>2, <2>4
<1>5. ASSUME NEW v \in c.values, NEW buffer \in Bytes, NEW at \in Nat,
             Holds(buffer, at, c.write[v])
      PROVE  c.read[buffer][at] = Found(c.kept[v], at + Len(c.write[v]))
  <2> DEFINE n == Len(v)
             p == Varint[n]
             e == Each(of.write, v)
             q == FlattenSeq(e)
             K == {of.kept[x] : x \in V}
             k == Each(of.kept, v)
             start == at + Len(p)
             count == ReadVarint(buffer, at)
             f == Reader(count, buffer)
             s == [i \in 0 .. n |-> Found(SubSeq(k, 1, i), start + Len(First(i, e)))]
  <2>1. v \in Seq(V) /\ c.write[v] = p \o q /\ c.kept[v] = k
    BY <1>1
  <2>2. /\ n \in Nat /\ p \in Bytes /\ e \in Seq(Bytes) /\ Len(e) = n
        /\ \A i \in 1 .. n : e[i] = of.write[v[i]] /\ v[i] \in V
        /\ q \in Bytes
    BY <1>3, <2>1
  <2>3. /\ k \in Seq(K) /\ Len(k) = n
        /\ \A i \in 1 .. n : k[i] = of.kept[v[i]]
    <3>1. \A x \in V : of.kept[x] \in K
      OBVIOUS
    <3> HIDE DEF K
    <3> DEFINE w == of.kept
    <3>2. \A x \in V : w[x] \in K
      BY <3>1
    <3> HIDE DEF w
    <3>3. /\ Each(w, v) \in Seq(K) /\ Len(Each(w, v)) = Len(v)
          /\ \A i \in 1 .. Len(v) : Each(w, v)[i] = w[v[i]] /\ v[i] \in V
      BY ONLY <3>2, <2>1, EachType
    <3> QED BY <3>3 DEF w
  <2>4. Holds(buffer, at, p) /\ Holds(buffer, start, q) /\ start \in Nat
    <3>1. Holds(buffer, at, p \o q)
      BY <1>5, <2>1
    <3> HIDE DEF p, q
    <3> QED BY ONLY <2>2, <3>1, buffer \in Bytes, at \in Nat, HoldsBoth
  <2>5. count = Found(n, start)
    <3> HIDE DEF n, q, count
    <3> QED BY <2>2, <2>4, VarintReads DEF count
  <2>6. count.value = n /\ count.at = start
    BY <2>5 DEF Found
  <2> HIDE DEF k, e, p, K, count, start
  <2>7. ASSUME NEW i \in 1 .. n
        PROVE  s[i] = LET before == s[i - 1]
                          item == of.read[buffer][before.at]
                      IN  Found(Append(before.value, item.value), item.at)
    <3> DEFINE before == s[i - 1]
               item == of.read[buffer][before.at]
               o == start + Len(First(i - 1, e))
    <3>1. i - 1 \in 0 .. n /\ i \in 0 .. n
      BY <2>2
    <3>2. before.value = SubSeq(k, 1, i - 1) /\ before.at = o
      BY <3>1 DEF Found
    <3>3. o \in Nat /\ Holds(buffer, o, e[i])
      <4>1. i \in 1 .. Len(e)
        BY <2>2
      <4> QED BY ONLY <4>1, <2>2, <2>4, buffer \in Bytes, HoldsEach
    <3>4. e[i] = of.write[v[i]] /\ v[i] \in V
      BY <2>2
    <3> HIDE DEF before, o
    <3>5. item = Found(of.kept[v[i]], o + Len(e[i]))
      BY <1>2, <3>2, <3>3, <3>4
    <3>6. item.value = k[i] /\ item.at = o + Len(e[i])
      BY <2>3, <3>5 DEF Found
    <3>7. SubSeq(k, 1, i) = Append(SubSeq(k, 1, i - 1), k[i])
      BY <2>3, SubSeqGrows
    <3>8. o + Len(e[i]) = start + Len(First(i, e))
      <4>1. e \in Seq(Seq(Octet)) /\ i - 1 \in 0 .. Len(e) /\ i - 1 < Len(e)
            /\ (i - 1) + 1 = i
        BY <2>2, <3>1 DEF Bytes
      <4>2. First(i - 1, e) \in Seq(Octet) /\ First(i, e) = First(i - 1, e) \o e[i]
        <5>1. /\ First(i - 1, e) \in Seq(Octet)
              /\ First((i - 1) + 1, e) = First(i - 1, e) \o e[(i - 1) + 1]
          BY ONLY <4>1, FirstUnfolds
        <5> QED BY <4>1, <5>1
      <4>3. e[i] \in Seq(Octet)
        BY <2>2 DEF Bytes
      <4> DEFINE x == First(i - 1, e)
                 y == e[i]
      <4>4. Len(x \o y) = Len(x) + Len(y) /\ Len(x) \in Nat /\ Len(y) \in Nat
        <5> HIDE DEF x, y
        <5>1. x \in Seq(Octet) /\ y \in Seq(Octet)
          BY <4>2, <4>3 DEF x, y
        <5> QED BY ONLY <5>1, ConcatProperties, LenProperties
      <4>5. start \in Nat
        BY <2>4
      <4>6. start + Len(x) + Len(y) = start + Len(x \o y)
        <5> HIDE DEF x, y
        <5> QED BY <4>4, <4>5
      <4> QED BY <4>2, <4>6 DEF o
    <3>9. s[i] = Found(SubSeq(k, 1, i), start + Len(First(i, e)))
      BY <3>1
    <3> HIDE DEF item
    <3>10. s[i] = Found(Append(before.value, item.value), item.at)
      BY ONLY <3>2, <3>6, <3>7, <3>8, <3>9
    <3> QED BY <3>10 DEF before, item
  <2>8. s[0] = Found(<<>>, start)
    <3>1. SubSeq(k, 1, 0) = <<>>
      BY SubSeqEmpty
    <3>2. First(0, e) = <<>>
      <4>1. e \in Seq(Seq(Octet))
        BY <2>2 DEF Bytes
      <4> QED BY ONLY <4>1, FirstUnfolds
    <3>3. start + Len(<<>>) = start
      BY <2>4
    <3>4. s[0] = Found(SubSeq(k, 1, 0), start + Len(First(0, e)))
      BY <2>2
    <3> QED BY ONLY <3>1, <3>2, <3>3, <3>4
  <2>9. s = Step(s, count, buffer)
    <3> DEFINE value(i) == IF i = 0 THEN Found(<<>>, count.at)
                           ELSE LET before == s[i - 1]
                                    item == of.read[buffer][before.at]
                                IN  Found(Append(before.value, item.value), item.at)
    <3>1. \A i \in 0 .. n : s[i] = value(i)
      <4> TAKE i \in 0 .. n
      <4>1. CASE i = 0
        BY <2>6, <2>8, <4>1
      <4>2. CASE i /= 0
        <5>1. i \in 1 .. n
          BY <2>2, <4>2
        <5> HIDE DEF s
        <5> QED BY <2>7, <4>2, <5>1
      <4> QED BY <4>1, <4>2
    <3>2. s = [i \in 0 .. n |-> s[i]]
      OBVIOUS
    <3> HIDE DEF s, value
    <3>3. s = [i \in 0 .. n |-> value(i)]
      BY <3>1, <3>2
    <3> QED BY <2>6, <3>3 DEF value
  <2>10. f = Step(f, count, buffer)
    <3> HIDE DEF Step, s
    <3> QED BY <2>9
  <2>11. \A i \in 0 .. n : f[i] = s[i]
    <3> DEFINE Off == {i \in 0 .. n : f[i] /= s[i]}
    <3> SUFFICES ASSUME Off /= {} PROVE FALSE
      OBVIOUS
    <3>1. PICK i \in Off : \A j \in Off : i <= j
      <4>1. Off \in SUBSET Nat
        <5>1. n \in Nat
          BY <2>2
        <5> HIDE DEF f, s, n
        <5> QED BY ONLY <5>1
      <4> HIDE DEF Off
      <4> QED BY <4>1, LeastNumber
    <3>2. i \in 0 .. n /\ f[i] /= s[i]
      BY <3>1
    <3> HIDE DEF f, s
    <3>3. i /= 0 => f[i - 1] = s[i - 1]
      <4>1. i /= 0 => i - 1 \in 0 .. n /\ ~(i <= i - 1)
        BY <2>2, <3>2
      <4> QED BY <3>1, <4>1
    <3>4. /\ f[i] = Step(f, count, buffer)[i]
          /\ s[i] = Step(s, count, buffer)[i]
      <4> HIDE DEF Step
      <4> QED BY <2>9, <2>10
    <3>5. Step(f, count, buffer)[i] = Step(s, count, buffer)[i]
      BY <2>6, <3>2, <3>3
    <3> QED BY <3>2, <3>4, <3>5
  <2>12. f[n] = Found(k, start + Len(q))
    <3>1. n \in 0 .. n
      BY <2>2
    <3>2. SubSeq(k, 1, n) = k
      BY <2>3, SubSeqFull
    <3>3. First(n, e) = q
      <4>1. e \in Seq(Seq(Octet))
        BY <2>2 DEF Bytes
      <4> QED BY ONLY <2>2, <4>1, FirstUnfolds
    <3>4. s[n] = Found(SubSeq(k, 1, n), start + Len(First(n, e)))
      BY <3>1
    <3> HIDE DEF f, s
    <3> QED BY <2>11, <3>1, <3>2, <3>3, <3>4
  <2>13. c.read[buffer][at] = f[n]
    <3> HIDE DEF Reader
    <3>1. c.read[buffer][at]
            = Reader(ReadVarint(buffer, at), buffer)[ReadVarint(buffer, at).value]
      BY <1>1
    <3> QED BY ONLY <2>6, <3>1 DEF count
  <2>14. start + Len(q) = at + Len(p \o q)
    <3>1. Len(p \o q) = Len(p) + Len(q)
      BY ONLY <2>2, ConcatProperties DEF Bytes
    <3>2. Len(p) \in Nat /\ Len(q) \in Nat
      BY <2>2 DEF Bytes
    <3> QED BY <3>1, <3>2 DEF start
  <2> HIDE DEF f
  <2> QED BY ONLY <2>1, <2>12, <2>13, <2>14
<1>6. Sound(c)
  BY ONLY <1>1, <1>4, <1>5 DEF Sound
<1> QED BY <1>6 DEF c

-----------------------------------------------------------------------------
(* The codec of every type.                                                *)

\* What Codec says of a type, by what f says of its parts.
CodecBy(f, t) ==
  CASE t.kind = "fixed"   -> FixedCodec(t.width, t.signed)
    [] t.kind = "varint"  -> VarintCodec(t.width, t.signed)
    [] t.kind = "svarint" -> SVarintCodec(t.width)
    [] t.kind = "string"  -> StringCodec
    [] t.kind = "vector"  -> VectorCodec(f[t.of])
    [] t.kind = "struct"  -> StructCodec(f[t.first], f[t.rest])

\* The types less deep than n.
Below(n) == {t \in Type : Depth[t] < n}

\* The six kinds of type, one by one.
LEMMA CodecByKind ==
  ASSUME NEW t \in Type
  PROVE  \/ /\ t.kind = "fixed" /\ t.width \in Nat /\ t.signed \in BOOLEAN
            /\ \A f : CodecBy(f, t) = FixedCodec(t.width, t.signed)
         \/ /\ t.kind = "varint" /\ t.width \in Nat /\ t.signed \in BOOLEAN
            /\ \A f : CodecBy(f, t) = VarintCodec(t.width, t.signed)
         \/ /\ t.kind = "svarint" /\ t.width \in Nat
            /\ \A f : CodecBy(f, t) = SVarintCodec(t.width)
         \/ /\ t.kind = "string"
            /\ \A f : CodecBy(f, t) = StringCodec
         \/ /\ t.kind = "vector" /\ t.of \in Type /\ Depth[t.of] < Depth[t]
            /\ \A f : CodecBy(f, t) = VectorCodec(f[t.of])
         \/ /\ t.kind = "struct" /\ t.first \in Type /\ t.rest \in Type
            /\ Depth[t.first] < Depth[t] /\ Depth[t.rest] < Depth[t]
            /\ \A f : CodecBy(f, t) = StructCodec(f[t.first], f[t.rest])
<1>1. \/ /\ t.kind \in {"fixed", "varint"}
         /\ t.width \in Nat \ {0} /\ t.signed \in BOOLEAN
      \/ t.kind = "svarint" /\ t.width \in Nat \ {0}
      \/ t.kind = "string"
      \/ t.kind = "vector" /\ t.of \in Type /\ Depth[t.of] < Depth[t]
      \/ /\ t.kind = "struct" /\ t.first \in Type /\ t.rest \in Type
         /\ Depth[t.first] < Depth[t] /\ Depth[t.rest] < Depth[t]
  BY TypeAssumption
<1>2. t.kind = "fixed" => \A f : CodecBy(f, t) = FixedCodec(t.width, t.signed)
  BY DEF CodecBy
<1>3. t.kind = "varint" => \A f : CodecBy(f, t) = VarintCodec(t.width, t.signed)
  BY DEF CodecBy
<1>4. t.kind = "svarint" => \A f : CodecBy(f, t) = SVarintCodec(t.width)
  BY DEF CodecBy
<1>5. t.kind = "string" => \A f : CodecBy(f, t) = StringCodec
  BY DEF CodecBy
<1>6. t.kind = "vector" => \A f : CodecBy(f, t) = VectorCodec(f[t.of])
  BY DEF CodecBy
<1>7. t.kind = "struct" =>
        \A f : CodecBy(f, t) = StructCodec(f[t.first], f[t.rest])
  BY DEF CodecBy
<1>8. t.width \in Nat \ {0} => t.width \in Nat
  OBVIOUS
<1> QED BY <1>1, <1>2, <1>3, <1>4, <1>5, <1>6, <1>7, <1>8

\* A codec depends on those of the type's parts only.
LEMMA CodecByParts ==
  ASSUME NEW t \in Type, NEW f, NEW g,
         \A u \in Type : Depth[u] < Depth[t] => f[u] = g[u]
  PROVE  CodecBy(f, t) = CodecBy(g, t)
  BY CodecByKind

\* There is a codec for every type.
LEMMA CodecExists == \E f : f = [t \in Type |-> CodecBy(f, t)]
<1> DEFINE Is(f, n) == f = [t \in Below(n) |-> CodecBy(f, t)]
<1>0. \A t \in Type : Depth[t] \in Nat
  BY TypeAssumption
<1>1. \A n \in Nat : \E f : Is(f, n)
  <2> DEFINE None == {n \in Nat : ~ \E f : Is(f, n)}
  <2> SUFFICES ASSUME None /= {} PROVE FALSE
    OBVIOUS
  <2>1. PICK n \in None : \A k \in None : n <= k
    <3>1. None \in SUBSET Nat
      OBVIOUS
    <3> HIDE DEF None
    <3> QED BY <3>1, LeastNumber
  <2>2. n \in Nat /\ ~ \E f : Is(f, n)
    BY <2>1
  <2>3. n /= 0
    <3>1. Below(0) = {}
      BY <1>0 DEF Below
    <3>2. Is([t \in Below(0) |-> 0], 0)
      BY <3>1
    <3> QED BY <2>2, <3>2
  <2>4. n - 1 \in Nat /\ n - 1 \notin None
    BY <2>1, <2>2, <2>3
  <2>5. PICK f : Is(f, n - 1)
    BY <2>4
  <2> DEFINE g == [t \in Below(n) |-> CodecBy(f, t)]
  <2>6. ASSUME NEW t \in Below(n), NEW u \in Type, Depth[u] < Depth[t]
        PROVE  f[u] = g[u]
    <3>1. u \in Below(n - 1) /\ u \in Below(n)
      BY <1>0, <2>2, <2>6 DEF Below
    <3> QED BY <2>5, <3>1
  <2>7. \A t \in Below(n) : CodecBy(f, t) = CodecBy(g, t)
    <3> TAKE t \in Below(n)
    <3>1. t \in Type
      BY DEF Below
    <3> HIDE DEF g
    <3> QED BY <2>6, <3>1, CodecByParts
  <2>8. Is(g, n)
    BY <2>7
  <2> QED BY <2>2, <2>8
<1>2. ASSUME NEW f, NEW g, NEW n \in Nat, NEW k \in Nat, Is(f, n), Is(g, k)
      PROVE  \A t \in Type : Depth[t] < n /\ Depth[t] < k => f[t] = g[t]
  <2> DEFINE Off == {d \in Nat : \E t \in Type : /\ Depth[t] = d /\ d < n /\ d < k
                                                /\ f[t] /= g[t]}
  <2> SUFFICES ASSUME Off /= {} PROVE FALSE
    BY <1>0
  <2>1. PICK d \in Off : \A e \in Off : d <= e
    <3>1. Off \in SUBSET Nat
      OBVIOUS
    <3> HIDE DEF Off
    <3> QED BY <3>1, LeastNumber
  <2>2. PICK t \in Type : Depth[t] = d /\ d < n /\ d < k /\ f[t] /= g[t]
    BY <2>1
  <2>3. \A u \in Type : Depth[u] < Depth[t] => f[u] = g[u]
    BY <1>0, <2>1, <2>2
  <2>4. CodecBy(f, t) = CodecBy(g, t)
    BY <2>3, CodecByParts
  <2>5. t \in Below(n) /\ t \in Below(k)
    BY <2>2 DEF Below
  <2> QED BY <1>2, <2>2, <2>4, <2>5
<1> DEFINE own(t) == CHOOSE f : Is(f, Depth[t] + 1)
           h == [t \in Type |-> own(t)[t]]
<1>3. \A t \in Type : Is(own(t), Depth[t] + 1)
  <2> TAKE t \in Type
  <2>1. Depth[t] + 1 \in Nat
    BY <1>0
  <2>2. \E f : Is(f, Depth[t] + 1)
    BY <1>1, <2>1
  <2> HIDE DEF Is
  <2> QED BY <2>2
<1> HIDE DEF own
<1>4. ASSUME NEW t \in Type  PROVE h[t] = CodecBy(h, t)
  <2>1. ASSUME NEW u \in Type, Depth[u] < Depth[t]  PROVE h[u] = own(t)[u]
    <3>1. /\ Depth[u] + 1 \in Nat /\ Depth[t] + 1 \in Nat
          /\ Depth[u] < Depth[u] + 1 /\ Depth[u] < Depth[t] + 1
      BY <1>0, <2>1
    <3>2. Is(own(u), Depth[u] + 1) /\ Is(own(t), Depth[t] + 1)
      BY <1>3
    <3> HIDE DEF Is
    <3>3. own(u)[u] = own(t)[u]
      BY ONLY <1>2, <3>1, <3>2, u \in Type
    <3> QED BY <3>3
  <2>2. CodecBy(h, t) = CodecBy(own(t), t)
    <3> HIDE DEF h
    <3> QED BY <2>1, CodecByParts
  <2>3. t \in Below(Depth[t] + 1)
    BY <1>0 DEF Below
  <2>4. own(t)[t] = CodecBy(own(t), t)
    BY <1>3, <2>3
  <2> QED BY <2>2, <2>4
<1>5. h = [t \in Type |-> CodecBy(h, t)]
  <2>1. h = [t \in Type |-> h[t]]
    OBVIOUS
  <2> HIDE DEF h
  <2> QED BY <1>4, <2>1
<1> QED BY <1>5

\* Codec is what its recursive definition says.
LEMMA CodecUnfolds == \A t \in Type : Codec[t] = CodecBy(Codec, t)
<1>1. Codec = [t \in Type |-> CodecBy(Codec, t)]
  BY CodecExists DEF Codec, CodecBy
<1> QED BY ONLY <1>1

(***************************************************************************)
(* PacketReader reads back what PacketWriter wrote of a value of any type, *)
(* wherever in a buffer it sits, and stops behind its last byte. Of a      *)
(* string, and of those in vectors and structs, what a uint16 counts.      *)
(***************************************************************************)
THEOREM WrittenIsReadBack == \A t \in Type : Sound(Codec[t])
<1>0. \A t \in Type : Depth[t] \in Nat
  BY TypeAssumption
<1> DEFINE None == {d \in Nat : \E t \in Type : Depth[t] = d /\ ~Sound(Codec[t])}
<1> SUFFICES ASSUME None /= {} PROVE FALSE
  BY <1>0
<1>1. PICK d \in None : \A e \in None : d <= e
  <2>1. None \in SUBSET Nat
    OBVIOUS
  <2> HIDE DEF None
  <2> QED BY <2>1, LeastNumber
<1>2. PICK t \in Type : Depth[t] = d /\ ~Sound(Codec[t])
  BY <1>1
<1>3. \A u \in Type : Depth[u] < Depth[t] => Sound(Codec[u])
  BY <1>0, <1>1, <1>2
<1>4. Codec[t] = CodecBy(Codec, t)
  BY CodecUnfolds
<1>5. Sound(CodecBy(Codec, t))
  BY <1>3, CodecByKind, FixedIsSound, VarintIsSound, SVarintIsSound,
     StringIsSound, VectorIsSound, StructIsSound
<1> QED BY <1>2, <1>4, <1>5
=============================================================================

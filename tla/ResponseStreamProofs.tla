------------------------ MODULE ResponseStreamProofs ------------------------
(***************************************************************************)
(* Whatever the kernel takes at a time and whatever the clients do, each   *)
(* client cuts the packets meant for it from its bytes and reads what the  *)
(* game wrote: for any responses of any types, any clients and any byte.   *)
(*                                                                         *)
(* What is meant for a client is one sequence of bytes, Wire, fixed by the *)
(* vector of responses. Due is how far the send thread is in it; the       *)
(* client has that many bytes, the first of Wire, until one is dropped.    *)
(* And a beginning of Wire is cut into the first of the packets.           *)
(***************************************************************************)
EXTENDS ResponseStream, PacketProofs

-----------------------------------------------------------------------------
(* Packets.                                                                *)

\* What a response consists of.
LEMMA ResponseParts ==
  ASSUME NEW r \in Response
  PROVE  /\ r.msgId \in NumberOf(2, FALSE) /\ r.msgId \in Int
         /\ r.written \in Type /\ r.read = r.written
         /\ r.value \in Codec[r.written].values
         /\ r.connIds \in Seq(Client)
         /\ Codec[r.written].write[r.value] \in Bytes
<1>1. /\ r.msgId \in NumberOf(2, FALSE)
      /\ r.written \in Type /\ r.read = r.written
      /\ r.value \in Codec[r.written].values
      /\ r.connIds \in Seq(Client)
  BY StreamAssumption DEF IdSize
<1>2. r.msgId \in Int
  BY <1>1 DEF NumberOf
<1>3. Codec[r.written].write[r.value] \in Bytes
  BY <1>1, WrittenIsReadBack DEF Sound
<1> QED BY <1>1, <1>2, <1>3

\* What an int16 keeps of a size.
LEMMA SignedIs ==
  ASSUME NEW n \in Nat
  PROVE  /\ Signed(n, 2) \in Int /\ Signed(n, 2) <= n
         /\ 2 * Signed(n, 2) < Power[2]
         /\ Signed(n, 2) > 0 => Signed(n, 2) = Unsigned(n, 2)
<1> DEFINE u == Unsigned(n, 2)
           p == Power[2]
<1>1. p \in Nat /\ u \in 0 .. p - 1 /\ u <= n
  <2>1. 2 \in Nat /\ n \in Int
    OBVIOUS
  <2> QED BY ONLY <2>1, n \in Nat, Powers, Widths
<1>2. Signed(n, 2) = IF 2 * u < p THEN u ELSE u - p
  BY DEF Signed
<1> HIDE DEF u, p
<1>3. /\ Signed(n, 2) \in Int /\ Signed(n, 2) <= n
      /\ 2 * Signed(n, 2) < p
      /\ Signed(n, 2) > 0 => Signed(n, 2) = u
  BY <1>1, <1>2
<1> QED BY <1>3 DEF u, p

\* What Pack makes of a response.
LEMMA PacketOf ==
  ASSUME NEW r \in Response
  PROVE  /\ Content[r] \in Bytes /\ Size(r) \in Nat /\ Size(r) = 2 + Len(Content[r])
         /\ Content[r] = Little(r.msgId, 2) \o Codec[r.written].write[r.value]
         /\ Packed[r].bytes \in Bytes /\ Len(Packed[r].bytes) = Size(r)
         /\ Packed[r].length = Signed(Size(r), 2) /\ Packed[r].length \in Int
         /\ Packed[r].length <= Size(r)
         /\ Packed[r].bytes = Little(Packed[r].length - 2, 2) \o Content[r]
         /\ IsSent(r) <=> Packed[r].length > 0
<1> DEFINE id == Little(r.msgId, 2)
           body == Codec[r.written].write[r.value]
           content == id \o body
           n == 2 + Len(content)
           length == Signed(n, 2)
           head == Little(length - 2, 2)
           bytes == head \o content
<1>1. Content[r] = content
  BY DEF Content, Written, PackHeader, IdSize
<1>2. content \in Bytes
  <2>1. id \in Bytes /\ body \in Bytes
    BY ResponseParts, LittleType
  <2> HIDE DEF id, body
  <2> QED BY <2>1, ConcatProperties DEF Bytes
<1>3. Packed[r] = [length |-> length, bytes |-> bytes]
  BY DEF Packed, Pack, Written, PackHeader, IdSize, LengthSize
<1> HIDE DEF content
<1>4. Len(content) \in Nat /\ n \in Nat
  BY <1>2 DEF Bytes
<1>5. length \in Int /\ length <= n
  BY <1>4, SignedIs
<1>6. Size(r) = n
  BY <1>1 DEF Size, LengthSize
<1> HIDE DEF length
<1>7. head \in Bytes /\ Len(head) = 2
  <2>1. length - 2 \in Int /\ 2 \in Nat
    BY <1>5
  <2> QED BY ONLY <2>1, LittleType
<1> HIDE DEF head
<1>8. bytes \in Bytes /\ Len(bytes) = n
  <2>1. bytes \in Bytes /\ Len(bytes) = Len(head) + Len(content)
    BY ONLY <1>2, <1>7, ConcatProperties DEF Bytes
  <2> QED BY <1>7, <2>1
<1>9. IsSent(r) <=> length > 0
  BY <1>6 DEF IsSent, LengthSize, length
<1>10. Packed[r].length = length /\ Packed[r].bytes = bytes
  BY <1>3
<1>11. /\ Content[r] \in Bytes /\ Size(r) \in Nat /\ Size(r) = 2 + Len(Content[r])
       /\ Packed[r].bytes \in Bytes /\ Len(Packed[r].bytes) = Size(r)
       /\ Packed[r].length \in Int /\ Packed[r].length <= Size(r)
       /\ (IsSent(r) <=> Packed[r].length > 0)
  BY ONLY <1>1, <1>2, <1>4, <1>5, <1>6, <1>8, <1>9, <1>10
<1>12. Packed[r].length = Signed(Size(r), 2)
  BY ONLY <1>6, <1>10 DEF length
<1>13. Packed[r].bytes = Little(Packed[r].length - 2, 2) \o Content[r]
  BY ONLY <1>1, <1>10 DEF head
<1>14. Content[r] = Little(r.msgId, 2) \o Codec[r.written].write[r.value]
  BY ONLY <1>1 DEF content
<1> QED BY ONLY <1>11, <1>12, <1>13, <1>14

\* What is sent of a packet.
Frame(r) == SubSeq(Packed[r].bytes, 1, Packed[r].length)

\* The bytes that are sent are the first of the packet.
LEMMA FrameType ==
  ASSUME NEW r \in Response, IsSent(r)
  PROVE  /\ Frame(r) \in Bytes /\ Len(Frame(r)) = Packed[r].length
         /\ \A i \in 1 .. Packed[r].length : Frame(r)[i] = Packed[r].bytes[i]
<1> DEFINE b == Packed[r].bytes
           n == Packed[r].length
<1>1. b \in Seq(Octet) /\ n \in Nat /\ n <= Len(b)
  <2>1. /\ b \in Bytes /\ Len(b) = Size(r) /\ n \in Int /\ n <= Size(r)
        /\ (IsSent(r) <=> n > 0)
    BY PacketOf
  <2> HIDE DEF b, n
  <2> QED BY <2>1 DEF Bytes
<1> HIDE DEF b, n
<1>2. /\ SubSeq(b, 1, n) \in Seq(Octet) /\ Len(SubSeq(b, 1, n)) = n
      /\ \A i \in 1 .. n : SubSeq(b, 1, n)[i] = b[i]
  BY <1>1
<1> QED BY <1>2 DEF b, n, Frame, Bytes

\* What AnswersReadBack asks of the sizes.
Sendable(r) == Unsigned(Size(r), LengthSize) /= 1

\* The body of a frame.
BodyOf(r) == SubSeq(Content[r], 1, Packed[r].length - 2)

\* What is sent is the body with the length of the body before it.
LEMMA FrameOf ==
  ASSUME NEW r \in Response, IsSent(r), Sendable(r)
  PROVE  /\ BodyOf(r) \in Bytes /\ Len(BodyOf(r)) = Packed[r].length - 2
         /\ Len(BodyOf(r)) \in Nat /\ 2 * Len(BodyOf(r)) < Power[2]
         /\ Frame(r) = Little(Len(BodyOf(r)), 2) \o BodyOf(r)
<1> DEFINE n == Packed[r].length
           m == n - 2
           c == Content[r]
           p == SubSeq(c, 1, m)
           head == Little(m, 2)
<1>1. n \in Int /\ n > 0 /\ n <= 2 + Len(c) /\ 2 * n < Power[2]
      /\ n = Unsigned(Size(r), 2) /\ c \in Bytes
  <2>1. /\ n = Signed(Size(r), 2) /\ n > 0 /\ Size(r) \in Nat
        /\ n <= 2 + Len(c) /\ c \in Bytes
    BY PacketOf
  <2> QED BY <2>1, SignedIs
<1>2. n >= 2
  BY <1>1 DEF Sendable, LengthSize
<1> HIDE DEF n, c
<1>3. m \in Nat /\ m <= Len(c) /\ Len(c) \in Nat
  BY <1>1, <1>2 DEF Bytes
<1> HIDE DEF m
<1>4. /\ p \in Bytes /\ Len(p) = m
      /\ \A i \in 1 .. m : p[i] = c[i]
  BY <1>1, <1>3 DEF Bytes
<1>5. 2 * m < Power[2]
  <2>1. Power[2] \in Nat
    BY Powers
  <2> QED BY <1>1, <1>2, <2>1 DEF m
<1>6. head \in Bytes /\ Len(head) = 2
  <2>1. m \in Int /\ 2 \in Nat
    BY <1>3
  <2> QED BY ONLY <2>1, LittleType
<1> HIDE DEF head
<1>7. Packed[r].bytes = head \o c
  BY PacketOf DEF head, m, n, c
<1> DEFINE f == SubSeq(head \o c, 1, n)
           g == head \o p
<1>8. /\ head \o c \in Seq(Octet) /\ Len(head \o c) = 2 + Len(c)
      /\ \A i \in 1 .. 2 + Len(c) :
           (head \o c)[i] = IF i <= 2 THEN head[i] ELSE c[i - 2]
  <2>1. head \in Seq(Octet) /\ c \in Seq(Octet) /\ Len(head) = 2
    BY <1>1, <1>6 DEF Bytes
  <2>2. /\ head \o c \in Seq(Octet) /\ Len(head \o c) = Len(head) + Len(c)
        /\ \A i \in 1 .. Len(head) + Len(c) :
             (head \o c)[i] = IF i <= Len(head) THEN head[i] ELSE c[i - Len(head)]
    BY ONLY <2>1, ConcatProperties
  <2> QED BY ONLY <2>1, <2>2
<1>9. /\ g \in Seq(Octet) /\ Len(g) = 2 + m
      /\ \A i \in 1 .. 2 + m : g[i] = IF i <= 2 THEN head[i] ELSE p[i - 2]
  <2> HIDE DEF p
  <2>1. head \in Seq(Octet) /\ p \in Seq(Octet) /\ Len(head) = 2 /\ Len(p) = m
    BY <1>4, <1>6 DEF Bytes
  <2>2. /\ head \o p \in Seq(Octet) /\ Len(head \o p) = Len(head) + Len(p)
        /\ \A i \in 1 .. Len(head) + Len(p) :
             (head \o p)[i] = IF i <= Len(head) THEN head[i] ELSE p[i - Len(head)]
    BY ONLY <2>1, ConcatProperties
  <2> QED BY ONLY <2>1, <2>2
<1>10. f = g
  <2> DEFINE w == head \o c
  <2> HIDE DEF w
  <2>1. w \in Seq(Octet) /\ Len(w) = 2 + Len(c) /\ n \in Nat /\ n <= Len(w)
    BY <1>1, <1>3, <1>8 DEF w
  <2>2. /\ SubSeq(w, 1, n) \in Seq(Octet) /\ Len(SubSeq(w, 1, n)) = n
        /\ \A i \in 1 .. n : SubSeq(w, 1, n)[i] = w[i]
    BY <2>1
  <2>3. f = SubSeq(w, 1, n)
    BY DEF w
  <2> HIDE DEF f, g, p
  <2>4. Len(f) = Len(g) /\ f \in Seq(Octet)
    BY <1>1, <1>9, <2>2, <2>3 DEF m
  <2>5. \A i \in 1 .. Len(f) : f[i] = g[i]
    <3> TAKE i \in 1 .. Len(f)
    <3>1. f[i] = IF i <= 2 THEN head[i] ELSE c[i - 2]
      BY <1>3, <1>8, <2>1, <2>2, <2>3 DEF w
    <3>2. g[i] = IF i <= 2 THEN head[i] ELSE p[i - 2]
      BY <1>9, <2>4
    <3>3. ~(i <= 2) => i - 2 \in 1 .. m
      BY <1>3, <1>9, <2>4
    <3> QED BY <1>4, <3>1, <3>2, <3>3
  <2> QED BY ONLY <1>9, <2>4, <2>5, SeqEqual
<1>11. BodyOf(r) = p /\ Frame(r) = f
  BY <1>7 DEF BodyOf, Frame, n, m, c
<1>12. p \in Bytes /\ Len(p) = m /\ m \in Nat
  BY <1>3, <1>4
<1> HIDE DEF p, f, g
<1>13. Frame(r) = Little(Len(BodyOf(r)), 2) \o BodyOf(r)
  BY ONLY <1>10, <1>11, <1>12 DEF g, head
<1> QED BY <1>5, <1>11, <1>12, <1>13 DEF m, n

\* The body of a frame is what the game wrote.
LEMMA BodyReadsBack ==
  ASSUME NEW r \in Response, IsSent(r), Sendable(r)
  PROVE  ReadsBack(r, BodyOf(r))
<1> DEFINE p == BodyOf(r)
           c == Content[r]
           n == Packed[r].length
           id == Little(r.msgId, 2)
           body == Codec[r.written].write[r.value]
<1>1. p \in Bytes /\ Len(p) = n - 2 /\ Len(p) \in Nat
  BY FrameOf
<1>2. /\ c \in Bytes /\ Size(r) \in Nat /\ Size(r) = 2 + Len(c) /\ c = id \o body
      /\ n = Signed(Size(r), 2) /\ n \in Int /\ n > 0
  <2>1. /\ c \in Bytes /\ Size(r) \in Nat /\ Size(r) = 2 + Len(c) /\ c = id \o body
        /\ n = Signed(Size(r), 2) /\ n \in Int /\ (IsSent(r) <=> n > 0)
    BY PacketOf
  <2> QED BY <2>1
<1>3. p = SubSeq(c, 1, Len(p))
  BY <1>1 DEF BodyOf
<1>4. ASSUME Size(r) < Power[LengthSize]
      PROVE  /\ MsgId(p) = r.msgId
             /\ Unpack(r.read, p) = Found(Codec[r.written].kept[r.value], Len(p))
  <2>1. n = Size(r)
    <3> DEFINE m == Size(r)
    <3>1. m \in Nat /\ n = Signed(m, 2) /\ n > 0 /\ m < Power[2]
      BY <1>2, <1>4 DEF LengthSize
    <3>2. Power[2] \in Nat
      BY Powers
    <3>3. Signed(m, 2) > 0 => Signed(m, 2) = Unsigned(m, 2)
      <4> HIDE DEF m
      <4> QED BY ONLY <3>1, SignedIs
    <3>4. Unsigned(m, 2) = m
      <4>1. m \in 0 .. Power[2] - 1 /\ m \in Int /\ 2 \in Nat
        BY <3>1, <3>2
      <4> HIDE DEF m
      <4> QED BY ONLY <4>1, Widths
    <3> QED BY <3>1, <3>3, <3>4
  <2>2. Len(p) = Len(c)
    <3> HIDE DEF p, c, n
    <3>1. Len(c) \in Nat
      <4>1. c \in Seq(Octet)
        BY <1>2 DEF Bytes
      <4> QED BY ONLY <4>1, LenProperties
    <3>2. Size(r) = 2 + Len(c) /\ Len(p) = n - 2
      BY <1>1, <1>2
    <3> QED BY ONLY <2>1, <3>1, <3>2
  <2>3. p = c
    <3> HIDE DEF p, c
    <3>1. SubSeq(c, 1, Len(c)) = c
      BY <1>2, SubSeqFull DEF Bytes
    <3> QED BY <1>3, <2>2, <3>1
  <2>4. id \in Bytes /\ Len(id) = 2 /\ body \in Bytes
    <3>1. r.msgId \in Int /\ 2 \in Nat
      BY ResponseParts
    <3>2. id \in Bytes /\ Len(id) = 2
      BY ONLY <3>1, LittleType
    <3> QED BY <3>2, ResponseParts
  <2> HIDE DEF id, body, c, p
  <2>5. Holds(p, 0, id \o body)
    <3>1. Len(p) \in Nat
      BY <1>1
    <3>2. Holds(p, 0, p)
      BY <3>1 DEF Holds
    <3> QED BY <1>2, <2>3, <3>2
  <2>6. Holds(p, 0, id) /\ Holds(p, 0 + Len(id), body)
    <3>1. 0 \in Nat
      OBVIOUS
    <3> QED BY ONLY <1>1, <2>4, <2>5, <3>1, HoldsBoth
  <2>7. Holds(p, 2, body) /\ Len(p) = 2 + Len(body)
    <3>1. 0 + Len(id) = 2
      BY <2>4
    <3>2. Len(id \o body) = Len(id) + Len(body)
      BY ONLY <2>4, ConcatProperties DEF Bytes
    <3> QED BY <1>2, <2>3, <2>4, <2>6, <3>1, <3>2
  <2>8. MsgId(p) = r.msgId
    <3>1. r.msgId \in Int /\ 2 \in Nat /\ 0 \in Nat /\ Holds(p, 0, Little(r.msgId, 2))
      BY <2>6, ResponseParts DEF id
    <3>2. Number(p, 0, 2) = Unsigned(r.msgId, 2)
      BY ONLY <1>1, <3>1, NumberReads
    <3>3. Unsigned(r.msgId, 2) = r.msgId
      <4>1. r.msgId \in NumberOf(2, FALSE)
        BY ResponseParts
      <4> QED BY <4>1 DEF NumberOf, OfWidth
    <3> QED BY <3>2, <3>3 DEF MsgId, IdSize
  <2>9. Codec[r.written].read[p][2]
          = Found(Codec[r.written].kept[r.value], 2 + Len(body))
    <3> DEFINE codec == Codec[r.written]
               v == r.value
    <3>1. Sound(codec) /\ v \in codec.values
      BY ResponseParts, WrittenIsReadBack
    <3>2. body = codec.write[v]
      BY DEF body
    <3> HIDE DEF codec, v
    <3>3. 2 \in Nat /\ p \in Bytes
      BY <1>1
    <3>4. codec.read[p][2] = Found(codec.kept[v], 2 + Len(codec.write[v]))
      BY ONLY <2>7, <3>1, <3>2, <3>3 DEF Sound
    <3> QED BY ONLY <3>2, <3>4 DEF codec, v
  <2>10. Unpack(r.read, p) = Codec[r.written].read[p][2]
    BY ResponseParts DEF Unpack, IdSize
  <2> QED BY <2>7, <2>8, <2>9, <2>10 DEF p
<1>5. Len(p) <= Len(c)
  <2>1. Signed(Size(r), 2) <= Size(r)
    BY <1>2, SignedIs
  <2>2. Size(r) = 2 + Len(c) /\ n = Signed(Size(r), 2)
    BY <1>2
  <2> HIDE DEF p, c, n
  <2>3. c \in Seq(Octet)
    BY <1>2 DEF Bytes
  <2>4. Len(c) \in Nat
    BY ONLY <2>3, LenProperties
  <2>5. Len(p) = n - 2 /\ n \in Int
    BY <1>1, <1>2
  <2> QED BY ONLY <2>1, <2>2, <2>4, <2>5
<1>6. SubSeq(p, 1, Len(p)) = p
  BY <1>1, SubSeqFull DEF Bytes
<1>7. IsPrefix(p, c)
  BY <1>3, <1>5, <1>6 DEF IsPrefix
<1> QED BY <1>4, <1>7 DEF ReadsBack

-----------------------------------------------------------------------------
(* Cutting.                                                                *)

CutStep(f, s, at) ==
  LET body == at + LengthSize
      end == body + Signed(Number(s, at, LengthSize), LengthSize)
  IN  IF body > Len(s) \/ end > Len(s) THEN <<>>
      ELSE IF end \in body .. Len(s)
        THEN <<SubSeq(s, body + 1, end)>> \o f[end]
      ELSE <<Broken>>

\* Cut is what its recursive definition says.
LEMMA CutFunction ==
  ASSUME NEW s \in Bytes
  PROVE  \E f : f = [at \in 0 .. Len(s) |-> CutStep(f, s, at)] /\ Cut(s) = f[0]
<1> DEFINE D == 0 .. Len(s)
           Piece == Bytes \union {Broken}
           S == Seq(Piece)
           F == [f \in [D -> S] |-> [at \in D |-> CutStep(f, s, at)]]
           rank == [at \in D |-> Len(s) - at]
           end(at) == at + LengthSize
                        + Signed(Number(s, at, LengthSize), LengthSize)
           piece(at) == SubSeq(s, at + LengthSize + 1, end(at))
           goesOn(at) == ~(at + LengthSize > Len(s) \/ end(at) > Len(s))
                         /\ end(at) \in at + LengthSize .. Len(s)
<1>1. Len(s) \in Nat
  BY DEF Bytes
<1>2. \A f, at : CutStep(f, s, at) =
                   IF at + LengthSize > Len(s) \/ end(at) > Len(s) THEN <<>>
                   ELSE IF goesOn(at) THEN <<piece(at)>> \o f[end(at)]
                   ELSE <<Broken>>
  BY DEF CutStep
<1>3. \A at \in D : goesOn(at) =>
         end(at) \in D /\ end(at) > at /\ piece(at) \in Bytes
  <2> TAKE at \in D
  <2> DEFINE e == end(at)
  <2>1. goesOn(at) => e \in at + 2 .. Len(s)
    BY DEF LengthSize
  <2> HIDE DEF e
  <2>2. goesOn(at) => e \in D /\ e > at
    BY <1>1, <2>1
  <2>3. goesOn(at) => SubSeq(s, at + LengthSize + 1, e) \in Bytes
    <3> SUFFICES ASSUME goesOn(at) PROVE SubSeq(s, at + 2 + 1, e) \in Seq(Octet)
      BY DEF LengthSize, Bytes
    <3>1. at + 2 + 1 \in Int /\ e \in Int /\ s \in Seq(Octet)
      BY <2>2 DEF Bytes
    <3>2. \A i \in at + 2 + 1 .. e : s[i] \in Octet
      BY <1>1, <2>1, <3>1
    <3> QED BY ONLY <3>1, <3>2, SubSeqProperties
  <2> QED BY <2>2, <2>3 DEF e
<1> HIDE DEF end, piece, goesOn
<1>4. \A f \in [D -> S], at \in D : CutStep(f, s, at) \in S
  <2> TAKE f \in [D -> S], at \in D
  <2>1. ASSUME goesOn(at) PROVE <<piece(at)>> \o f[end(at)] \in S
    <3>1. <<piece(at)>> \in S /\ f[end(at)] \in S
      BY <1>3, <2>1
    <3> HIDE DEF Piece
    <3> QED BY ONLY <3>1, ConcatProperties
  <2>2. <<Broken>> \in S /\ <<>> \in S
    OBVIOUS
  <2> HIDE DEF S
  <2> QED BY <1>2, <2>1, <2>2
<1>5. rank \in [D -> Nat]
  BY <1>1
<1>6. Recursive(F, rank, D, S)
  <2>1. F \in [[D -> S] -> [D -> S]]
    BY <1>4
  <2>2. ASSUME NEW f \in [D -> S], NEW g \in [D -> S], NEW at \in D,
               \A y \in D : rank[y] < rank[at] => f[y] = g[y]
        PROVE  F[f][at] = F[g][at]
    <3>1. goesOn(at) => f[end(at)] = g[end(at)]
      BY <1>1, <1>3, <2>2
    <3>2. CutStep(f, s, at) = CutStep(g, s, at)
      BY <1>2, <3>1
    <3> QED BY <3>2
  <2>3. S /= {}
    <3>1. <<>> \in S
      OBVIOUS
    <3> QED BY <3>1
  <2> HIDE DEF F, rank, S, D
  <2> QED BY <1>5, <2>1, <2>2, <2>3 DEF Recursive
<1>7. PICK f \in [D -> S] : f = F[f]
  <2> HIDE DEF F, rank, D, S
  <2> QED BY ONLY <1>6, RecursionExists
<1> DEFINE Is(g) == g = [at \in 0 .. Len(s) |-> CutStep(g, s, at)]
<1>8. Is(f)
  BY <1>7
<1>9. Is(CHOOSE h : Is(h))
  <2> HIDE DEF Is
  <2> QED BY <1>8
<1>10. Cut(s) = (CHOOSE h : Is(h))[0]
  BY DEF Cut, CutStep
<1> QED BY <1>9, <1>10

\* A body with its length before it, and one that does not read as negative.
Framed(frames, bodies) ==
  /\ frames \in Seq(Bytes) /\ bodies \in Seq(Bytes) /\ Len(frames) = Len(bodies)
  /\ \A i \in 1 .. Len(bodies) :
       /\ 2 * Len(bodies[i]) < Power[2]
       /\ frames[i] = Little(Len(bodies[i]), 2) \o bodies[i]

\* s is a beginning of all.
Begins(s, all) ==
  Len(s) <= Len(all) /\ \A k \in 1 .. Len(s) : s[k] = all[k]

\* What is cut where the i-th frame begins.
LEMMA CutAtFrame ==
  ASSUME NEW frames, NEW bodies, Framed(frames, bodies),
         NEW s \in Bytes, Begins(s, FlattenSeq(frames)), NEW i \in 1 .. Len(frames),
         Len(First(i - 1, frames)) <= Len(s), NEW f
  PROVE  CutStep(f, s, Len(First(i - 1, frames))) =
           IF Len(First(i, frames)) > Len(s) THEN <<>>
           ELSE <<bodies[i]>> \o f[Len(First(i, frames))]
<1> DEFINE at == Len(First(i - 1, frames))
           end == Len(First(i, frames))
           p == bodies[i]
           n == Len(p)
           head == Little(n, 2)
           all == FlattenSeq(frames)
<1>1. /\ frames \in Seq(Seq(Octet)) /\ i - 1 \in 0 .. Len(frames) /\ i - 1 < Len(frames)
      /\ (i - 1) + 1 = i /\ i \in 0 .. Len(frames)
  BY DEF Framed, Bytes
<1>2. /\ First(i - 1, frames) \in Seq(Octet) /\ First(i, frames) \in Seq(Octet)
      /\ First(i, frames) = First(i - 1, frames) \o frames[i]
  <2>1. /\ First(i - 1, frames) \in Seq(Octet)
        /\ First((i - 1) + 1, frames) = First(i - 1, frames) \o frames[(i - 1) + 1]
    BY ONLY <1>1, FirstUnfolds
  <2>2. First(i, frames) \in Seq(Octet)
    BY ONLY <1>1, FirstUnfolds
  <2> QED BY <1>1, <2>1, <2>2
<1>3. /\ p \in Bytes /\ n \in Nat /\ 2 * n < Power[2] /\ frames[i] = head \o p
      /\ frames[i] \in Bytes
  <2>1. /\ frames \in Seq(Bytes) /\ bodies \in Seq(Bytes) /\ i \in 1 .. Len(bodies)
        /\ 2 * n < Power[2] /\ frames[i] = head \o p
    BY DEF Framed
  <2>2. p \in Bytes /\ frames[i] \in Bytes
    BY ONLY <2>1, i \in 1 .. Len(frames), ElementOfSeq
  <2>3. n \in Nat
    <3> HIDE DEF p
    <3> QED BY <2>2 DEF Bytes
  <2> QED BY ONLY <2>1, <2>2, <2>3
<1>4. head \in Bytes /\ Len(head) = 2
  <2>1. n \in Int /\ 2 \in Nat
    BY <1>3
  <2> HIDE DEF n
  <2> QED BY ONLY <2>1, LittleType
<1>5. all \in Bytes
  BY <1>1, FlattenType DEF Bytes
<1>b. /\ Len(s) <= Len(all) /\ at <= Len(s)
      /\ \A k \in 1 .. Len(s) : s[k] = all[k]
  BY DEF Begins
<1> HIDE DEF all, p, head
<1>6. /\ at \in Nat /\ Holds(all, at, head \o p)
  <2>1. /\ 0 \in Nat /\ Holds(all, 0, all) /\ frames \in Seq(Bytes)
        /\ i \in 1 .. Len(frames)
    <3>1. Len(all) \in Nat
      BY <1>5 DEF Bytes
    <3> QED BY <3>1 DEF Holds, Framed
  <2>2. /\ 0 + Len(First(i - 1, frames)) \in Nat
        /\ Holds(all, 0 + Len(First(i - 1, frames)), frames[i])
    BY ONLY <1>5, <2>1, HoldsEach DEF all
  <2>3. 0 + at = at /\ at \in Nat
    <3>1. at \in Nat
      BY <1>2
    <3> QED BY <3>1
  <2> QED BY <1>3, <2>2, <2>3
<1>7. Holds(all, at, head) /\ Holds(all, at + 2, p)
  <2>1. Holds(all, at, head) /\ Holds(all, at + Len(head), p)
    BY ONLY <1>3, <1>4, <1>5, <1>6, HoldsBoth
  <2> QED BY <1>4, <2>1
<1>8. end = at + 2 + n
  <2>1. Len(First(i, frames)) = Len(First(i - 1, frames)) + Len(frames[i])
    <3>1. frames[i] \in Seq(Octet)
      BY <1>3 DEF Bytes
    <3> DEFINE x == First(i - 1, frames)
               y == frames[i]
    <3>2. x \in Seq(Octet) /\ y \in Seq(Octet) /\ First(i, frames) = x \o y
      BY <1>2, <3>1
    <3> HIDE DEF x, y
    <3>3. Len(x \o y) = Len(x) + Len(y)
      BY ONLY <3>2, ConcatProperties
    <3> QED BY <3>2, <3>3 DEF x, y
  <2>2. Len(frames[i]) = 2 + n
    <3>1. Len(head \o p) = Len(head) + Len(p)
      BY ONLY <1>3, <1>4, ConcatProperties DEF Bytes
    <3> QED BY <1>3, <1>4, <3>1
  <2> HIDE DEF n
  <2>3. at \in Nat /\ n \in Nat
    BY <1>3, <1>6
  <2> QED BY ONLY <2>1, <2>2, <2>3
<1>9. ASSUME at + 2 <= Len(s)
      PROVE  Signed(Number(s, at, 2), 2) = n
  <2>1. Holds(s, at, head)
    <3>1. \A k \in 1 .. 2 : at + k \in 1 .. Len(s)
      BY <1>6, <1>9 DEF Bytes
    <3>2. \A k \in 1 .. 2 : s[at + k] = all[at + k]
      BY <1>b, <3>1
    <3> QED BY <1>4, <1>7, <1>9, <3>2 DEF Holds
  <2>2. Number(s, at, 2) = Unsigned(n, 2)
    <3>1. n \in Int /\ 2 \in Nat /\ Holds(s, at, Little(n, 2))
      BY <1>3, <2>1 DEF head
    <3> HIDE DEF n
    <3> QED BY ONLY <1>6, <3>1, s \in Bytes, NumberReads
  <2>3. Power[2] \in Nat
    BY Powers
  <2> HIDE DEF n
  <2>4. Unsigned(n, 2) = n
    <3>1. n \in 0 .. Power[2] - 1 /\ n \in Int /\ 2 \in Nat
      BY <1>3, <2>3
    <3> QED BY ONLY <3>1, Widths
  <2> QED BY <1>3, <2>2, <2>4 DEF Signed
<1>10. Len(s) \in Nat
  BY DEF Bytes
<1> DEFINE e == at + 2 + Signed(Number(s, at, 2), 2)
<1>11. CutStep(f, s, at) =
         IF at + 2 > Len(s) \/ e > Len(s) THEN <<>>
         ELSE IF e \in at + 2 .. Len(s)
           THEN <<SubSeq(s, at + 2 + 1, e)>> \o f[e]
         ELSE <<Broken>>
  BY DEF CutStep, LengthSize
<1> HIDE DEF e
<1>12. ASSUME end > Len(s)  PROVE CutStep(f, s, at) = <<>>
  <2>1. CASE at + 2 > Len(s)
    BY <1>11, <2>1
  <2>2. CASE at + 2 <= Len(s)
    <3>1. e = end
      BY <1>8, <1>9, <2>2 DEF e
    <3> QED BY <1>11, <1>12, <3>1
  <2> QED BY <1>6, <1>10, <2>1, <2>2
<1>13. ASSUME end <= Len(s)  PROVE CutStep(f, s, at) = <<p>> \o f[end]
  <2>1. at + 2 <= Len(s) /\ end \in at + 2 .. Len(s)
    <3> HIDE DEF n
    <3> QED BY <1>3, <1>6, <1>8, <1>10, <1>13
  <2>2. e = end
    BY <1>8, <1>9, <2>1 DEF e
  <2>3. SubSeq(s, at + 2 + 1, at + 2 + n) = p
    <3>1. Holds(s, at + 2, p)
      <4>1. \A k \in 1 .. n : (at + 2) + k \in 1 .. Len(s)
        <5> HIDE DEF n
        <5> QED BY <1>3, <1>6, <1>8, <1>10, <1>13
      <4>2. \A k \in 1 .. n : s[(at + 2) + k] = all[(at + 2) + k]
        BY <1>b, <4>1
      <4>3. (at + 2) + n <= Len(s)
        BY <1>8, <1>13
      <4> QED BY <1>7, <4>2, <4>3 DEF Holds
    <3>2. at + 2 \in Nat
      BY <1>6
    <3> QED BY ONLY <1>3, <3>1, <3>2, s \in Bytes, HoldsSubSeq DEF n
  <2>4. ~(at + 2 > Len(s) \/ end > Len(s))
    BY <1>6, <1>10, <2>1
  <2>5. CutStep(f, s, at) = <<SubSeq(s, at + 2 + 1, end)>> \o f[end]
    BY ONLY <1>11, <2>1, <2>2, <2>4
  <2> QED BY <1>8, <2>3, <2>5
<1>14. end > Len(s) \/ end <= Len(s)
  <2> HIDE DEF end, n
  <2> QED BY <1>3, <1>6, <1>8, <1>10
<1> HIDE DEF end, at
<1>15. CutStep(f, s, at) = IF end > Len(s) THEN <<>> ELSE <<p>> \o f[end]
  BY ONLY <1>12, <1>13, <1>14
<1> QED BY ONLY <1>15 DEF p, at, end

\* Of the beginning of a sequence of frames, exactly the bodies of the whole
\* frames in it are cut.
LEMMA CutPrefix ==
  ASSUME NEW frames, NEW bodies, Framed(frames, bodies), NEW s \in Bytes,
         Begins(s, FlattenSeq(frames))
  PROVE  \E m \in 0 .. Len(bodies) :
           /\ Cut(s) = SubSeq(bodies, 1, m)
           /\ Len(s) = Len(FlattenSeq(frames)) => m = Len(bodies)
<1> DEFINE n == Len(bodies)
           all == FlattenSeq(frames)
           at(i) == Len(First(i, frames))
           More == {j \in 0 .. n : at(n - j) <= Len(s)}
<1>1. /\ frames \in Seq(Seq(Octet)) /\ bodies \in Seq(Bytes)
      /\ Len(frames) = n /\ n \in Nat
  BY DEF Framed, Bytes
<1>2. Len(s) \in Nat /\ Len(all) \in Nat
  <2>1. all \in Seq(Octet)
    BY <1>1, FlattenType
  <2> HIDE DEF all
  <2> QED BY <2>1 DEF Bytes
<1>b. Len(s) <= Len(all)
  BY DEF Begins
<1>3. at(0) = 0 /\ at(n) = Len(all) /\ \A i \in 0 .. n : at(i) \in Nat
  <2>1. /\ First(0, frames) = <<>> /\ First(n, frames) = all
        /\ \A i \in 0 .. n : First(i, frames) \in Seq(Octet)
    BY ONLY <1>1, FirstUnfolds
  <2> HIDE DEF n, all
  <2> QED BY <2>1
<1>4. \A i \in 0 .. n : \A j \in i .. n : at(i) <= at(j)
  BY ONLY <1>1, FirstMonotone
<1> HIDE DEF at, n
<1>5. PICK j \in More : \A k \in More : j <= k
  <2>1. n \in More
    BY <1>1, <1>2, <1>3
  <2>2. More \in SUBSET Nat /\ More /= {}
    BY <2>1
  <2> HIDE DEF More
  <2> QED BY <2>2, LeastNumber
<1> DEFINE m == n - j
<1>6. m \in 0 .. n /\ at(m) <= Len(s)
  BY <1>1, <1>5
<1>7. m < n => at(m + 1) > Len(s)
  <2> SUFFICES ASSUME m < n, at(m + 1) <= Len(s) PROVE FALSE
    BY <1>1, <1>2, <1>3, <1>6
  <2>1. j - 1 \in 0 .. n /\ n - (j - 1) = m + 1 /\ ~(j <= j - 1)
    BY <1>1, <1>5
  <2>2. j - 1 \in More
    BY <2>1
  <2> QED BY <1>5, <2>1, <2>2
<1> HIDE DEF m, all
<1>8. PICK f : f = [p \in 0 .. Len(s) |-> CutStep(f, s, p)] /\ Cut(s) = f[0]
  BY CutFunction
<1>9. ASSUME NEW i \in 0 .. n, at(i) <= Len(s)
      PROVE  f[at(i)] = CutStep(f, s, at(i))
  <2>1. at(i) \in 0 .. Len(s)
    BY <1>2, <1>3, <1>9
  <2> QED BY ONLY <1>8, <2>1
<1>10. ASSUME NEW i \in 1 .. n, at(i - 1) <= Len(s)
       PROVE  /\ at(i) > Len(s) => f[at(i - 1)] = <<>>
              /\ at(i) <= Len(s) => f[at(i - 1)] = <<bodies[i]>> \o f[at(i)]
  <2>1. i \in 1 .. Len(frames) /\ i - 1 \in 0 .. n
    BY <1>1
  <2>2. /\ at(i) > Len(s) => CutStep(f, s, at(i - 1)) = <<>>
        /\ at(i) <= Len(s) =>
             CutStep(f, s, at(i - 1)) = <<bodies[i]>> \o f[at(i)]
    <3> DEFINE a == at(i - 1)
               e == at(i)
    <3>1. a = Len(First(i - 1, frames)) /\ e = Len(First(i, frames))
      BY DEF at
    <3>2. a <= Len(s)
      BY <1>10
    <3> HIDE DEF a, e
    <3>3. CutStep(f, s, a) = IF e > Len(s) THEN <<>> ELSE <<bodies[i]>> \o f[e]
      BY ONLY <2>1, <3>1, <3>2, Framed(frames, bodies), s \in Bytes,
              Begins(s, FlattenSeq(frames)), CutAtFrame
    <3>4. Len(s) \in Nat /\ e \in Nat
      BY <1>2, <1>3 DEF e
    <3>5. ~(e > Len(s) /\ e <= Len(s))
      BY <3>4
    <3> QED BY <3>3, <3>5 DEF a, e
  <2>3. f[at(i - 1)] = CutStep(f, s, at(i - 1))
    BY <1>9, <1>10, <2>1
  <2> QED BY <2>2, <2>3
<1>11. f[at(m)] = <<>>
  <2>1. CASE m = n
    <3>1. at(m) = Len(s)
      BY <1>2, <1>3, <1>6, <1>b, <2>1
    <3>2. Len(s) + 2 > Len(s)
      BY <1>2
    <3>3. CutStep(f, s, at(m)) = <<>>
      BY <3>1, <3>2 DEF CutStep, LengthSize
    <3> QED BY <1>6, <1>9, <3>3
  <2>2. CASE m < n
    <3>1. m + 1 \in 1 .. n /\ (m + 1) - 1 = m
      BY <1>1, <1>6, <2>2
    <3> QED BY <1>6, <1>7, <1>10, <2>2, <3>1
  <2> QED BY <1>1, <1>6, <2>1, <2>2
<1>12. \A i \in 0 .. m : f[at(m - i)] = SubSeq(bodies, m - i + 1, m)
  <2> DEFINE Off == {i \in 0 .. m : f[at(m - i)] /= SubSeq(bodies, m - i + 1, m)}
  <2> SUFFICES ASSUME Off /= {} PROVE FALSE
    OBVIOUS
  <2>1. PICK i \in Off : \A k \in Off : i <= k
    <3>1. Off \in SUBSET Nat
      OBVIOUS
    <3> HIDE DEF Off
    <3> QED BY <3>1, LeastNumber
  <2>2. i \in 0 .. m /\ f[at(m - i)] /= SubSeq(bodies, m - i + 1, m)
    BY <2>1
  <2>3. i /= 0
    <3>1. ASSUME i = 0 PROVE FALSE
      <4>1. m - i = m /\ m - i + 1 = m + 1
        BY <1>1, <1>6, <3>1
      <4>2. SubSeq(bodies, m + 1, m) = <<>>
        BY <1>6, SubSeqEmpty
      <4> QED BY <1>11, <2>2, <4>1, <4>2
    <3> QED BY <3>1
  <2> DEFINE k == m - i + 1
  <2>4. k \in 1 .. m /\ k \in 1 .. n /\ k - 1 = m - i /\ k = m - (i - 1)
        /\ i - 1 \in 0 .. m /\ ~(i <= i - 1)
    BY <1>1, <1>6, <2>2, <2>3
  <2>5. f[at(k)] = SubSeq(bodies, k + 1, m)
    <3>1. i - 1 \notin Off
      BY <2>1, <2>4
    <3>2. m - (i - 1) = k /\ m - (i - 1) + 1 = k + 1
      <4> HIDE DEF k
      <4> QED BY <2>4
    <3> HIDE DEF k
    <3> QED BY <2>4, <3>1, <3>2
  <2> HIDE DEF k
  <2>6. at(k) <= Len(s) /\ at(k - 1) <= Len(s)
    <3>1. at(k) <= at(m) /\ at(k - 1) <= at(m) /\ at(k) \in Nat /\ at(k - 1) \in Nat
          /\ at(m) \in Nat
      <4>1. k \in 0 .. n /\ k - 1 \in 0 .. n /\ m \in k .. n /\ m \in k - 1 .. n
            /\ m \in 0 .. n
        BY <1>1, <1>6, <2>4
      <4> QED BY <1>3, <1>4, <4>1
    <3>2. Len(s) \in Nat /\ at(m) <= Len(s)
      BY <1>2, <1>6
    <3> QED BY ONLY <3>1, <3>2
  <2>7. f[at(k - 1)] = <<bodies[k]>> \o f[at(k)]
    BY <1>10, <2>4, <2>6
  <2>8. SubSeq(bodies, k, m) = <<bodies[k]>> \o SubSeq(bodies, k + 1, m)
    <3>1. k \in 1 .. Len(bodies) /\ m \in k .. Len(bodies)
      BY <1>1, <1>6, <2>4 DEF n
    <3> QED BY ONLY <1>1, <3>1, SubSeqRecursiveFirst
  <2> QED BY <2>2, <2>4, <2>5, <2>7, <2>8 DEF k
<1>13. Cut(s) = SubSeq(bodies, 1, m)
  <2>1. m \in 0 .. m /\ m - m = 0 /\ m - m + 1 = 1
    BY <1>1, <1>6
  <2>2. f[at(m - m)] = SubSeq(bodies, m - m + 1, m)
    BY <1>12, <2>1
  <2> QED BY <1>3, <1>8, <2>1, <2>2
<1>14. Len(s) = Len(all) => m = n
  <2> SUFFICES ASSUME Len(s) = Len(all), m < n PROVE FALSE
    BY <1>1, <1>6
  <2>1. at(m + 1) <= at(n) /\ at(m + 1) \in Nat
    <3>1. m + 1 \in 0 .. n /\ n \in m + 1 .. n
      BY <1>1, <1>6
    <3> QED BY <1>3, <1>4, <3>1
  <2> QED BY <1>2, <1>3, <1>7, <2>1
<1> QED BY <1>6, <1>13, <1>14 DEF n, all

\* So does Each.
LEMMA EachBoth ==
  ASSUME NEW R, NEW f, NEW a \in Seq(R), NEW b \in Seq(R)
  PROVE  Each(f, a \o b) = Each(f, a) \o Each(f, b)
<1> DEFINE S == {f[r] : r \in R}
           c == a \o b
           x == Each(f, a)
           y == Each(f, b)
           z == Each(f, c)
<1>1. /\ c \in Seq(R) /\ Len(c) = Len(a) + Len(b)
      /\ \A i \in 1 .. Len(a) + Len(b) :
           c[i] = IF i <= Len(a) THEN a[i] ELSE b[i - Len(a)]
  BY ConcatProperties
<1> HIDE DEF c, x, y, z
<1>2. \A s \in Seq(R) : /\ Each(f, s) \in Seq(S) /\ Len(Each(f, s)) = Len(s)
                       /\ \A i \in 1 .. Len(s) : Each(f, s)[i] = f[s[i]]
  <2> TAKE s \in Seq(R)
  <2>1. \A r \in R : f[r] \in S
    OBVIOUS
  <2> HIDE DEF S
  <2>2. /\ Each(f, s) \in Seq(S) /\ Len(Each(f, s)) = Len(s)
        /\ \A i \in 1 .. Len(s) : Each(f, s)[i] = f[s[i]] /\ s[i] \in R
    BY ONLY <2>1, s \in Seq(R), EachType
  <2> QED BY ONLY <2>2
<1>3. x \in Seq(S) /\ Len(x) = Len(a) /\ \A i \in 1 .. Len(a) : x[i] = f[a[i]]
  BY <1>2 DEF x
<1>4. y \in Seq(S) /\ Len(y) = Len(b) /\ \A i \in 1 .. Len(b) : y[i] = f[b[i]]
  BY <1>2 DEF y
<1>5. z \in Seq(S) /\ Len(z) = Len(c) /\ \A i \in 1 .. Len(c) : z[i] = f[c[i]]
  BY <1>1, <1>2 DEF z
<1> HIDE DEF S
<1>6. /\ x \o y \in Seq(S) /\ Len(x \o y) = Len(x) + Len(y)
      /\ \A i \in 1 .. Len(x) + Len(y) :
           (x \o y)[i] = IF i <= Len(x) THEN x[i] ELSE y[i - Len(x)]
  BY ONLY <1>3, <1>4, ConcatProperties, ZenonT(30)
<1>7. Len(a) \in Nat /\ Len(b) \in Nat
  OBVIOUS
<1>8. \A i \in 1 .. Len(z) : z[i] = (x \o y)[i]
  <2> TAKE i \in 1 .. Len(z)
  <2>1. i \in 1 .. Len(a) + Len(b) /\ z[i] = f[c[i]]
    BY <1>1, <1>5
  <2>2. CASE i <= Len(a)
    <3>1. i \in 1 .. Len(a)
      BY <1>7, <2>1, <2>2
    <3> QED BY <1>1, <1>3, <1>4, <1>6, <2>1, <2>2, <3>1
  <2>3. CASE ~(i <= Len(a))
    <3>1. i - Len(a) \in 1 .. Len(b)
      BY <1>7, <2>1, <2>3
    <3>2. z[i] = f[b[i - Len(a)]] /\ y[i - Len(a)] = f[b[i - Len(a)]]
      BY <1>1, <1>4, <2>1, <2>3, <3>1
    <3>3. (x \o y)[i] = y[i - Len(a)]
      BY <1>3, <1>4, <1>6, <2>1, <2>3
    <3> QED BY <3>2, <3>3
  <2> QED BY <2>2, <2>3
<1>9. Len(z) = Len(x \o y)
  BY <1>1, <1>3, <1>4, <1>5, <1>6
<1>10. z = x \o y
  <2> DEFINE u == x \o y
  <2>1. u \in Seq(S) /\ Len(z) = Len(u) /\ \A i \in 1 .. Len(z) : z[i] = u[i]
    BY <1>6, <1>8, <1>9
  <2> HIDE DEF u
  <2>2. z = u
    BY ONLY <1>5, <2>1, SeqEqual
  <2> QED BY <2>2 DEF u
<1> QED BY <1>10 DEF x, y, z, c

\* Flattening what each element becomes, and flattening first.
LEMMA FlattenEach ==
  ASSUME NEW R, NEW T, NEW f, NEW ss \in Seq(Seq(R)), \A r \in R : f[r] \in Seq(T)
  PROVE  FlattenSeq(Each(f, FlattenSeq(ss)))
           = FlattenSeq([i \in 1 .. Len(ss) |-> FlattenSeq(Each(f, ss[i]))])
<1> DEFINE row == [i \in 1 .. Len(ss) |-> FlattenSeq(Each(f, ss[i]))]
           flat(s) == FlattenSeq(Each(f, s))
           Off == {n \in 0 .. Len(ss) : flat(First(n, ss)) /= First(n, row)}
<1>1. \A r \in R : f[r] \in Seq(T)
  OBVIOUS
<1>2. \A s \in Seq(R) : Each(f, s) \in Seq(Seq(T)) /\ flat(s) \in Seq(T)
  <2> TAKE s \in Seq(R)
  <2>1. Each(f, s) \in Seq(Seq(T))
    BY EachType
  <2> QED BY <2>1, FlattenType
<1>3. Len(ss) \in Nat /\ row \in Seq(Seq(T)) /\ Len(row) = Len(ss)
  <2>1. \A i \in 1 .. Len(ss) : ss[i] \in Seq(R)
    OBVIOUS
  <2>2. row \in [1 .. Len(ss) -> Seq(T)]
    BY <1>2, <2>1
  <2> QED BY <2>2
<1>4. \A s, t \in Seq(R) : flat(s \o t) = flat(s) \o flat(t)
  <2> TAKE s \in Seq(R), t \in Seq(R)
  <2>1. Each(f, s \o t) = Each(f, s) \o Each(f, t)
    BY ONLY s \in Seq(R), t \in Seq(R), EachBoth
  <2>2. Each(f, s) \in Seq(Seq(T)) /\ Each(f, t) \in Seq(Seq(T))
    BY <1>2
  <2> QED BY <2>1, <2>2, FlattenBoth
<1>5. Off = {}
  <2> SUFFICES ASSUME Off /= {} PROVE FALSE
    OBVIOUS
  <2>1. PICK n \in Off : \A k \in Off : n <= k
    <3>1. Off \in SUBSET Nat
      OBVIOUS
    <3> HIDE DEF Off
    <3> QED BY <3>1, LeastNumber
  <2>2. n \in 0 .. Len(ss) /\ flat(First(n, ss)) /= First(n, row)
    BY <2>1
  <2>3. n /= 0
    <3>1. First(0, ss) = <<>> /\ First(0, row) = <<>>
      BY <1>3, FirstUnfolds
    <3>2. Each(f, <<>>) = <<>>
      BY DEF Each
    <3>3. FlattenSeq(<<>>) = <<>>
      BY DEF FlattenSeq
    <3> QED BY <2>2, <3>1, <3>2, <3>3
  <2>4. /\ n - 1 \in 0 .. Len(ss) /\ ~(n <= n - 1) /\ n \in 1 .. Len(ss)
        /\ n - 1 < Len(ss) /\ (n - 1) + 1 = n
    BY <1>3, <2>2, <2>3
  <2>5. flat(First(n - 1, ss)) = First(n - 1, row)
    <3> HIDE DEF flat
    <3> QED BY <2>1, <2>4
  <2>6. First(n - 1, ss) \in Seq(R) /\ First(n, ss) = First(n - 1, ss) \o ss[n]
    <3>1. /\ First(n - 1, ss) \in Seq(R)
          /\ First((n - 1) + 1, ss) = First(n - 1, ss) \o ss[(n - 1) + 1]
      BY ONLY <2>4, ss \in Seq(Seq(R)), FirstUnfolds
    <3> QED BY <2>4, <3>1
  <2>7. First(n, row) = First(n - 1, row) \o row[n]
    <3> HIDE DEF row
    <3>1. First((n - 1) + 1, row) = First(n - 1, row) \o row[(n - 1) + 1]
      BY ONLY <1>3, <2>4, FirstUnfolds
    <3> QED BY <2>4, <3>1
  <2>8. row[n] = flat(ss[n]) /\ ss[n] \in Seq(R)
    BY <2>4
  <2> HIDE DEF flat, row
  <2> QED BY <1>4, <2>2, <2>5, <2>6, <2>7, <2>8
<1>6. /\ Len(ss) \in 0 .. Len(ss) /\ First(Len(ss), ss) = FlattenSeq(ss)
      /\ First(Len(ss), row) = FlattenSeq(row)
  <2> HIDE DEF row
  <2>1. First(Len(row), row) = FlattenSeq(row)
    BY ONLY <1>3, FirstUnfolds
  <2>2. First(Len(ss), ss) = FlattenSeq(ss)
    BY FirstUnfolds
  <2> QED BY <1>3, <2>1, <2>2
<1>7. flat(First(Len(ss), ss)) = First(Len(ss), row)
  BY <1>5, <1>6
<1> QED BY <1>6, <1>7

\* The responses of which something is sent, and what.
Passed == {r \in Response : IsSent(r)}

Framing == [r \in Passed |-> Frame(r)]

\* What is meant for c: of one response, of each, and of them all.
Pieces(r, c) ==
  [k \in 1 .. Len(r.connIds) |->
     IF r.connIds[k] = c /\ IsSent(r) THEN Frame(r) ELSE <<>>]

Rows(b, c) == [i \in 1 .. Len(b) |-> FlattenSeq(Pieces(b[i], c))]

Wire(b, c) == FlattenSeq(Rows(b, c))

\* What is sent of a response is bytes.
LEMMA FramingType == \A r \in Passed : Framing[r] \in Seq(Octet)
<1>1. ASSUME NEW r \in Passed PROVE Frame(r) \in Seq(Octet)
  <2>1. r \in Response /\ IsSent(r)
    BY DEF Passed
  <2>2. Frame(r) \in Bytes
    BY ONLY <2>1, FrameType
  <2> QED BY <2>2 DEF Bytes
<1> QED BY <1>1 DEF Framing

\* What is meant for c of one response is what is sent of its copies to c.
LEMMA PiecesAre ==
  ASSUME NEW r \in Response, NEW c \in Client
  PROVE  /\ Pieces(r, c) \in Seq(Seq(Octet)) /\ Len(Pieces(r, c)) = Len(r.connIds)
         /\ Len(r.connIds) \in Nat
         /\ \A k \in 1 .. Len(r.connIds) :
              Pieces(r, c)[k] =
                IF r.connIds[k] = c /\ IsSent(r) THEN Frame(r) ELSE <<>>
         /\ Copies(r, c) \in Seq(Passed)
         /\ FlattenSeq(Each(Framing, Copies(r, c))) = FlattenSeq(Pieces(r, c))
         /\ FlattenSeq(Pieces(r, c)) \in Seq(Octet)
<1> DEFINE n == Len(r.connIds)
           mine(k) == r.connIds[k] = c /\ IsSent(r)
           copy == [k \in 1 .. n |-> IF mine(k) THEN <<r>> ELSE <<>>]
           pieces == [k \in 1 .. n |-> IF mine(k) THEN Frame(r) ELSE <<>>]
<1>1. DOMAIN r.connIds = 1 .. n /\ n \in Nat
  BY ResponseParts
<1>2. Copies(r, c) = FlattenSeq(copy) /\ Pieces(r, c) = pieces
  BY <1>1 DEF Copies, Pieces
<1>3. \A k \in 1 .. n : mine(k) => r \in Passed /\ Frame(r) \in Seq(Octet)
                                 /\ Framing[r] = Frame(r)
  <2> SUFFICES ASSUME IsSent(r)
               PROVE  r \in Passed /\ Frame(r) \in Seq(Octet) /\ Framing[r] = Frame(r)
    OBVIOUS
  <2>1. r \in Passed
    BY DEF Passed
  <2> QED BY <2>1, FramingType DEF Framing
<1> HIDE DEF mine, n
<1>4. copy \in Seq(Seq(Passed)) /\ Len(copy) = n
  <2>1. \A k \in 1 .. n : copy[k] \in Seq(Passed)
    BY <1>3
  <2>2. copy \in [1 .. n -> Seq(Passed)]
    BY <2>1
  <2> QED BY <1>1, <2>2
<1>5. pieces \in Seq(Seq(Octet)) /\ Len(pieces) = n
  <2>1. \A k \in 1 .. n : pieces[k] \in Seq(Octet)
    BY <1>3
  <2>2. pieces \in [1 .. n -> Seq(Octet)]
    BY <2>1
  <2> QED BY <1>1, <2>2
<1> DEFINE each == [k \in 1 .. Len(copy) |-> FlattenSeq(Each(Framing, copy[k]))]
<1>6. each = pieces
  <2>1. ASSUME NEW k \in 1 .. n
        PROVE  FlattenSeq(Each(Framing, copy[k])) = pieces[k]
    <3>1. CASE mine(k)
      <4>1. copy[k] = <<r>> /\ pieces[k] = Frame(r) /\ Framing[r] = Frame(r)
            /\ Frame(r) \in Seq(Octet)
        BY <1>3, <3>1
      <4>2. Each(Framing, <<r>>) = <<Framing[r]>>
        BY DEF Each
      <4> HIDE DEF copy, pieces
      <4>3. FlattenSeq(<<Frame(r)>>) = Frame(r)
        BY ONLY <4>1, FlattenOne
      <4> QED BY <4>1, <4>2, <4>3
    <3>2. CASE ~mine(k)
      <4>1. copy[k] = <<>> /\ pieces[k] = <<>>
        BY <3>2
      <4>2. Each(Framing, <<>>) = <<>>
        BY DEF Each
      <4>3. FlattenSeq(<<>>) = <<>>
        BY DEF FlattenSeq
      <4> HIDE DEF copy, pieces
      <4> QED BY <4>1, <4>2, <4>3
    <3> QED BY <3>1, <3>2
  <2>2. pieces = [k \in 1 .. n |-> pieces[k]]
    OBVIOUS
  <2> HIDE DEF copy, pieces
  <2> QED BY <1>4, <2>1, <2>2
<1> HIDE DEF copy, pieces
<1>7. FlattenSeq(Each(Framing, FlattenSeq(copy))) = FlattenSeq(each)
  BY ONLY <1>4, FramingType, FlattenEach
<1>8. FlattenSeq(copy) \in Seq(Passed) /\ FlattenSeq(pieces) \in Seq(Octet)
  BY ONLY <1>4, <1>5, FlattenType
<1>9. \A k \in 1 .. n : pieces[k] = IF mine(k) THEN Frame(r) ELSE <<>>
  BY DEF pieces
<1> QED BY <1>1, <1>2, <1>5, <1>6, <1>7, <1>8, <1>9 DEF n, mine

\* Sent, of any vector.
SentOf(b, c) == FlattenSeq([i \in DOMAIN b |-> Copies(b[i], c)])

\* And so for the responses of a vector: Wire is the frames of Sent.
LEMMA RowsAre ==
  ASSUME NEW b \in Seq(Response), NEW c \in Client
  PROVE  /\ Rows(b, c) \in Seq(Seq(Octet)) /\ Len(Rows(b, c)) = Len(b)
         /\ \A i \in 1 .. Len(b) : Rows(b, c)[i] = FlattenSeq(Pieces(b[i], c))
         /\ SentOf(b, c) \in Seq(Passed)
         /\ Wire(b, c) = FlattenSeq(Each(Framing, SentOf(b, c)))
         /\ Wire(b, c) \in Bytes
<1> DEFINE n == Len(b)
           copies == [i \in 1 .. n |-> Copies(b[i], c)]
           rows == [i \in 1 .. n |-> FlattenSeq(Pieces(b[i], c))]
<1>1. DOMAIN b = 1 .. n /\ n \in Nat /\ \A i \in 1 .. n : b[i] \in Response
  OBVIOUS
<1>2. SentOf(b, c) = FlattenSeq(copies) /\ Rows(b, c) = rows
  BY <1>1 DEF SentOf, Rows
<1>3. ASSUME NEW i \in 1 .. n
      PROVE  /\ Copies(b[i], c) \in Seq(Passed)
             /\ FlattenSeq(Pieces(b[i], c)) \in Seq(Octet)
             /\ FlattenSeq(Each(Framing, Copies(b[i], c))) = FlattenSeq(Pieces(b[i], c))
  <2>1. b[i] \in Response
    BY <1>1
  <2> QED BY <2>1, PiecesAre
<1> HIDE DEF n
<1>4. copies \in Seq(Seq(Passed)) /\ Len(copies) = n
  <2>1. copies \in [1 .. n -> Seq(Passed)]
    BY <1>3
  <2> QED BY <1>1, <2>1
<1>5. rows \in Seq(Seq(Octet)) /\ Len(rows) = n
  <2>1. rows \in [1 .. n -> Seq(Octet)]
    BY <1>3
  <2> QED BY <1>1, <2>1
<1> DEFINE each == [i \in 1 .. Len(copies) |-> FlattenSeq(Each(Framing, copies[i]))]
<1>6. each = rows
  <2>1. \A i \in 1 .. n : FlattenSeq(Each(Framing, copies[i])) = rows[i]
    BY <1>3
  <2>2. rows = [i \in 1 .. n |-> rows[i]]
    OBVIOUS
  <2> HIDE DEF copies, rows
  <2> QED BY <1>4, <2>1, <2>2
<1>7. \A i \in 1 .. n : rows[i] = FlattenSeq(Pieces(b[i], c))
  OBVIOUS
<1> HIDE DEF copies, rows
<1>8. FlattenSeq(Each(Framing, FlattenSeq(copies))) = FlattenSeq(each)
  <2>1. copies \in Seq(Seq(Passed)) /\ \A r \in Passed : Framing[r] \in Seq(Octet)
    BY <1>4, FramingType
  <2> QED BY ONLY <2>1, FlattenEach, SMTT(30)
<1>9. FlattenSeq(copies) \in Seq(Passed) /\ FlattenSeq(rows) \in Seq(Octet)
  BY ONLY <1>4, <1>5, FlattenType
<1>10. Wire(b, c) = FlattenSeq(rows)
  BY <1>2 DEF Wire
<1> QED BY <1>2, <1>5, <1>6, <1>7, <1>8, <1>9, <1>10 DEF n, Bytes

\* Where the piece for the k-th connection of the i-th response is.
LEMMA PieceInWire ==
  ASSUME NEW b \in Seq(Response), NEW c \in Client, NEW i \in 1 .. Len(b),
         NEW k \in 1 .. Len(b[i].connIds)
  PROVE  Holds(Wire(b, c),
               Len(First(i - 1, Rows(b, c))) + Len(First(k - 1, Pieces(b[i], c))),
               Pieces(b[i], c)[k])
<1> DEFINE rows == Rows(b, c)
           pieces == Pieces(b[i], c)
           wire == Wire(b, c)
           x == Len(First(i - 1, rows))
<1>1. rows \in Seq(Bytes) /\ i \in 1 .. Len(rows) /\ wire \in Bytes
      /\ rows[i] = FlattenSeq(pieces) /\ wire = FlattenSeq(rows)
  <2>1. /\ Rows(b, c) \in Seq(Seq(Octet)) /\ Len(Rows(b, c)) = Len(b)
        /\ \A j \in 1 .. Len(b) : Rows(b, c)[j] = FlattenSeq(Pieces(b[j], c))
        /\ Wire(b, c) \in Bytes
    BY RowsAre
  <2> QED BY <2>1 DEF Bytes, Wire
<1>2. pieces \in Seq(Bytes) /\ k \in 1 .. Len(pieces)
  <2>1. b[i] \in Response
    OBVIOUS
  <2>2. Pieces(b[i], c) \in Seq(Seq(Octet)) /\ Len(Pieces(b[i], c)) = Len(b[i].connIds)
    BY <2>1, PiecesAre
  <2> QED BY <2>2 DEF Bytes
<1>3. Holds(wire, 0, FlattenSeq(rows)) /\ 0 \in Nat
  <2> HIDE DEF wire, rows
  <2>1. Len(wire) \in Nat
    BY <1>1 DEF Bytes
  <2> QED BY <1>1, <2>1 DEF Holds
<1> HIDE DEF wire, rows, pieces
<1>4. 0 + Len(First(i - 1, rows)) \in Nat
      /\ Holds(wire, 0 + Len(First(i - 1, rows)), rows[i])
  BY ONLY <1>1, <1>3, HoldsEach
<1>5. x \in Nat /\ Holds(wire, x, FlattenSeq(pieces))
  <2>1. Len(First(i - 1, rows)) \in Nat
    <3>1. rows \in Seq(Seq(Octet)) /\ i - 1 \in 0 .. Len(rows)
      BY <1>1 DEF Bytes
    <3> QED BY ONLY <3>1, FirstLength
  <2>2. 0 + Len(First(i - 1, rows)) = Len(First(i - 1, rows))
    BY <2>1
  <2> QED BY <1>1, <1>4, <2>1, <2>2
<1> HIDE DEF x
<1>6. Holds(wire, x + Len(First(k - 1, pieces)), pieces[k])
  BY ONLY <1>1, <1>2, <1>5, HoldsEach
<1> QED BY <1>6 DEF wire, rows, pieces, x

\* How many of the bytes meant for c the send thread is through with: at n
\* bytes of the k-th connection of the i-th response.
DueAt(b, pc, i, k, n, c) ==
  IF pc \in {"send", "killed"}
  THEN Len(First(i - 1, Rows(b, c)))
         + (Len(First(k - 1, Pieces(b[i], c)))
              + (IF k <= Len(b[i].connIds) /\ b[i].connIds[k] = c THEN n ELSE 0))
  ELSE Len(First(i - 1, Rows(b, c)))

Due(c) == DueAt(batch, spc, respIt, connIt, sentBytes, c)

\* Of the bytes s, those before the first that was dropped, which are the
\* beginning of what was meant.
Kept(s, m) == IF m = -1 THEN s ELSE SubSeq(s, 1, m)

Follows(s, m, due, all) ==
  /\ m = -1 => Len(s) = due
  /\ m /= -1 => m <= Len(s)
  /\ Begins(Kept(s, m), all)

\* How far the send thread is.
Progress ==
  /\ spc \in {"send", "killed"} =>
       /\ respIt <= Len(batch) /\ packet = Packed[resp]
       /\ connIt <= Len(resp.connIds) + 1
       /\ sentBytes = 0 \/ sentBytes <= packet.length
  /\ spc = "done" => respIt = Len(batch) + 1

\* The inductive invariant.
StreamInv ==
  /\ StreamTypeOK /\ Progress
  /\ \A c \in Client : Follows(stream[c], intact[c], Due(c), Wire(batch, c))

\* The offsets of the pieces of one response.
LEMMA PiecesLength ==
  ASSUME NEW r \in Response, NEW c \in Client
  PROVE  /\ Len(r.connIds) \in Nat /\ Len(First(0, Pieces(r, c))) = 0
         /\ \A k \in 0 .. Len(r.connIds) : Len(First(k, Pieces(r, c))) \in Nat
         /\ \A k \in 1 .. Len(r.connIds) :
              Len(First(k, Pieces(r, c))) = Len(First(k - 1, Pieces(r, c)))
                + (IF r.connIds[k] = c /\ IsSent(r) THEN Packed[r].length ELSE 0)
<1> DEFINE p == Pieces(r, c)
<1>1. /\ p \in Seq(Seq(Octet)) /\ Len(p) = Len(r.connIds) /\ Len(r.connIds) \in Nat
      /\ \A k \in 1 .. Len(r.connIds) :
           p[k] = IF r.connIds[k] = c /\ IsSent(r) THEN Frame(r) ELSE <<>>
  BY PiecesAre
<1> HIDE DEF p
<1>2. /\ Len(First(0, p)) = 0
      /\ \A n \in 0 .. Len(p) : Len(First(n, p)) \in Nat
      /\ \A n \in 1 .. Len(p) :
           Len(First(n, p)) = Len(First(n - 1, p)) + Len(p[n])
  BY ONLY <1>1, FirstLength
<1>3. ASSUME NEW k \in 1 .. Len(r.connIds)
      PROVE  Len(p[k]) = IF r.connIds[k] = c /\ IsSent(r) THEN Packed[r].length ELSE 0
  <2>1. CASE r.connIds[k] = c /\ IsSent(r)
    <3>1. Len(Frame(r)) = Packed[r].length
      BY <2>1, FrameType
    <3> QED BY <1>1, <2>1, <3>1
  <2>2. CASE ~(r.connIds[k] = c /\ IsSent(r))
    <3>1. p[k] = <<>>
      BY <1>1, <2>2
    <3> QED BY <2>2, <3>1
  <2> QED BY <2>1, <2>2
<1> QED BY <1>1, <1>2, <1>3 DEF p

\* The offsets of the responses.
LEMMA RowsLength ==
  ASSUME NEW b \in Seq(Response), NEW c \in Client
  PROVE  /\ Len(b) \in Nat /\ Len(First(0, Rows(b, c))) = 0
         /\ Len(First(Len(b), Rows(b, c))) = Len(Wire(b, c))
         /\ \A i \in 0 .. Len(b) : Len(First(i, Rows(b, c))) \in Nat
         /\ \A i \in 1 .. Len(b) :
              /\ b[i] \in Response
              /\ Len(First(i, Rows(b, c))) = Len(First(i - 1, Rows(b, c)))
                   + Len(First(Len(b[i].connIds), Pieces(b[i], c)))
<1> DEFINE p == Rows(b, c)
<1>1. /\ p \in Seq(Seq(Octet)) /\ Len(p) = Len(b)
      /\ \A i \in 1 .. Len(b) : p[i] = FlattenSeq(Pieces(b[i], c))
  BY RowsAre
<1>2. Len(b) \in Nat /\ \A i \in 1 .. Len(b) : b[i] \in Response
  OBVIOUS
<1>3. Wire(b, c) = FlattenSeq(p)
  BY DEF Wire
<1> HIDE DEF p
<1>4. /\ Len(First(0, p)) = 0 /\ Len(First(Len(p), p)) = Len(FlattenSeq(p))
      /\ \A n \in 0 .. Len(p) : Len(First(n, p)) \in Nat
      /\ \A n \in 1 .. Len(p) :
           Len(First(n, p)) = Len(First(n - 1, p)) + Len(p[n])
  BY ONLY <1>1, FirstLength
<1>5. ASSUME NEW i \in 1 .. Len(b)
      PROVE  p[i] = First(Len(b[i].connIds), Pieces(b[i], c))
  <2> DEFINE q == Pieces(b[i], c)
  <2>1. q \in Seq(Seq(Octet)) /\ Len(q) = Len(b[i].connIds)
    BY <1>2, PiecesAre
  <2>2. p[i] = FlattenSeq(q)
    BY <1>1
  <2> HIDE DEF q
  <2>3. First(Len(q), q) = FlattenSeq(q)
    BY ONLY <2>1, FirstUnfolds
  <2> QED BY <2>1, <2>2, <2>3 DEF q
<1> QED BY <1>1, <1>2, <1>3, <1>4, <1>5 DEF p

-----------------------------------------------------------------------------
(* What each step makes of Due.                                            *)

\* Packing moves nothing.
LEMMA DueOfPack ==
  ASSUME NEW b \in Seq(Response), NEW c \in Client, NEW i \in 1 .. Len(b),
         NEW k, NEW n
  PROVE  DueAt(b, "send", i, 1, 0, c) = DueAt(b, "pack", i, k, n, c)
<1>1. b[i] \in Response
  BY RowsLength
<1>2. Len(First(0, Pieces(b[i], c))) = 0
  BY <1>1, PiecesLength
<1>3. i - 1 \in 0 .. Len(b) /\ 1 - 1 = 0
  OBVIOUS
<1>4. Len(First(i - 1, Rows(b, c))) \in Nat
  BY <1>3, RowsLength
<1> QED BY <1>2, <1>3, <1>4 DEF DueAt

\* Behind the last connection is before the next response.
LEMMA DueOfNextResponse ==
  ASSUME NEW b \in Seq(Response), NEW c \in Client, NEW i \in 1 .. Len(b),
         NEW n
  PROVE  DueAt(b, "pack", i + 1, Len(b[i].connIds) + 1, n, c)
           = DueAt(b, "send", i, Len(b[i].connIds) + 1, n, c)
<1> DEFINE m == Len(b[i].connIds)
<1>1. b[i] \in Response
  BY RowsLength
<1>2. m \in Nat /\ Len(First(m, Pieces(b[i], c))) \in Nat
  BY <1>1, PiecesLength
<1>3. Len(First(i, Rows(b, c)))
        = Len(First(i - 1, Rows(b, c))) + Len(First(m, Pieces(b[i], c)))
  BY RowsLength
<1>4. Len(First(i - 1, Rows(b, c))) \in Nat
  <2>1. i - 1 \in 0 .. Len(b)
    OBVIOUS
  <2> QED BY <2>1, RowsLength
<1> HIDE DEF m
<1>5. (i + 1) - 1 = i /\ (m + 1) - 1 = m /\ ~(m + 1 <= m)
  BY <1>2
<1>6. DueAt(b, "pack", i + 1, m + 1, n, c) = DueAt(b, "send", i, m + 1, n, c)
  BY <1>2, <1>3, <1>4, <1>5 DEF DueAt, m
<1> QED BY <1>6 DEF m

\* So is the end of what is sent to one connection before the next.
LEMMA DueOfNextConnection ==
  ASSUME NEW b \in Seq(Response), NEW c \in Client, NEW i \in 1 .. Len(b),
         NEW k \in 1 .. Len(b[i].connIds), NEW n,
         b[i].connIds[k] = c => n = IF IsSent(b[i]) THEN Packed[b[i]].length ELSE 0
  PROVE  DueAt(b, "send", i, k + 1, 0, c) = DueAt(b, "send", i, k, n, c)
<1> DEFINE r == b[i]
           p == Pieces(r, c)
           l == Packed[r].length
<1>1. r \in Response
  BY RowsLength
<1>2. /\ Len(First(k - 1, p)) \in Nat /\ (k + 1) - 1 = k
      /\ Len(First(k, p)) = Len(First(k - 1, p))
           + (IF r.connIds[k] = c /\ IsSent(r) THEN l ELSE 0)
  <2>1. k - 1 \in 0 .. Len(r.connIds) /\ (k + 1) - 1 = k
    <3>1. Len(r.connIds) \in Nat
      BY <1>1, PiecesLength
    <3> QED BY <3>1
  <2> QED BY <1>1, <2>1, PiecesLength
<1>3. k <= Len(r.connIds)
  OBVIOUS
<1>4. l \in Int
  BY <1>1, PacketOf
<1> HIDE DEF p, r, l
<1>5. Len(First(k, p)) = Len(First(k - 1, p)) + (IF r.connIds[k] = c THEN n ELSE 0)
  <2>1. r.connIds[k] = c => n = IF IsSent(r) THEN l ELSE 0
    BY DEF r, l
  <2> QED BY <1>2, <1>4, <2>1
<1>6. Len(First(k - 1, p)) + (IF r.connIds[k] = c THEN n ELSE 0) \in Int
  BY <1>2, <1>4, <1>5
<1>7. \A x : DueAt(b, "send", i, k + 1, 0, c)
               = Len(First(i - 1, Rows(b, c))) + (Len(First(k, p)) + 0)
  BY <1>2 DEF DueAt, p, r
<1>8. DueAt(b, "send", i, k, n, c)
        = Len(First(i - 1, Rows(b, c)))
            + (Len(First(k - 1, p)) + (IF r.connIds[k] = c THEN n ELSE 0))
  BY <1>3 DEF DueAt, p, r
<1> QED BY <1>5, <1>6, <1>7, <1>8

\* While sending, Due counts from where the piece begins.
LEMMA DueOfSome ==
  ASSUME NEW b \in Seq(Response), NEW c \in Client, NEW i \in 1 .. Len(b),
         NEW k \in 1 .. Len(b[i].connIds), NEW n
  PROVE  /\ Len(First(i - 1, Rows(b, c))) \in Nat
         /\ Len(First(k - 1, Pieces(b[i], c))) \in Nat
         /\ DueAt(b, "send", i, k, n, c)
              = Len(First(i - 1, Rows(b, c)))
                  + (Len(First(k - 1, Pieces(b[i], c)))
                       + (IF b[i].connIds[k] = c THEN n ELSE 0))
<1>1. b[i] \in Response /\ Len(b[i].connIds) \in Nat
  BY RowsLength, PiecesLength
<1>2. i - 1 \in 0 .. Len(b) /\ k - 1 \in 0 .. Len(b[i].connIds)
      /\ k <= Len(b[i].connIds)
  BY <1>1
<1>3. /\ Len(First(i - 1, Rows(b, c))) \in Nat
      /\ Len(First(k - 1, Pieces(b[i], c))) \in Nat
  BY <1>1, <1>2, RowsLength, PiecesLength
<1> QED BY <1>2, <1>3 DEF DueAt

-----------------------------------------------------------------------------
(* What is kept.                                                           *)

\* What is dropped freezes what is kept.
LEMMA FollowsDrop ==
  ASSUME NEW s \in Bytes, NEW m \in Nat \union {-1}, NEW due, NEW any, NEW all,
         Follows(s, m, due, all)
  PROVE  Follows(s, IF m = -1 THEN Len(s) ELSE m, any, all)
<1>1. CASE m = -1
  <2>1. Len(s) \in Nat /\ SubSeq(s, 1, Len(s)) = s
    BY SubSeqFull DEF Bytes
  <2>2. Begins(s, all)
    BY <1>1 DEF Follows, Kept
  <2>3. Len(s) /= -1 /\ Len(s) <= Len(s)
    BY <2>1
  <2>4. Kept(s, Len(s)) = s
    BY <2>1, <2>3 DEF Kept
  <2> HIDE DEF Begins
  <2>5. Follows(s, Len(s), any, all)
    BY ONLY <2>2, <2>3, <2>4 DEF Follows
  <2> QED BY <1>1, <2>5
<1>2. CASE m /= -1
  BY <1>2 DEF Follows, Kept
<1> QED BY <1>1, <1>2

\* The next bytes of the piece continue what is kept.
LEMMA FollowsSend ==
  ASSUME NEW s \in Bytes, NEW m \in Nat \union {-1}, NEW all, NEW p \in Bytes,
         NEW at \in Nat, NEW l \in Nat, NEW i \in Nat, NEW n \in Nat,
         Follows(s, m, at + i, all), Len(all) \in Nat,
         at + l <= Len(all), l <= Len(p), i + n <= l,
         \A j \in 1 .. l : all[at + j] = p[j]
  PROVE  /\ s \o SubSeq(p, i + 1, i + n) \in Bytes
         /\ Follows(s \o SubSeq(p, i + 1, i + n), m, (at + i) + n, all)
<1> DEFINE q == SubSeq(p, i + 1, i + n)
           t == s \o q
<1>1. /\ q \in Seq(Octet) /\ Len(q) = n /\ \A j \in 1 .. n : q[j] = p[i + j]
  <2>1. i + 1 \in Int /\ i + n \in Int /\ p \in Seq(Octet)
        /\ \A j \in i + 1 .. i + n : j \in 1 .. Len(p)
    BY DEF Bytes
  <2>2. \A j \in i + 1 .. i + n : p[j] \in Octet
    BY <2>1
  <2>3. /\ SubSeq(p, i + 1, i + n) \in Seq(Octet)
        /\ Len(SubSeq(p, i + 1, i + n))
             = IF i + 1 <= i + n THEN (i + n) - (i + 1) + 1 ELSE 0
        /\ \A j \in 1 .. (i + n) - (i + 1) + 1 :
             SubSeq(p, i + 1, i + n)[j] = p[(i + 1) + j - 1]
    BY ONLY <2>1, <2>2, SubSeqProperties
  <2>4. Len(q) = n /\ (i + n) - (i + 1) + 1 = n
    BY <2>3
  <2>5. \A j \in 1 .. n : (i + 1) + j - 1 = i + j
    OBVIOUS
  <2> QED BY <2>3, <2>4, <2>5
<1> HIDE DEF q
<1>2. s \in Seq(Octet) /\ Len(s) \in Nat
  BY DEF Bytes
<1>3. /\ t \in Seq(Octet) /\ Len(t) = Len(s) + n
      /\ \A j \in 1 .. Len(s) + n :
           t[j] = IF j <= Len(s) THEN s[j] ELSE q[j - Len(s)]
  <2>1. /\ s \o q \in Seq(Octet) /\ Len(s \o q) = Len(s) + Len(q)
        /\ \A j \in 1 .. Len(s) + Len(q) :
             (s \o q)[j] = IF j <= Len(s) THEN s[j] ELSE q[j - Len(s)]
    BY ONLY <1>1, <1>2, ConcatProperties
  <2> QED BY <1>1, <2>1
<1> HIDE DEF t
<1>4. CASE m = -1
  <2>1. Len(s) = at + i /\ Len(s) <= Len(all) /\ \A j \in 1 .. Len(s) : s[j] = all[j]
    BY <1>4 DEF Follows, Kept, Begins
  <2>2. Len(t) = (at + i) + n /\ Len(t) <= Len(all)
    BY <1>3, <2>1
  <2>3. ASSUME NEW j \in 1 .. Len(t) PROVE t[j] = all[j]
    <3>1. CASE j <= Len(s)
      <4>1. j \in 1 .. Len(s) /\ j \in 1 .. Len(s) + n
        BY <1>2, <1>3, <3>1
      <4>2. t[j] = s[j]
        BY <1>3, <3>1, <4>1
      <4> QED BY <2>1, <4>1, <4>2
    <3>2. CASE ~(j <= Len(s))
      <4> DEFINE k == j - Len(s)
      <4>1. k \in 1 .. n /\ i + k \in 1 .. l /\ at + (i + k) = j
        BY <1>2, <1>3, <2>1, <3>2
      <4>2. t[j] = q[k]
        BY <1>3, <3>2
      <4> HIDE DEF k
      <4>3. q[k] = p[i + k] /\ all[at + (i + k)] = p[i + k]
        BY <1>1, <4>1
      <4> QED BY <4>1, <4>2, <4>3
    <3> QED BY <3>1, <3>2
  <2> QED BY <1>3, <1>4, <2>2, <2>3 DEF Follows, Kept, Begins, t, q, Bytes
<1>5. CASE m /= -1
  <2> DEFINE u == SubSeq(s, 1, m)
             v == SubSeq(t, 1, m)
  <2>1. m \in Nat /\ m <= Len(s) /\ m <= Len(t) /\ Begins(u, all)
    BY <1>2, <1>3, <1>5 DEF Follows, Kept
  <2>2. Len(u) = m /\ \A j \in 1 .. m : u[j] = s[j]
    BY <1>2, <2>1
  <2>3. Len(v) = m /\ \A j \in 1 .. m : v[j] = t[j]
    BY <1>3, <2>1
  <2> HIDE DEF u, v
  <2>4. \A j \in 1 .. m : t[j] = s[j]
    BY <1>2, <1>3, <2>1
  <2>5. Begins(v, all)
    BY <2>1, <2>2, <2>3, <2>4 DEF Begins
  <2> QED BY <1>3, <1>5, <2>1, <2>5 DEF Follows, Kept, v, t, q, Bytes
<1> QED BY <1>4, <1>5

-----------------------------------------------------------------------------
(* The invariant.                                                          *)

LEMMA BatchType == \A b \in Batch : b \in Seq(Response)
  BY StreamAssumption

LEMMA StreamInvInit == StreamInit => StreamInv
<1> SUFFICES ASSUME StreamInit PROVE StreamInv
  OBVIOUS
<1>1. batch \in Seq(Response) /\ Len(batch) \in Nat
  BY BatchType DEF StreamInit
<1>2. StreamTypeOK
  <2>1. Power[LengthSize] \in Nat
    BY Powers DEF LengthSize
  <2>2. <<>> \in Bytes
    BY DEF Bytes
  <2> QED BY <1>1, <2>1, <2>2, StreamAssumption DEF StreamInit, StreamTypeOK, NoPacket
<1>3. Progress
  BY DEF StreamInit, Progress
<1>4. ASSUME NEW c \in Client
      PROVE  Follows(stream[c], intact[c], Due(c), Wire(batch, c))
  <2>1. stream[c] = <<>> /\ intact[c] = -1
    BY DEF StreamInit
  <2>2. Due(c) = 0
    <3>1. Len(First(0, Rows(batch, c))) = 0
      BY <1>1, RowsLength
    <3>2. respIt - 1 = 0 /\ spc \notin {"send", "killed"}
      BY DEF StreamInit
    <3> QED BY <3>1, <3>2 DEF Due, DueAt
  <2>3. Len(Wire(batch, c)) \in Nat
    <3>1. Wire(batch, c) \in Bytes
      BY <1>1, RowsAre
    <3> QED BY <3>1 DEF Bytes
  <2> QED BY <2>1, <2>2, <2>3 DEF Follows, Kept, Begins
<1> QED BY <1>2, <1>3, <1>4 DEF StreamInv

\* The steps that send nothing, and lose nothing.
LEMMA FollowsUnchanged ==
  ASSUME StreamInv, UNCHANGED <<batch, stream, intact>>,
         \A c \in Client : Due(c)' = Due(c)
  PROVE  \A c \in Client :
           Follows(stream[c], intact[c], Due(c), Wire(batch, c))'
<1> TAKE c \in Client
<1>1. Follows(stream[c], intact[c], Due(c), Wire(batch, c))
  BY DEF StreamInv
<1>2. Due(c)' = Due(c) /\ Wire(batch, c)' = Wire(batch, c)
      /\ stream[c]' = stream[c] /\ intact[c]' = intact[c]
  BY DEF Wire, Rows
<1> HIDE DEF StreamInv
<1> QED BY ONLY <1>1, <1>2 DEF Follows, Kept, Begins

\* Where the send thread is while it sends.
LEMMA AtSend ==
  ASSUME StreamInv, spc = "send"
  PROVE  /\ batch \in Seq(Response) /\ respIt \in 1 .. Len(batch)
         /\ Len(batch) \in Nat /\ resp = batch[respIt] /\ resp \in Response
         /\ packet = Packed[resp] /\ packet.bytes \in Bytes
         /\ packet.length \in Int /\ packet.length <= Len(packet.bytes)
         /\ packet.length <= Power[LengthSize] /\ Power[LengthSize] \in Nat
         /\ (IsSent(resp) <=> packet.length > 0)
         /\ sentBytes \in Nat /\ (sentBytes = 0 \/ sentBytes <= packet.length)
         /\ Len(resp.connIds) \in Nat /\ connIt \in 1 .. Len(resp.connIds) + 1
         /\ connIt <= Len(resp.connIds) =>
              connIt \in 1 .. Len(resp.connIds) /\ conn \in Client
<1>1. batch \in Seq(Response) /\ Len(batch) \in Nat
  BY BatchType DEF StreamInv, StreamTypeOK
<1>2. respIt \in 1 .. Len(batch)
  BY <1>1 DEF StreamInv, StreamTypeOK, Progress
<1>3. resp = batch[respIt] /\ resp \in Response
  BY <1>1, <1>2 DEF resp
<1>4. packet = Packed[resp]
  BY DEF StreamInv, Progress
<1>5. Power[2] \in Nat
  BY Powers
<1>6. /\ packet.bytes \in Bytes /\ packet.length \in Int
      /\ packet.length <= Len(packet.bytes) /\ packet.length <= Power[2]
      /\ (IsSent(resp) <=> packet.length > 0)
  <2>1. /\ Packed[resp].bytes \in Bytes /\ Packed[resp].length \in Int
        /\ Len(Packed[resp].bytes) = Size(resp) /\ Packed[resp].length <= Size(resp)
        /\ Packed[resp].length = Signed(Size(resp), 2) /\ Size(resp) \in Nat
        /\ (IsSent(resp) <=> Packed[resp].length > 0)
    BY <1>3, PacketOf
  <2>2. 2 * Signed(Size(resp), 2) < Power[2]
    BY <2>1, SignedIs
  <2> QED BY <1>4, <1>5, <2>1, <2>2
<1>7. sentBytes \in Nat /\ (sentBytes = 0 \/ sentBytes <= packet.length)
  BY <1>5 DEF StreamInv, StreamTypeOK, Progress, LengthSize
<1>8. Len(resp.connIds) \in Nat /\ resp.connIds \in Seq(Client)
  <2>1. resp.connIds \in Seq(Client)
    BY ONLY <1>3, ResponseParts
  <2>2. Len(resp.connIds) \in Nat
    BY ONLY <2>1, LenProperties
  <2> QED BY <2>1, <2>2
<1>9. connIt \in 1 .. Len(resp.connIds) + 1
  BY <1>8 DEF StreamInv, StreamTypeOK, Progress
<1>10. connIt <= Len(resp.connIds) =>
         connIt \in 1 .. Len(resp.connIds) /\ conn \in Client
  BY <1>8, <1>9 DEF conn
<1> QED BY <1>1, <1>2, <1>3, <1>4, <1>5, <1>6, <1>7, <1>8, <1>9, <1>10
        DEF LengthSize

\* The steps, one by one.
LEMMA PackResponseKeeps ==
  ASSUME StreamInv, PackResponse
  PROVE  StreamInv'
<1>1. batch \in Seq(Response) /\ Len(batch) \in Nat /\ respIt \in 1 .. Len(batch)
  BY BatchType DEF StreamInv, StreamTypeOK, PackResponse
<1>2. resp = batch[respIt] /\ resp \in Response /\ resp' = resp
  BY <1>1 DEF resp, PackResponse
<1>3. /\ Packed[resp].bytes \in Bytes /\ Packed[resp].length \in Int
      /\ Len(resp.connIds) \in Nat
  <2>1. resp.connIds \in Seq(Client)
    BY ONLY <1>2, ResponseParts
  <2>2. Len(resp.connIds) \in Nat
    BY ONLY <2>1, LenProperties
  <2>3. Packed[resp].bytes \in Bytes /\ Packed[resp].length \in Int
    BY ONLY <1>2, PacketOf
  <2> QED BY <2>2, <2>3
<1>4. StreamTypeOK'
  <2>1. 0 \in 0 .. Power[LengthSize] /\ 1 \in Nat \ {0}
    BY Powers DEF LengthSize
  <2> QED BY <1>3, <2>1 DEF StreamInv, StreamTypeOK, PackResponse
<1>5. Progress'
  BY <1>1, <1>2, <1>3 DEF Progress, PackResponse
<1>6. ASSUME NEW c \in Client PROVE Due(c)' = Due(c)
  <2>1. DueAt(batch, "send", respIt, 1, 0, c)
          = DueAt(batch, "pack", respIt, connIt, sentBytes, c)
    BY ONLY <1>1, c \in Client, DueOfPack
  <2>2. Due(c)' = DueAt(batch, "send", respIt, 1, 0, c)
    BY DEF Due, PackResponse, DueAt, Rows
  <2> QED BY <2>1, <2>2 DEF Due, PackResponse
<1>7. \A c \in Client : Follows(stream[c], intact[c], Due(c), Wire(batch, c))'
  BY <1>6, FollowsUnchanged DEF PackResponse
<1> QED BY <1>4, <1>5, <1>7 DEF StreamInv

LEMMA NextResponseKeeps ==
  ASSUME StreamInv, NextResponse
  PROVE  StreamInv'
<1>1. /\ batch \in Seq(Response) /\ respIt \in 1 .. Len(batch) /\ Len(batch) \in Nat
      /\ resp = batch[respIt] /\ Len(resp.connIds) \in Nat
      /\ connIt = Len(resp.connIds) + 1
  <2>1. spc = "send" /\ connIt > Len(resp.connIds)
    BY DEF NextResponse
  <2> QED BY <2>1, AtSend
<1>2. StreamTypeOK'
  <2>1. NoPacket.bytes \in Bytes /\ NoPacket.length \in Int
    BY DEF NoPacket, Bytes
  <2> QED BY <1>1, <2>1 DEF StreamInv, StreamTypeOK, NextResponse
<1>3. Progress'
  BY DEF Progress, NextResponse
<1>4. ASSUME NEW c \in Client PROVE Due(c)' = Due(c)
  <2>1. DueAt(batch, "pack", respIt + 1, connIt, sentBytes, c)
          = DueAt(batch, "send", respIt, connIt, sentBytes, c)
    BY ONLY <1>1, c \in Client, DueOfNextResponse
  <2>2. Due(c)' = DueAt(batch, "pack", respIt + 1, connIt, sentBytes, c)
    BY DEF Due, NextResponse, DueAt, Rows
  <2> QED BY <2>1, <2>2 DEF Due, NextResponse
<1>5. \A c \in Client : Follows(stream[c], intact[c], Due(c), Wire(batch, c))'
  BY <1>4, FollowsUnchanged DEF NextResponse
<1> QED BY <1>2, <1>3, <1>5 DEF StreamInv

LEMMA FinishKeeps ==
  ASSUME StreamInv, Finish
  PROVE  StreamInv'
<1>1. StreamTypeOK'
  BY DEF StreamInv, StreamTypeOK, Finish
<1>2. Progress'
  <2>1. Len(batch) \in Nat
    BY BatchType DEF StreamInv, StreamTypeOK
  <2> QED BY <2>1 DEF StreamInv, StreamTypeOK, Progress, Finish
<1>3. \A c \in Client : Due(c)' = Due(c)
  BY DEF Due, Finish, DueAt, Rows
<1>4. \A c \in Client : Follows(stream[c], intact[c], Due(c), Wire(batch, c))'
  BY <1>3, FollowsUnchanged DEF Finish
<1> QED BY <1>1, <1>2, <1>4 DEF StreamInv

LEMMA SendKillsKeeps ==
  ASSUME StreamInv, SendKills
  PROVE  StreamInv'
<1>1. StreamTypeOK'
  BY DEF StreamInv, StreamTypeOK, SendKills
<1>2. Progress'
  BY DEF StreamInv, Progress, SendKills, Sending, resp
<1>3. \A c \in Client : Due(c)' = Due(c)
  BY DEF Due, SendKills, Sending, DueAt, Rows, Pieces
<1>4. \A c \in Client : Follows(stream[c], intact[c], Due(c), Wire(batch, c))'
  BY <1>3, FollowsUnchanged DEF SendKills
<1> QED BY <1>1, <1>2, <1>4 DEF StreamInv

\* The other threads.
LEMMA OthersKeep ==
  ASSUME StreamInv, UNCHANGED <<sendVars, stream, intact>>,
         link' \in [Client -> {"open", "left", "closed"}],
         unread' \in [Client -> 0 .. SendRoom]
  PROVE  StreamInv'
<1>1. StreamTypeOK'
  BY DEF StreamInv, StreamTypeOK, sendVars
<1>2. Progress'
  BY DEF StreamInv, Progress, sendVars, resp
<1>3. \A c \in Client : Due(c)' = Due(c)
  BY DEF Due, sendVars, DueAt, Rows, Pieces
<1>4. \A c \in Client : Follows(stream[c], intact[c], Due(c), Wire(batch, c))'
  BY <1>3, FollowsUnchanged DEF sendVars
<1> QED BY <1>1, <1>2, <1>4 DEF StreamInv

\* A connection done with: all of it sent, or the rest dropped.
LEMMA NextConnectionKeeps ==
  ASSUME StreamInv, spc = "send", connIt <= Len(resp.connIds), NextConnection,
         \/ ~(sentBytes < packet.length) /\ UNCHANGED intact
         \/ sentBytes < packet.length /\ Drops
  PROVE  StreamInv'
<1>1. /\ batch \in Seq(Response) /\ respIt \in 1 .. Len(batch)
      /\ resp = batch[respIt] /\ resp \in Response
      /\ packet = Packed[resp] /\ packet.length \in Int
      /\ (IsSent(resp) <=> packet.length > 0)
      /\ sentBytes \in Nat /\ (sentBytes = 0 \/ sentBytes <= packet.length)
      /\ Len(resp.connIds) \in Nat
      /\ connIt \in 1 .. Len(resp.connIds) /\ conn \in Client
  BY AtSend
<1>2. intact \in [Client -> Nat \union {-1}] /\ stream \in [Client -> Bytes]
      /\ \A c \in Client : Len(stream[c]) \in Nat
  BY DEF StreamInv, StreamTypeOK, Bytes
<1>3. intact' \in [Client -> Nat \union {-1}]
  BY <1>1, <1>2 DEF Drops
<1>4. StreamTypeOK'
  <2>1. 0 \in 0 .. Power[LengthSize]
    BY Powers DEF LengthSize
  <2> QED BY <1>3, <2>1 DEF StreamInv, StreamTypeOK, NextConnection
<1>5. Progress'
  BY <1>1 DEF StreamInv, Progress, NextConnection, resp
<1>6. ASSUME NEW c \in Client,
             conn /= c \/ ~(sentBytes < packet.length)
      PROVE  Due(c)' = Due(c)
  <2>1. conn = c => sentBytes = IF IsSent(resp) THEN packet.length ELSE 0
    BY <1>1, <1>6
  <2>2. batch[respIt].connIds[connIt] = c =>
          sentBytes = IF IsSent(batch[respIt]) THEN Packed[batch[respIt]].length ELSE 0
    BY <1>1, <2>1 DEF conn
  <2>3. connIt \in 1 .. Len(batch[respIt].connIds)
    BY <1>1
  <2>4. DueAt(batch, "send", respIt, connIt + 1, 0, c)
          = DueAt(batch, "send", respIt, connIt, sentBytes, c)
    BY ONLY <1>1, <2>2, <2>3, c \in Client, DueOfNextConnection
  <2>5. Due(c)' = DueAt(batch, "send", respIt, connIt + 1, 0, c)
    BY DEF Due, NextConnection, DueAt, Rows, Pieces
  <2> QED BY <2>4, <2>5 DEF Due
<1>7. ASSUME NEW c \in Client
      PROVE  Follows(stream[c], intact[c], Due(c), Wire(batch, c))'
  <2>1. Follows(stream[c], intact[c], Due(c), Wire(batch, c))
    BY DEF StreamInv
  <2>2. stream[c]' = stream[c] /\ Wire(batch, c)' = Wire(batch, c)
    BY DEF NextConnection, Wire, Rows
  <2>3. CASE conn /= c \/ ~(sentBytes < packet.length)
    <3>1. Due(c)' = Due(c) /\ intact[c]' = intact[c]
      BY <1>1, <1>2, <1>6, <2>3 DEF Drops
    <3> QED BY ONLY <2>1, <2>2, <3>1 DEF Follows, Kept, Begins
  <2>4. CASE conn = c /\ sentBytes < packet.length
    <3>1. intact[c]' = IF intact[c] = -1 THEN Len(stream[c]) ELSE intact[c]
      BY <1>2, <2>4 DEF Drops
    <3>2. stream[c] \in Bytes /\ intact[c] \in Nat \union {-1}
      BY <1>2
    <3> DEFINE s == stream[c]
               m == intact[c]
               due == Due(c)
               all == Wire(batch, c)
               any == Due(c)'
    <3>3. s \in Bytes /\ m \in Nat \union {-1} /\ Follows(s, m, due, all)
      BY <2>1, <3>2
    <3> HIDE DEF s, m, due, all, any
    <3>4. Follows(s, IF m = -1 THEN Len(s) ELSE m, any, all)
      BY ONLY <3>3, FollowsDrop
    <3>5. /\ Wire(batch, c)' = all /\ stream[c]' = s
          /\ intact[c]' = IF m = -1 THEN Len(s) ELSE m
      BY <2>2, <3>1 DEF s, m, all
    <3> QED BY ONLY <3>4, <3>5 DEF Follows, Kept, Begins, any
  <2> QED BY <2>3, <2>4
<1> QED BY <1>4, <1>5, <1>7 DEF StreamInv

LEMMA SendSomeKeeps ==
  ASSUME StreamInv, NEW n \in 1 .. SendRoom, SendSome(n)
  PROVE  StreamInv'
<1>1. /\ spc = "send" /\ connIt <= Len(resp.connIds) /\ sentBytes < packet.length
      /\ sentBytes + n <= packet.length /\ n \in Nat
  BY StreamAssumption DEF SendSome, Sending
<1>2. /\ batch \in Seq(Response) /\ respIt \in 1 .. Len(batch)
      /\ resp = batch[respIt] /\ resp \in Response
      /\ packet = Packed[resp] /\ packet.length \in Int /\ packet.bytes \in Bytes
      /\ packet.length <= Len(packet.bytes)
      /\ packet.length <= Power[LengthSize] /\ Power[LengthSize] \in Nat
      /\ (IsSent(resp) <=> packet.length > 0)
      /\ sentBytes \in Nat /\ Len(resp.connIds) \in Nat
      /\ connIt \in 1 .. Len(resp.connIds) /\ conn \in Client
  BY <1>1, AtSend
<1>3. packet.length \in Nat /\ IsSent(resp)
  BY <1>1, <1>2
<1>4. intact \in [Client -> Nat \union {-1}] /\ stream \in [Client -> Bytes]
  BY DEF StreamInv, StreamTypeOK
<1> DEFINE s == stream[conn]
           m == intact[conn]
           all == Wire(batch, conn)
           p == packet.bytes
           l == packet.length
           at == Len(First(respIt - 1, Rows(batch, conn)))
                   + Len(First(connIt - 1, Pieces(resp, conn)))
           q == SubSeq(p, sentBytes + 1, sentBytes + n)
<1>5. /\ at \in Nat /\ Due(conn) = at + sentBytes
      /\ DueAt(batch, "send", respIt, connIt, sentBytes + n, conn)
           = (at + sentBytes) + n
  <2> DEFINE x == Len(First(respIt - 1, Rows(batch, conn)))
             y == Len(First(connIt - 1, Pieces(resp, conn)))
             sum == sentBytes + n
  <2>1. /\ connIt \in 1 .. Len(batch[respIt].connIds)
        /\ batch[respIt].connIds[connIt] = conn
        /\ batch \in Seq(Response) /\ respIt \in 1 .. Len(batch)
        /\ conn \in Client /\ batch[respIt] = resp
    BY <1>2 DEF conn
  <2> HIDE DEF sum
  <2>2. /\ x \in Nat /\ y \in Nat
        /\ DueAt(batch, "send", respIt, connIt, sum, conn) = x + (y + sum)
    BY ONLY <2>1, DueOfSome
  <2>3. DueAt(batch, "send", respIt, connIt, sentBytes, conn) = x + (y + sentBytes)
    BY ONLY <2>1, DueOfSome
  <2>4. Due(conn) = DueAt(batch, "send", respIt, connIt, sentBytes, conn)
    BY <1>1 DEF Due
  <2> HIDE DEF x, y
  <2>5. /\ x + y \in Nat /\ x + (y + sentBytes) = (x + y) + sentBytes
        /\ x + (y + sum) = ((x + y) + sentBytes) + n
    BY <1>1, <1>2, <2>2 DEF sum
  <2>6. at = x + y
    BY DEF x, y
  <2> HIDE DEF at
  <2> QED BY <2>2, <2>3, <2>4, <2>5, <2>6 DEF sum
<1>6. /\ at + l <= Len(all) /\ \A j \in 1 .. l : all[at + j] = p[j]
      /\ Len(all) \in Nat
  <2>1. Holds(all, at, Pieces(resp, conn)[connIt])
    <3>1. connIt \in 1 .. Len(batch[respIt].connIds)
      BY <1>2
    <3>2. Holds(Wire(batch, conn),
                Len(First(respIt - 1, Rows(batch, conn)))
                  + Len(First(connIt - 1, Pieces(batch[respIt], conn))),
                Pieces(batch[respIt], conn)[connIt])
      BY ONLY <1>2, <3>1, PieceInWire
    <3> QED BY <1>2, <3>2
  <2>2. Pieces(resp, conn)[connIt] = Frame(resp)
    <3>1. resp.connIds[connIt] = conn
      BY DEF conn
    <3> QED BY <1>2, <1>3, <3>1, PiecesAre
  <2>3. /\ Len(Frame(resp)) = l /\ \A j \in 1 .. l : Frame(resp)[j] = p[j]
    BY <1>2, <1>3, FrameType
  <2>4. all \in Bytes
    BY <1>2, RowsAre
  <2> HIDE DEF all, at, p, l
  <2> QED BY <2>1, <2>2, <2>3, <2>4 DEF Holds, Bytes
<1>7. /\ s \in Bytes /\ m \in Nat \union {-1} /\ p \in Bytes /\ l \in Nat
      /\ Follows(s, m, at + sentBytes, all) /\ l <= Len(p)
      /\ sentBytes \in Nat /\ n \in Nat /\ sentBytes + n <= l
  <2>1. Follows(s, m, Due(conn), all)
    BY <1>2 DEF StreamInv
  <2> HIDE DEF at
  <2> QED BY <1>1, <1>2, <1>3, <1>4, <1>5, <2>1
<1> HIDE DEF s, m, all, p, l, at
<1>8. /\ s \o q \in Bytes
      /\ Follows(s \o q, m, (at + sentBytes) + n, all)
  BY ONLY <1>5, <1>6, <1>7, FollowsSend
<1>9. /\ stream' = [stream EXCEPT ![conn] = s \o q] /\ sentBytes' = sentBytes + n
      /\ UNCHANGED <<batch, spc, respIt, connIt, packet, link, intact>>
  BY DEF SendSome, s, p
<1>10. StreamTypeOK'
  <2>1. stream' \in [Client -> Bytes]
    BY <1>4, <1>8, <1>9
  <2>2. unread' \in [Client -> 0 .. SendRoom]
    <3>1. /\ unread' = [unread EXCEPT ![conn] = @ + n] /\ unread[conn] + n <= SendRoom
          /\ unread \in [Client -> 0 .. SendRoom]
      BY DEF SendSome, StreamInv, StreamTypeOK
    <3>2. unread[conn] + n \in 0 .. SendRoom
      BY <1>1, <1>2, <3>1, StreamAssumption
    <3> QED BY <3>1, <3>2
  <2>3. sentBytes' \in 0 .. Power[LengthSize]
    BY <1>1, <1>2, <1>9, SMTT(30)
  <2> QED BY <1>9, <2>1, <2>2, <2>3 DEF StreamInv, StreamTypeOK
<1>11. Progress'
  BY <1>1, <1>2, <1>9 DEF StreamInv, Progress, resp
<1>12. ASSUME NEW c \in Client
       PROVE  Follows(stream[c], intact[c], Due(c), Wire(batch, c))'
  <2>1. Wire(batch, c)' = Wire(batch, c) /\ intact[c]' = intact[c]
    BY <1>9 DEF Wire, Rows
  <2>2. Due(c)' = DueAt(batch, "send", respIt, connIt, sentBytes + n, c)
    BY <1>1, <1>9 DEF Due, DueAt, Rows, Pieces
  <2>3. CASE c = conn
    <3>1. Due(c)' = (at + sentBytes) + n
      BY <1>5, <2>2, <2>3
    <3>2. stream[c]' = s \o q
      BY <1>2, <1>4, <1>9, <2>3
    <3>3. Wire(batch, c)' = all /\ intact[c]' = m
      BY <2>1, <2>3 DEF all, m
    <3> HIDE DEF q
    <3> QED BY ONLY <1>8, <3>1, <3>2, <3>3 DEF Follows, Kept, Begins
  <2>4. CASE c /= conn
    <3>1. stream[c]' = stream[c]
      BY <1>4, <1>9, <2>4
    <3>2. Due(c)' = Due(c)
      <4> DEFINE sum == sentBytes + n
      <4>1. DueAt(batch, "send", respIt, connIt, sum, c)
              = DueAt(batch, "send", respIt, connIt, sentBytes, c)
        <5>1. /\ connIt \in 1 .. Len(batch[respIt].connIds)
              /\ batch[respIt].connIds[connIt] /= c
              /\ batch \in Seq(Response) /\ respIt \in 1 .. Len(batch)
          BY <1>2, <2>4 DEF conn
        <5> DEFINE x == Len(First(respIt - 1, Rows(batch, c)))
                   y == Len(First(connIt - 1, Pieces(batch[respIt], c)))
        <5> HIDE DEF sum
        <5>2. DueAt(batch, "send", respIt, connIt, sum, c)
                = x + (y + (IF batch[respIt].connIds[connIt] = c THEN sum ELSE 0))
          BY ONLY <5>1, c \in Client, DueOfSome, SMTT(30)
        <5>3. DueAt(batch, "send", respIt, connIt, sentBytes, c)
                = x + (y + (IF batch[respIt].connIds[connIt] = c THEN sentBytes ELSE 0))
          BY ONLY <5>1, c \in Client, DueOfSome, SMTT(30)
        <5> HIDE DEF x, y
        <5> QED BY ONLY <5>1, <5>2, <5>3
      <4>2. Due(c) = DueAt(batch, "send", respIt, connIt, sentBytes, c)
        BY <1>1 DEF Due
      <4> QED BY <2>2, <4>1, <4>2
    <3>3. Follows(stream[c], intact[c], Due(c), Wire(batch, c))
      BY DEF StreamInv
    <3> QED BY ONLY <2>1, <3>1, <3>2, <3>3 DEF Follows, Kept, Begins
  <2> QED BY <2>3, <2>4
<1> QED BY <1>10, <1>11, <1>12 DEF StreamInv

LEMMA StreamInvNext == StreamInv /\ [StreamNext]_streamVars => StreamInv'
<1> SUFFICES ASSUME StreamInv, [StreamNext]_streamVars  PROVE StreamInv'
  OBVIOUS
<1>1. /\ link \in [Client -> {"open", "left", "closed"}]
      /\ unread \in [Client -> 0 .. SendRoom]
  BY DEF StreamInv, StreamTypeOK
<1>2. CASE PackResponse
  BY <1>2, PackResponseKeeps
<1>3. CASE NextResponse
  BY <1>3, NextResponseKeeps
<1>4. CASE Finish
  BY <1>4, FinishKeeps
<1>5. CASE SendEnds
  BY <1>5, NextConnectionKeeps DEF SendEnds
<1>6. CASE SendFull
  BY <1>6, NextConnectionKeeps DEF SendFull, Sending
<1>7. CASE SendFails
  BY <1>7, NextConnectionKeeps DEF SendFails, Sending
<1>8. CASE SendKills
  BY <1>8, SendKillsKeeps
<1>9. CASE \E n \in 1 .. SendRoom : SendSome(n)
  BY <1>9, SendSomeKeeps
<1>10. ASSUME NEW c \in Client, ClientReads(c)  PROVE StreamInv'
  <2>1. 0 \in 0 .. SendRoom
    BY StreamAssumption
  <2>2. UNCHANGED <<sendVars, stream, intact>> /\ link' = link
        /\ unread' \in [Client -> 0 .. SendRoom]
    BY <1>1, <1>10, <2>1 DEF ClientReads
  <2> QED BY <1>1, <2>2, OthersKeep
<1>11. ASSUME NEW c \in Client, ClientLeaves(c) \/ Close(c)  PROVE StreamInv'
  <2>1. /\ UNCHANGED <<sendVars, stream, intact>> /\ unread' = unread
        /\ link' \in [Client -> {"open", "left", "closed"}]
    BY <1>1, <1>11 DEF ClientLeaves, Close
  <2> QED BY <1>1, <2>1, OthersKeep
<1>12. CASE UNCHANGED streamVars
  <2>1. /\ UNCHANGED <<sendVars, stream, intact>> /\ unread' = unread /\ link' = link
    BY <1>12 DEF streamVars
  <2> QED BY <1>1, <2>1, OthersKeep
<1> QED BY <1>2, <1>3, <1>4, <1>5, <1>6, <1>7, <1>8, <1>9, <1>10, <1>11, <1>12
        DEF StreamNext, SendThread, Send, Clients

(* The types of the state, for any constants.                              *)
THEOREM StreamTypes == StreamSpec => []StreamTypeOK
<1>1. StreamInv => StreamTypeOK
  BY DEF StreamInv
<1> QED BY <1>1, StreamInvInit, StreamInvNext, PTL DEF StreamSpec

\* What a client cuts from what it kept.
LEMMA KeptReadsBack ==
  ASSUME NEW c, NEW bytes \in Bytes, NEW sent \in Seq(Passed),
         Begins(bytes, FlattenSeq(Each(Framing, sent))),
         \A i \in 1 .. Len(sent) : Sendable(sent[i])
  PROVE  /\ Len(Cut(bytes)) <= Len(sent)
         /\ \A i \in DOMAIN Cut(bytes) : ReadsBack(sent[i], Cut(bytes)[i])
         /\ Len(bytes) = Len(FlattenSeq(Each(Framing, sent))) =>
              Len(Cut(bytes)) = Len(sent)
<1> DEFINE frames == Each(Framing, sent)
           bodies == [i \in 1 .. Len(sent) |-> BodyOf(sent[i])]
<1>1. /\ Len(sent) \in Nat
      /\ \A i \in 1 .. Len(sent) :
           /\ sent[i] \in Passed /\ sent[i] \in Response /\ IsSent(sent[i])
           /\ Sendable(sent[i])
  BY DEF Passed
<1>2. /\ frames \in Seq(Seq(Octet)) /\ Len(frames) = Len(sent)
      /\ \A i \in 1 .. Len(sent) : frames[i] = Framing[sent[i]]
  <2>1. /\ Each(Framing, sent) \in Seq(Seq(Octet)) /\ Len(Each(Framing, sent)) = Len(sent)
        /\ \A i \in 1 .. Len(sent) :
             Each(Framing, sent)[i] = Framing[sent[i]] /\ sent[i] \in Passed
    BY ONLY sent \in Seq(Passed), FramingType, EachType
  <2> QED BY <2>1
<1>3. ASSUME NEW i \in 1 .. Len(sent)
      PROVE  /\ BodyOf(sent[i]) \in Bytes /\ 2 * Len(BodyOf(sent[i])) < Power[2]
             /\ Framing[sent[i]] = Little(Len(BodyOf(sent[i])), 2) \o BodyOf(sent[i])
             /\ ReadsBack(sent[i], BodyOf(sent[i]))
  <2> DEFINE r == sent[i]
  <2>1. r \in Response /\ IsSent(r) /\ Sendable(r) /\ Framing[r] = Frame(r)
    BY <1>1 DEF Framing
  <2> HIDE DEF r
  <2>2. /\ BodyOf(r) \in Bytes /\ 2 * Len(BodyOf(r)) < Power[2]
        /\ Frame(r) = Little(Len(BodyOf(r)), 2) \o BodyOf(r)
    BY ONLY <2>1, FrameOf
  <2>3. ReadsBack(r, BodyOf(r))
    BY ONLY <2>1, BodyReadsBack
  <2> QED BY <2>1, <2>2, <2>3 DEF r
<1>4. /\ bodies \in Seq(Bytes) /\ Len(bodies) = Len(sent)
      /\ \A i \in 1 .. Len(sent) : bodies[i] = BodyOf(sent[i])
  <2>1. bodies \in [1 .. Len(sent) -> Bytes]
    BY <1>3
  <2> QED BY <1>1, <2>1
<1> HIDE DEF frames, bodies
<1>5. Framed(frames, bodies)
  BY <1>2, <1>3, <1>4 DEF Framed, Bytes
<1>6. Begins(bytes, FlattenSeq(frames))
  BY DEF frames
<1>7. PICK m \in 0 .. Len(bodies) :
        /\ Cut(bytes) = SubSeq(bodies, 1, m)
        /\ Len(bytes) = Len(FlattenSeq(frames)) => m = Len(bodies)
  BY ONLY <1>5, <1>6, bytes \in Bytes, CutPrefix
<1>8. /\ Len(Cut(bytes)) = m /\ DOMAIN Cut(bytes) = 1 .. m
      /\ \A i \in 1 .. m : Cut(bytes)[i] = bodies[i]
  <2>1. m \in Nat /\ m <= Len(bodies)
    BY <1>1, <1>4
  <2>2. /\ SubSeq(bodies, 1, m) \in Seq(Bytes) /\ Len(SubSeq(bodies, 1, m)) = m
        /\ \A i \in 1 .. m : SubSeq(bodies, 1, m)[i] = bodies[i]
    BY <1>4, <2>1
  <2> QED BY <1>7, <2>2
<1>9. \A i \in 1 .. m : ReadsBack(sent[i], Cut(bytes)[i])
  <2> TAKE i \in 1 .. m
  <2>1. i \in 1 .. Len(sent)
    BY <1>1, <1>4
  <2> QED BY <1>3, <1>4, <1>8, <2>1
<1> QED BY <1>1, <1>4, <1>7, <1>8, <1>9 DEF frames

(***************************************************************************)
(* A client cuts from its bytes the packets meant for it and reads from    *)
(* each what the game wrote, until a byte is dropped: SendResponses, Pack, *)
(* PacketWriter and PacketReader together, for any responses, types,       *)
(* clients, pieces and byte (TcpListener_Unix.cpp:327-348,                 *)
(* ResponseBase.hpp:19-33).                                                *)
(***************************************************************************)
THEOREM AnswersAreReadBack == StreamSpec => []AnswersReadBack
<1>1. StreamInv => AnswersReadBack
  <2> SUFFICES ASSUME StreamInv, NEW c \in Client,
                      \A i \in DOMAIN Sent(c) :
                        Unsigned(Size(Sent(c)[i]), LengthSize) /= 1
               PROVE  LET bytes == IF intact[c] = -1 THEN stream[c]
                                   ELSE SubSeq(stream[c], 1, intact[c])
                          packets == Cut(bytes)
                          sent == Sent(c)
                      IN  /\ Len(packets) <= Len(sent)
                          /\ \A i \in DOMAIN packets : ReadsBack(sent[i], packets[i])
                          /\ spc = "done" /\ intact[c] = -1 => Len(packets) = Len(sent)
    BY DEF AnswersReadBack
  <2> DEFINE bytes == Kept(stream[c], intact[c])
             sent == Sent(c)
             all == FlattenSeq(Each(Framing, sent))
  <2>1. batch \in Seq(Response) /\ stream[c] \in Bytes
        /\ intact[c] \in Nat \union {-1}
    BY BatchType DEF StreamInv, StreamTypeOK
  <2>2. sent \in Seq(Passed) /\ Wire(batch, c) = all
    <3>1. Sent(c) = SentOf(batch, c)
      BY DEF Sent, SentOf
    <3> QED BY <2>1, <3>1, RowsAre
  <2>3. /\ intact[c] = -1 => Len(stream[c]) = Due(c)
        /\ intact[c] /= -1 => intact[c] <= Len(stream[c])
        /\ Begins(bytes, all)
    BY <2>2 DEF StreamInv, Follows
  <2>4. bytes \in Bytes
    BY <2>1, <2>3 DEF Kept, Bytes
  <2>5. \A i \in 1 .. Len(sent) : Sendable(sent[i])
    <3>1. DOMAIN sent = 1 .. Len(sent)
      BY <2>2
    <3> QED BY <3>1 DEF Sendable
  <2>6. spc = "done" /\ intact[c] = -1 => Len(bytes) = Len(all)
    <3> SUFFICES ASSUME spc = "done", intact[c] = -1  PROVE Len(bytes) = Len(all)
      OBVIOUS
    <3>1. bytes = stream[c] /\ Len(stream[c]) = Due(c)
      BY <2>3 DEF Kept
    <3>2. Len(batch) \in Nat /\ respIt = Len(batch) + 1
      BY <2>1 DEF StreamInv, Progress
    <3>3. Due(c) = Len(First(Len(batch), Rows(batch, c)))
      BY <3>2 DEF Due, DueAt
    <3>4. Len(First(Len(batch), Rows(batch, c))) = Len(Wire(batch, c))
      BY <2>1, RowsLength
    <3> QED BY <2>2, <3>1, <3>3, <3>4
  <2>7. bytes = IF intact[c] = -1 THEN stream[c] ELSE SubSeq(stream[c], 1, intact[c])
    BY DEF Kept
  <2> HIDE DEF bytes, sent
  <2>8. /\ Len(Cut(bytes)) <= Len(sent)
        /\ \A i \in DOMAIN Cut(bytes) : ReadsBack(sent[i], Cut(bytes)[i])
        /\ Len(bytes) = Len(all) => Len(Cut(bytes)) = Len(sent)
    BY ONLY <2>2, <2>3, <2>4, <2>5, KeptReadsBack
  <2> QED BY <2>6, <2>7, <2>8 DEF sent
<1> QED BY <1>1, StreamInvInit, StreamInvNext, PTL DEF StreamSpec
=============================================================================

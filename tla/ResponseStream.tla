--------------------------- MODULE ResponseStream ---------------------------
(***************************************************************************)
(* What TcpListener::SendResponses makes of one vector of responses: each  *)
(* is packed once and sent, in as many pieces as the kernel takes, to each *)
(* of its connections in turn. The sockets do not block.                   *)
(*                                                                         *)
(* How the vector is filled is ResponseHandoff, and which client has a     *)
(* descriptor is TcpConnections. A packet is taken to fit sendBuf: Pack    *)
(* does not look at its size.                                              *)
(***************************************************************************)
EXTENDS PacketCodec

CONSTANTS
  Client,
  Batch,       \* the vectors: sequences of responses, each a record of msgId,
               \* the type written, the type read, value and connIds
  SendRoom     \* the bytes a socket holds for a client that does not read

Response == UNION {Range(b) : b \in Batch}

ASSUME StreamAssumption ==
  /\ SendRoom \in Nat \ {0}
  /\ Batch \subseteq Seq(Response)
  /\ \A r \in Response :
       /\ r.msgId \in NumberOf(IdSize, FALSE)
       /\ r.written \in Type /\ r.read = r.written
       /\ r.value \in Codec[r.written].values
       /\ r.connIds \in Seq(Client)

\* What each response is packed into.
Packed == [r \in Response |-> Pack(r.msgId, r.written, r.value)]

VARIABLES
  batch,         \* consumerResponses; never changes
  spc,           \* pack, send, done or killed
  respIt, connIt, packet, sentBytes,
  link,          \* per client: open, left (its end is closed) or closed
  unread,        \* per client: the bytes the socket holds
  stream,        \* history, per client: every byte the kernel took
  intact         \* history, per client: how many of them were taken before
                 \* a byte was dropped; -1 if none was

sendVars == <<batch, spc, respIt, connIt, packet, sentBytes>>
streamVars == <<sendVars, link, unread, stream, intact>>

NoPacket == [length |-> 0, bytes |-> <<>>]

StreamInit ==
  /\ batch \in Batch
  /\ spc = "pack" /\ respIt = 1 /\ connIt = 1
  /\ packet = NoPacket /\ sentBytes = 0
  /\ link = [c \in Client |-> "open"]
  /\ unread = [c \in Client |-> 0]
  /\ stream = [c \in Client |-> <<>>]
  /\ intact = [c \in Client |-> -1]

-----------------------------------------------------------------------------
(* The send thread.                                                        *)

resp == batch[respIt]
conn == resp.connIds[connIt]

PackResponse ==
  /\ spc = "pack" /\ respIt <= Len(batch)
  /\ packet' = Packed[resp]
  /\ connIt' = 1 /\ sentBytes' = 0
  /\ spc' = "send"
  /\ UNCHANGED <<batch, respIt, link, unread, stream, intact>>

\* The loop over the connections ends.
NextResponse ==
  /\ spc = "send" /\ connIt > Len(resp.connIds)
  /\ respIt' = respIt + 1
  /\ packet' = NoPacket
  /\ spc' = "pack"
  /\ UNCHANGED <<batch, connIt, sentBytes, link, unread, stream, intact>>

Finish ==
  /\ spc = "pack" /\ respIt > Len(batch)
  /\ spc' = "done"
  /\ UNCHANGED <<batch, respIt, connIt, packet, sentBytes, link, unread,
                 stream, intact>>

Sending ==
  spc = "send" /\ connIt <= Len(resp.connIds) /\ sentBytes < packet.length

NextConnection ==
  /\ connIt' = connIt + 1
  /\ sentBytes' = 0
  /\ UNCHANGED <<batch, spc, respIt, packet, link, unread, stream>>

\* Everything is sent; or nothing ever is, when the length is not positive.
SendEnds ==
  /\ spc = "send" /\ connIt <= Len(resp.connIds)
  /\ ~(sentBytes < packet.length)
  /\ NextConnection
  /\ UNCHANGED intact

\* The kernel takes n bytes; whether anybody gets them is another matter.
SendSome(n) ==
  /\ Sending
  /\ link[conn] /= "closed"
  /\ sentBytes + n <= packet.length
  /\ unread[conn] + n <= SendRoom
  /\ stream' = [stream EXCEPT ![conn] =
                  @ \o SubSeq(packet.bytes, sentBytes + 1, sentBytes + n)]
  /\ unread' = [unread EXCEPT ![conn] = @ + n]
  /\ sentBytes' = sentBytes + n
  /\ UNCHANGED <<batch, spc, respIt, connIt, packet, link, intact>>

\* The rest of the packet is dropped.
Drops ==
  intact' = [intact EXCEPT ![conn] =
               IF @ = -1 THEN Len(stream[conn]) ELSE @]

\* Mutant: a full buffer is waited for.
SendFullAgain ==
  /\ Sending
  /\ link[conn] /= "closed" /\ unread[conn] = SendRoom
  /\ UNCHANGED streamVars

\* send fails with EAGAIN.
SendFull ==
  /\ Sending
  /\ link[conn] /= "closed" /\ unread[conn] = SendRoom
  /\ Drops
  /\ NextConnection

\* send fails because the client or the descriptor is gone.
SendFails ==
  /\ Sending
  /\ link[conn] /= "open"
  /\ Drops
  /\ NextConnection

\* The client is gone and SIGPIPE, which nothing handles, ends the process.
SendKills ==
  /\ Sending
  /\ link[conn] = "left"
  /\ spc' = "killed"
  /\ UNCHANGED <<batch, respIt, connIt, packet, sentBytes, link, unread,
                 stream, intact>>

Send ==
  \/ SendEnds \/ SendFull \/ SendFails \/ SendKills
  \/ \E n \in 1 .. SendRoom : SendSome(n)

SendThread == PackResponse \/ NextResponse \/ Finish \/ Send

-----------------------------------------------------------------------------
(* The clients and the receive thread.                                     *)

\* A client that reads part of what there is differs from one that reads it
\* all only in the room it leaves, and SendSome need not use the room.
ClientReads(c) ==
  /\ link[c] = "open" /\ unread[c] > 0
  /\ unread' = [unread EXCEPT ![c] = 0]
  /\ UNCHANGED <<sendVars, link, stream, intact>>

ClientLeaves(c) ==
  /\ link[c] = "open"
  /\ link' = [link EXCEPT ![c] = "left"]
  /\ UNCHANGED <<sendVars, unread, stream, intact>>

\* The receive thread notices, or refuses a message.
Close(c) ==
  /\ link[c] /= "closed"
  /\ link' = [link EXCEPT ![c] = "closed"]
  /\ UNCHANGED <<sendVars, unread, stream, intact>>

Running == spc \in {"pack", "send"}

Clients ==
  Running /\ \E c \in Client : ClientReads(c) \/ ClientLeaves(c) \/ Close(c)

StreamNext == SendThread \/ Clients

StreamSpec == StreamInit /\ [][StreamNext]_streamVars
FairStreamSpec == StreamSpec /\ WF_streamVars(SendThread)

-----------------------------------------------------------------------------
StreamTypeOK ==
  /\ batch \in Batch
  /\ spc \in {"pack", "send", "done", "killed"}
  /\ respIt \in 1 .. Len(batch) + 1
  /\ connIt \in Nat \ {0} /\ sentBytes \in 0 .. Power[LengthSize]
  /\ packet.bytes \in Bytes /\ packet.length \in Int
  /\ link \in [Client -> {"open", "left", "closed"}]
  /\ unread \in [Client -> 0 .. SendRoom]
  /\ stream \in [Client -> Bytes]
  /\ intact \in [Client -> Nat \union {-1}]

-----------------------------------------------------------------------------
(* What a client makes of its bytes.                                       *)

\* Where a length is negative, no packet can be cut.
Broken == <<-1>>

\* A client cuts its stream as Receive does.
Cut(s) ==
  LET from[at \in 0 .. Len(s)] ==
        LET body == at + LengthSize
            end == body + Signed(Number(s, at, LengthSize), LengthSize)
        IN  IF body > Len(s) \/ end > Len(s) THEN <<>>
            ELSE IF end \in body .. Len(s)
              THEN <<SubSeq(s, body + 1, end)>> \o from[end]
            ELSE <<Broken>>
  IN  from[0]

Content == [r \in Response |-> Written(r.msgId, r.written, r.value)]
Size(r) == LengthSize + Len(Content[r])

\* Of a packet that is too long for its int16, and 0 or negative there,
\* nothing is sent.
IsSent(r) == Signed(Size(r), LengthSize) > 0

\* The responses that are sent to c, as often as it is among their
\* connections.
Copies(r, c) ==
  FlattenSeq([k \in DOMAIN r.connIds |->
                IF r.connIds[k] = c /\ IsSent(r) THEN <<r>> ELSE <<>>])

Sent(c) == FlattenSeq([i \in DOMAIN batch |-> Copies(batch[i], c)])

\* p is the beginning of what was written, and all of it if it fits a uint16.
ReadsBack(r, p) ==
  /\ IsPrefix(p, Content[r])
  /\ Size(r) < Power[LengthSize] =>
       /\ MsgId(p) = r.msgId
       /\ Unpack(r.read, p) = Found(Codec[r.written].kept[r.value], Len(p))

(***************************************************************************)
(* Until a byte meant for it is dropped, a client cuts exactly the         *)
(* packets meant for it from what it gets, in order and however the kernel *)
(* splits them, and reads from each what the game wrote. A packet of 2^15  *)
(* bytes or more never arrives, or arrives cut off with its length         *)
(* adjusted; a string is cut to its length modulo 2^16; neither disturbs   *)
(* the packets behind it. Only a packet one byte longer than a multiple of *)
(* 2^16 does: a single byte of it is sent.                                 *)
(***************************************************************************)
AnswersReadBack ==
  \A c \in Client :
    LET bytes == IF intact[c] = -1 THEN stream[c]
                 ELSE SubSeq(stream[c], 1, intact[c])
        packets == Cut(bytes)
        sent == Sent(c)
    IN  (\A i \in DOMAIN sent : Unsigned(Size(sent[i]), LengthSize) /= 1) =>
          /\ Len(packets) <= Len(sent)
          /\ \A i \in DOMAIN packets : ReadsBack(sent[i], packets[i])
          /\ spc = "done" /\ intact[c] = -1 => Len(packets) = Len(sent)

(***************************************************************************)
(* The send thread gets through the vector whatever the clients do: one    *)
(* that does not read, or is gone, holds up nobody. Only a client that     *)
(* left, and whose end the receive thread has not closed yet, can take the *)
(* process with it.                                                        *)
(***************************************************************************)
NobodyHeldUp ==
  <>(\/ spc = "done"
     \/ spc = "killed" /\ \E c \in Client : link[c] = "left")
=============================================================================

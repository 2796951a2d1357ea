---------------------------- MODULE PacketCodec ----------------------------
(***************************************************************************)
(* How a message becomes bytes and a message again: PacketWriter and       *)
(* PacketReader, ResponseBase::Pack, and the generated EchoRequest and     *)
(* EchoResponse of the tests.                                              *)
(*                                                                         *)
(* A type is a record; a number is itself, a float the number its bits     *)
(* are, a string a sequence of bytes, a vector the sequence of its         *)
(* elements, a struct its first member paired with the rest. A byte has    *)
(* Byte values, 256 in the code; every width is counted in bytes, so a     *)
(* smaller Byte wraps sooner and no other way.                             *)
(***************************************************************************)
EXTENDS Integers, Sequences, SequencesExt

CONSTANTS
  Byte,
  Type,        \* the types in use, with their parts
  Depth        \* how deep a type is: a part is less deep

ASSUME ByteAssumption == Byte \in Nat /\ Byte > 2 /\ Byte % 2 = 0

ASSUME TypeAssumption ==
  /\ Depth \in [Type -> Nat]
  /\ \A t \in Type :
       \/ /\ t.kind \in {"fixed", "varint"}
          /\ t.width \in Nat \ {0} /\ t.signed \in BOOLEAN
       \/ t.kind = "svarint" /\ t.width \in Nat \ {0}
       \/ t.kind = "string"
       \/ t.kind = "vector" /\ t.of \in Type /\ Depth[t.of] < Depth[t]
       \/ /\ t.kind = "struct" /\ t.first \in Type /\ t.rest \in Type
          /\ Depth[t.first] < Depth[t] /\ Depth[t.rest] < Depth[t]

LengthSize == 2    \* sizeof(PacketLengthSize)
IdSize == 2        \* sizeof(msgId)

Octet == 0 .. Byte - 1
Bytes == Seq(Octet)

-----------------------------------------------------------------------------
(* Numbers of a width, and their bytes, the low one first.                 *)

Power[w \in Nat] == IF w = 0 THEN 1 ELSE Byte * Power[w - 1]

Unsigned(n, w) == n % Power[w]
Signed(n, w) ==
  LET u == Unsigned(n, w) IN IF 2 * u < Power[w] THEN u ELSE u - Power[w]

OfWidth(n, w, signed) == IF signed THEN Signed(n, w) ELSE Unsigned(n, w)
NumberOf(w, signed) == {n \in Int : OfWidth(n, w, signed) = n}

Little(n, w) == [i \in 1 .. w |-> (Unsigned(n, w) \div Power[i - 1]) % Byte]

Number(buffer, at, w) ==
  LET from[i \in 0 .. w] ==
        IF i = w THEN 0 ELSE buffer[at + i + 1] + Byte * from[i + 1]
  IN  from[0]

-----------------------------------------------------------------------------
(* Encoding, of Hypnos-Core: a varint has half a byte's values per byte,   *)
(* the low ones first, and the upper half says that more follow.           *)

Half == Byte \div 2

Varint[u \in Nat] ==
  IF u < Half THEN <<u>> ELSE <<Half + (u % Half)>> \o Varint[u \div Half]

\* A value read, and the offset behind it.
Found(value, at) == [value |-> value, at |-> at]

ReadVarint(buffer, at) ==
  LET read[i \in at .. Len(buffer)] ==
        IF i = Len(buffer) THEN Found(0, i)
        ELSE IF buffer[i + 1] < Half THEN Found(buffer[i + 1], i + 1)
        ELSE LET more == read[i + 1]
             IN  Found(buffer[i + 1] - Half + Half * more.value, more.at)
  IN  read[at]

ZigZag(n) == IF n < 0 THEN -2 * n - 1 ELSE 2 * n
ZagZig(u) == IF u % 2 = 0 THEN u \div 2 ELSE -(u \div 2) - 1

-----------------------------------------------------------------------------
(* Types.                                                                  *)

IntOf(w) == [kind |-> "fixed", width |-> w, signed |-> TRUE]
UIntOf(w) == [kind |-> "fixed", width |-> w, signed |-> FALSE]
VarintOf(w) == [kind |-> "varint", width |-> w, signed |-> TRUE]
UVarintOf(w) == [kind |-> "varint", width |-> w, signed |-> FALSE]
SVarintOf(w) == [kind |-> "svarint", width |-> w]
FloatOf(w) == UIntOf(w)
String == [kind |-> "string"]
VectorOf(t) == [kind |-> "vector", of |-> t]
PairOf(t, u) == [kind |-> "struct", first |-> t, rest |-> u]
StructOf(types) == FoldRight(PairOf, Front(types), Last(types))

-----------------------------------------------------------------------------
(* What is written and read of each type: its values; the bytes of a value;*)
(* what of it comes back; and the reading, at an offset of a buffer.       *)

FixedCodec(w, signed) ==
  [values |-> NumberOf(w, signed),
   write  |-> [n \in NumberOf(w, signed) |-> Little(n, w)],
   kept   |-> [n \in NumberOf(w, signed) |-> n],
   read   |-> [buffer \in Bytes |-> [at \in Nat |->
                 Found(OfWidth(Number(buffer, at, w), w, signed), at + w)]]]

VarintCodec(w, signed) ==
  [values |-> NumberOf(w, signed),
   write  |-> [n \in NumberOf(w, signed) |-> Varint[Unsigned(n, w)]],
   kept   |-> [n \in NumberOf(w, signed) |-> n],
   read   |-> [buffer \in Bytes |-> [at \in Nat |->
                 LET v == ReadVarint(buffer, at)
                 IN  Found(OfWidth(v.value, w, signed), v.at)]]]

SVarintCodec(w) ==
  [values |-> NumberOf(w, TRUE),
   write  |-> [n \in NumberOf(w, TRUE) |-> Varint[ZigZag(n)]],
   kept   |-> [n \in NumberOf(w, TRUE) |-> n],
   read   |-> [buffer \in Bytes |-> [at \in Nat |->
                 LET v == ReadVarint(buffer, at)
                 IN  Found(ZagZig(v.value), v.at)]]]

\* A string's length is written as a uint16 holds it, and so much of it.
Cropped(s) == SubSeq(s, 1, Unsigned(Len(s), 2))

StringCodec ==
  [values |-> Bytes,
   write  |-> [s \in Bytes |-> Varint[Unsigned(Len(s), 2)] \o Cropped(s)],
   kept   |-> [s \in Bytes |-> Cropped(s)],
   read   |-> [buffer \in Bytes |-> [at \in Nat |->
                 LET length == ReadVarint(buffer, at)
                     end == length.at + length.value
                 IN  Found(SubSeq(buffer, length.at + 1, end), end)]]]

Each(f, v) == [i \in DOMAIN v |-> f[v[i]]]

VectorCodec(of) ==
  [values |-> Seq(of.values),
   write  |-> [v \in Seq(of.values) |->
                 Varint[Len(v)] \o FlattenSeq(Each(of.write, v))],
   kept   |-> [v \in Seq(of.values) |-> Each(of.kept, v)],
   read   |-> [buffer \in Bytes |-> [at \in Nat |->
                 LET count == ReadVarint(buffer, at)
                     first[i \in 0 .. count.value] ==
                       IF i = 0 THEN Found(<<>>, count.at)
                       ELSE LET before == first[i - 1]
                                next == of.read[buffer][before.at]
                            IN  Found(Append(before.value, next.value), next.at)
                 IN  first[count.value]]]]

StructCodec(first, rest) ==
  [values |-> first.values \X rest.values,
   write  |-> [v \in first.values \X rest.values |->
                 first.write[v[1]] \o rest.write[v[2]]],
   kept   |-> [v \in first.values \X rest.values |->
                 <<first.kept[v[1]], rest.kept[v[2]]>>],
   read   |-> [buffer \in Bytes |-> [at \in Nat |->
                 LET one == first.read[buffer][at]
                     others == rest.read[buffer][one.at]
                 IN  Found(<<one.value, others.value>>, others.at)]]]

Codec[t \in Type] ==
  CASE t.kind = "fixed"   -> FixedCodec(t.width, t.signed)
    [] t.kind = "varint"  -> VarintCodec(t.width, t.signed)
    [] t.kind = "svarint" -> SVarintCodec(t.width)
    [] t.kind = "string"  -> StringCodec
    [] t.kind = "vector"  -> VectorCodec(Codec[t.of])
    [] t.kind = "struct"  -> StructCodec(Codec[t.first], Codec[t.rest])

-----------------------------------------------------------------------------
(* The generated messages: EchoResponse as it is written and EchoRequest   *)
(* as it is read.                                                          *)

EchoStruct1 == StructOf(<<SVarintOf(4), VectorOf(String)>>)
EchoStruct2 == StructOf(<<EchoStruct1>>)

EchoResponse ==
  StructOf(<<IntOf(8), VarintOf(4), SVarintOf(8), UVarintOf(4),
             VectorOf(EchoStruct2), FloatOf(4), UIntOf(1), String, IntOf(1),
             FloatOf(8), VarintOf(8), SVarintOf(4), EchoStruct1, UVarintOf(8),
             IntOf(2), UIntOf(8)>>)

EchoRequest ==
  StructOf(<<IntOf(8), VarintOf(4), SVarintOf(8), UVarintOf(4),
             VectorOf(EchoStruct2), FloatOf(4), UIntOf(1), String, IntOf(1),
             FloatOf(8), VarintOf(8), SVarintOf(4), EchoStruct1, UVarintOf(8),
             IntOf(2), UIntOf(8)>>)

-----------------------------------------------------------------------------
(* A packet: its length without the length field, the msgId and the body.  *)

PackHeader(msgId) == Little(msgId, IdSize)

Written(msgId, t, v) == PackHeader(msgId) \o Codec[t].write[v]

\* Mutant: the length counts its own field.
PackWhole(msgId, t, v) ==
  LET content == Written(msgId, t, v)
      length == Signed(LengthSize + Len(content), LengthSize)
  IN  [length |-> length, bytes |-> Little(length, LengthSize) \o content]

\* length is what an int16 keeps of the packet's size.
Pack(msgId, t, v) ==
  LET content == Written(msgId, t, v)
      length == Signed(LengthSize + Len(content), LengthSize)
  IN  [length |-> length,
       bytes |-> Little(length - LengthSize, LengthSize) \o content]

\* Produce takes the msgId off; Unpack reads the rest.
MsgId(packet) == Number(packet, 0, IdSize)
Unpack(t, packet) == Codec[t].read[packet][IdSize]
=============================================================================

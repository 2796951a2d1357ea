-------------------------- MODULE MCResponseStream --------------------------
(* A finite instance of ResponseStream: with 12 values to a byte an int16  *)
(* is at most 71 and a uint16 at most 143.                                 *)
EXTENDS ResponseStream, FiniteSetsExt

RECURSIVE Parts(_), DepthOf(_)
Parts(t) ==
  CASE t.kind = "vector" -> {t} \union Parts(t.of)
    [] t.kind = "struct" -> {t} \union Parts(t.first) \union Parts(t.rest)
    [] OTHER -> {t}
DepthOf(t) == IF Parts(t) = {t} THEN 0
              ELSE 1 + Max({DepthOf(u) : u \in Parts(t) \ {t}})

MCType == Parts(EchoResponse)
MCDepth == [t \in MCType |-> DepthOf(t)]

\* The value of a struct.
Members(values) == FoldRight(LAMBDA v, rest : <<v, rest>>,
                             Front(values), Last(values))

Chars(n) == [i \in 1 .. n |-> i % Byte]

\* A message of one string.
Note(id, n, to) ==
  [msgId |-> id, written |-> StructOf(<<String>>), read |-> StructOf(<<String>>),
   value |-> Members(<<Chars(n)>>), connIds |-> to]

Echo(v) ==
  [msgId |-> 143, written |-> EchoResponse, read |-> EchoRequest,
   value |-> Members(v),
   connIds |-> <<"c1">>]

Low(w) == -(Byte^w \div 2)
High(w) == Byte^w \div 2 - 1
Whole(w) == Byte^w - 1

\* Zeros, the least and the greatest values of every kind of field, vectors
\* in vectors, and strings that are empty, short and too long.
EchoValues ==
  {<<0, 0, Low(8), 0, <<>>, 0, 0, <<>>, 0, 0, Low(8), 0, <<0, <<>>>>, 0, 0, 0>>,
   <<Low(8), Low(4), -1, 1, <<<<-1, <<<<>>, <<1>>>>>>>>, 1, 11, <<>>, Low(1),
     1, 1, Low(4), <<1, <<>>>>, 1, Low(2), 1>>,
   <<High(8), High(4), 1, Whole(4), <<>>, Whole(4), 1, <<5, 11>>, High(1),
     Whole(8), 7, 1, <<-7, <<<<2>>>>>>, 6, High(2), Whole(8)>>,
   <<-1, 7, -7, 6, <<<<6, <<>>>>, <<0, <<<<3, 4>>>>>>>>, 0, 0,
     Chars(Byte^2 + 2), -1, 0, 0, 0, <<0, <<>>>>, Whole(8), -1, 0>>}

\* Packets of 5 to 9 bytes; of 71, the longest that is sent, and 72; of 145,
\* 146, 147 and 149, of which 1, 2, 3 and 5 bytes are sent; and one whose
\* string is cut.
MCBatch ==
  {<<Note(1, 0, <<"c1", "c2">>), Note(2, 2, <<"c2", "c1">>)>>,
   <<Note(1, 1, <<"c1", "c1">>), Note(2, 1, <<"c1">>)>>,
   <<Note(1, 64, <<"c1">>), Note(2, 0, <<"c1">>)>>,
   <<Note(1, 65, <<"c1", "c2">>), Note(2, 1, <<"c1", "c2">>)>>,
   <<Note(1, 138, <<"c1">>), Note(2, 1, <<"c1", "c2">>)>>,
   <<Note(1, 139, <<"c1">>), Note(2, 1, <<"c1">>)>>,
   <<Note(1, 140, <<"c1">>), Note(2, 1, <<"c1">>)>>,
   <<Note(1, 142, <<"c1">>), Note(2, 1, <<"c1">>)>>,
   <<Note(1, 148, <<"c1", "c2">>), Note(2, 1, <<"c2">>)>>}
  \union {<<Echo(v)>> : v \in EchoValues}
=============================================================================

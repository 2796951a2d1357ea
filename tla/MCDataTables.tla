---------------------------- MODULE MCDataTables ----------------------------
(* A finite instance of DataTables: every set of four ids is the table of  *)
(* one language and its complement that of the other; the keys of a data   *)
(* file go with it, some negative, on a uint of four bits; two names have  *)
(* the same hash, and three the same slot.                                 *)
EXTENDS DataTables

CONSTANTS en, fr, p, q, data, a, b, c

MCLang == {en, fr}
MCDataFile == {data}
MCBuffer == {p, q}
MCName == {a, b, c}
MCId == 0 .. 4
MCKey == -8 .. 7
MCHash == [n \in MCName |-> IF n = c THEN 3 ELSE 5]
\* The table and the chains of given ids, names and keys.
MCTexts(S) == SetToSortSeq(S, <)
MCInfos(S) ==
  [slot \in 0 .. infoCapacity - 1 |->
     SetToSeq({n \in S : MCHash[n] % infoCapacity = slot})]
MCKeys(S) ==
  [slot \in 0 .. keyCapacity - 1 |->
     SetToSeq({k \in S : (k % UintRange) % keyCapacity = slot})]

MCDisk ==
  {[texts |-> [l \in MCLang |-> MCTexts(IF l = en THEN S ELSE (0 .. 3) \ S)],
    infos |-> MCInfos(IF 0 \in S THEN MCName ELSE {a}),
    keys  |-> MCKeys({4 * i - 6 : i \in S} \union {-1})] : S \in SUBSET (0 .. 3)}
=============================================================================

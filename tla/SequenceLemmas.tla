--------------------------- MODULE SequenceLemmas ---------------------------
(***************************************************************************)
(* Facts about sequences that the proofs share: the least number of a set, *)
(* concatenation, a queue in parts, FlattenSeq, whose definition is a      *)
(* recursive function that has to be shown to exist, and when any such     *)
(* function does.                                                          *)
(***************************************************************************)
EXTENDS Integers, Sequences, SequencesExt, SequenceTheorems,
        WellFoundedInduction, TLAPS

(* Sequences: what concatenation, and FlattenSeq, do for any elements T.   *)

LEMMA Regroup ==
  \A T : \A a, b, c \in Seq(T) : (a \o b) \o c = a \o (b \o c)
  BY ConcatAssociative

LEMMA AppendAssociative ==
  ASSUME NEW T, NEW a \in Seq(T), NEW b \in Seq(T), NEW x \in T
  PROVE  a \o Append(b, x) = Append(a \o b, x)
<1>1. Append(b, x) = b \o <<x>> /\ <<x>> \in Seq(T)
  OBVIOUS
<1>2. a \o (b \o <<x>>) = (a \o b) \o <<x>>
  BY ONLY a \in Seq(T), b \in Seq(T), <1>1, ConcatAssociative
<1>3. a \o b \in Seq(T)
  OBVIOUS
<1>4. Append(a \o b, x) = (a \o b) \o <<x>>
  BY ONLY <1>3, x \in T, AppendIsConcat
<1> QED BY ONLY <1>1, <1>2, <1>4

(***************************************************************************)
(* A queue in three parts: done, a batch from its m-th element on, and a   *)
(* box. Each step of a consumer moves an element, or a part, to the next.  *)
(***************************************************************************)
Queue(done, batched, m, boxed) ==
  done \o (SubSeq(batched, m, Len(batched)) \o boxed)

LEMMA RestType ==
  ASSUME NEW T, NEW b \in Seq(T), NEW m \in Nat \ {0}
  PROVE  /\ SubSeq(b, m, Len(b)) \in Seq(T)
         /\ m <= Len(b) => /\ Len(SubSeq(b, m, Len(b))) > 0
                           /\ SubSeq(b, m, Len(b))[1] = b[m]
  OBVIOUS

LEMMA QueueType ==
  ASSUME NEW T, NEW a \in Seq(T), NEW b \in Seq(T), NEW c \in Seq(T),
         NEW m \in Nat \ {0}
  PROVE  Queue(a, b, m, c) \in Seq(T)
<1> DEFINE rest == SubSeq(b, m, Len(b))
<1>1. rest \in Seq(T)
  BY RestType
<1> HIDE DEF rest
<1>2. rest \o c \in Seq(T)
  BY ONLY <1>1, c \in Seq(T), ConcatProperties
<1>3. a \o (rest \o c) \in Seq(T)
  BY ONLY <1>2, a \in Seq(T), ConcatProperties
<1> QED BY <1>3 DEF Queue, rest

LEMMA QueuePost ==
  ASSUME NEW T, NEW a \in Seq(T), NEW b \in Seq(T), NEW c \in Seq(T),
         NEW m \in Nat \ {0}, NEW x \in T
  PROVE  Queue(a, b, m, Append(c, x)) = Append(Queue(a, b, m, c), x)
<1> DEFINE rest == SubSeq(b, m, Len(b))
<1>1. rest \in Seq(T)
  BY RestType
<1> HIDE DEF rest
<1>2. rest \o Append(c, x) = Append(rest \o c, x)
  BY ONLY <1>1, c \in Seq(T), x \in T, AppendAssociative
<1> DEFINE w == rest \o c
<1>3. w \in Seq(T)
  BY ONLY <1>1, c \in Seq(T), ConcatProperties
<1> HIDE DEF w
<1>4. a \o Append(w, x) = Append(a \o w, x)
  BY ONLY <1>3, a \in Seq(T), x \in T, AppendAssociative
<1> QED BY <1>2, <1>4 DEF Queue, rest, w

LEMMA QueueConsume ==
  ASSUME NEW T, NEW a \in Seq(T), NEW b \in Seq(T), NEW c \in Seq(T),
         NEW m \in 1 .. Len(b)
  PROVE  Queue(a, b, m, c) = Queue(Append(a, b[m]), b, m + 1, c)
<1>0. \A p, q, r \in Seq(T) : (p \o q) \o r = p \o (q \o r)
  BY ONLY Regroup, SMTT(60)
<1> DEFINE one == <<b[m]>>
           rest == SubSeq(b, m + 1, Len(b))
<1>1. Len(b) \in m .. Len(b) /\ b[m] \in T
  OBVIOUS
<1>2. rest \in Seq(T) /\ one \in Seq(T)
  BY <1>1
<1>3. SubSeq(b, m, Len(b)) = one \o rest
  BY <1>1, SubSeqRecursiveFirst
<1>4. Append(a, b[m]) = a \o one
  BY <1>1, AppendIsConcat
<1> HIDE DEF one, rest
<1>5. (one \o rest) \o c = one \o (rest \o c)
  BY ONLY <1>0, <1>2, c \in Seq(T), ZenonT(30)
<1>6. rest \o c \in Seq(T)
  BY ONLY <1>2, c \in Seq(T), ConcatProperties
<1>7. a \o (one \o (rest \o c)) = (a \o one) \o (rest \o c)
  <2> DEFINE w == rest \o c
  <2>1. w \in Seq(T)
    BY <1>6
  <2> HIDE DEF w
  <2>2. (a \o one) \o w = a \o (one \o w)
    BY ONLY <1>0, <1>2, <2>1, a \in Seq(T), ZenonT(30)
  <2> QED BY <2>2 DEF w
<1> QED BY <1>3, <1>4, <1>5, <1>7 DEF Queue, rest

LEMMA QueueCollect ==
  ASSUME NEW T, NEW a, NEW c \in Seq(T)
  PROVE  Queue(a, <<>>, 1, c) = Queue(a, c, 1, <<>>)
<1>1. SubSeq(<<>>, 1, Len(<<>>)) = <<>>
  BY SubSeqEmpty
<1>2. SubSeq(c, 1, Len(c)) = c
  BY SubSeqFull
<1>3. <<>> \o c = c /\ c \o <<>> = c
  BY ConcatEmptySeq
<1> QED BY <1>1, <1>2, <1>3 DEF Queue

LEMMA QueueRetire ==
  ASSUME NEW T, NEW a, NEW b \in Seq(T), NEW c
  PROVE  Queue(a, b, Len(b) + 1, c) = Queue(a, <<>>, 1, c)
<1>1. SubSeq(<<>>, 1, Len(<<>>)) = <<>>
  BY SubSeqEmpty
<1>2. SubSeq(b, Len(b) + 1, Len(b)) = <<>>
  <2>1. Len(b) \in Nat
    OBVIOUS
  <2> QED BY <2>1, SubSeqEmpty
<1> QED BY <1>1, <1>2 DEF Queue

\* What is done is the beginning of the queue, and what is next follows it.
LEMMA QueueReads ==
  ASSUME NEW T, NEW a \in Seq(T), NEW b \in Seq(T), NEW c \in Seq(T),
         NEW m \in Nat \ {0}
  PROVE  /\ Len(a) <= Len(Queue(a, b, m, c))
         /\ \A k \in 1 .. Len(a) : Queue(a, b, m, c)[k] = a[k]
         /\ m <= Len(b) => /\ Len(a) + 1 <= Len(Queue(a, b, m, c))
                           /\ Queue(a, b, m, c)[Len(a) + 1] = b[m]
<1> DEFINE rest == SubSeq(b, m, Len(b))
           w == rest \o c
<1>1. rest \in Seq(T) /\ (m <= Len(b) => Len(rest) > 0 /\ rest[1] = b[m])
  BY RestType
<1> HIDE DEF rest
<1>2. /\ w \in Seq(T) /\ Len(w) = Len(rest) + Len(c)
      /\ \A i \in 1 .. Len(rest) + Len(c) :
           w[i] = IF i <= Len(rest) THEN rest[i] ELSE c[i - Len(rest)]
  BY ONLY <1>1, c \in Seq(T), ConcatProperties
<1> HIDE DEF w
<1>3. /\ Len(a \o w) = Len(a) + Len(w)
      /\ \A i \in 1 .. Len(a) + Len(w) :
           (a \o w)[i] = IF i <= Len(a) THEN a[i] ELSE w[i - Len(a)]
  <2>1. w \in Seq(T)
    BY <1>2
  <2> QED BY ONLY <2>1, a \in Seq(T), ConcatProperties
<1> DEFINE q == a \o w
<1>4. q = Queue(a, b, m, c)
  BY DEF Queue, w, rest
<1>5. Len(a) \in Nat /\ Len(w) \in Nat /\ Len(rest) \in Nat /\ Len(c) \in Nat
  BY <1>1, <1>2
<1> HIDE DEF q
<1>6. /\ Len(q) = Len(a) + Len(w)
      /\ \A i \in 1 .. Len(a) + Len(w) :
           q[i] = IF i <= Len(a) THEN a[i] ELSE w[i - Len(a)]
  BY <1>3 DEF q
<1>7. Len(a) <= Len(q) /\ \A k \in 1 .. Len(a) : q[k] = a[k]
  BY <1>5, <1>6
<1>8. ASSUME m <= Len(b)
      PROVE  Len(a) + 1 <= Len(q) /\ q[Len(a) + 1] = b[m]
  <2>1. Len(w) > 0 /\ w[1] = b[m]
    BY <1>1, <1>2, <1>5, <1>8
  <2>2. Len(a) + 1 \in 1 .. Len(a) + Len(w) /\ (Len(a) + 1) - Len(a) = 1
    BY <1>5, <2>1
  <2> QED BY <1>5, <1>6, <2>1, <2>2
<1> QED BY <1>4, <1>7, <1>8

\* The least-number principle.
Lower == {pair \in Nat \X Nat : pair[1] < pair[2]}

LEMMA LowerIsWellFounded == IsWellFoundedOn(Lower, Nat)
  BY NatLessThanWellFounded DEF OpToRel, Lower

LEMMA LeastNumber ==
  ASSUME NEW S \in SUBSET Nat, S /= {}
  PROVE  \E n \in S : \A m \in S : n <= m
<1>1. PICK n \in S : \A m \in S : <<m, n>> \notin Lower
  BY WFMin, LowerIsWellFounded
<1>2. ASSUME NEW m \in S  PROVE n <= m
  <2>1. m \in Nat /\ n \in Nat /\ <<m, n>> \notin Lower
    BY <1>1
  <2> QED BY <2>1 DEF Lower
<1> QED BY <1>2

\* The function that FlattenSeq defines, up to n.
Flattens(f, seqs, n) ==
  f = [i \in 1 .. n |-> IF i = 1 THEN seqs[i] ELSE f[i - 1] \o seqs[i]]

LEMMA FlattensExists ==
  ASSUME NEW seqs, NEW n \in Nat
  PROVE  \E f : Flattens(f, seqs, n)
<1> DEFINE S == {k \in Nat : ~ \E f : Flattens(f, seqs, k)}
<1> SUFFICES ASSUME S /= {}  PROVE FALSE
  OBVIOUS
<1>1. PICK k \in S : \A m \in S : k <= m
  BY LeastNumber
<1>2. CASE k = 0
  <2>1. Flattens([i \in 1 .. 0 |-> 0], seqs, 0)
    BY DEF Flattens
  <2> QED BY <1>1, <1>2, <2>1
<1>3. CASE k > 0
  <2>1. k - 1 \in Nat /\ k - 1 \notin S
    BY <1>1, <1>3
  <2>2. PICK f : Flattens(f, seqs, k - 1)
    BY <2>1
  <2> DEFINE g == [i \in 1 .. k |-> IF i = 1 THEN seqs[i] ELSE f[i - 1] \o seqs[i]]
  <2>3. \A i \in 1 .. k - 1 : g[i] = f[i]
    <3> TAKE i \in 1 .. k - 1
    <3>1. i \in 1 .. k
      BY <2>1
    <3> QED BY <2>2, <3>1 DEF Flattens
  <2>4. \A i \in 1 .. k : i /= 1 => i - 1 \in 1 .. k - 1
    BY <2>1
  <2>5. Flattens(g, seqs, k)
    BY <2>3, <2>4 DEF Flattens
  <2> QED BY <1>1, <2>5
<1> QED BY <1>1, <1>2, <1>3

LEMMA FlattenSeqUnfolds ==
  ASSUME NEW seqs, Len(seqs) \in Nat \ {0}
  PROVE  \E f : Flattens(f, seqs, Len(seqs)) /\ FlattenSeq(seqs) = f[Len(seqs)]
<1>1. \E f : Flattens(f, seqs, Len(seqs))
  BY FlattensExists
<1> DEFINE g == CHOOSE f : Flattens(f, seqs, Len(seqs))
<1>2. Flattens(g, seqs, Len(seqs))
  BY <1>1
<1>3. FlattenSeq(seqs) = g[Len(seqs)]
  BY DEF FlattenSeq, Flattens
<1> QED BY <1>2, <1>3

\* The function depends only on the sequences it has gone through.
LEMMA FlattensAgree ==
  ASSUME NEW s, NEW t, NEW f, NEW g, NEW n \in Nat, NEW m \in Nat,
         Flattens(f, s, n), Flattens(g, t, m), n <= m,
         \A i \in 1 .. n : s[i] = t[i]
  PROVE  \A i \in 1 .. n : f[i] = g[i]
<1> DEFINE S == {i \in 1 .. n : f[i] /= g[i]}
<1> SUFFICES ASSUME S /= {}  PROVE FALSE
  OBVIOUS
<1>1. PICK k \in S : \A i \in S : k <= i
  <2>1. S \in SUBSET Nat
    OBVIOUS
  <2> HIDE DEF S
  <2> QED BY <2>1, LeastNumber
<1>2. k \in 1 .. n /\ k \in 1 .. m
  BY <1>1
<1>3. /\ f[k] = IF k = 1 THEN s[k] ELSE f[k - 1] \o s[k]
      /\ g[k] = IF k = 1 THEN t[k] ELSE g[k - 1] \o t[k]
  BY <1>2 DEF Flattens
<1>4. k /= 1 => f[k - 1] = g[k - 1]
  BY <1>1, <1>2
<1> QED BY <1>1, <1>2, <1>3, <1>4

LEMMA FlattensType ==
  ASSUME NEW T, NEW seqs \in Seq(Seq(T)), NEW f, NEW n \in 0 .. Len(seqs),
         Flattens(f, seqs, n)
  PROVE  \A i \in 1 .. n : f[i] \in Seq(T)
<1> DEFINE S == {i \in 1 .. n : f[i] \notin Seq(T)}
<1> SUFFICES ASSUME S /= {}  PROVE FALSE
  OBVIOUS
<1>1. PICK k \in S : \A i \in S : k <= i
  <2>1. S \in SUBSET Nat
    OBVIOUS
  <2> HIDE DEF S
  <2> QED BY <2>1, LeastNumber
<1>2. k \in 1 .. n /\ seqs[k] \in Seq(T)
  BY <1>1
<1>3. f[k] = IF k = 1 THEN seqs[k] ELSE f[k - 1] \o seqs[k]
  BY <1>2 DEF Flattens
<1>4. k /= 1 => f[k - 1] \in Seq(T)
  BY <1>1, <1>2
<1>5. k /= 1 => f[k - 1] \o seqs[k] \in Seq(T)
  BY ONLY <1>2, <1>4, ConcatProperties
<1> QED BY <1>1, <1>2, <1>3, <1>5

LEMMA FlattenType ==
  ASSUME NEW T, NEW s \in Seq(Seq(T))
  PROVE  FlattenSeq(s) \in Seq(T)
<1>1. CASE s = <<>>
  BY <1>1 DEF FlattenSeq
<1>2. CASE s /= <<>>
  <2>1. Len(s) \in Nat \ {0} /\ Len(s) \in 0 .. Len(s) /\ Len(s) \in 1 .. Len(s)
    BY <1>2
  <2>2. PICK f : Flattens(f, s, Len(s)) /\ FlattenSeq(s) = f[Len(s)]
    BY <2>1, FlattenSeqUnfolds
  <2> QED BY <2>1, <2>2, FlattensType
<1> QED BY <1>1, <1>2

\* FlattenSeq, one sequence at a time.
LEMMA FlattenAppend ==
  ASSUME NEW T, NEW s \in Seq(Seq(T)), NEW x \in Seq(T)
  PROVE  FlattenSeq(Append(s, x)) = FlattenSeq(s) \o x
<1> DEFINE t == Append(s, x)
           n == Len(s)
<1>1. /\ t \in Seq(Seq(T)) /\ n \in Nat /\ Len(t) = n + 1 /\ t[n + 1] = x
      /\ \A i \in 1 .. n : s[i] = t[i]
  OBVIOUS
<1> HIDE DEF t
<1>2. PICK g : Flattens(g, t, n + 1) /\ FlattenSeq(t) = g[n + 1]
  BY <1>1, FlattenSeqUnfolds, SMTT(30)
<1>3. g[n + 1] = IF n + 1 = 1 THEN x ELSE g[n] \o x
  <2>1. n + 1 \in 1 .. n + 1 /\ (n + 1) - 1 = n
    BY <1>1
  <2> QED BY <1>1, <1>2, <2>1 DEF Flattens
<1>4. CASE n = 0
  <2>1. s = <<>>
    BY <1>4
  <2>2. FlattenSeq(s) = <<>>
    BY <2>1 DEF FlattenSeq
  <2>3. <<>> \o x = x
    BY ConcatEmptySeq
  <2> QED BY <1>2, <1>3, <1>4, <2>2, <2>3 DEF t
<1>5. CASE n /= 0
  <2>1. PICK f : Flattens(f, s, n) /\ FlattenSeq(s) = f[n]
    BY <1>1, <1>5, FlattenSeqUnfolds
  <2>2. n \in Nat /\ n + 1 \in Nat /\ n <= n + 1 /\ n \in 1 .. n
    BY <1>1, <1>5
  <2> HIDE DEF n
  <2>3. f[n] = g[n]
    <3>1. \A i \in 1 .. n : f[i] = g[i]
      <4>1. /\ Flattens(f, s, n) /\ Flattens(g, t, n + 1)
            /\ \A i \in 1 .. n : s[i] = t[i]
        BY <1>1, <1>2, <2>1
      <4> QED BY ONLY <2>2, <4>1, FlattensAgree
    <3> QED BY <2>2, <3>1
  <2>4. FlattenSeq(t) = FlattenSeq(s) \o x
    BY <1>2, <1>3, <1>1, <1>5, <2>1, <2>3
  <2> QED BY <2>4 DEF t
<1> QED BY <1>4, <1>5

\* What is flattened first comes first.
LEMMA FlattenPrefix ==
  ASSUME NEW T, NEW s \in Seq(Seq(T)), NEW t \in Seq(Seq(T)),
         Len(s) <= Len(t), \A i \in 1 .. Len(s) : s[i] = t[i]
  PROVE  /\ Len(FlattenSeq(s)) <= Len(FlattenSeq(t))
         /\ \A k \in 1 .. Len(FlattenSeq(s)) :
              FlattenSeq(s)[k] = FlattenSeq(t)[k]
<1> DEFINE first(n) == SubSeq(t, 1, n)
           Begins(u) ==
             /\ Len(FlattenSeq(s)) <= Len(FlattenSeq(u))
             /\ \A k \in 1 .. Len(FlattenSeq(s)) :
                  FlattenSeq(s)[k] = FlattenSeq(u)[k]
           S == {n \in Len(s) .. Len(t) : ~Begins(first(n))}
<1>1. FlattenSeq(s) \in Seq(T) /\ Len(FlattenSeq(s)) \in Nat
  BY FlattenType
<1>2. \A n \in 0 .. Len(t) : /\ first(n) \in Seq(Seq(T)) /\ Len(first(n)) = n
                            /\ \A i \in 1 .. n : first(n)[i] = t[i]
  OBVIOUS
<1>3. first(Len(s)) = s /\ first(Len(t)) = t
  BY <1>2, SeqEqual
<1>4. ASSUME S /= {} PROVE FALSE
  <2>1. PICK n \in S : \A m \in S : n <= m
    <3>1. S \in SUBSET Nat
      OBVIOUS
    <3> HIDE DEF S
    <3> QED BY <1>4, <3>1, LeastNumber
  <2>2. n /= Len(s)
    <3>1. Begins(s)
      BY <1>1
    <3> HIDE DEF Begins, first
    <3> QED BY <1>3, <2>1, <3>1
  <2>3. /\ n - 1 \in 0 .. Len(t) /\ n - 1 \notin S
        /\ n - 1 \in Len(s) .. Len(t) /\ n \in 1 .. Len(t)
    <3> HIDE DEF Begins, first
    <3>1. n \in Len(s) .. Len(t) /\ n /= Len(s) /\ Len(s) \in Nat
      BY <2>1, <2>2
    <3>2. /\ n - 1 \in 0 .. Len(t) /\ n - 1 \in Len(s) .. Len(t)
          /\ n \in 1 .. Len(t) /\ ~(n <= n - 1)
      BY <3>1
    <3> QED BY <2>1, <3>2
  <2>4. Begins(first(n - 1))
    BY <2>3
  <2>5. first(n) = Append(first(n - 1), t[n])
    <3>1. /\ first(n) \in Seq(Seq(T)) /\ Len(first(n)) = n
          /\ \A i \in 1 .. n : first(n)[i] = t[i]
      BY <1>2, <2>3
    <3>2. /\ first(n - 1) \in Seq(Seq(T)) /\ Len(first(n - 1)) = n - 1
          /\ \A i \in 1 .. n - 1 : first(n - 1)[i] = t[i]
      BY <1>2, <2>3
    <3>3. t[n] \in Seq(T)
      BY <2>3
    <3> HIDE DEF first
    <3>4. /\ Append(first(n - 1), t[n]) \in Seq(Seq(T))
          /\ Len(Append(first(n - 1), t[n])) = n
          /\ \A i \in 1 .. n : Append(first(n - 1), t[n])[i] = t[i]
      BY <2>3, <3>2, <3>3, SMTT(30)
    <3> DEFINE u == Append(first(n - 1), t[n])
               v == first(n)
    <3>5. /\ u \in Seq(Seq(T)) /\ v \in Seq(Seq(T)) /\ Len(u) = Len(v)
          /\ \A i \in 1 .. Len(v) : v[i] = u[i]
      BY <3>1, <3>4
    <3> HIDE DEF u, v
    <3>6. u = v
      BY ONLY <3>5, SeqEqual
    <3> QED BY <3>6 DEF u, v
  <2> DEFINE a == FlattenSeq(first(n - 1))
             b == t[n]
  <2>6. a \in Seq(T) /\ b \in Seq(T) /\ FlattenSeq(first(n)) = a \o b
    <3>1. first(n - 1) \in Seq(Seq(T)) /\ b \in Seq(T)
      BY <1>2, <2>3
    <3> HIDE DEF first
    <3> QED BY <2>5, <3>1, FlattenType, FlattenAppend
  <2>7. Len(FlattenSeq(s)) <= Len(a)
        /\ \A k \in 1 .. Len(FlattenSeq(s)) : FlattenSeq(s)[k] = a[k]
    BY <2>4
  <2> HIDE DEF a, b
  <2>8. Len(a \o b) = Len(a) + Len(b)
        /\ \A k \in 1 .. Len(a) + Len(b) :
             (a \o b)[k] = IF k <= Len(a) THEN a[k] ELSE b[k - Len(a)]
    BY ONLY <2>6, ConcatProperties
  <2>9. Len(a) \in Nat /\ Len(b) \in Nat
    BY <2>6
  <2>10. Len(FlattenSeq(s)) <= Len(a \o b)
         /\ \A k \in 1 .. Len(FlattenSeq(s)) : FlattenSeq(s)[k] = (a \o b)[k]
    BY <1>1, <2>7, <2>8, <2>9
  <2>11. Begins(first(n))
    BY <2>6, <2>10
  <2> QED BY <2>1, <2>11
<1>5. Begins(first(Len(t)))
  <2>1. Len(t) \in Len(s) .. Len(t)
    OBVIOUS
  <2> HIDE DEF Begins, first
  <2> QED BY <1>4, <2>1
<1> QED BY <1>3, <1>5

-----------------------------------------------------------------------------
(***************************************************************************)
(* Recursive functions: one is there when what it is at a point depends    *)
(* only on what it is at points of a lower rank.                           *)
(***************************************************************************)
Recursive(F, rank, D, S) ==
  /\ S /= {} /\ rank \in [D -> Nat] /\ F \in [[D -> S] -> [D -> S]]
  /\ \A f, g \in [D -> S] : \A x \in D :
    (\A y \in D : rank[y] < rank[x] => f[y] = g[y]) => F[f][x] = F[g][x]

\* A recursive definition has a function that satisfies it.
LEMMA RecursionExists ==
  ASSUME NEW F, NEW rank, NEW D, NEW S, Recursive(F, rank, D, S)
  PROVE  \E f \in [D -> S] : f = F[f]
<1>0. /\ S /= {} /\ rank \in [D -> Nat] /\ F \in [[D -> S] -> [D -> S]]
      /\ \A f, g \in [D -> S] : \A x \in D :
           (\A y \in D : rank[y] < rank[x] => f[y] = g[y]) => F[f][x] = F[g][x]
  BY DEF Recursive
<1> USE <1>0
<1> DEFINE Upto(f, n) == \A x \in D : rank[x] < n => f[x] = F[f][x]
           None == {n \in Nat : \A f \in [D -> S] : ~Upto(f, n)}
<1>1. \A n \in Nat : \E f \in [D -> S] : Upto(f, n)
  <2> SUFFICES ASSUME None /= {} PROVE FALSE
    BY ZenonT(30)
  <2>1. PICK n \in None : \A k \in None : n <= k
    <3>1. None \in SUBSET Nat
      OBVIOUS
    <3> HIDE DEF None
    <3> QED BY <3>1, LeastNumber
  <2>2. n /= 0
    <3>1. PICK s \in S : TRUE
      OBVIOUS
    <3>2. [x \in D |-> s] \in [D -> S]
      OBVIOUS
    <3>3. Upto([x \in D |-> s], 0)
      OBVIOUS
    <3> HIDE DEF Upto
    <3> QED BY <2>1, <3>2, <3>3
  <2>3. n - 1 \in Nat /\ n - 1 \notin None
    BY <2>1, <2>2
  <2>4. PICK f \in [D -> S] : Upto(f, n - 1)
    BY <2>3
  <2>5. F[f] \in [D -> S]
    OBVIOUS
  <2>6. ASSUME NEW x \in D, rank[x] < n  PROVE F[f][x] = F[F[f]][x]
    <3>1. \A y \in D : rank[y] < rank[x] => f[y] = F[f][y]
      BY <2>1, <2>3, <2>4, <2>6
    <3> QED BY <1>0, <2>5, <3>1
  <2> QED BY <2>1, <2>5, <2>6
<1>2. ASSUME NEW f \in [D -> S], NEW g \in [D -> S], NEW n \in Nat, NEW k \in Nat,
             Upto(f, n), Upto(g, k)
      PROVE  \A x \in D : rank[x] < n /\ rank[x] < k => f[x] = g[x]
  <2> DEFINE Off == {r \in Nat : \E x \in D : /\ rank[x] = r /\ r < n /\ r < k
                                       /\ f[x] /= g[x]}
  <2> SUFFICES ASSUME Off /= {} PROVE FALSE
    OBVIOUS
  <2>1. PICK r \in Off : \A q \in Off : r <= q
    <3>1. Off \in SUBSET Nat
      OBVIOUS
    <3> HIDE DEF Off
    <3> QED BY <3>1, LeastNumber
  <2>2. PICK x \in D : r = rank[x] /\ rank[x] < n /\ rank[x] < k /\ f[x] /= g[x]
    BY <2>1
  <2>3. \A y \in D : rank[y] < rank[x] => f[y] = g[y]
    BY <2>1, <2>2
  <2>4. F[f][x] = F[g][x]
    BY <1>0, <2>3
  <2> QED BY <1>2, <2>2, <2>4
<1> DEFINE at(x) == CHOOSE f \in [D -> S] : Upto(f, rank[x] + 1)
           h == [x \in D |-> at(x)[x]]
<1>3. \A x \in D : at(x) \in [D -> S] /\ Upto(at(x), rank[x] + 1)
  <2> TAKE x \in D
  <2>1. rank[x] + 1 \in Nat
    OBVIOUS
  <2>2. \E f \in [D -> S] : Upto(f, rank[x] + 1)
    BY <1>1, <2>1
  <2> HIDE DEF Upto
  <2> QED BY <2>2
<1> HIDE DEF at
<1>4. h \in [D -> S]
  BY <1>3
<1>5. ASSUME NEW x \in D  PROVE h[x] = F[h][x]
  <2>1. ASSUME NEW y \in D, rank[y] < rank[x]  PROVE h[y] = at(x)[y]
    <3>1. /\ at(y) \in [D -> S] /\ at(x) \in [D -> S]
          /\ rank[y] + 1 \in Nat /\ rank[x] + 1 \in Nat
          /\ Upto(at(y), rank[y] + 1) /\ Upto(at(x), rank[x] + 1)
      BY <1>3
    <3>2. rank[y] < rank[y] + 1 /\ rank[y] < rank[x] + 1
      BY <2>1
    <3> HIDE DEF Upto
    <3>3. at(y)[y] = at(x)[y]
      BY ONLY <1>2, <3>1, <3>2, y \in D
    <3> QED BY <3>3
  <2>2. F[h][x] = F[at(x)][x]
    <3> HIDE DEF h
    <3> QED BY <1>0, <1>3, <1>4, <2>1
  <2>3. at(x)[x] = F[at(x)][x]
    BY <1>3
  <2> QED BY <2>2, <2>3
<1>6. F[h] \in [D -> S]
  BY <1>4
<1>7. h = F[h]
  <2> HIDE DEF h
  <2> QED BY <1>4, <1>5, <1>6
<1> QED BY <1>4, <1>7

-----------------------------------------------------------------------------
\* A prefix, one element at a time.
LEMMA SubSeqGrows ==
  ASSUME NEW S, NEW s \in Seq(S), NEW n \in 1 .. Len(s)
  PROVE  SubSeq(s, 1, n) = Append(SubSeq(s, 1, n - 1), s[n])
<1> DEFINE t == SubSeq(s, 1, n)
           p == SubSeq(s, 1, n - 1)
           x == s[n]
<1>1. t \in Seq(S) /\ Len(t) = n /\ \A i \in 1 .. n : t[i] = s[i]
  OBVIOUS
<1>2. /\ p \in Seq(S) /\ Len(p) = n - 1 /\ x \in S
      /\ \A i \in 1 .. n - 1 : p[i] = s[i]
  OBVIOUS
<1> HIDE DEF t, p
<1>3. /\ Append(p, x) \in Seq(S) /\ Len(Append(p, x)) = n
      /\ \A i \in 1 .. n : Append(p, x)[i] = s[i]
  BY <1>2
<1>4. \A i \in 1 .. Len(t) : t[i] = Append(p, x)[i]
  BY <1>1, <1>3
<1> HIDE DEF x
<1>5. t = Append(p, x)
  <2> DEFINE u == Append(p, x)
  <2>1. u \in Seq(S) /\ Len(t) = Len(u) /\ \A i \in 1 .. Len(t) : t[i] = u[i]
    BY <1>1, <1>3, <1>4
  <2> HIDE DEF u
  <2>2. t = u
    BY ONLY <1>1, <2>1, SeqEqual
  <2> QED BY <2>2 DEF u
<1> QED BY <1>5 DEF t, p, x

\* The first n of a sequence of sequences, flattened.
First(n, s) == FlattenSeq(SubSeq(s, 1, n))

\* First, one sequence at a time.
LEMMA FirstUnfolds ==
  ASSUME NEW T, NEW s \in Seq(Seq(T))
  PROVE  /\ First(0, s) = <<>> /\ First(Len(s), s) = FlattenSeq(s)
         /\ \A n \in 0 .. Len(s) :
              /\ First(n, s) \in Seq(T)
              /\ n < Len(s) => First(n + 1, s) = First(n, s) \o s[n + 1]
<1>1. First(0, s) = <<>>
  <2>1. SubSeq(s, 1, 0) = <<>>
    OBVIOUS
  <2>2. FlattenSeq(<<>>) = <<>>
    BY DEF FlattenSeq
  <2> QED BY <2>1, <2>2 DEF First
<1>2. First(Len(s), s) = FlattenSeq(s)
  <2>1. SubSeq(s, 1, Len(s)) = s
    BY SubSeqFull
  <2> QED BY <2>1 DEF First
<1>3. ASSUME NEW n \in 0 .. Len(s)
      PROVE  /\ First(n, s) \in Seq(T)
             /\ n < Len(s) => First(n + 1, s) = First(n, s) \o s[n + 1]
  <2> DEFINE p == SubSeq(s, 1, n)
  <2>1. p \in Seq(Seq(T))
    OBVIOUS
  <2>2. ASSUME n < Len(s)
        PROVE  SubSeq(s, 1, n + 1) = Append(p, s[n + 1]) /\ s[n + 1] \in Seq(T)
    <3>1. n + 1 \in 1 .. Len(s) /\ 1 \in 1 .. Len(s) /\ n + 1 \in 1 .. Len(s)
      BY <2>2
    <3> DEFINE t == SubSeq(s, 1, n + 1)
               u == Append(p, s[n + 1])
    <3>2. t \in Seq(Seq(T)) /\ Len(t) = n + 1 /\ \A i \in 1 .. n + 1 : t[i] = s[i]
      BY <3>1
    <3>3. s[n + 1] \in Seq(T) /\ Len(p) = n /\ \A i \in 1 .. n : p[i] = s[i]
      BY <3>1
    <3> HIDE DEF p
    <3>4. u \in Seq(Seq(T)) /\ Len(u) = n + 1 /\ \A i \in 1 .. n + 1 : u[i] = s[i]
      <4> DEFINE x == s[n + 1]
      <4>1. x \in Seq(T) /\ Len(p) = n /\ n \in Nat
        BY <3>3
      <4> HIDE DEF x
      <4>2. /\ Append(p, x) \in Seq(Seq(T)) /\ Len(Append(p, x)) = n + 1
            /\ \A i \in 1 .. n + 1 :
                 Append(p, x)[i] = IF i <= n THEN p[i] ELSE x
        BY ONLY <2>1, <4>1
      <4> QED BY <3>3, <4>1, <4>2 DEF x
    <3> HIDE DEF t, u
    <3>5. Len(t) = Len(u) /\ \A i \in 1 .. Len(t) : t[i] = u[i]
      BY <3>2, <3>4
    <3>6. t = u
      BY ONLY <3>2, <3>4, <3>5, SeqEqual
    <3> QED BY <3>3, <3>6 DEF t, u
  <2> HIDE DEF p
  <2>3. First(n, s) \in Seq(T)
    BY <2>1, FlattenType DEF First, p
  <2>4. n < Len(s) => First(n + 1, s) = First(n, s) \o s[n + 1]
    BY <2>1, <2>2, FlattenAppend DEF First, p
  <2> QED BY <2>3, <2>4
<1> QED BY <1>1, <1>2, <1>3

\* The first n come first.
LEMMA FirstIsPrefix ==
  ASSUME NEW T, NEW s \in Seq(Seq(T)), NEW n \in 0 .. Len(s)
  PROVE  /\ Len(First(n, s)) <= Len(FlattenSeq(s))
         /\ \A k \in 1 .. Len(First(n, s)) : First(n, s)[k] = FlattenSeq(s)[k]
<1> DEFINE p == SubSeq(s, 1, n)
<1>1. /\ p \in Seq(Seq(T)) /\ Len(p) <= Len(s)
      /\ \A i \in 1 .. Len(p) : p[i] = s[i]
  OBVIOUS
<1> HIDE DEF p
<1>2. /\ Len(FlattenSeq(p)) <= Len(FlattenSeq(s))
      /\ \A k \in 1 .. Len(FlattenSeq(p)) : FlattenSeq(p)[k] = FlattenSeq(s)[k]
  BY ONLY <1>1, s \in Seq(Seq(T)), FlattenPrefix
<1> QED BY <1>2 DEF First, p

\* The length of the first n, one sequence at a time.
LEMMA FirstLength ==
  ASSUME NEW T, NEW s \in Seq(Seq(T))
  PROVE  /\ Len(First(0, s)) = 0 /\ Len(First(Len(s), s)) = Len(FlattenSeq(s))
         /\ \A n \in 0 .. Len(s) : Len(First(n, s)) \in Nat
         /\ \A n \in 1 .. Len(s) :
              Len(First(n, s)) = Len(First(n - 1, s)) + Len(s[n])
<1>1. /\ First(0, s) = <<>> /\ First(Len(s), s) = FlattenSeq(s)
      /\ \A n \in 0 .. Len(s) :
           /\ First(n, s) \in Seq(T)
           /\ n < Len(s) => First(n + 1, s) = First(n, s) \o s[n + 1]
  BY FirstUnfolds
<1>2. \A n \in 0 .. Len(s) : Len(First(n, s)) \in Nat
  BY <1>1
<1>3. ASSUME NEW n \in 1 .. Len(s)
      PROVE  Len(First(n, s)) = Len(First(n - 1, s)) + Len(s[n])
  <2> DEFINE x == First(n - 1, s)
             y == s[n]
  <2>1. n - 1 \in 0 .. Len(s) /\ n - 1 < Len(s) /\ (n - 1) + 1 = n
    OBVIOUS
  <2>2. First(n, s) = x \o y /\ x \in Seq(T)
    <3>1. First((n - 1) + 1, s) = First(n - 1, s) \o s[(n - 1) + 1]
      BY <1>1, <2>1
    <3> QED BY <1>1, <2>1, <3>1
  <2>3. y \in Seq(T)
    OBVIOUS
  <2> HIDE DEF x, y
  <2>4. Len(x \o y) = Len(x) + Len(y)
    BY ONLY <2>2, <2>3, ConcatProperties
  <2> QED BY <2>2, <2>4 DEF x, y
<1> QED BY <1>1, <1>2, <1>3

\* The first i are no longer than the first j.
LEMMA FirstMonotone ==
  ASSUME NEW T, NEW s \in Seq(Seq(T)), NEW i \in 0 .. Len(s), NEW j \in i .. Len(s)
  PROVE  Len(First(i, s)) <= Len(First(j, s))
<1> DEFINE p == SubSeq(s, 1, i)
           q == SubSeq(s, 1, j)
<1>1. /\ p \in Seq(Seq(T)) /\ q \in Seq(Seq(T)) /\ Len(p) <= Len(q)
      /\ \A k \in 1 .. Len(p) : p[k] = q[k]
  OBVIOUS
<1> HIDE DEF p, q
<1>2. Len(FlattenSeq(p)) <= Len(FlattenSeq(q))
  BY ONLY <1>1, FlattenPrefix
<1> QED BY <1>2 DEF First, p, q

\* Flattening distributes over concatenation.
LEMMA FlattenBoth ==
  ASSUME NEW T, NEW x \in Seq(Seq(T)), NEW y \in Seq(Seq(T))
  PROVE  FlattenSeq(x \o y) = FlattenSeq(x) \o FlattenSeq(y)
<1> DEFINE a == FlattenSeq(x)
           upto(n) == SubSeq(y, 1, n)
           Off == {n \in 0 .. Len(y) : FlattenSeq(x \o upto(n)) /= a \o First(n, y)}
<1>1. a \in Seq(T) /\ Len(y) \in Nat
  BY FlattenType
<1>2. Off = {}
  <2> SUFFICES ASSUME Off /= {} PROVE FALSE
    OBVIOUS
  <2>1. PICK n \in Off : \A k \in Off : n <= k
    <3>1. Off \in SUBSET Nat
      OBVIOUS
    <3> HIDE DEF Off
    <3> QED BY <3>1, LeastNumber
  <2>2. n \in 0 .. Len(y) /\ FlattenSeq(x \o upto(n)) /= a \o First(n, y)
    BY <2>1
  <2>3. n /= 0
    <3>1. upto(0) = <<>> /\ First(0, y) = <<>>
      BY FirstUnfolds, SubSeqEmpty
    <3>2. x \o <<>> = x /\ a \o <<>> = a
      BY <1>1, ConcatEmptySeq
    <3> HIDE DEF upto
    <3> QED BY <2>2, <3>1, <3>2
  <2>4. /\ n - 1 \in 0 .. Len(y) /\ ~(n <= n - 1) /\ n \in 1 .. Len(y)
        /\ n - 1 < Len(y) /\ (n - 1) + 1 = n
    BY <1>1, <2>2, <2>3, SMTT(30)
  <2>5. FlattenSeq(x \o upto(n - 1)) = a \o First(n - 1, y)
    BY <2>1, <2>4
  <2> DEFINE p == upto(n - 1)
             z == y[n]
             w == x \o p
             v == First(n - 1, y)
  <2>6. p \in Seq(Seq(T)) /\ z \in Seq(T)
    <3>1. n - 1 \in 0 .. Len(y) /\ n \in 1 .. Len(y)
      BY <2>4
    <3>2. z \in Seq(T)
      BY ONLY <3>1, y \in Seq(Seq(T)), ElementOfSeq
    <3>3. p \in Seq(Seq(T))
      BY <3>1
    <3> QED BY <3>2, <3>3
  <2>7. upto(n) = Append(p, z)
    BY <2>4, SubSeqGrows
  <2>8. v \in Seq(T) /\ First(n, y) = v \o z
    <3>1. First(n - 1, y) \in Seq(T) /\ First((n - 1) + 1, y) = First(n - 1, y) \o y[(n - 1) + 1]
      BY ONLY <2>4, y \in Seq(Seq(T)), FirstUnfolds
    <3> QED BY <2>4, <3>1
  <2> HIDE DEF p, z, v, a
  <2>9. x \o Append(p, z) = Append(w, z) /\ w \in Seq(Seq(T))
    BY ONLY <2>6, x \in Seq(Seq(T)), AppendAssociative, ConcatProperties
  <2> HIDE DEF w
  <2>10. FlattenSeq(Append(w, z)) = FlattenSeq(w) \o z
    BY ONLY <2>6, <2>9, FlattenAppend
  <2>11. (a \o v) \o z = a \o (v \o z)
    <3>1. a \in Seq(T)
      BY <1>1 DEF a
    <3>2. v \in Seq(T) /\ z \in Seq(T)
      BY <2>6, <2>8
    <3>3. \A b, c, d \in Seq(T) : (b \o c) \o d = b \o (c \o d)
      BY ONLY Regroup, SMTT(60)
    <3> QED BY ONLY <3>1, <3>2, <3>3
  <2>12. FlattenSeq(w) = a \o v
    BY <2>5 DEF w, p, v
  <2> QED BY <2>2, <2>7, <2>8, <2>9, <2>10, <2>11, <2>12
<1>3. Len(y) \in 0 .. Len(y) /\ upto(Len(y)) = y /\ First(Len(y), y) = FlattenSeq(y)
  BY <1>1, SubSeqFull, FirstUnfolds
<1>4. FlattenSeq(x \o upto(Len(y))) = a \o First(Len(y), y)
  BY <1>2, <1>3
<1> QED BY <1>3, <1>4

\* Flattening one sequence gives that sequence.
LEMMA FlattenOne ==
  ASSUME NEW T, NEW x \in Seq(T)
  PROVE  FlattenSeq(<<x>>) = x
<1>1. FlattenSeq(<<>>) = <<>>
  BY DEF FlattenSeq
<1> DEFINE e == <<>>
<1>2. e \in Seq(Seq(T)) /\ Append(e, x) = <<x>> /\ FlattenSeq(e) = <<>>
  BY <1>1
<1>3. <<>> \o x = x
  BY ConcatEmptySeq
<1> HIDE DEF e
<1>4. FlattenSeq(Append(e, x)) = FlattenSeq(e) \o x
  BY ONLY <1>2, x \in Seq(T), FlattenAppend
<1> QED BY ONLY <1>2, <1>3, <1>4
=============================================================================

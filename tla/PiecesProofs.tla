---------------------------- MODULE PiecesProofs ----------------------------
(***************************************************************************)
(* Proofs about what is kept in pieces: the log, in the files of FileSink  *)
(* (with what shutdown() promises of the lines before it), the bytes of a  *)
(* Buffer, in its slices, and the items of a model file, read one by one   *)
(* by the classifier.  They hold for any number of threads, levels, files, *)
(* buffers, bytes and labels and for layers of every size, and share the   *)
(* facts about sums and flattened sequences that come first.               *)
(***************************************************************************)
EXTENDS Logger, Buffer, MagikaModel, SequenceTheorems, FiniteSetTheorems, NaturalsInduction, WellFoundedInduction, TLAPS

(* Induction up to n, over a set. *)
LEMMA SetInduction ==
    ASSUME NEW n \in Nat, NEW S, 0 \in S, \A i \in 1..n : i - 1 \in S => i \in S
    PROVE  0..n \subseteq S
<1> DEFINE T == (0..n) \ S
           R == OpToRel(<, Nat)
<1> SUFFICES ASSUME T # {} PROVE FALSE
  OBVIOUS
<1>1. PICK f \in T : \A g \in T : <<g, f>> \notin R
  <2>0. T \subseteq Nat
    OBVIOUS
  <2> HIDE DEF R, T
  <2>1. IsWellFoundedOn(R, Nat)
    BY NatLessThanWellFounded DEF R
  <2> QED
    BY <2>0, <2>1, WFMin
<1>2. f \in 1..n
  OBVIOUS
<1>3. f - 1 \notin T
  <2>1. f - 1 \in Nat /\ f \in Nat /\ f - 1 < f
    BY <1>2
  <2>2. <<f - 1, f>> \in R
    BY <2>1 DEF OpToRel
  <2> QED
    BY <1>1, <2>2
<1> QED
  BY <1>2, <1>3

(* f follows the recursion from b by g, from 0 to n. *)
Follows(f, n, b, g) == f[0] = b /\ \A i \in 1..n : f[i] = g[<<i, f[i - 1]>>]

(* A function defined by recursion from 0 to n exists. *)
LEMMA Recursion ==
    ASSUME NEW n \in Nat, NEW V, NEW b \in V, NEW g \in [(1..n) \X V -> V]
    PROVE  \E f \in [0..n -> V] : Follows(f, n, b, g)
<1> DEFINE P(k) == \E f \in [0..k -> V] : Follows(f, k, b, g)
           S == {k \in 0..n : P(k)}
<1>1. P(0)
  <2>1. [i \in 0..0 |-> b] \in [0..0 -> V] /\ Follows([i \in 0..0 |-> b], 0, b, g)
    BY DEF Follows
  <2> QED
    BY <2>1
<1>2. ASSUME NEW i \in 1..n, P(i - 1) PROVE P(i)
  <2>1. PICK f \in [0..(i - 1) -> V] : Follows(f, i - 1, b, g)
    BY <1>2
  <2> DEFINE v == g[<<i, f[i - 1]>>]
             h == [k \in 0..i |-> IF k = i THEN v ELSE f[k]]
  <2>2. v \in V
    OBVIOUS
  <2>3. h \in [0..i -> V]
    BY <2>2
  <2>4. h[0] = b
    BY <2>1 DEF Follows
  <2>5. ASSUME NEW k \in 1..i PROVE h[k] = g[<<k, h[k - 1]>>]
    <3>1. CASE k = i
      <4>1. k - 1 \in 0..i /\ k - 1 # i /\ k \in 0..i
        BY <3>1
      <4>2. h[k] = v /\ h[k - 1] = f[i - 1]
        BY <3>1, <4>1
      <4> HIDE DEF h
      <4> QED
        BY <3>1, <4>2
    <3>2. CASE k # i
      <4>1. k \in 1..(i - 1) /\ k \in 0..i /\ k - 1 \in 0..i /\ k - 1 # i
        BY <3>2
      <4>2. h[k] = f[k] /\ h[k - 1] = f[k - 1]
        BY <3>2, <4>1
      <4> QED
        BY <2>1, <4>1, <4>2 DEF Follows
    <3> QED
      BY <3>1, <3>2
  <2> HIDE DEF h
  <2>6. Follows(h, i, b, g)
    BY <2>4, <2>5 DEF Follows
  <2> QED
    BY <2>3, <2>6
<1> HIDE DEF P
<1>3. 0 \in S /\ \A i \in 1..n : i - 1 \in S => i \in S
  BY <1>1, <1>2
<1>4. n \in S
  <2> HIDE DEF S
  <2> QED
    BY <1>3, SetInduction
<1> QED
  BY <1>4 DEF P

-----------------------------------------------------------------------------
(* f has the sums of the beginnings of w. *)
Sums(f, w) == f[0] = 0 /\ \A i \in 1..Len(w) : f[i] = f[i - 1] + w[i]

(* They are determined by w. *)
LEMMA SumsUnique ==
    ASSUME NEW w, Len(w) \in Nat, NEW f, NEW h, Sums(f, w), Sums(h, w)
    PROVE  \A i \in 0..Len(w) : f[i] = h[i]
<1> DEFINE S == {i \in 0..Len(w) : f[i] = h[i]}
<1>1. 0 \in S
  BY DEF Sums
<1>2. ASSUME NEW i \in 1..Len(w), i - 1 \in S PROVE i \in S
  BY <1>2 DEF Sums
<1>3. 0..Len(w) \subseteq S
  <2> HIDE DEF S
  <2> QED
    BY <1>1, <1>2, SetInduction
<1> QED
  BY <1>3

(* The recursive definition of a sum has the solution it is meant to have. *)
LEMMA SumExists ==
    ASSUME NEW w \in Seq(Nat)
    PROVE  \E f \in [0..Len(w) -> Nat] : Sums(f, w) /\ SumSeq(w) = f[Len(w)]
<1> DEFINE n == Len(w)
           g == [p \in (1..n) \X Nat |-> p[2] + w[p[1]]]
<1>1. n \in Nat /\ \A i \in 1..n : w[i] \in Nat
  BY LenProperties, ElementOfSeq
<1>2. g \in [(1..n) \X Nat -> Nat]
  BY <1>1
<1>3. PICK e \in [0..n -> Nat] : Follows(e, n, 0, g)
  <2> HIDE DEF g, n
  <2> QED
    BY <1>1, <1>2, Recursion
<1>4. ASSUME NEW i \in 1..n PROVE e[i] = e[i - 1] + w[i]
  <2>0. i - 1 \in 0..n
    BY <1>1
  <2>1. e[i - 1] \in Nat
    BY <2>0
  <2>2. e[i] = g[<<i, e[i - 1]>>]
    BY <1>3 DEF Follows
  <2> QED
    BY <2>1, <2>2
<1>5. e[0] = 0
  BY <1>3 DEF Follows
<1> DEFINE sum[i \in 0..n] == IF i = 0 THEN 0 ELSE sum[i - 1] + w[i]
<1>6. e = [i \in 0..n |-> IF i = 0 THEN 0 ELSE e[i - 1] + w[i]]
  BY <1>1, <1>4, <1>5
<1>7. sum = [i \in 0..n |-> IF i = 0 THEN 0 ELSE sum[i - 1] + w[i]]
  BY <1>6, Zenon
<1>8. SumSeq(w) = sum[n]
  BY DEF SumSeq
<1> HIDE DEF sum
<1>9. sum[0] = 0 /\ \A i \in 1..n : sum[i] = sum[i - 1] + w[i]
  BY <1>1, <1>7
<1>10. Sums(e, w) /\ Sums(sum, w)
  BY <1>4, <1>5, <1>9 DEF Sums
<1>11. \A i \in 0..n : e[i] = sum[i]
  BY <1>1, <1>10, SumsUnique
<1>12. SumSeq(w) = e[n]
  BY <1>1, <1>8, <1>11
<1> QED
  BY <1>10, <1>12

(* Whatever has the sums of the beginnings of w ends in its sum. *)
LEMMA SumIs ==
    ASSUME NEW w \in Seq(Nat), NEW f, Sums(f, w)
    PROVE  SumSeq(w) = f[Len(w)]
<1>1. PICK e \in [0..Len(w) -> Nat] : Sums(e, w) /\ SumSeq(w) = e[Len(w)]
  BY SumExists
<1>2. Len(w) \in Nat
  BY LenProperties
<1>3. \A i \in 0..Len(w) : e[i] = f[i]
  BY <1>1, <1>2, SumsUnique
<1> QED
  BY <1>1, <1>2, <1>3

(* The sum of a sequence in two parts. *)
LEMMA SumConcat ==
    ASSUME NEW w \in Seq(Nat), NEW v \in Seq(Nat)
    PROVE  /\ SumSeq(w) \in Nat /\ SumSeq(v) \in Nat
           /\ SumSeq(w \o v) = SumSeq(w) + SumSeq(v)
<1> DEFINE m == Len(w)
           n == Len(v)
<1>1. m \in Nat /\ n \in Nat
  BY LenProperties
<1>2. PICK e \in [0..m -> Nat] : Sums(e, w) /\ SumSeq(w) = e[m]
  BY SumExists
<1>3. PICK f \in [0..n -> Nat] : Sums(f, v) /\ SumSeq(v) = f[n]
  BY SumExists
<1>4. w \o v \in Seq(Nat) /\ Len(w \o v) = m + n
      /\ \A i \in 1..(m + n) : (w \o v)[i] = IF i <= m THEN w[i] ELSE v[i - m]
  BY ConcatProperties
<1> DEFINE h == [i \in 0..(m + n) |-> IF i <= m THEN e[i] ELSE e[m] + f[i - m]]
<1>5. ASSUME NEW i \in 1..(m + n) PROVE h[i] = h[i - 1] + (w \o v)[i]
  <2>0. i \in 0..(m + n) /\ i - 1 \in 0..(m + n)
    BY <1>1
  <2>1. CASE i <= m
    <3>1. i \in 1..m /\ i - 1 <= m
      BY <1>1, <2>1
    <3>2. h[i] = e[i] /\ h[i - 1] = e[i - 1] /\ (w \o v)[i] = w[i]
      BY <1>4, <2>0, <2>1, <3>1
    <3> QED
      BY <1>2, <3>1, <3>2 DEF Sums
  <2>2. CASE i = m + 1
    <3>1. ~(i <= m) /\ i - 1 = m /\ i - m = 1 /\ 1 \in 1..n
      BY <1>1, <2>2
    <3>2. h[i] = e[m] + f[1] /\ h[i - 1] = e[m] /\ (w \o v)[i] = v[1]
      BY <1>4, <2>0, <3>1
    <3>3. f[1] = f[1 - 1] + v[1] /\ f[0] = 0 /\ 1 - 1 = 0 /\ v[1] \in Nat
      BY <1>3, <3>1, ElementOfSeq DEF Sums
    <3> QED
      BY <3>2, <3>3
  <2>3. CASE i > m + 1
    <3>1. /\ ~(i <= m) /\ ~(i - 1 <= m) /\ i - m \in 1..n /\ (i - 1) - m = (i - m) - 1
          /\ (i - m) - 1 \in 0..n /\ i - m \in 0..n /\ m \in 0..m
      BY <1>1, <2>3
    <3>2. h[i] = e[m] + f[i - m] /\ h[i - 1] = e[m] + f[(i - m) - 1]
          /\ (w \o v)[i] = v[i - m]
      BY <1>4, <2>0, <3>1
    <3>3. f[i - m] = f[(i - m) - 1] + v[i - m] /\ v[i - m] \in Nat /\ e[m] \in Nat
          /\ f[(i - m) - 1] \in Nat
      BY <1>3, <3>1, ElementOfSeq DEF Sums
    <3> HIDE DEF h
    <3> QED
      BY <3>2, <3>3
  <2> QED
    BY <1>1, <2>1, <2>2, <2>3
<1>6. h[0] = 0
  BY <1>1, <1>2 DEF Sums
<1>7. h[m + n] = e[m] + f[n]
  <2>1. CASE n = 0
    <3>1. h[m + n] = e[m] /\ f[n] = 0 /\ e[m] \in Nat
      BY <1>1, <1>3, <2>1 DEF Sums
    <3> QED
      BY <3>1
  <2>2. CASE n # 0
    <3>1. ~(m + n <= m) /\ (m + n) - m = n
      BY <1>1, <2>2
    <3> QED
      BY <1>1, <3>1
  <2> QED
    BY <2>1, <2>2
<1>8. Sums(h, w \o v)
  <2> HIDE DEF h
  <2> QED
    BY <1>4, <1>5, <1>6 DEF Sums
<1>9. SumSeq(w \o v) = h[m + n]
  <2> HIDE DEF h
  <2> QED
    BY <1>4, <1>8, SumIs
<1> HIDE DEF h, m, n
<1>10. e[m] \in Nat /\ f[n] \in Nat
  BY <1>1
<1> QED
  BY <1>2, <1>3, <1>7, <1>9, <1>10 DEF m, n

(* The sums of nothing and of one number. *)
LEMMA SumOne ==
    ASSUME NEW n \in Nat
    PROVE  SumSeq(<<>>) = 0 /\ SumSeq(<<n>>) = n
<1> DEFINE f == [i \in 0..1 |-> IF i = 0 THEN 0 ELSE n]
<1>1. <<>> \in Seq(Nat) /\ <<n>> \in Seq(Nat) /\ Len(<<>>) = 0 /\ Len(<<n>>) = 1
      /\ <<n>>[1] = n
  OBVIOUS
<1>2. f[0] = 0 /\ f[1] = n
  OBVIOUS
<1> HIDE DEF f
<1>3. Sums(f, <<>>) /\ Sums(f, <<n>>)
  BY <1>1, <1>2 DEF Sums
<1> QED
  BY <1>1, <1>2, <1>3, SumIs

-----------------------------------------------------------------------------
(* f has the beginnings of the pieces of p, put together. *)
Glues(f, p) == f[0] = <<>> /\ \A i \in 1..Len(p) : f[i] = f[i - 1] \o p[i]

(* They are determined by p. *)
LEMMA GluesUnique ==
    ASSUME NEW p, Len(p) \in Nat, NEW f, NEW h, Glues(f, p), Glues(h, p)
    PROVE  \A i \in 0..Len(p) : f[i] = h[i]
<1> DEFINE S == {i \in 0..Len(p) : f[i] = h[i]}
<1>1. 0 \in S
  BY DEF Glues
<1>2. ASSUME NEW i \in 1..Len(p), i - 1 \in S PROVE i \in S
  <2>1. f[i - 1] = h[i - 1] /\ i \in 0..Len(p)
    BY <1>2
  <2>2. f[i] = f[i - 1] \o p[i] /\ h[i] = h[i - 1] \o p[i]
    BY DEF Glues
  <2> QED
    BY <2>1, <2>2
<1>3. 0..Len(p) \subseteq S
  <2> HIDE DEF S
  <2> QED
    BY <1>1, <1>2, SetInduction
<1> QED
  BY <1>3

(* Flattening puts the pieces together from the first to the last. *)
LEMMA FlattenExists ==
    ASSUME NEW S, NEW p \in Seq(Seq(S))
    PROVE  \E f \in [0..Len(p) -> Seq(S)] : Glues(f, p) /\ FlattenSeq(p) = f[Len(p)]
<1> DEFINE n == Len(p)
           V == Seq(S)
           g == [q \in (1..n) \X V |-> q[2] \o p[q[1]]]
<1>1. n \in Nat /\ \A i \in 1..n : p[i] \in V
  BY LenProperties, ElementOfSeq
<1>2. <<>> \in V /\ \A i \in 1..n : \A q \in V : q \o p[i] \in V
  BY <1>1, ConcatProperties
<1> HIDE DEF V
<1>3. g \in [(1..n) \X V -> V]
  BY <1>2
<1>4. PICK e \in [0..n -> V] : Follows(e, n, <<>>, g)
  <2> HIDE DEF g, n
  <2> QED
    BY <1>1, <1>2, <1>3, Recursion
<1>5. ASSUME NEW i \in 1..n PROVE e[i] = e[i - 1] \o p[i]
  <2>0. i - 1 \in 0..n
    BY <1>1
  <2>1. e[i - 1] \in V
    BY <2>0
  <2>2. e[i] = g[<<i, e[i - 1]>>]
    BY <1>4 DEF Follows
  <2> QED
    BY <2>1, <2>2
<1>6. e[0] = <<>>
  BY <1>4 DEF Follows
<1>7. Glues(e, p)
  BY <1>5, <1>6 DEF Glues
<1>8. CASE n = 0
  <2>1. p = <<>> /\ FlattenSeq(p) = p
    BY <1>8, EmptySeq DEF FlattenSeq
  <2> QED
    BY <1>6, <1>7, <1>8, <2>1 DEF V
<1>9. CASE n # 0
  <2> DEFINE flatten[i \in 1..n] == IF i = 1 THEN p[i] ELSE flatten[i - 1] \o p[i]
             d == [i \in 1..n |-> e[i]]
  <2>1. ASSUME NEW i \in 1..n PROVE d[i] = IF i = 1 THEN p[i] ELSE d[i - 1] \o p[i]
    <3>1. CASE i = 1
      <4>0. d[i] = e[1]
        BY <3>1
      <4> HIDE DEF d
      <4>1. e[i] = e[i - 1] \o p[i]
        BY <1>5
      <4>2. e[1] = <<>> \o p[1] /\ p[1] \in Seq(S)
        BY <1>1, <1>6, <3>1, <4>1, 1 - 1 = 0 DEF V
      <4>3. <<>> \o p[1] = p[1]
        BY <4>2, ConcatEmptySeq
      <4> QED
        BY <3>1, <4>0, <4>2, <4>3
    <3>2. CASE i # 1
      <4>1. i - 1 \in 1..n
        BY <1>1, <3>2
      <4> QED
        BY <1>5, <3>2, <4>1
    <3> QED
      BY <3>1, <3>2
  <2>2. d = [i \in 1..n |-> IF i = 1 THEN p[i] ELSE d[i - 1] \o p[i]]
    BY <2>1
  <2>3. flatten = [i \in 1..n |-> IF i = 1 THEN p[i] ELSE flatten[i - 1] \o p[i]]
    <3> HIDE DEF d
    <3> QED
      BY <2>2, Zenon
  <2>4. FlattenSeq(p) = flatten[n]
    BY <1>9 DEF FlattenSeq
  <2> HIDE DEF flatten
  <2> DEFINE h == [i \in 0..n |-> IF i = 0 THEN <<>> ELSE flatten[i]]
  <2>5. ASSUME NEW i \in 1..n PROVE h[i] = h[i - 1] \o p[i]
    <3>0. i \in 0..n /\ i - 1 \in 0..n /\ i # 0
      BY <1>1
    <3>1. CASE i = 1
      <4>1. h[i] = p[1] /\ h[i - 1] = <<>>
        BY <2>3, <3>0, <3>1
      <4>2. p[1] \in Seq(S)
        BY <1>1, <3>1 DEF V
      <4>3. <<>> \o p[1] = p[1]
        BY <4>2, ConcatEmptySeq
      <4> HIDE DEF h
      <4> QED
        BY <3>1, <4>1, <4>3
    <3>2. CASE i # 1
      <4>1. i - 1 \in 1..n /\ i - 1 # 0
        BY <1>1, <3>2
      <4>2. flatten[i] = flatten[i - 1] \o p[i]
        BY <2>3, <3>2
      <4> QED
        BY <3>0, <4>1, <4>2
    <3> QED
      BY <3>1, <3>2
  <2>6. h[0] = <<>> /\ h[n] = flatten[n]
    BY <1>1, <1>9
  <2> HIDE DEF h
  <2>7. Glues(h, p)
    BY <2>5, <2>6 DEF Glues
  <2>8. \A i \in 0..n : h[i] = e[i]
    BY <1>1, <1>7, <2>7, GluesUnique
  <2>9. FlattenSeq(p) = e[n]
    BY <1>1, <2>4, <2>6, <2>8
  <2> QED
    BY <1>7, <2>9 DEF V
<1> QED
  BY <1>8, <1>9

(* Whatever glues the pieces of p ends in the flattened sequence. *)
LEMMA FlattenIs ==
    ASSUME NEW S, NEW p \in Seq(Seq(S)), NEW f, Glues(f, p)
    PROVE  FlattenSeq(p) = f[Len(p)]
<1>1. PICK e \in [0..Len(p) -> Seq(S)] : Glues(e, p) /\ FlattenSeq(p) = e[Len(p)]
  BY FlattenExists
<1>2. Len(p) \in Nat
  BY LenProperties
<1>3. \A i \in 0..Len(p) : e[i] = f[i]
  BY <1>1, <1>2, GluesUnique
<1> QED
  BY <1>1, <1>2, <1>3

(* Of no piece, and of one. *)
LEMMA FlattenOne ==
    ASSUME NEW S, NEW s \in Seq(S)
    PROVE  FlattenSeq(<<>>) = <<>> /\ FlattenSeq(<<s>>) = s
<1> DEFINE f == [i \in 0..1 |-> IF i = 0 THEN <<>> ELSE s]
<1>1. <<>> \in Seq(Seq(S)) /\ <<s>> \in Seq(Seq(S)) /\ Len(<<>>) = 0 /\ Len(<<s>>) = 1
      /\ <<s>>[1] = s
  OBVIOUS
<1>2. f[0] = <<>> /\ f[1] = s
  OBVIOUS
<1>3. <<>> \o s = s
  BY ConcatEmptySeq
<1> HIDE DEF f
<1>4. Glues(f, <<>>) /\ Glues(f, <<s>>)
  <2>1. ASSUME NEW i \in 1..Len(<<s>>) PROVE f[i] = f[i - 1] \o <<s>>[i]
    <3>1. i = 1 /\ i - 1 = 0
      BY <1>1
    <3> QED
      BY <1>1, <1>2, <1>3, <3>1
  <2>2. Glues(f, <<s>>)
    BY <1>2, <2>1 DEF Glues
  <2>3. Glues(f, <<>>)
    BY <1>1, <1>2 DEF Glues
  <2> QED
    BY <2>2, <2>3
<1> QED
  BY <1>1, <1>2, <1>4, FlattenIs

(* Concatenation is associative. *)
LEMMA Associative ==
    ASSUME NEW S, NEW a \in Seq(S), NEW b \in Seq(S), NEW c \in Seq(S)
    PROVE  (a \o b) \o c = a \o (b \o c)
  BY ConcatAssociative, SMTT(30)

(* Flattening two lists of pieces, one after the other. *)
LEMMA FlattenConcat ==
    ASSUME NEW S, NEW p \in Seq(Seq(S)), NEW q \in Seq(Seq(S))
    PROVE  /\ FlattenSeq(p) \in Seq(S) /\ FlattenSeq(q) \in Seq(S)
           /\ FlattenSeq(p \o q) = FlattenSeq(p) \o FlattenSeq(q)
<1> DEFINE m == Len(p)
           n == Len(q)
<1>1. m \in Nat /\ n \in Nat
  BY LenProperties
<1>2. PICK e \in [0..m -> Seq(S)] : Glues(e, p) /\ FlattenSeq(p) = e[m]
  BY FlattenExists
<1>3. PICK f \in [0..n -> Seq(S)] : Glues(f, q) /\ FlattenSeq(q) = f[n]
  BY FlattenExists
<1>4. p \o q \in Seq(Seq(S)) /\ Len(p \o q) = m + n
      /\ \A i \in 1..(m + n) : (p \o q)[i] = IF i <= m THEN p[i] ELSE q[i - m]
  BY ConcatProperties
<1> HIDE DEF m, n
<1>0. e[m] \in Seq(S) /\ f[n] \in Seq(S) /\ f[0] = <<>> /\ e[0] = <<>>
  <2>1. e[m] \in Seq(S) /\ f[n] \in Seq(S)
    BY <1>1
  <2>2. f[0] = <<>> /\ e[0] = <<>>
    BY <1>2, <1>3 DEF Glues
  <2> QED
    BY <2>1, <2>2
<1> DEFINE h == [i \in 0..(m + n) |-> IF i < m THEN e[i] ELSE e[m] \o f[i - m]]
<1>5. ASSUME NEW i \in 1..(m + n) PROVE h[i] = h[i - 1] \o (p \o q)[i]
  <2>0. i \in 0..(m + n) /\ i - 1 \in 0..(m + n)
    BY <1>1
  <2>1. CASE i < m
    <3>1. i \in 1..m /\ i - 1 < m /\ i <= m
      BY <1>1, <2>1
    <3>2. h[i] = e[i] /\ h[i - 1] = e[i - 1] /\ (p \o q)[i] = p[i]
      BY <1>4, <2>0, <2>1, <3>1
    <3> QED
      BY <1>2, <3>1, <3>2 DEF Glues, m
  <2>2. CASE i = m
    <3>1. i \in 1..m /\ i - 1 < m /\ i <= m /\ i - m = 0 /\ ~(i < m)
      BY <1>1, <2>2
    <3>2. h[i] = e[m] \o f[0] /\ h[i - 1] = e[i - 1] /\ (p \o q)[i] = p[i]
      BY <1>4, <2>0, <3>1
    <3>3. e[m] \o <<>> = e[m]
      BY <1>0, ConcatEmptySeq
    <3>4. e[i] = e[i - 1] \o p[i]
      BY <1>2, <3>1 DEF Glues, m
    <3> HIDE DEF h
    <3> QED
      BY <1>0, <2>2, <3>2, <3>3, <3>4
  <2>3. CASE i > m
    <3>1. /\ ~(i < m) /\ ~(i - 1 < m) /\ ~(i <= m) /\ i - m \in 1..n
          /\ (i - 1) - m = (i - m) - 1 /\ (i - m) - 1 \in 0..n
      BY <1>1, <2>3
    <3>2. h[i] = e[m] \o f[i - m] /\ h[i - 1] = e[m] \o f[(i - m) - 1]
          /\ (p \o q)[i] = q[i - m]
      BY <1>4, <2>0, <3>1
    <3>3. f[i - m] = f[(i - m) - 1] \o q[i - m] /\ q[i - m] \in Seq(S)
          /\ f[(i - m) - 1] \in Seq(S)
      BY <1>3, <3>1, ElementOfSeq DEF Glues, n
    <3> HIDE DEF h
    <3>4. (e[m] \o f[(i - m) - 1]) \o q[i - m] = e[m] \o (f[(i - m) - 1] \o q[i - m])
      <4> DEFINE a == e[m]
                 b == f[(i - m) - 1]
                 c == q[i - m]
      <4>1. a \in Seq(S) /\ b \in Seq(S) /\ c \in Seq(S)
        BY <1>0, <3>3
      <4> HIDE DEF a, b, c
      <4>2. (a \o b) \o c = a \o (b \o c)
        BY <4>1, Associative, SMTT(60)
      <4> QED
        BY <4>2 DEF a, b, c
    <3> QED
      BY <3>2, <3>3, <3>4
  <2>4. i < m \/ i = m \/ i > m
    BY <1>1
  <2> QED
    BY <2>1, <2>2, <2>3, <2>4
<1>6. h[0] = <<>>
  <2>1. CASE m = 0
    <3>1. h[0] = e[0] \o f[0]
      BY <1>1, <2>1
    <3>2. <<>> \in Seq(S) /\ <<>> \o <<>> = <<>>
      BY ConcatEmptySeq
    <3> HIDE DEF h
    <3> QED
      BY <1>0, <3>1, <3>2
  <2>2. CASE m # 0
    BY <1>0, <1>1, <2>2
  <2> QED
    BY <2>1, <2>2
<1>7. h[m + n] = e[m] \o f[n]
  <2>1. ~(m + n < m) /\ (m + n) - m = n
    BY <1>1
  <2> QED
    BY <1>1, <2>1
<1> HIDE DEF h
<1>8. Glues(h, p \o q)
  BY <1>4, <1>5, <1>6 DEF Glues
<1>9. FlattenSeq(p \o q) = h[m + n]
  BY <1>4, <1>8, FlattenIs
<1> QED
  BY <1>0, <1>2, <1>3, <1>7, <1>9 DEF m, n

-----------------------------------------------------------------------------
(* The elements of s after the a-th, up to the b-th. *)
Cut(s, a, b) == SubSeq(s, a + 1, b)
Within(s, a, b) == a \in Nat /\ b \in Nat /\ a <= b /\ b <= Len(s)
CutOf(t, s, a, b) == Len(t) = b - a /\ \A i \in 1..(b - a) : t[i] = s[a + i]

(* Its length and elements. *)
LEMMA CutProperties ==
    ASSUME NEW S, NEW s \in Seq(S), NEW a, NEW b, Within(s, a, b)
    PROVE  Cut(s, a, b) \in Seq(S) /\ CutOf(Cut(s, a, b), s, a, b)
<1>1. Len(s) \in Nat /\ a \in Nat /\ b \in Nat /\ a <= b /\ b <= Len(s)
  BY LenProperties DEF Within
<1>2. \A i \in (a + 1)..b : s[i] \in S
  BY <1>1, ElementOfSeq
<1>3. Len(SubSeq(s, a + 1, b)) = IF a + 1 <= b THEN b - (a + 1) + 1 ELSE 0
  BY <1>1, <1>2, SubSeqProperties
<1>4. /\ SubSeq(s, a + 1, b) \in Seq(S)
      /\ \A i \in 1..(b - (a + 1) + 1) : SubSeq(s, a + 1, b)[i] = s[a + 1 + i - 1]
  BY <1>1, <1>2, SubSeqProperties
<1>5. \A i \in 1..(b - a) : i \in 1..(b - (a + 1) + 1) /\ a + 1 + i - 1 = a + i
  BY <1>1
<1>6. Len(SubSeq(s, a + 1, b)) = b - a
  BY <1>1, <1>3
<1> QED
  BY <1>4, <1>5, <1>6 DEF Cut, CutOf

(* A sequence with the length and the elements of a cut is that cut. *)
LEMMA CutIs ==
    ASSUME NEW S, NEW s \in Seq(S), NEW a, NEW b, Within(s, a, b),
           NEW t \in Seq(S), CutOf(t, s, a, b)
    PROVE  t = Cut(s, a, b)
<1>1. Cut(s, a, b) \in Seq(S) /\ CutOf(Cut(s, a, b), s, a, b)
  BY CutProperties
<1>2. Len(t) = Len(Cut(s, a, b)) /\ \A i \in 1..Len(t) : t[i] = Cut(s, a, b)[i]
  BY <1>1 DEF CutOf
<1> QED
  BY <1>1, <1>2, SeqEqual

(* A cut is empty when it ends where it starts. *)
LEMMA CutEmpty ==
    ASSUME NEW S, NEW s \in Seq(S), NEW a, NEW b, Within(s, a, b)
    PROVE  Cut(s, a, b) = <<>> <=> a = b
<1>1. Cut(s, a, b) \in Seq(S) /\ CutOf(Cut(s, a, b), s, a, b)
  BY CutProperties
<1>2. Cut(s, a, b) = <<>> <=> Len(Cut(s, a, b)) = 0
  BY <1>1, EmptySeq
<1>3. b - a = 0 <=> a = b
  BY DEF Within
<1> QED
  BY <1>1, <1>2, <1>3 DEF CutOf

(* Two cuts, one after the other. *)
LEMMA CutConcat ==
    ASSUME NEW S, NEW s \in Seq(S), NEW a, NEW b, NEW d, Within(s, a, b), Within(s, b, d)
    PROVE  Cut(s, a, b) \o Cut(s, b, d) = Cut(s, a, d)
<1> DEFINE p == Cut(s, a, b)
           q == Cut(s, b, d)
           t == p \o q
<1>0. a \in Nat /\ b \in Nat /\ d \in Nat /\ a <= b /\ b <= d /\ Within(s, a, d)
  BY LenProperties DEF Within
<1>1. p \in Seq(S) /\ CutOf(p, s, a, b)
  BY CutProperties
<1>2. q \in Seq(S) /\ CutOf(q, s, b, d)
  BY CutProperties
<1> HIDE DEF p, q
<1>3. t \in Seq(S) /\ Len(t) = Len(p) + Len(q)
      /\ \A i \in 1..(Len(p) + Len(q)) : t[i] = IF i <= Len(p) THEN p[i] ELSE q[i - Len(p)]
  BY <1>1, <1>2, ConcatProperties
<1> HIDE DEF t
<1>4. ASSUME NEW i \in 1..(d - a) PROVE t[i] = s[a + i]
  <2>0. i \in 1..(Len(p) + Len(q)) /\ Len(p) = b - a
    BY <1>0, <1>1, <1>2 DEF CutOf
  <2>1. CASE i <= b - a
    <3>1. i \in 1..(b - a)
      BY <1>0, <2>1
    <3> QED
      BY <1>1, <1>3, <2>0, <2>1, <3>1 DEF CutOf
  <2>2. CASE ~(i <= b - a)
    <3>1. i - (b - a) \in 1..(d - b) /\ b + (i - (b - a)) = a + i
      BY <1>0, <2>2
    <3>2. q[i - (b - a)] = s[b + (i - (b - a))]
      BY <1>2, <3>1 DEF CutOf
    <3> QED
      BY <1>3, <2>0, <2>2, <3>1, <3>2
  <2> QED
    BY <2>1, <2>2
<1>5. Len(t) = d - a
  BY <1>0, <1>1, <1>2, <1>3 DEF CutOf
<1>6. t = Cut(s, a, d)
  <2>1. CutOf(t, s, a, d)
    BY <1>4, <1>5 DEF CutOf
  <2> QED
    BY <1>0, <1>3, <2>1, CutIs
<1> QED
  BY <1>6 DEF t, p, q

(* The whole of a sequence. *)
LEMMA CutWhole ==
    ASSUME NEW S, NEW s \in Seq(S)
    PROVE  Cut(s, 0, Len(s)) = s
<1>1. Within(s, 0, Len(s)) /\ CutOf(s, s, 0, Len(s))
  BY LenProperties DEF Within, CutOf
<1> QED
  BY <1>1, CutIs

(* A sequence that grows keeps its cuts. *)
LEMMA CutAppend ==
    ASSUME NEW S, NEW s \in Seq(S), NEW x \in S, NEW a, NEW b, Within(s, a, b)
    PROVE  Cut(s, a, b) = Cut(Append(s, x), a, b)
<1> DEFINE t == Append(s, x)
<1>1. Len(s) \in Nat /\ a \in Nat /\ b \in Nat /\ a <= b /\ b <= Len(s)
  BY LenProperties DEF Within
<1>2. t \in Seq(S) /\ Len(t) = Len(s) + 1 /\ \A i \in 1..Len(s) : t[i] = s[i]
  BY AppendProperties
<1> HIDE DEF t
<1>3. Cut(s, a, b) \in Seq(S) /\ CutOf(Cut(s, a, b), s, a, b)
  BY CutProperties
<1>4. \A i \in 1..(b - a) : a + i \in 1..Len(s)
  BY <1>1
<1>5. CutOf(Cut(s, a, b), t, a, b)
  BY <1>2, <1>3, <1>4 DEF CutOf
<1>6. Within(t, a, b)
  BY <1>1, <1>2 DEF Within
<1> QED
  BY <1>2, <1>3, <1>5, <1>6, CutIs DEF t

(* The last of its cuts grows with it. *)
LEMMA CutAppendLast ==
    ASSUME NEW S, NEW s \in Seq(S), NEW x \in S, NEW a, Within(s, a, Len(s))
    PROVE  Append(Cut(s, a, Len(s)), x) = Cut(Append(s, x), a, Len(s) + 1)
<1> DEFINE t == Append(s, x)
           n == Len(s)
           p == Cut(s, a, n)
           q == Append(p, x)
<1>1. n \in Nat /\ a \in Nat /\ a <= n
  BY LenProperties DEF Within
<1>2. t \in Seq(S) /\ Len(t) = n + 1 /\ t[n + 1] = x /\ \A i \in 1..n : t[i] = s[i]
  BY AppendProperties
<1>3. p \in Seq(S) /\ CutOf(p, s, a, n)
  BY CutProperties
<1> HIDE DEF t, p, n
<1>4. q \in Seq(S) /\ Len(q) = Len(p) + 1 /\ q[Len(p) + 1] = x
      /\ \A i \in 1..Len(p) : q[i] = p[i]
  BY <1>3, AppendProperties
<1> HIDE DEF q
<1>5. ASSUME NEW i \in 1..((n + 1) - a) PROVE q[i] = t[a + i]
  <2>1. CASE i <= n - a
    <3>1. i \in 1..(n - a) /\ a + i \in 1..n
      BY <1>1, <2>1
    <3> QED
      BY <1>2, <1>3, <1>4, <3>1 DEF CutOf
  <2>2. CASE ~(i <= n - a)
    <3>1. i = (n - a) + 1 /\ a + i = n + 1 /\ Len(p) = n - a
      BY <1>1, <1>3, <2>2 DEF CutOf
    <3> QED
      BY <1>2, <1>4, <3>1
  <2> QED
    BY <2>1, <2>2
<1>6. Len(q) = (n + 1) - a
  BY <1>1, <1>3, <1>4 DEF CutOf
<1>7. CutOf(q, t, a, n + 1) /\ Within(t, a, n + 1)
  BY <1>1, <1>2, <1>5, <1>6 DEF CutOf, Within
<1>8. q = Cut(t, a, n + 1)
  BY <1>2, <1>4, <1>7, CutIs
<1> QED
  BY <1>8 DEF t, n, p, q

(* A sequence that is cut short keeps the cuts before. *)
LEMMA CutPrefix ==
    ASSUME NEW S, NEW s \in Seq(S), NEW n, Within(s, 0, n), NEW a, NEW b, Within(s, a, b), b <= n
    PROVE  /\ SubSeq(s, 1, n) \in Seq(S) /\ Len(SubSeq(s, 1, n)) = n
           /\ Cut(s, a, b) = Cut(SubSeq(s, 1, n), a, b)
<1> DEFINE t == Cut(s, 0, n)
<1>0. SubSeq(s, 1, n) = t
  BY DEF Cut
<1>1. t \in Seq(S) /\ CutOf(t, s, 0, n)
  BY CutProperties
<1> HIDE DEF t
<1>2. a \in Nat /\ b \in Nat /\ a <= b /\ n \in Nat
  BY DEF Within
<1>3. Len(t) = n /\ \A i \in 1..n : t[i] = s[i]
  BY <1>1, <1>2 DEF CutOf
<1>4. Cut(s, a, b) \in Seq(S) /\ CutOf(Cut(s, a, b), s, a, b)
  BY CutProperties
<1>5. \A i \in 1..(b - a) : a + i \in 1..n
  BY <1>2
<1>6. CutOf(Cut(s, a, b), t, a, b) /\ Within(t, a, b)
  BY <1>2, <1>3, <1>4, <1>5 DEF CutOf, Within
<1>7. Cut(s, a, b) = Cut(t, a, b)
  BY <1>1, <1>4, <1>6, CutIs
<1> QED
  BY <1>0, <1>1, <1>3, <1>7

(* The two parts of a cut. *)
LEMMA CutSplit ==
    ASSUME NEW S, NEW s \in Seq(S), NEW a, NEW d, Within(s, a, d), NEW n \in Nat, n <= d - a
    PROVE  /\ SubSeq(Cut(s, a, d), 1, n) = Cut(s, a, a + n)
           /\ SubSeq(Cut(s, a, d), n + 1, Len(Cut(s, a, d))) = Cut(s, a + n, d)
<1> DEFINE t == Cut(s, a, d)
<1>0. Len(s) \in Nat /\ a \in Nat /\ d \in Nat /\ a <= d /\ d <= Len(s)
  BY LenProperties DEF Within
<1>1. t \in Seq(S) /\ CutOf(t, s, a, d)
  BY CutProperties
<1> HIDE DEF t
<1> DEFINE u == Cut(t, 0, n)
           v == Cut(t, n, d - a)
<1>2. Within(t, 0, n) /\ Within(t, n, d - a) /\ Len(t) = d - a
  BY <1>0, <1>1 DEF Within, CutOf
<1>3. u \in Seq(S) /\ CutOf(u, t, 0, n) /\ v \in Seq(S) /\ CutOf(v, t, n, d - a)
  BY <1>1, <1>2, CutProperties
<1>4. SubSeq(t, 1, n) = u /\ SubSeq(t, n + 1, Len(t)) = v
  BY <1>2 DEF Cut
<1> HIDE DEF u, v
<1>5. u = Cut(s, a, a + n)
  <2>1. Len(u) = (a + n) - a
    BY <1>0, <1>3 DEF CutOf
  <2>2. ASSUME NEW i \in 1..((a + n) - a) PROVE u[i] = s[a + i]
    <3>1. i \in 1..(n - 0) /\ 0 + i = i /\ i \in 1..(d - a)
      BY <1>0
    <3> QED
      BY <1>1, <1>3, <3>1 DEF CutOf
  <2>3. CutOf(u, s, a, a + n) /\ Within(s, a, a + n)
    BY <1>0, <2>1, <2>2 DEF CutOf, Within
  <2> QED
    BY <1>3, <2>3, CutIs
<1>6. v = Cut(s, a + n, d)
  <2>1. Len(v) = d - (a + n)
    BY <1>0, <1>3 DEF CutOf
  <2>2. ASSUME NEW i \in 1..(d - (a + n)) PROVE v[i] = s[(a + n) + i]
    <3>1. i \in 1..((d - a) - n) /\ n + i \in 1..(d - a) /\ a + (n + i) = (a + n) + i
      BY <1>0
    <3>2. v[i] = t[n + i] /\ t[n + i] = s[a + (n + i)]
      BY <1>1, <1>3, <3>1 DEF CutOf
    <3> QED
      BY <3>1, <3>2
  <2>3. CutOf(v, s, a + n, d) /\ Within(s, a + n, d)
    BY <1>0, <2>1, <2>2 DEF CutOf, Within
  <2> QED
    BY <1>3, <2>3, CutIs
<1> QED
  BY <1>4, <1>5, <1>6 DEF t

(* A sequence that ends as g does is a suffix of g. *)
LEMMA SuffixIs ==
    ASSUME NEW S, NEW g \in Seq(S), NEW u \in Seq(S), Len(u) <= Len(g),
           \A i \in 1..Len(u) : u[i] = g[Len(g) - Len(u) + i]
    PROVE  IsSuffix(u, g)
<1> DEFINE n == Len(u)
           ru == Reverse(u)
           rg == Reverse(g)
<1>1. Len(g) \in Nat /\ n \in Nat /\ n <= Len(g)
  BY LenProperties
<1>4. \A i \in 1..n : u[i] = g[Len(g) - n + i]
  OBVIOUS
<1> HIDE DEF n
<1>5. ru = [i \in 1..n |-> u[(n - i) + 1]] /\ Len(ru) = n
  BY <1>1 DEF Reverse, n
<1>6. rg = [i \in 1..Len(g) |-> g[(Len(g) - i) + 1]] /\ Len(rg) = Len(g)
  BY <1>1 DEF Reverse
<1>7. ASSUME NEW i \in 1..n PROVE ru[i] = rg[i]
  <2>1. (n - i) + 1 \in 1..n /\ i \in 1..Len(g)
        /\ Len(g) - n + ((n - i) + 1) = (Len(g) - i) + 1
    BY <1>1
  <2> QED
    BY <1>4, <1>5, <1>6, <2>1
<1> HIDE DEF ru, rg
<1>8. SubSeq(ru, 1, n) = SubSeq(rg, 1, n)
  <2>1. SubSeq(ru, 1, n) = [i \in 1..(1 + n - 1) |-> ru[i + 1 - 1]]
    BY <1>1 DEF SubSeq
  <2>2. SubSeq(rg, 1, n) = [i \in 1..(1 + n - 1) |-> rg[i + 1 - 1]]
    BY <1>1 DEF SubSeq
  <2>3. ASSUME NEW i \in 1..(1 + n - 1) PROVE ru[i + 1 - 1] = rg[i + 1 - 1]
    <3>1. i + 1 - 1 \in 1..n
      BY <1>1
    <3> QED
      BY <1>7, <3>1
  <2> QED
    BY <2>1, <2>2, <2>3
<1>9. IsPrefix(ru, rg)
  BY <1>1, <1>5, <1>6, <1>8 DEF IsPrefix
<1> QED
  BY <1>9 DEF IsSuffix, ru, rg

-----------------------------------------------------------------------------
(* The oldest of the rotated files. *)
Top(mf) == IF mf = 0 THEN 1 ELSE mf

(* The files 0..n, the latest first, and then the buffer hold the lines of   *)
(* log from the c[n + 1]-th on: file i those from c[i + 1] to c[i].          *)
InOrder(c, n, fs, buf, log) ==
    /\ c \in [0..(n + 1) -> Nat]
    /\ c[0] <= Len(log) /\ buf = Cut(log, c[0], Len(log))
    /\ \A i \in 0..n : c[i + 1] <= c[i] /\ fs[i] = Cut(log, c[i + 1], c[i])

(* Where files may be empty: during a rotation the one it has just emptied,  *)
(* while file 0 has the line that started it.  Without a crash the files in  *)
(* use are the first ones, all of them once a line is lost.                  *)
Holes(c, mf, st, len, cr) ==
    /\ st # 0 => c[1] < len
    /\ st \in 1..Top(mf) => c[0] = len
    /\ st \in 1..mf => c[st + 1] = c[st]
    /\ cr = 0 =>
        /\ \A i, j \in 1..Top(mf) :
              (j < i /\ i # st /\ j # st /\ c[i + 1] < c[i]) => c[j + 1] < c[j]
        /\ c[Top(mf) + 1] > 0 => \A i \in 1..Top(mf) : i # st => c[i + 1] < c[i]

(* The cuts do not grow, and all are within the log. *)
LEMMA CutsWithin ==
    ASSUME NEW n \in Nat, NEW S, NEW log \in Seq(S), NEW c, NEW fs, NEW buf,
           InOrder(c, n, fs, buf, log)
    PROVE  /\ \A i \in 0..(n + 1) : Within(log, c[i], c[0])
           /\ \A i \in 0..n : Within(log, c[i + 1], c[i])
           /\ Within(log, c[0], Len(log))
<1>1. Len(log) \in Nat /\ c \in [0..(n + 1) -> Nat] /\ c[0] <= Len(log)
      /\ \A i \in 0..n : c[i + 1] <= c[i]
  BY LenProperties DEF InOrder
<1> DEFINE S0 == {i \in 0..(n + 1) : c[i] <= c[0]}
<1>2. 0 \in S0
  BY <1>1
<1>3. ASSUME NEW i \in 1..(n + 1), i - 1 \in S0 PROVE i \in S0
  <2>1. i - 1 \in 0..n /\ (i - 1) + 1 = i /\ i - 1 \in 0..(n + 1) /\ i \in 0..(n + 1)
    BY <1>1
  <2>2. c[(i - 1) + 1] <= c[i - 1] /\ c[i - 1] <= c[0]
    BY <1>1, <1>3, <2>1
  <2>3. c[i] \in Nat /\ c[i - 1] \in Nat /\ c[0] \in Nat
    BY <1>1, <2>1
  <2>4. c[i] <= c[0]
    BY <2>1, <2>2, <2>3
  <2> QED
    BY <2>1, <2>4
<1>4. 0..(n + 1) \subseteq S0
  <2> HIDE DEF S0
  <2>1. n + 1 \in Nat
    OBVIOUS
  <2> QED
    BY <1>2, <1>3, <2>1, SetInduction
<1>5. \A i \in 0..(n + 1) : c[i] \in Nat /\ c[i] <= c[0]
  BY <1>1, <1>4
<1>6. \A i \in 0..n : i \in 0..(n + 1) /\ i + 1 \in 0..(n + 1)
  OBVIOUS
<1>7. 0 \in 0..(n + 1) /\ c[0] \in Nat
  BY <1>1
<1> QED
  BY <1>1, <1>5, <1>6, <1>7 DEF Within

(* Put together from the oldest on, the files and the buffer are the end of  *)
(* the log.                                                                  *)
LEMMA LogIs ==
    ASSUME NEW n \in Nat, NEW S, NEW log \in Seq(S), NEW c, NEW fs, NEW buf,
           InOrder(c, n, fs, buf, log)
    PROVE  FlattenSeq([i \in 1..(n + 1) |-> fs[n + 1 - i]]) \o buf = Cut(log, c[n + 1], Len(log))
<1> DEFINE F(i) == fs[n + 1 - i]
           p == [i \in 1..(n + 1) |-> F(i)]
           g == [i \in 0..(n + 1) |-> Cut(log, c[n + 1], c[n + 1 - i])]
<1>0. /\ \A i \in 0..(n + 1) : Within(log, c[i], c[0])
      /\ \A i \in 0..n : Within(log, c[i + 1], c[i])
      /\ Within(log, c[0], Len(log))
  BY CutsWithin
<1>1. \A i \in 0..n : fs[i] = Cut(log, c[i + 1], c[i])
  BY DEF InOrder
<1>2. ASSUME NEW i \in 1..(n + 1) PROVE F(i) \in Seq(S) /\ F(i) = Cut(log, c[n + 2 - i], c[n + 1 - i])
  <2>1. n + 1 - i \in 0..n /\ (n + 1 - i) + 1 = n + 2 - i
    OBVIOUS
  <2>2. F(i) = Cut(log, c[(n + 1 - i) + 1], c[n + 1 - i]) /\ Within(log, c[(n + 1 - i) + 1], c[n + 1 - i])
    BY <1>0, <1>1, <2>1
  <2>3. F(i) \in Seq(S)
    <3> HIDE DEF F
    <3> QED
      BY <2>2, CutProperties
  <2> HIDE DEF F
  <2> QED
    BY <2>1, <2>2, <2>3
<1>3. p \in Seq(Seq(S)) /\ Len(p) = n + 1 /\ \A i \in 1..(n + 1) : p[i] = F(i)
  <2> HIDE DEF F
  <2> QED
    BY <1>2
<1> HIDE DEF p
<1>4. ASSUME NEW i \in 0..(n + 1) PROVE Within(log, c[n + 1], c[n + 1 - i])
  <2> DEFINE S0 == {k \in 0..(n + 1) : Within(log, c[n + 1], c[n + 1 - k])}
  <2>1. 0 \in S0
    <3>1. n + 1 - 0 = n + 1 /\ n + 1 \in 0..(n + 1)
      OBVIOUS
    <3>2. Within(log, c[n + 1], c[n + 1])
      BY <1>0, <3>1, LenProperties DEF Within
    <3> QED
      BY <3>1, <3>2
  <2>2. ASSUME NEW k \in 1..(n + 1), k - 1 \in S0 PROVE k \in S0
    <3>1. n + 1 - k \in 0..n /\ (n + 1 - k) + 1 = n + 1 - (k - 1) /\ k \in 0..(n + 1)
      OBVIOUS
    <3>2. Within(log, c[n + 1 - (k - 1)], c[n + 1 - k])
      BY <1>0, <3>1
    <3>3. Within(log, c[n + 1], c[n + 1 - (k - 1)])
      BY <2>2
    <3>4. Within(log, c[n + 1], c[n + 1 - k])
      BY <3>2, <3>3 DEF Within
    <3> QED
      BY <3>1, <3>4
  <2>3. 0..(n + 1) \subseteq S0
    <3> HIDE DEF S0
    <3>1. n + 1 \in Nat
      OBVIOUS
    <3> QED
      BY <2>1, <2>2, <3>1, SetInduction
  <2> QED
    BY <2>3
<1>5. g[0] = <<>>
  <2>1. g[0] = Cut(log, c[n + 1], c[n + 1 - 0]) /\ n + 1 - 0 = n + 1 /\ 0 \in 0..(n + 1)
    OBVIOUS
  <2>2. Within(log, c[n + 1], c[n + 1])
    BY <1>4, <2>1
  <2> HIDE DEF g
  <2> QED
    BY <2>1, <2>2, CutEmpty
<1>6. ASSUME NEW i \in 1..(n + 1) PROVE g[i] = g[i - 1] \o p[i]
  <2>1. i \in 0..(n + 1) /\ i - 1 \in 0..(n + 1) /\ n + 2 - i = n + 1 - (i - 1)
    OBVIOUS
  <2>2. /\ g[i] = Cut(log, c[n + 1], c[n + 1 - i])
        /\ g[i - 1] = Cut(log, c[n + 1], c[n + 1 - (i - 1)])
    BY <2>1
  <2>3. p[i] = Cut(log, c[n + 1 - (i - 1)], c[n + 1 - i])
    BY <1>2, <1>3, <2>1
  <2>4. Within(log, c[n + 1], c[n + 1 - (i - 1)])
    BY <1>4, <2>1
  <2>5. Within(log, c[n + 1 - (i - 1)], c[n + 1 - i])
    <3>1. n + 1 - i \in 0..n /\ (n + 1 - i) + 1 = n + 1 - (i - 1)
      OBVIOUS
    <3> QED
      BY <1>0, <3>1
  <2> DEFINE a == c[n + 1]
             b == c[n + 1 - (i - 1)]
             d == c[n + 1 - i]
  <2>6. Within(log, a, b) /\ Within(log, b, d)
    BY <2>4, <2>5
  <2>7. g[i] = Cut(log, a, d) /\ g[i - 1] = Cut(log, a, b) /\ p[i] = Cut(log, b, d)
    BY <2>2, <2>3
  <2> HIDE DEF g, a, b, d
  <2> QED
    BY <2>6, <2>7, CutConcat
<1>7. g[n + 1] = Cut(log, c[n + 1], c[0])
  <2>1. n + 1 - (n + 1) = 0 /\ n + 1 \in 0..(n + 1)
    OBVIOUS
  <2> QED
    BY <2>1
<1> HIDE DEF g
<1>8. Glues(g, p)
  BY <1>3, <1>5, <1>6 DEF Glues
<1>9. FlattenSeq(p) = g[n + 1]
  BY <1>3, <1>8, FlattenIs
<1>10. Within(log, c[n + 1], c[0]) /\ n + 1 \in 0..(n + 1)
  BY <1>0
<1>11. Cut(log, c[n + 1], c[0]) \o Cut(log, c[0], Len(log)) = Cut(log, c[n + 1], Len(log))
  BY <1>0, <1>10, CutConcat
<1>12. buf = Cut(log, c[0], Len(log))
  BY DEF InOrder
<1> QED
  BY <1>7, <1>9, <1>11, <1>12 DEF p, F

(* write(): the last cut grows. *)
LEMMA OrderWrite ==
    ASSUME NEW n \in Nat, NEW S, NEW log \in Seq(S), NEW c, NEW fs, NEW buf,
           InOrder(c, n, fs, buf, log), NEW l \in S
    PROVE  InOrder(c, n, fs, Append(buf, l), Append(log, l))
<1>0. /\ \A i \in 0..n : Within(log, c[i + 1], c[i])
      /\ Within(log, c[0], Len(log))
  BY CutsWithin
<1>1. /\ c \in [0..(n + 1) -> Nat] /\ c[0] <= Len(log) /\ buf = Cut(log, c[0], Len(log))
      /\ \A i \in 0..n : c[i + 1] <= c[i] /\ fs[i] = Cut(log, c[i + 1], c[i])
  BY DEF InOrder
<1>2. \A i \in 0..n : Cut(log, c[i + 1], c[i]) = Cut(Append(log, l), c[i + 1], c[i])
  BY <1>0, CutAppend
<1>3. Append(buf, l) = Cut(Append(log, l), c[0], Len(log) + 1)
  BY <1>0, <1>1, CutAppendLast
<1>4. Len(Append(log, l)) = Len(log) + 1 /\ Len(log) \in Nat
  BY LenProperties, AppendProperties
<1>5. c[0] <= Len(log) + 1
  BY <1>1, <1>4
<1> QED
  BY <1>1, <1>2, <1>3, <1>4, <1>5 DEF InOrder

(* How the files change: the first m lines of buf go to the first of them,   *)
(* the last one is deleted, or one moves up by one place.                    *)
Filled(fs2, fs, n, buf, m) ==
    m <= Len(buf) /\ fs2[0] = fs[0] \o SubSeq(buf, 1, m) /\ \A i \in 1..n : fs2[i] = fs[i]
Dropped(fs2, fs, n) == fs2[n] = <<>> /\ \A i \in 0..(n - 1) : fs2[i] = fs[i]
Moved(fs2, fs, n, s) ==
    /\ fs2[s] = fs[s - 1] /\ fs2[s - 1] = <<>>
    /\ \A i \in 0..n : i # s /\ i # s - 1 => fs2[i] = fs[i]

(* The first m lines of the buffer go to file 0. *)
LEMMA OrderFill ==
    ASSUME NEW n \in Nat, NEW S, NEW log \in Seq(S), NEW c, NEW fs, NEW buf,
           InOrder(c, n, fs, buf, log), NEW m \in Nat, NEW fs2, Filled(fs2, fs, n, buf, m)
    PROVE  /\ InOrder([c EXCEPT ![0] = c[0] + m], n, fs2, SubSeq(buf, m + 1, Len(buf)), log)
           /\ c[0] + m = Len(log) - Len(buf) + m /\ c[0] \in Nat
<1> USE DEF Filled
<1> DEFINE e == [c EXCEPT ![0] = c[0] + m]
           len == Len(log)
<1>0. /\ \A i \in 0..n : Within(log, c[i + 1], c[i])
      /\ Within(log, c[0], len)
  BY CutsWithin
<1>1. /\ c \in [0..(n + 1) -> Nat] /\ c[0] <= len /\ buf = Cut(log, c[0], len)
      /\ \A i \in 0..n : c[i + 1] <= c[i] /\ fs[i] = Cut(log, c[i + 1], c[i])
  BY DEF InOrder
<1>2. len \in Nat /\ c[0] \in Nat /\ Len(buf) = len - c[0]
  BY <1>0, <1>1, CutProperties, LenProperties DEF CutOf
<1>3. SubSeq(buf, 1, m) = Cut(log, c[0], c[0] + m)
      /\ SubSeq(buf, m + 1, Len(buf)) = Cut(log, c[0] + m, len)
  <2> DEFINE a == c[0]
             t == Cut(log, a, len)
  <2>1. Within(log, a, len) /\ m <= len - a /\ buf = t
    BY <1>0, <1>1, <1>2
  <2> HIDE DEF a, e, len
  <2>2. SubSeq(t, 1, m) = Cut(log, a, a + m) /\ SubSeq(t, m + 1, Len(t)) = Cut(log, a + m, len)
    BY ONLY <2>1, m \in Nat, log \in Seq(S), CutSplit
  <2> QED
    BY <2>1, <2>2 DEF a
<1>4. e \in [0..(n + 1) -> Nat] /\ e[0] = c[0] + m /\ \A i \in 1..(n + 1) : e[i] = c[i]
  BY <1>1, <1>2
<1>5. e[0] <= len
  BY <1>2, <1>4
<1>6. fs2[0] = Cut(log, e[0 + 1], e[0])
  <2>1. Within(log, c[1], c[0]) /\ fs[0] = Cut(log, c[1], c[0]) /\ 0 + 1 = 1 /\ 1 \in 1..(n + 1)
    <3>1. 0 \in 0..n /\ 0 + 1 = 1 /\ 1 \in 1..(n + 1)
      OBVIOUS
    <3>2. Within(log, c[0 + 1], c[0]) /\ fs[0] = Cut(log, c[0 + 1], c[0])
      BY ONLY <1>0, <1>1, <3>1
    <3> QED
      BY ONLY <3>1, <3>2
  <2>2. Within(log, c[0], c[0] + m)
    BY <1>2 DEF Within
  <2>3. Cut(log, c[1], c[0]) \o Cut(log, c[0], c[0] + m) = Cut(log, c[1], c[0] + m)
    <3> DEFINE d == c[0] + m
    <3>1. Within(log, c[0], d)
      BY <2>2
    <3> HIDE DEF d, e
    <3>2. Cut(log, c[1], c[0]) \o Cut(log, c[0], d) = Cut(log, c[1], d)
      BY ONLY <2>1, <3>1, log \in Seq(S), CutConcat
    <3> QED
      BY <3>2 DEF d
  <2> HIDE DEF e
  <2> QED
    BY <1>3, <1>4, <2>1, <2>3
<1>7. ASSUME NEW i \in 0..n PROVE e[i + 1] <= e[i] /\ fs2[i] = Cut(log, e[i + 1], e[i])
  <2>0. i + 1 \in 1..(n + 1) /\ i + 1 \in 0..(n + 1)
    OBVIOUS
  <2>1. c[i + 1] <= c[i] /\ e[i + 1] = c[i + 1] /\ c[i + 1] \in Nat
    BY <1>1, <1>4, <2>0
  <2>2. CASE i = 0
    BY <1>2, <1>4, <1>6, <2>1, <2>2
  <2>3. CASE i # 0
    <3>1. i \in 1..n /\ i \in 1..(n + 1)
      BY <2>3
    <3>2. e[i] = c[i] /\ fs2[i] = fs[i]
      BY <1>4, <3>1
    <3> HIDE DEF e
    <3> QED
      BY <1>1, <2>1, <3>2
  <2> QED
    BY <2>2, <2>3
<1> HIDE DEF e
<1>8. InOrder(e, n, fs2, SubSeq(buf, m + 1, Len(buf)), log)
  BY <1>3, <1>4, <1>5, <1>7 DEF InOrder
<1> QED
  BY <1>2, <1>8 DEF e

(* The oldest file is deleted. *)
LEMMA OrderDrop ==
    ASSUME NEW n \in Nat \ {0}, NEW S, NEW log \in Seq(S), NEW c, NEW fs, NEW buf,
           InOrder(c, n, fs, buf, log),
           NEW fs2, Dropped(fs2, fs, n)
    PROVE  InOrder([c EXCEPT ![n + 1] = c[n]], n, fs2, buf, log)
<1> USE DEF Dropped
<1> DEFINE e == [c EXCEPT ![n + 1] = c[n]]
<1>0. \A i \in 0..n : Within(log, c[i + 1], c[i])
  BY CutsWithin
<1>1. /\ c \in [0..(n + 1) -> Nat] /\ c[0] <= Len(log) /\ buf = Cut(log, c[0], Len(log))
      /\ \A i \in 0..n : c[i + 1] <= c[i] /\ fs[i] = Cut(log, c[i + 1], c[i])
  BY DEF InOrder
<1>2. e \in [0..(n + 1) -> Nat] /\ e[n + 1] = c[n] /\ \A i \in 0..n : e[i] = c[i]
  BY <1>1
<1>3. ASSUME NEW i \in 0..n PROVE e[i + 1] <= e[i] /\ fs2[i] = Cut(log, e[i + 1], e[i])
  <2>1. CASE i = n
    <3>1. e[i + 1] = c[n] /\ e[i] = c[n] /\ c[n] \in Nat
      BY <1>1, <1>2, <2>1
    <3>2. Within(log, c[n], c[n])
      BY <1>0, <3>1, LenProperties DEF Within
    <3> HIDE DEF e
    <3> QED
      BY <2>1, <3>1, <3>2, CutEmpty
  <2>2. CASE i # n
    <3>1. i \in 0..(n - 1) /\ i + 1 \in 0..n
      BY <2>2
    <3>2. e[i] = c[i] /\ e[i + 1] = c[i + 1] /\ fs2[i] = fs[i]
      BY <1>2, <3>1
    <3> HIDE DEF e
    <3> QED
      BY <1>1, <3>2
  <2> QED
    BY <2>1, <2>2
<1> HIDE DEF e
<1>4. InOrder(e, n, fs2, buf, log)
  BY <1>1, <1>2, <1>3 DEF InOrder
<1> QED
  BY <1>4 DEF e

(* A file moves up to an empty place. *)
LEMMA OrderShift ==
    ASSUME NEW n \in Nat, NEW S, NEW log \in Seq(S), NEW c, NEW fs, NEW buf,
           InOrder(c, n, fs, buf, log), NEW s \in 1..n, c[s + 1] = c[s],
           NEW fs2, Moved(fs2, fs, n, s)
    PROVE  InOrder([c EXCEPT ![s] = c[s - 1]], n, fs2, buf, log)
<1> USE DEF Moved
<1> DEFINE e == [c EXCEPT ![s] = c[s - 1]]
<1>0. \A i \in 0..n : Within(log, c[i + 1], c[i])
  BY CutsWithin
<1>1. /\ c \in [0..(n + 1) -> Nat] /\ c[0] <= Len(log) /\ buf = Cut(log, c[0], Len(log))
      /\ \A i \in 0..n : c[i + 1] <= c[i] /\ fs[i] = Cut(log, c[i + 1], c[i])
  BY DEF InOrder
<1>2. s \in 0..(n + 1) /\ s - 1 \in 0..n /\ (s - 1) + 1 = s /\ s - 1 \in 0..(n + 1)
      /\ s + 1 \in 0..(n + 1) /\ s + 1 # s /\ s - 1 # s
  OBVIOUS
<1>3. e \in [0..(n + 1) -> Nat] /\ e[s] = c[s - 1] /\ \A i \in 0..(n + 1) : i # s => e[i] = c[i]
  BY <1>1, <1>2
<1>4. e[0] = c[0]
  BY <1>2, <1>3
<1> HIDE DEF e
<1>5. ASSUME NEW i \in 0..n PROVE e[i + 1] <= e[i] /\ fs2[i] = Cut(log, e[i + 1], e[i])
  <2>1. CASE i = s
    <3>1. e[i + 1] = c[s] /\ e[i] = c[s - 1] /\ fs2[i] = fs[s - 1]
      BY <1>2, <1>3, <2>1
    <3>2. c[(s - 1) + 1] <= c[s - 1] /\ fs[s - 1] = Cut(log, c[(s - 1) + 1], c[s - 1])
      BY <1>1, <1>2
    <3> QED
      BY <1>2, <3>1, <3>2
  <2>2. CASE i = s - 1
    <3>1. e[i + 1] = c[s - 1] /\ e[i] = c[s - 1] /\ fs2[i] = <<>> /\ c[s - 1] \in Nat
      BY <1>1, <1>2, <1>3, <2>2
    <3>2. Within(log, c[s - 1], c[s - 1])
      BY <1>0, <1>2, <3>1, LenProperties DEF Within
    <3> QED
      BY <3>1, <3>2, CutEmpty
  <2>3. CASE i # s /\ i # s - 1
    <3>1. i + 1 # s /\ i \in 0..(n + 1) /\ i + 1 \in 0..(n + 1)
      BY <1>2, <2>3
    <3>2. e[i] = c[i] /\ e[i + 1] = c[i + 1] /\ fs2[i] = fs[i]
      BY <1>3, <2>3, <3>1
    <3> QED
      BY <1>1, <3>2
  <2> QED
    BY <2>1, <2>2, <2>3
<1>6. InOrder(e, n, fs2, buf, log)
  BY <1>1, <1>3, <1>4, <1>5 DEF InOrder
<1> QED
  BY <1>6 DEF e

(* A crash loses what the files do not hold. *)
LEMMA OrderCrash ==
    ASSUME NEW n \in Nat, NEW S, NEW log \in Seq(S), NEW c, NEW fs, NEW buf,
           InOrder(c, n, fs, buf, log)
    PROVE  /\ SubSeq(log, 1, c[0]) \in Seq(S) /\ Len(SubSeq(log, 1, c[0])) = c[0]
           /\ InOrder(c, n, fs, <<>>, SubSeq(log, 1, c[0]))
<1> DEFINE t == SubSeq(log, 1, c[0])
<1>0. /\ \A i \in 0..(n + 1) : Within(log, c[i], c[0])
      /\ \A i \in 0..n : Within(log, c[i + 1], c[i])
      /\ Within(log, c[0], Len(log))
  BY CutsWithin
<1>1. /\ c \in [0..(n + 1) -> Nat] /\ c[0] <= Len(log)
      /\ \A i \in 0..n : c[i + 1] <= c[i] /\ fs[i] = Cut(log, c[i + 1], c[i])
  BY DEF InOrder
<1>2. Within(log, 0, c[0]) /\ Within(log, c[0], c[0]) /\ c[0] <= c[0] /\ c[0] \in Nat
  BY <1>0, LenProperties DEF Within
<1>3. t \in Seq(S) /\ Len(t) = c[0]
  BY <1>2, CutPrefix
<1>4. ASSUME NEW i \in 0..n PROVE Cut(log, c[i + 1], c[i]) = Cut(t, c[i + 1], c[i])
  <2>1. Within(log, c[i + 1], c[i]) /\ c[i] <= c[0]
    BY <1>0 DEF Within
  <2> QED
    BY <1>2, <2>1, CutPrefix
<1> HIDE DEF t
<1>5. Within(t, c[0], c[0])
  BY <1>2, <1>3 DEF Within
<1>6. <<>> = Cut(t, c[0], c[0])
  BY <1>3, <1>5, CutEmpty
<1>7. InOrder(c, n, fs, <<>>, t)
  BY <1>1, <1>2, <1>3, <1>4, <1>6 DEF InOrder
<1> QED
  BY <1>3, <1>7 DEF t

-----------------------------------------------------------------------------
(* The cuts as numbers: not growing, and none beyond len. *)
Falling(c, n, len) ==
    /\ c \in [0..(n + 1) -> Nat] /\ len \in Nat /\ c[0] <= len
    /\ \A i \in 0..n : c[i + 1] <= c[i]

(* write(): the line that starts a rotation is in file 0 or in the buffer. *)
LEMMA HolesWrite ==
    ASSUME NEW mf \in Nat, NEW len, NEW c, Falling(c, Top(mf), len), NEW cr,
           Holes(c, mf, 0, len, cr)
    PROVE  Holes(c, mf, 0, len + 1, cr) /\ Holes(c, mf, mf + 2, len + 1, cr)
<1>1. c[0 + 1] <= c[0] /\ c[0] <= len /\ len \in Nat /\ c[0] \in Nat /\ c[1] \in Nat /\ 0 + 1 = 1
  BY DEF Falling, Top
<1>2. c[1] < len + 1
  BY <1>1
<1>3. Holes(c, mf, 0, len + 1, cr)
  BY DEF Holes
<1>4. mf + 2 \notin 1..Top(mf) /\ mf + 2 \notin 1..mf
      /\ \A i \in 1..Top(mf) : i # mf + 2 /\ i # 0
  BY DEF Top
<1>5. Holes(c, mf, mf + 2, len + 1, cr)
  BY <1>2, <1>4 DEF Holes
<1> QED
  BY <1>3, <1>5

(* File 0 grows: nothing is said of where it ends. *)
LEMMA HolesFill ==
    ASSUME NEW mf \in Nat, NEW len, NEW c, Falling(c, Top(mf), len), NEW cr, NEW st,
           st \notin 1..Top(mf), Holes(c, mf, st, len, cr), NEW k \in Nat
    PROVE  Holes([c EXCEPT ![0] = k], mf, st, len, cr)
<1> DEFINE e == [c EXCEPT ![0] = k]
<1>1. \A i \in 1..(Top(mf) + 1) : e[i] = c[i]
  BY DEF Falling
<1>2. Top(mf) \in Nat \ {0} /\ mf <= Top(mf)
  BY DEF Top
<1>3. 1 \in 1..(Top(mf) + 1) /\ Top(mf) + 1 \in 1..(Top(mf) + 1)
      /\ \A i \in 1..Top(mf) : i \in 1..(Top(mf) + 1) /\ i + 1 \in 1..(Top(mf) + 1)
  BY <1>2
<1>4. st \notin 1..mf
  BY <1>2
<1> HIDE DEF e
<1>5. \A i \in 1..Top(mf) : e[i] = c[i] /\ e[i + 1] = c[i + 1]
  BY <1>1, <1>3
<1>6. e[1] = c[1] /\ e[Top(mf) + 1] = c[Top(mf) + 1]
  BY <1>1, <1>3
<1>7. Holes(e, mf, st, len, cr)
  BY <1>4, <1>5, <1>6 DEF Holes
<1> QED
  BY <1>7 DEF e

(* rotate() has closed file 0 and deleted the oldest one. *)
LEMMA HolesClose ==
    ASSUME NEW mf \in Nat, NEW len, NEW c, Falling(c, Top(mf), len), NEW cr, c[0] = len,
           Holes(c, mf, mf + 2, len, cr)
    PROVE  IF mf = 0 THEN Holes(c, mf, 1, len, cr)
                     ELSE Holes([c EXCEPT ![mf + 1] = c[mf]], mf, mf, len, cr)
<1>0. c[1] < len /\ mf + 2 # 0
  BY DEF Holes
<1>1. CASE mf = 0
  BY <1>0, <1>1 DEF Holes, Top
<1>2. CASE mf # 0
  <2> DEFINE e == [c EXCEPT ![mf + 1] = c[mf]]
  <2>1. Top(mf) = mf /\ mf \in Nat \ {0}
    BY <1>2 DEF Top
  <2>2. c \in [0..(mf + 1) -> Nat] /\ \A i \in 0..mf : c[i + 1] <= c[i]
    BY <2>1 DEF Falling
  <2>3. e[mf + 1] = c[mf] /\ \A i \in 0..mf : e[i] = c[i]
    BY <2>1, <2>2
  <2> HIDE DEF e
  <2>4. e[1] < len /\ e[0] = len
    BY <1>0, <2>1, <2>3
  <2>5. ASSUME cr = 0, NEW i \in 1..mf, NEW j \in 1..mf, j < i, i # mf, j # mf, e[i + 1] < e[i]
        PROVE  e[j + 1] < e[j]
    <3>1. i \in 0..mf /\ i + 1 \in 0..mf /\ j \in 0..mf /\ j + 1 \in 0..mf
      BY <2>1, <2>5
    <3>2. e[i] = c[i] /\ e[i + 1] = c[i + 1] /\ e[j] = c[j] /\ e[j + 1] = c[j + 1]
      BY <2>3, <3>1
    <3>3. i # mf + 2 /\ j # mf + 2
      BY <2>1
    <3> QED
      BY <2>1, <2>5, <3>2, <3>3 DEF Holes
  <2>6. ASSUME cr = 0, e[mf + 1] > 0, NEW i \in 1..mf, i # mf
        PROVE  e[i + 1] < e[i]
    <3>1. i \in 0..mf /\ i + 1 \in 0..mf /\ i < mf /\ mf \in 1..mf /\ mf # mf + 2 /\ i # mf + 2
      BY <2>1, <2>6
    <3>2. e[i] = c[i] /\ e[i + 1] = c[i + 1]
      BY <2>3, <3>1
    <3>3. CASE c[mf + 1] < c[mf]
      BY <2>1, <2>6, <3>1, <3>2, <3>3 DEF Holes
    <3>4. CASE ~(c[mf + 1] < c[mf])
      <4>1. c[mf + 1] \in Nat /\ c[mf] \in Nat /\ c[mf] > 0
        BY <2>1, <2>2, <2>3, <2>6
      <4>2. c[mf + 1] > 0
        BY <3>4, <4>1
      <4> QED
        BY <2>1, <2>6, <3>1, <3>2, <4>2 DEF Holes
    <3> QED
      BY <3>3, <3>4
  <2>7. mf \in 0..mf /\ e[mf + 1] = e[mf]
    BY <2>1, <2>3
  <2>8. Holes(e, mf, mf, len, cr)
    BY <2>1, <2>4, <2>5, <2>6, <2>7 DEF Holes
  <2> QED
    BY <1>2, <2>8 DEF e
<1> QED
  BY <1>1, <1>2

(* A file moves up: the empty place is the one it came from. *)
LEMMA HolesShift ==
    ASSUME NEW mf \in Nat, NEW len, NEW c, Falling(c, Top(mf), len), NEW cr,
           NEW s \in 2..mf, Holes(c, mf, s, len, cr)
    PROVE  Holes([c EXCEPT ![s] = c[s - 1]], mf, s - 1, len, cr)
<1> DEFINE e == [c EXCEPT ![s] = c[s - 1]]
<1>1. Top(mf) = mf /\ mf \in Nat \ {0} /\ mf >= 2
  BY DEF Top
<1>2. c \in [0..(mf + 1) -> Nat]
  BY <1>1 DEF Falling
<1>3. s \in 0..(mf + 1) /\ s - 1 \in 1..mf /\ (s - 1) + 1 = s /\ s # 0 /\ s \in 1..mf /\ s - 1 # 0
      /\ s - 1 # s /\ s - 1 \in 0..(mf + 1)
  BY <1>1
<1>4. e[s] = c[s - 1] /\ \A i \in 0..(mf + 1) : i # s => e[i] = c[i]
  BY <1>2, <1>3
<1> HIDE DEF e
<1>5. c[1] < len /\ c[0] = len /\ c[s + 1] = c[s]
  BY <1>1, <1>3 DEF Holes
<1>6. e[0] = len
  BY <1>3, <1>4, <1>5
<1>7. e[1] < len
  <2>1. 1 \in 0..(mf + 1) /\ 1 # s
    BY <1>1
  <2> QED
    BY <1>4, <1>5, <2>1
<1>8. e[(s - 1) + 1] = e[s - 1]
  BY <1>3, <1>4
<1> DEFINE O(i) == IF i = s THEN s - 1 ELSE i
<1>9. ASSUME NEW i \in 1..mf, i # s - 1
      PROVE  /\ O(i) \in 1..mf /\ O(i) # s
             /\ e[i + 1] = c[O(i) + 1] /\ e[i] = c[O(i)]
  <2>1. CASE i = s
    <3>1. i + 1 \in 0..(mf + 1) /\ i + 1 # s /\ O(i) = s - 1
      BY <1>1, <2>1
    <3>2. e[i + 1] = c[s + 1] /\ e[i] = c[s - 1]
      BY <1>4, <2>1, <3>1
    <3> QED
      BY <1>3, <1>5, <3>1, <3>2
  <2>2. CASE i # s
    <3>1. i \in 0..(mf + 1) /\ i + 1 \in 0..(mf + 1) /\ i + 1 # s /\ O(i) = i
      BY <1>1, <1>9, <2>2
    <3> QED
      BY <1>4, <2>2, <3>1
  <2> QED
    BY <2>1, <2>2
<1>10. ASSUME NEW i \in 1..mf, NEW j \in 1..mf, j < i, i # s - 1, j # s - 1
       PROVE  O(j) < O(i)
  BY <1>3, <1>10
<1>11. mf + 1 \in 0..(mf + 1) /\ mf + 1 # s /\ e[mf + 1] = c[mf + 1]
  <2>1. mf + 1 \in 0..(mf + 1) /\ mf + 1 # s
    BY <1>1
  <2> QED
    BY <1>4, <2>1
<1> HIDE DEF O
<1>12. ASSUME cr = 0, NEW i \in 1..mf, NEW j \in 1..mf, j < i, i # s - 1, j # s - 1, e[i + 1] < e[i]
       PROVE  e[j + 1] < e[j]
  <2>1. /\ O(i) \in 1..mf /\ O(i) # s /\ O(j) \in 1..mf /\ O(j) # s /\ O(j) < O(i)
        /\ c[O(i) + 1] < c[O(i)]
    BY <1>9, <1>10, <1>12
  <2>2. c[O(j) + 1] < c[O(j)]
    BY <1>1, <1>12, <2>1 DEF Holes
  <2> QED
    BY <1>9, <1>12, <2>2
<1>13. ASSUME cr = 0, e[mf + 1] > 0, NEW i \in 1..mf, i # s - 1
       PROVE  e[i + 1] < e[i]
  <2>1. O(i) \in 1..mf /\ O(i) # s /\ c[mf + 1] > 0
    BY <1>9, <1>11, <1>13
  <2>2. c[O(i) + 1] < c[O(i)]
    BY <1>1, <1>13, <2>1 DEF Holes
  <2> QED
    BY <1>9, <1>13, <2>2
<1>14. Holes(e, mf, s - 1, len, cr)
  BY <1>1, <1>6, <1>7, <1>8, <1>12, <1>13 DEF Holes
<1> QED
  BY <1>14 DEF e

(* File 0 moves up: the rotation is over. *)
LEMMA HolesOpen ==
    ASSUME NEW mf \in Nat, NEW len, NEW c, Falling(c, Top(mf), len), NEW cr,
           Holes(c, mf, 1, len, cr)
    PROVE  /\ c[1] < c[0]
           /\ mf # 0 => c[2] = c[1] /\ Holes([c EXCEPT ![1] = c[0]], mf, 0, len, cr)
           /\ mf = 0 => Holes([c EXCEPT ![1] = c[0], ![2] = c[1]], mf, 0, len, cr)
<1>0. c[1] < len /\ c[0] = len /\ 1 \in 1..Top(mf)
  <2>1. 1 \in 1..Top(mf)
    BY DEF Top
  <2> QED
    BY <2>1 DEF Holes
<1>1. ASSUME mf # 0 PROVE c[2] = c[1] /\ Holes([c EXCEPT ![1] = c[0]], mf, 0, len, cr)
  <2> DEFINE e == [c EXCEPT ![1] = c[0]]
  <2>1. Top(mf) = mf /\ mf \in Nat \ {0} /\ 1 \in 1..mf /\ 1 + 1 = 2
    BY <1>1 DEF Top
  <2>2. c[2] = c[1]
    BY <2>1 DEF Holes
  <2>3. c \in [0..(mf + 1) -> Nat]
    BY <2>1 DEF Falling
  <2>4. e[1] = c[0] /\ \A i \in 0..(mf + 1) : i # 1 => e[i] = c[i]
    BY <2>1, <2>3
  <2> HIDE DEF e
  <2>5. e[2] < e[1] /\ 2 \in 0..(mf + 1) /\ mf + 1 # 1 /\ mf + 1 \in 0..(mf + 1)
    BY <1>0, <2>1, <2>2, <2>4
  <2>6. ASSUME NEW i \in 1..mf, i # 1 PROVE e[i + 1] = c[i + 1] /\ e[i] = c[i]
    <3>1. i \in 0..(mf + 1) /\ i + 1 \in 0..(mf + 1) /\ i + 1 # 1
      BY <2>1
    <3> QED
      BY <2>4, <2>6, <3>1
  <2>7. ASSUME cr = 0, NEW i \in 1..mf, NEW j \in 1..mf, j < i, e[i + 1] < e[i]
        PROVE  e[j + 1] < e[j]
    <3>1. CASE j = 1
      BY <2>5, <3>1, 1 + 1 = 2
    <3>2. CASE j # 1
      <4>1. i # 1
        BY <2>7, <3>2
      <4>2. c[i + 1] < c[i]
        BY <2>6, <2>7, <4>1
      <4>3. c[j + 1] < c[j]
        BY <2>1, <2>7, <3>2, <4>1, <4>2 DEF Holes
      <4> QED
        BY <2>6, <3>2, <4>3
    <3> QED
      BY <3>1, <3>2
  <2>8. ASSUME cr = 0, e[mf + 1] > 0, NEW i \in 1..mf
        PROVE  e[i + 1] < e[i]
    <3>1. CASE i = 1
      BY <2>5, <3>1, 1 + 1 = 2
    <3>2. CASE i # 1
      <4>1. c[mf + 1] > 0
        BY <2>4, <2>5, <2>8
      <4>2. c[i + 1] < c[i]
        BY <2>1, <2>8, <3>2, <4>1 DEF Holes
      <4> QED
        BY <2>6, <3>2, <4>2
    <3> QED
      BY <3>1, <3>2
  <2>9. Holes(e, mf, 0, len, cr)
    BY <2>1, <2>7, <2>8 DEF Holes
  <2> QED
    BY <2>2, <2>9 DEF e
<1>2. ASSUME mf = 0 PROVE Holes([c EXCEPT ![1] = c[0], ![2] = c[1]], mf, 0, len, cr)
  <2> DEFINE e == [c EXCEPT ![1] = c[0], ![2] = c[1]]
  <2>1. Top(mf) = 1 /\ 1 + 1 = 2
    BY <1>2 DEF Top
  <2>2. c \in [0..(1 + 1) -> Nat]
    BY <2>1 DEF Falling
  <2>3. e[1] = c[0] /\ e[2] = c[1]
    BY <2>2
  <2> HIDE DEF e
  <2>4. e[2] < e[1]
    BY <1>0, <2>3
  <2>5. \A i \in 1..1 : e[i + 1] < e[i]
    BY <2>4
  <2>6. \A i, j \in 1..1 : ~(j < i)
    OBVIOUS
  <2>7. Holes(e, mf, 0, len, cr)
    BY <1>2, <2>1, <2>5, <2>6 DEF Holes
  <2> QED
    BY <2>7 DEF e
<1> QED
  BY <1>0, <1>1, <1>2

(* After a crash nothing is said of empty files. *)
LEMMA HolesCrash ==
    ASSUME NEW mf \in Nat, NEW len, NEW c, NEW cr \in Nat
    PROVE  Holes(c, mf, 0, len, cr + 1)
  BY DEF Holes

-----------------------------------------------------------------------------
(* The sizes of the lines of s. *)
LineSizes(s) == [i \in DOMAIN s |-> s[i].size]

(* They are numbers, none larger than the longest line. *)
LEMMA SizesAre ==
    ASSUME NEW s \in Seq(Lines)
    PROVE  LineSizes(s) \in Seq(Nat) /\ Len(LineSizes(s)) = Len(s) /\ SizeOf(s) = SumSeq(LineSizes(s))
           /\ \A i \in 1..Len(s) : LineSizes(s)[i] = s[i].size
<1>1. Len(s) \in Nat /\ DOMAIN s = 1..Len(s) /\ \A i \in 1..Len(s) : s[i] \in Lines
  BY LenProperties, ElementOfSeq
<1>2. \A i \in 1..Len(s) : s[i].size \in Nat
  BY <1>1, SinkAssumption
<1>3. LineSizes(s) = [i \in 1..Len(s) |-> s[i].size]
  BY <1>1 DEF LineSizes
<1>4. LineSizes(s) \in [1..Len(s) -> Nat]
  BY <1>2, <1>3
<1>5. LineSizes(s) \in Seq(Nat) /\ Len(LineSizes(s)) = Len(s)
  BY <1>1, <1>4, SeqDef, LenProperties
<1> QED
  BY <1>3, <1>5 DEF SizeOf, LineSizes

(* The size of lines in two parts. *)
LEMMA SizeConcat ==
    ASSUME NEW s \in Seq(Lines), NEW t \in Seq(Lines)
    PROVE  SizeOf(s) \in Nat /\ SizeOf(t) \in Nat /\ SizeOf(s \o t) = SizeOf(s) + SizeOf(t)
<1> DEFINE u == s \o t
           w == LineSizes(s) \o LineSizes(t)
<1>1. /\ LineSizes(s) \in Seq(Nat) /\ Len(LineSizes(s)) = Len(s) /\ SizeOf(s) = SumSeq(LineSizes(s))
      /\ \A i \in 1..Len(s) : LineSizes(s)[i] = s[i].size
  BY SizesAre
<1>2. /\ LineSizes(t) \in Seq(Nat) /\ Len(LineSizes(t)) = Len(t) /\ SizeOf(t) = SumSeq(LineSizes(t))
      /\ \A i \in 1..Len(t) : LineSizes(t)[i] = t[i].size
  BY SizesAre
<1>3. /\ u \in Seq(Lines) /\ Len(u) = Len(s) + Len(t)
      /\ \A i \in 1..(Len(s) + Len(t)) : u[i] = IF i <= Len(s) THEN s[i] ELSE t[i - Len(s)]
  BY ConcatProperties
<1>4. /\ w \in Seq(Nat) /\ Len(w) = Len(LineSizes(s)) + Len(LineSizes(t))
      /\ \A i \in 1..(Len(LineSizes(s)) + Len(LineSizes(t))) :
            w[i] = IF i <= Len(LineSizes(s)) THEN LineSizes(s)[i] ELSE LineSizes(t)[i - Len(LineSizes(s))]
  BY <1>1, <1>2, ConcatProperties
<1>5. Len(s) \in Nat /\ Len(t) \in Nat
  BY LenProperties
<1>6. SumSeq(LineSizes(s)) \in Nat /\ SumSeq(LineSizes(t)) \in Nat /\ SumSeq(w) = SumSeq(LineSizes(s)) + SumSeq(LineSizes(t))
  BY <1>1, <1>2, SumConcat
<1> HIDE DEF u, w
<1>7. LineSizes(u) \in Seq(Nat) /\ Len(LineSizes(u)) = Len(u) /\ SizeOf(u) = SumSeq(LineSizes(u))
      /\ \A i \in 1..Len(u) : LineSizes(u)[i] = u[i].size
  BY <1>3, SizesAre
<1>8. ASSUME NEW i \in 1..Len(u) PROVE LineSizes(u)[i] = w[i]
  <2>1. i \in 1..(Len(s) + Len(t)) /\ (i <= Len(s) => i \in 1..Len(s))
        /\ (~(i <= Len(s)) => i - Len(s) \in 1..Len(t))
    BY <1>3, <1>5
  <2>2. LineSizes(u)[i] = u[i].size
    BY <1>7
  <2>3. CASE i <= Len(s)
    BY <1>1, <1>2, <1>3, <1>4, <2>1, <2>2, <2>3
  <2>4. CASE ~(i <= Len(s))
    BY <1>1, <1>2, <1>3, <1>4, <2>1, <2>2, <2>4
  <2> QED
    BY <2>3, <2>4
<1>9. LineSizes(u) = w
  <2>1. Len(LineSizes(u)) = Len(w) /\ \A i \in 1..Len(LineSizes(u)) : LineSizes(u)[i] = w[i]
    BY <1>1, <1>2, <1>3, <1>4, <1>7, <1>8
  <2> QED
    BY <1>4, <1>7, <2>1, SeqEqual
<1> QED
  BY <1>1, <1>2, <1>6, <1>7, <1>9 DEF u

(* No lines, one line, and one more line. *)
LEMMA SizeOne ==
    /\ SizeOf(<<>>) = 0
    /\ \A s \in Seq(Lines), l \in Lines : SizeOf(Append(s, l)) = SizeOf(s) + l.size
<1>1. SizeOf(<<>>) = 0
  <2>1. <<>> \in Seq(Lines) /\ Len(<<>>) = 0
    OBVIOUS
  <2>2. LineSizes(<<>>) \in Seq(Nat) /\ Len(LineSizes(<<>>)) = 0 /\ SizeOf(<<>>) = SumSeq(LineSizes(<<>>))
    BY <2>1, SizesAre
  <2>3. LineSizes(<<>>) = <<>>
    BY <2>2, EmptySeq
  <2> QED
    BY <2>2, <2>3, SumOne
<1>2. ASSUME NEW s \in Seq(Lines), NEW l \in Lines PROVE SizeOf(Append(s, l)) = SizeOf(s) + l.size
  <2>1. <<l>> \in Seq(Lines) /\ Len(<<l>>) = 1 /\ <<l>>[1] = l /\ Append(s, l) = s \o <<l>>
    BY AppendIsConcat
  <2>2. /\ LineSizes(<<l>>) \in Seq(Nat) /\ Len(LineSizes(<<l>>)) = 1 /\ SizeOf(<<l>>) = SumSeq(LineSizes(<<l>>))
        /\ \A i \in 1..1 : LineSizes(<<l>>)[i] = <<l>>[i].size
    BY <2>1, SizesAre
  <2>3. LineSizes(<<l>>)[1] = l.size /\ l.size \in Nat
    BY <2>1, <2>2, SinkAssumption
  <2>4. LineSizes(<<l>>) = <<l.size>>
    <3>1. <<l.size>> \in Seq(Nat) /\ Len(<<l.size>>) = 1 /\ <<l.size>>[1] = l.size
      BY <2>3
    <3>2. Len(LineSizes(<<l>>)) = Len(<<l.size>>)
          /\ \A i \in 1..Len(LineSizes(<<l>>)) : LineSizes(<<l>>)[i] = <<l.size>>[i]
      BY <2>2, <2>3, <3>1
    <3> QED
      BY <2>2, <3>1, <3>2, SeqEqual
  <2>5. SizeOf(<<l>>) = l.size
    BY <2>2, <2>3, <2>4, SumOne
  <2>6. SizeOf(s \o <<l>>) = SizeOf(s) + SizeOf(<<l>>)
    BY <2>1, SizeConcat
  <2> QED
    BY <2>1, <2>5, <2>6
<1> QED
  BY <1>1, <1>2

(* The rotated files: one at least, and as many as are asked for. *)
LEMMA SlotsAre ==
    ASSUME maxFiles \in Nat
    PROVE  /\ Max({1, maxFiles}) = Top(maxFiles) /\ Slots = 0..Top(maxFiles)
           /\ Max(Slots) = Top(maxFiles) /\ Top(maxFiles) \in Nat \ {0}
<1>1. Max({1, maxFiles}) = Top(maxFiles)
  <2>1. Top(maxFiles) \in {1, maxFiles} /\ \A i \in {1, maxFiles} : Top(maxFiles) >= i
    BY DEF Top
  <2>2. \A x \in {1, maxFiles} : (\A i \in {1, maxFiles} : x >= i) => x = Top(maxFiles)
    BY <2>1
  <2> QED
    BY <2>1, <2>2 DEF Max
<1>2. Top(maxFiles) \in Nat \ {0}
  BY DEF Top
<1>3. Slots = 0..Top(maxFiles)
  BY <1>1 DEF Slots
<1>4. Max(Slots) = Top(maxFiles)
  <2> HIDE DEF Top
  <2> DEFINE T == Top(maxFiles)
  <2>1. T \in 0..T /\ \A i \in 0..T : T >= i
    BY <1>2
  <2>2. \A x \in 0..T : (\A i \in 0..T : x >= i) => x = T
    BY <2>1, <1>2
  <2> HIDE DEF T
  <2>3. Max(0..T) = T
    BY <2>1, <2>2 DEF Max
  <2> QED
    BY <1>3, <2>3 DEF T
<1> QED
  BY <1>1, <1>2, <1>3, <1>4

-----------------------------------------------------------------------------
(* What the file and the buffer of file_ hold, and what may be there after k *)
(* lines that no rotation followed.                                          *)
CurrentSize == SizeOf(files[0]) + SizeOf(buffer)
Limit(k) == MaxFileSize + k * MaxLine

SinkTypes ==
    /\ maxFiles \in Nat /\ crashes \in Nat /\ size \in Nat
    /\ files \in [0..Top(maxFiles) -> Seq(Lines)]
    /\ buffer \in Seq(Lines) /\ logged \in Seq(Lines)
    /\ step \in (0..Top(maxFiles)) \cup {maxFiles + 2}

(* The log is cut into the files. *)
Placed ==
    \E c : /\ InOrder(c, Top(maxFiles), files, buffer, logged)
           /\ Holes(c, maxFiles, step, Len(logged), crashes)

(* currentSize_ is right, so that a file that is written to has not reached  *)
(* the limit.                                                                *)
Sized ==
    /\ \A i \in 0..Top(maxFiles) : SizeOf(files[i]) < Limit(crashes + 1)
    /\ CurrentSize < Limit(crashes + 1)
    /\ open => size = CurrentSize
    /\ (open /\ step = 0) => size < Limit(crashes)

(* The inductive invariant of the file. *)
SinkInv == SinkTypes /\ Placed /\ Sized

(* The cuts as numbers. *)
LEMMA OrderFalls ==
    ASSUME NEW n \in Nat, NEW S, NEW log \in Seq(S), NEW c, NEW fs, NEW buf,
           InOrder(c, n, fs, buf, log)
    PROVE  Falling(c, n, Len(log))
  BY LenProperties DEF InOrder, Falling

(* The limit is above nothing, and grows by a line. *)
LEMMA Limits ==
    ASSUME NEW k \in Nat
    PROVE  /\ Limit(k) \in Nat /\ 0 < Limit(k) /\ MaxFileSize <= Limit(k)
           /\ Limit(k + 1) = Limit(k) + MaxLine /\ Limit(k) <= Limit(k + 1)
<1>1. MaxLine \in Nat /\ MaxFileSize \in Nat /\ 0 < MaxFileSize
  BY SinkAssumption
<1> HIDE DEF MaxLine
<1>2. k * MaxLine \in Nat /\ (k + 1) * MaxLine = k * MaxLine + MaxLine
  BY <1>1
<1> QED
  BY <1>1, <1>2 DEF Limit

(* What a step leaves alone of the sink it keeps. *)
LEMMA SinkStays ==
    ASSUME SinkInv, UNCHANGED sinkVars
    PROVE  SinkInv'
<1>1. SinkTypes'
  BY DEF SinkInv, SinkTypes, sinkVars
<1>2. Placed'
  BY DEF SinkInv, Placed, sinkVars
<1>3. Sized'
  BY DEF SinkInv, Sized, CurrentSize, sinkVars
<1> QED
  BY <1>1, <1>2, <1>3 DEF SinkInv

(* write(). *)
LEMMA SinkWrite ==
    ASSUME SinkInv, NEW l \in Lines, WriteLine(l)
    PROVE  SinkInv'
<1>1. CASE ~open
  <2>1. UNCHANGED sinkVars
    BY <1>1 DEF WriteLine, sinkVars
  <2> QED
    BY <2>1, SinkStays
<1>2. CASE open
  <2>0. /\ step = 0 /\ buffer' = Append(buffer, l) /\ size' = size + l.size
        /\ step' = IF size' < MaxFileSize THEN 0 ELSE maxFiles + 2
        /\ logged' = Append(logged, l)
        /\ UNCHANGED <<maxFiles, files, open, crashes>>
    BY <1>2 DEF WriteLine
  <2>1. SinkTypes
    BY DEF SinkInv
  <2>2. l.size \in Nat /\ l.size <= MaxLine /\ MaxLine \in Nat /\ MaxFileSize \in Nat
    BY SinkAssumption
  <2>3. Top(maxFiles) \in Nat \ {0}
    BY <2>1 DEF SinkTypes, Top
  <2>4. buffer' \in Seq(Lines) /\ logged' \in Seq(Lines) /\ Len(logged') = Len(logged) + 1
    BY <2>0, <2>1, AppendProperties DEF SinkTypes
  <2>5. SinkTypes'
    BY <2>0, <2>1, <2>2, <2>3, <2>4 DEF SinkTypes
  <2>6. Placed'
    <3>1. PICK c : /\ InOrder(c, Top(maxFiles), files, buffer, logged)
                   /\ Holes(c, maxFiles, step, Len(logged), crashes)
      BY DEF SinkInv, Placed
    <3>2. InOrder(c, Top(maxFiles), files, buffer', logged')
      BY <2>0, <2>1, <2>3, <3>1, OrderWrite DEF SinkTypes
    <3>3. Falling(c, Top(maxFiles), Len(logged))
      BY <2>1, <2>3, <3>1, OrderFalls DEF SinkTypes
    <3>4. Holes(c, maxFiles, 0, Len(logged) + 1, crashes)
          /\ Holes(c, maxFiles, maxFiles + 2, Len(logged) + 1, crashes)
      <4>1. maxFiles \in Nat /\ Holes(c, maxFiles, 0, Len(logged), crashes)
        BY <2>0, <2>1, <3>1 DEF SinkTypes
      <4> QED
        BY <3>3, <4>1, HolesWrite
    <3>5. Holes(c, maxFiles, step', Len(logged'), crashes)
      BY <2>0, <2>4, <3>4
    <3> QED
      BY <2>0, <3>2, <3>5 DEF Placed
  <2>7. Sized'
    <3>1. /\ \A i \in 0..Top(maxFiles) : SizeOf(files[i]) < Limit(crashes + 1)
          /\ size = CurrentSize /\ size < Limit(crashes)
      BY <1>2, <2>0 DEF SinkInv, Sized
    <3>2. SizeOf(buffer') = SizeOf(buffer) + l.size
      BY <2>0, <2>1, SizeOne DEF SinkTypes
    <3>3. SizeOf(files[0]) \in Nat /\ SizeOf(buffer) \in Nat
      <4>1. files[0] \in Seq(Lines) /\ buffer \in Seq(Lines)
        BY <2>1, <2>3 DEF SinkTypes
      <4> QED
        BY <4>1, SizeConcat
    <3>4. CurrentSize' = CurrentSize + l.size /\ size' = CurrentSize'
      BY <2>0, <2>2, <3>1, <3>2, <3>3 DEF CurrentSize
    <3>5. Limit(crashes) \in Nat /\ MaxFileSize <= Limit(crashes)
          /\ Limit(crashes + 1) = Limit(crashes) + MaxLine
      BY <2>1, Limits DEF SinkTypes
    <3>6. size \in Nat /\ maxFiles \in Nat /\ maxFiles + 2 # 0
      BY <2>1 DEF SinkTypes
    <3>7. size' < Limit(crashes) + MaxLine
      BY <2>0, <2>2, <3>1, <3>5, <3>6
    <3>8. CurrentSize' < Limit(crashes + 1)
      BY <3>4, <3>5, <3>7
    <3>9. step' = 0 => size' < Limit(crashes)
      BY <2>0, <2>2, <3>5, <3>6
    <3>10. crashes' = crashes /\ files' = files /\ maxFiles' = maxFiles
      BY <2>0
    <3>11. Sized' <=>
             /\ \A i \in 0..Top(maxFiles) : SizeOf(files[i]) < Limit(crashes + 1)
             /\ CurrentSize' < Limit(crashes + 1)
             /\ open' => size' = CurrentSize'
             /\ (open' /\ step' = 0) => size' < Limit(crashes)
      BY <3>10 DEF Sized
    <3> QED
      BY <3>1, <3>4, <3>8, <3>9, <3>11
  <2> QED
    BY <2>5, <2>6, <2>7 DEF SinkInv
<1> QED
  BY <1>1, <1>2

(* Nothing is buffered while files are renamed. *)
LEMMA NothingBuffered ==
    ASSUME SinkInv, step \in 1..Top(maxFiles)
    PROVE  buffer = <<>>
<1>1. PICK c : /\ InOrder(c, Top(maxFiles), files, buffer, logged)
               /\ Holes(c, maxFiles, step, Len(logged), crashes)
  BY DEF SinkInv, Placed
<1>2. c[0] = Len(logged) /\ buffer = Cut(logged, c[0], Len(logged))
  BY <1>1 DEF Holes, InOrder
<1>3. logged \in Seq(Lines)
  BY DEF SinkInv, SinkTypes
<1>4. Within(logged, Len(logged), Len(logged))
  BY <1>3, LenProperties DEF Within
<1>5. Cut(logged, Len(logged), Len(logged)) = <<>>
  BY <1>3, <1>4, CutEmpty
<1> QED
  BY <1>2, <1>5

(* The first m lines of the buffer go to file 0: together the two keep their *)
(* size.                                                                     *)
LEMMA SizeFill ==
    ASSUME SinkTypes, NEW m \in Nat, m <= Len(buffer)
    PROVE  /\ SubSeq(buffer, 1, m) \in Seq(Lines) /\ Len(SubSeq(buffer, 1, m)) = m
           /\ files[0] \o SubSeq(buffer, 1, m) \in Seq(Lines)
           /\ SubSeq(buffer, m + 1, Len(buffer)) \in Seq(Lines)
           /\ SizeOf(files[0] \o SubSeq(buffer, 1, m)) + SizeOf(SubSeq(buffer, m + 1, Len(buffer))) = CurrentSize
           /\ SizeOf(files[0] \o SubSeq(buffer, 1, m)) \in Nat
           /\ SizeOf(files[0] \o SubSeq(buffer, 1, m)) <= CurrentSize /\ CurrentSize \in Nat
<1> DEFINE p == Cut(buffer, 0, m)
           q == Cut(buffer, m, Len(buffer))
<1>1. buffer \in Seq(Lines) /\ files[0] \in Seq(Lines) /\ Len(buffer) \in Nat
  <2>1. 0 \in 0..Top(maxFiles)
    BY DEF SinkTypes, Top
  <2> QED
    BY <2>1, LenProperties DEF SinkTypes
<1>2. Within(buffer, 0, m) /\ Within(buffer, m, Len(buffer))
  BY <1>1 DEF Within
<1>3. p \in Seq(Lines) /\ CutOf(p, buffer, 0, m)
  BY <1>1, <1>2, CutProperties
<1>4. q \in Seq(Lines)
  BY <1>1, <1>2, CutProperties
<1>5. p \o q = buffer
  BY <1>1, <1>2, CutConcat, CutWhole
<1>6. SubSeq(buffer, 1, m) = p /\ SubSeq(buffer, m + 1, Len(buffer)) = q
  BY DEF Cut
<1> HIDE DEF p, q
<1>7. Len(p) = m
  BY <1>3 DEF CutOf
<1>8. SizeOf(p) \in Nat /\ SizeOf(q) \in Nat /\ SizeOf(buffer) = SizeOf(p) + SizeOf(q)
  BY <1>3, <1>4, <1>5, SizeConcat
<1>9. SizeOf(files[0]) \in Nat /\ SizeOf(files[0] \o p) = SizeOf(files[0]) + SizeOf(p)
  BY <1>1, <1>3, SizeConcat
<1>10. files[0] \o p \in Seq(Lines)
  BY <1>1, <1>3, ConcatProperties
<1>11. SizeOf(files[0] \o p) + SizeOf(q) = CurrentSize /\ SizeOf(files[0] \o p) \in Nat
       /\ SizeOf(files[0] \o p) <= CurrentSize /\ CurrentSize \in Nat
  BY <1>8, <1>9 DEF CurrentSize
<1> QED
  BY <1>3, <1>4, <1>6, <1>7, <1>10, <1>11

(* stdio writes the first m lines of its buffer. *)
LEMMA SinkFill ==
    ASSUME SinkInv, NEW m \in Nat, m <= Len(buffer), step \notin 1..Top(maxFiles),
           files' = [files EXCEPT ![0] = @ \o SubSeq(buffer, 1, m)],
           buffer' = SubSeq(buffer, m + 1, Len(buffer)),
           UNCHANGED <<maxFiles, open, size, step, logged, crashes>>
    PROVE  SinkInv'
<1>1. SinkTypes
  BY DEF SinkInv
<1>2. Top(maxFiles) \in Nat \ {0} /\ maxFiles \in Nat /\ logged \in Seq(Lines)
  BY <1>1 DEF SinkTypes, Top
<1> DEFINE f0 == files[0] \o SubSeq(buffer, 1, m)
<1>3. /\ f0 \in Seq(Lines) /\ buffer' \in Seq(Lines)
      /\ SizeOf(f0) + SizeOf(buffer') = CurrentSize
      /\ SizeOf(f0) \in Nat /\ SizeOf(f0) <= CurrentSize /\ CurrentSize \in Nat
  BY <1>1, SizeFill
<1>4. files' = [files EXCEPT ![0] = f0] /\ files \in [0..Top(maxFiles) -> Seq(Lines)]
  BY <1>1 DEF SinkTypes
<1>5. f0 = files[0] \o SubSeq(buffer, 1, m)
  OBVIOUS
<1> HIDE DEF f0
<1>6. /\ files' \in [0..Top(maxFiles) -> Seq(Lines)] /\ files'[0] = f0
      /\ \A i \in 1..Top(maxFiles) : files'[i] = files[i]
  <2>1. 0 \in 0..Top(maxFiles) /\ \A i \in 1..Top(maxFiles) : i \in 0..Top(maxFiles) /\ i # 0
    BY ONLY <1>2
  <2> QED
    BY ONLY <1>3, <1>4, <2>1
<1>7. SinkTypes'
  BY <1>1, <1>3, <1>6 DEF SinkTypes
<1>8. Placed'
  <2>1. PICK c : /\ InOrder(c, Top(maxFiles), files, buffer, logged)
                 /\ Holes(c, maxFiles, step, Len(logged), crashes)
    BY DEF SinkInv, Placed
  <2> DEFINE e == [c EXCEPT ![0] = c[0] + m]
  <2>2. InOrder(e, Top(maxFiles), files', SubSeq(buffer, m + 1, Len(buffer)), logged) /\ c[0] \in Nat
    <3>1. Filled(files', files, Top(maxFiles), buffer, m)
      BY <1>5, <1>6 DEF Filled
    <3> HIDE DEF e
    <3> QED
      BY ONLY <1>2, <2>1, <3>1, m \in Nat, OrderFill DEF e
  <2>3. Falling(c, Top(maxFiles), Len(logged))
    BY <1>2, <2>1, OrderFalls
  <2>4. Holes(e, maxFiles, step, Len(logged), crashes)
    <3>1. c[0] + m \in Nat
      BY <2>2
    <3> QED
      BY <1>2, <2>1, <2>3, <3>1, HolesFill
  <2> HIDE DEF e
  <2> QED
    BY <2>2, <2>4 DEF Placed
<1>9. Sized'
  <2>1. /\ \A i \in 0..Top(maxFiles) : SizeOf(files[i]) < Limit(crashes + 1)
        /\ CurrentSize < Limit(crashes + 1)
        /\ open => size = CurrentSize
        /\ (open /\ step = 0) => size < Limit(crashes)
    BY DEF SinkInv, Sized
  <2>2. CurrentSize' = CurrentSize
    BY <1>3, <1>6 DEF CurrentSize
  <2>3. Limit(crashes + 1) \in Nat
    <3>1. crashes + 1 \in Nat
      BY <1>1 DEF SinkTypes
    <3> QED
      BY <3>1, Limits
  <2>4. SizeOf(f0) < Limit(crashes + 1)
    BY <1>3, <2>1, <2>3
  <2>5. ASSUME NEW i \in 0..Top(maxFiles) PROVE SizeOf(files'[i]) < Limit(crashes + 1)
    <3>1. i = 0 \/ i \in 1..Top(maxFiles)
      BY <1>2
    <3> QED
      BY <1>6, <2>1, <2>4, <3>1
  <2>6. Sized' <=>
           /\ \A i \in 0..Top(maxFiles) : SizeOf(files'[i]) < Limit(crashes + 1)
           /\ CurrentSize' < Limit(crashes + 1)
           /\ open => size = CurrentSize'
           /\ (open /\ step = 0) => size < Limit(crashes)
    BY DEF Sized
  <2> QED
    BY <2>1, <2>2, <2>5, <2>6
<1> QED
  BY <1>7, <1>8, <1>9 DEF SinkInv

(* Spill and flush(). *)
LEMMA SinkSpill ==
    ASSUME SinkInv, Spill \/ Flush
    PROVE  SinkInv'
<1>0. buffer \in Seq(Lines) /\ Len(buffer) \in Nat /\ files \in [0..Top(maxFiles) -> Seq(Lines)]
      /\ 0 \in 0..Top(maxFiles)
  BY LenProperties DEF SinkInv, SinkTypes, Top
<1>1. CASE Spill
  <2>1. PICK n \in 1..Len(buffer) :
          /\ files' = [files EXCEPT ![0] = @ \o SubSeq(buffer, 1, n)]
          /\ buffer' = SubSeq(buffer, n + 1, Len(buffer))
    BY <1>1 DEF Spill
  <2>2. UNCHANGED <<maxFiles, open, size, step, logged, crashes>>
    BY <1>1 DEF Spill
  <2>3. n \in Nat /\ n <= Len(buffer) /\ Len(buffer) # 0
    BY <1>0
  <2>4. step \notin 1..Top(maxFiles)
    BY <1>0, <2>3, NothingBuffered
  <2> QED
    BY <2>1, <2>2, <2>3, <2>4, SinkFill
<1>2. CASE Flush
  <2> DEFINE n == Len(buffer)
  <2>1. SubSeq(buffer, 1, n) = buffer /\ SubSeq(buffer, n + 1, n) = <<>>
    BY <1>0
  <2>2. /\ step = 0 /\ files' = [files EXCEPT ![0] = @ \o buffer] /\ buffer' = <<>>
        /\ UNCHANGED <<maxFiles, open, size, step, logged, crashes>>
    BY <1>2 DEF Flush
  <2>3. n \in Nat /\ n <= Len(buffer)
    BY <1>0
  <2>4. files' = [files EXCEPT ![0] = @ \o SubSeq(buffer, 1, n)]
        /\ buffer' = SubSeq(buffer, n + 1, Len(buffer))
    BY <2>1, <2>2
  <2>5. step \notin 1..Top(maxFiles)
    BY <2>2
  <2> HIDE DEF n
  <2> QED
    BY <2>2, <2>3, <2>4, <2>5, SinkFill
<1> QED
  BY <1>1, <1>2

(* openFile() takes the size of what is there. *)
LEMMA Opened ==
    ASSUME NEW s \in Seq(Lines), OpenFile(s)
    PROVE  size' \in Nat /\ (open' => size' = SizeOf(s))
<1>1. SizeOf(s) \in Nat
  BY SizeConcat
<1> QED
  BY <1>1 DEF OpenFile

(* Another process takes the files over, with m of the buffered lines. *)
LEMMA SinkReopen ==
    ASSUME SinkInv, NEW m \in Nat, m <= Len(buffer),
           NEW STATE kept, kept = SubSeq(buffer, 1, m), Reopen(kept)
    PROVE  SinkInv'
<1>1. SinkTypes
  BY DEF SinkInv
<1>2. Top(maxFiles) \in Nat \ {0} /\ maxFiles \in Nat /\ logged \in Seq(Lines) /\ crashes \in Nat
  BY <1>1 DEF SinkTypes, Top
<1> DEFINE f0 == files[0] \o SubSeq(buffer, 1, m)
<1>3. /\ f0 \in Seq(Lines) /\ Len(SubSeq(buffer, 1, m)) = m
      /\ SizeOf(f0) \in Nat /\ SizeOf(f0) <= CurrentSize /\ CurrentSize \in Nat
  BY <1>1, SizeFill
<1>4. /\ files' = [files EXCEPT ![0] = f0] /\ files \in [0..Top(maxFiles) -> Seq(Lines)]
      /\ OpenFile(files'[0]) /\ buffer' = <<>> /\ step' = 0 /\ crashes' = crashes + 1
      /\ logged' = SubSeq(logged, 1, Len(logged) - Len(buffer) + m) /\ maxFiles' = maxFiles
  BY <1>1, <1>3 DEF SinkTypes, Reopen
<1>5. f0 = files[0] \o SubSeq(buffer, 1, m)
  OBVIOUS
<1> HIDE DEF f0
<1>6. /\ files' \in [0..Top(maxFiles) -> Seq(Lines)] /\ files'[0] = f0
      /\ \A i \in 1..Top(maxFiles) : files'[i] = files[i]
  <2>1. 0 \in 0..Top(maxFiles) /\ \A i \in 1..Top(maxFiles) : i \in 0..Top(maxFiles) /\ i # 0
    BY ONLY <1>2
  <2> QED
    BY ONLY <1>3, <1>4, <2>1
<1>7. size' \in Nat /\ (open' => size' = SizeOf(f0))
  BY <1>3, <1>4, <1>6, Opened
<1>8. Placed' /\ logged' \in Seq(Lines)
  <2>1. PICK c : InOrder(c, Top(maxFiles), files, buffer, logged)
    BY DEF SinkInv, Placed
  <2> DEFINE e == [c EXCEPT ![0] = c[0] + m]
  <2>2. /\ InOrder(e, Top(maxFiles), files', SubSeq(buffer, m + 1, Len(buffer)), logged)
        /\ c[0] + m = Len(logged) - Len(buffer) + m
    <3>1. Filled(files', files, Top(maxFiles), buffer, m)
      BY <1>5, <1>6 DEF Filled
    <3> HIDE DEF e
    <3> QED
      BY ONLY <1>2, <2>1, <3>1, m \in Nat, OrderFill DEF e
  <2>3. e[0] = Len(logged) - Len(buffer) + m
    <3>1. c \in [0..(Top(maxFiles) + 1) -> Nat] /\ 0 \in 0..(Top(maxFiles) + 1)
      BY <1>2, <2>1 DEF InOrder
    <3> QED
      BY <2>2, <3>1
  <2> HIDE DEF e
  <2>4. /\ SubSeq(logged, 1, e[0]) \in Seq(Lines)
        /\ InOrder(e, Top(maxFiles), files', <<>>, SubSeq(logged, 1, e[0]))
    BY ONLY <1>2, <2>2, OrderCrash
  <2>5. Holes(e, maxFiles, 0, Len(logged'), crashes + 1)
    BY <1>2, HolesCrash
  <2> QED
    BY <1>4, <2>3, <2>4, <2>5 DEF Placed
<1>9. SinkTypes'
  <2>1. buffer' \in Seq(Lines) /\ crashes' \in Nat /\ step' \in 0..Top(maxFiles)
    BY <1>2, <1>4
  <2> QED
    BY <1>2, <1>4, <1>6, <1>7, <1>8, <2>1 DEF SinkTypes
<1>10. Sized'
  <2>1. /\ \A i \in 0..Top(maxFiles) : SizeOf(files[i]) < Limit(crashes + 1)
        /\ CurrentSize < Limit(crashes + 1)
    BY DEF SinkInv, Sized
  <2>2. CurrentSize' = SizeOf(f0)
    BY <1>3, <1>4, <1>6, SizeOne DEF CurrentSize
  <2> DEFINE k == crashes + 1
  <2>3. k \in Nat /\ crashes' = k
    BY <1>2, <1>4
  <2>4. ASSUME NEW i \in 0..Top(maxFiles) PROVE SizeOf(files'[i]) \in Nat /\ SizeOf(files'[i]) < Limit(k)
    <3>1. i = 0 \/ i \in 1..Top(maxFiles)
      BY <1>2
    <3>2. files[i] \in Seq(Lines)
      BY <1>4
    <3>3. SizeOf(files[i]) \in Nat
      BY <3>2, SizeConcat
    <3>4. Limit(k) \in Nat
      BY <2>3, Limits
    <3>5. SizeOf(f0) < Limit(k)
      BY <1>3, <2>1, <3>4
    <3> QED
      BY <1>3, <1>6, <2>1, <3>1, <3>3, <3>5
  <2> HIDE DEF k
  <2>5. Limit(k) \in Nat /\ Limit(k + 1) \in Nat /\ Limit(k) <= Limit(k + 1)
    <3>1. k + 1 \in Nat
      BY <2>3
    <3> QED
      BY <2>3, <3>1, Limits
  <2>6. \A i \in 0..Top(maxFiles) : SizeOf(files'[i]) < Limit(k + 1)
    BY <2>4, <2>5
  <2>7. SizeOf(f0) < Limit(k) /\ SizeOf(f0) < Limit(k + 1)
    <3>1. 0 \in 0..Top(maxFiles)
      BY <1>2
    <3> QED
      BY <1>6, <2>4, <2>6, <3>1
  <2>8. Sized' <=>
           /\ \A i \in 0..Top(maxFiles) : SizeOf(files'[i]) < Limit(k + 1)
           /\ CurrentSize' < Limit(k + 1)
           /\ open' => size' = CurrentSize'
           /\ (open' /\ step' = 0) => size' < Limit(k)
    BY <1>4, <2>3 DEF Sized
  <2> QED
    BY <1>7, <2>2, <2>6, <2>7, <2>8
<1> QED
  BY <1>8, <1>9, <1>10 DEF SinkInv

(* rotate(): fclose() and remove(). *)
LEMMA SinkClose ==
    ASSUME SinkInv, RotateClose
    PROVE  SinkInv'
<1>1. SinkTypes
  BY DEF SinkInv
<1> DEFINE n == Top(maxFiles)
           m == Len(buffer)
           g == [files EXCEPT ![0] = files[0] \o buffer]
<1>2. /\ n \in Nat \ {0} /\ maxFiles \in Nat /\ logged \in Seq(Lines) /\ crashes \in Nat
      /\ buffer \in Seq(Lines) /\ m \in Nat /\ m <= m /\ files \in [0..n -> Seq(Lines)]
  BY <1>1, LenProperties DEF SinkTypes, Top
<1>3. SubSeq(buffer, 1, m) = buffer /\ SubSeq(buffer, m + 1, Len(buffer)) = <<>>
  BY <1>2
<1>4. /\ step = maxFiles + 2 /\ step' = n /\ open' = FALSE /\ buffer' = <<>>
      /\ files' = [i \in 0..n |-> CASE i = 0 -> files[0] \o buffer
                                    [] i > 0 /\ i = maxFiles -> <<>>
                                    [] OTHER -> files[i]]
      /\ UNCHANGED <<maxFiles, size, logged, crashes>>
  BY <1>2, SlotsAre DEF RotateClose
<1>5. /\ files[0] \o buffer \in Seq(Lines)
      /\ SizeOf(files[0] \o buffer) = CurrentSize /\ CurrentSize \in Nat
  <2>1. files[0] \in Seq(Lines)
    BY <1>2
  <2>2. SizeOf(files[0]) \in Nat /\ SizeOf(buffer) \in Nat
        /\ SizeOf(files[0] \o buffer) = SizeOf(files[0]) + SizeOf(buffer)
    BY <1>2, <2>1, SizeConcat
  <2> QED
    BY <1>2, <2>1, <2>2, ConcatProperties DEF CurrentSize
<1>6. /\ g \in [0..n -> Seq(Lines)] /\ g[0] = files[0] \o buffer
      /\ \A i \in 1..n : g[i] = files[i]
  <2>1. 0 \in 0..n /\ \A i \in 1..n : i \in 0..n /\ i # 0
    BY <1>2
  <2> QED
    BY <1>2, <1>5, <2>1
<1> HIDE DEF g
<1>7. /\ files' \in [0..n -> Seq(Lines)] /\ files'[0] = files[0] \o buffer
      /\ \A i \in 1..n : files'[i] = IF i = maxFiles THEN <<>> ELSE files[i]
  <2>1. 0 \in 0..n /\ \A i \in 1..n : i \in 0..n /\ i # 0 /\ i > 0
    BY <1>2
  <2>2. \A i \in 0..n : files'[i] = CASE i = 0 -> files[0] \o buffer
                                      [] i > 0 /\ i = maxFiles -> <<>>
                                      [] OTHER -> files[i]
    BY <1>4
  <2>3. files'[0] = files[0] \o buffer
    <3>1. files'[0] = CASE 0 = 0 -> files[0] \o buffer
                       [] 0 > 0 /\ 0 = maxFiles -> <<>>
                       [] OTHER -> files[0]
      BY ONLY <2>1, <2>2
    <3>2. ~(0 > 0)
      OBVIOUS
    <3> QED
      BY ONLY <3>1, <3>2
  <2>4. ASSUME NEW i \in 1..n PROVE files'[i] = IF i = maxFiles THEN <<>> ELSE files[i]
    <3>1. i \in 0..n /\ i # 0 /\ i > 0
      BY <2>1
    <3>2. files'[i] = CASE i = 0 -> files[0] \o buffer
                       [] i > 0 /\ i = maxFiles -> <<>>
                       [] OTHER -> files[i]
      BY <2>2, <3>1
    <3>3. CASE i = maxFiles
      BY ONLY <3>1, <3>2, <3>3
    <3>4. CASE i # maxFiles
      BY ONLY <3>1, <3>2, <3>4
    <3> QED
      BY <3>3, <3>4
  <2>5. ASSUME NEW i \in 0..n PROVE files'[i] \in Seq(Lines)
    <3>1. i = 0 \/ i \in 1..n
      BY <1>2
    <3>2. files[i] \in Seq(Lines) /\ <<>> \in Seq(Lines)
      BY <1>2
    <3>3. CASE i = 0
      BY ONLY <1>5, <2>3, <3>3
    <3>4. CASE i \in 1..n
      BY ONLY <2>4, <3>2, <3>4
    <3> QED
      BY <3>1, <3>3, <3>4
  <2>6. files' = [i \in 0..n |-> files'[i]]
    BY <1>4
  <2> QED
    BY <2>3, <2>4, <2>5, <2>6
<1>8. SinkTypes'
  <2>1. buffer' \in Seq(Lines) /\ n \in 0..n
    BY <1>2, <1>4
  <2> QED
    BY <1>1, <1>4, <1>7, <2>1 DEF SinkTypes
<1>9. Placed'
  <2>1. PICK c : /\ InOrder(c, n, files, buffer, logged)
                 /\ Holes(c, maxFiles, step, Len(logged), crashes)
    BY DEF SinkInv, Placed
  <2> DEFINE d == [c EXCEPT ![0] = c[0] + m]
  <2>2. InOrder(d, n, g, <<>>, logged) /\ c[0] + m = Len(logged) - m + m /\ c[0] \in Nat
    <3>1. Filled(g, files, n, buffer, m)
      BY <1>2, <1>3, <1>6 DEF Filled
    <3>2. n \in Nat /\ m \in Nat /\ logged \in Seq(Lines)
      BY <1>2
    <3>3. InOrder(d, n, g, SubSeq(buffer, m + 1, Len(buffer)), logged)
          /\ c[0] + m = Len(logged) - Len(buffer) + m /\ c[0] \in Nat
      <4> HIDE DEF n, m, d
      <4> QED
        BY ONLY <2>1, <3>1, <3>2, OrderFill DEF d
    <3> QED
      BY <1>3, <3>3
  <2>3. Falling(c, n, Len(logged))
    BY <1>2, <2>1, OrderFalls
  <2>4. Holes(d, maxFiles, maxFiles + 2, Len(logged), crashes)
    <3>1. c[0] + m \in Nat /\ maxFiles + 2 \notin 1..Top(maxFiles)
      BY <1>2, <2>2 DEF Top
    <3>2. Holes(c, maxFiles, maxFiles + 2, Len(logged), crashes)
      BY <1>4, <2>1
    <3> HIDE DEF m
    <3> QED
      BY <1>2, <2>3, <3>1, <3>2, HolesFill
  <2>5. d[0] = Len(logged)
    <3>1. c \in [0..(n + 1) -> Nat] /\ 0 \in 0..(n + 1) /\ Len(logged) \in Nat
      BY <1>2, <2>1, LenProperties DEF InOrder
    <3> QED
      BY <1>2, <2>2, <3>1
  <2> HIDE DEF d
  <2>6. Falling(d, n, Len(logged))
    BY <1>2, <2>2, OrderFalls
  <2>7. IF maxFiles = 0 THEN Holes(d, maxFiles, 1, Len(logged), crashes)
        ELSE Holes([d EXCEPT ![maxFiles + 1] = d[maxFiles]], maxFiles, maxFiles, Len(logged), crashes)
    BY <1>2, <2>4, <2>5, <2>6, HolesClose
  <2>8. CASE maxFiles = 0
    <3>1. n = 1
      BY <2>8 DEF Top
    <3>2. files' = g
      <4>1. ASSUME NEW i \in 0..n PROVE files'[i] = g[i]
        <5>1. i = 0 \/ i \in 1..n
          BY <1>2
        <5>2. i \in 1..n => i # maxFiles
          BY <2>8
        <5> QED
          BY ONLY <1>6, <1>7, <5>1, <5>2
      <4>2. files' = [i \in 0..n |-> files'[i]] /\ g = [i \in 0..n |-> g[i]]
        BY ONLY <1>6, <1>7
      <4> QED
        BY ONLY <4>1, <4>2, Zenon
    <3> QED
      BY <1>4, <2>2, <2>7, <2>8, <3>1, <3>2 DEF Placed
  <2>9. CASE maxFiles # 0
    <3>1. n = maxFiles
      BY <2>9 DEF Top
    <3>2. Dropped(files', g, n)
      <4>1. n \in 1..n /\ \A i \in 0..(n - 1) : i = 0 \/ (i \in 1..n /\ i # maxFiles)
        BY <1>2, <3>1
      <4> QED
        BY <1>6, <1>7, <3>1, <4>1 DEF Dropped
    <3> DEFINE e == [d EXCEPT ![n + 1] = d[n]]
    <3>3. InOrder(e, n, files', <<>>, logged)
      <4> HIDE DEF e, n
      <4> QED
        BY ONLY <1>2, <2>2, <3>2, OrderDrop DEF e
    <3>4. Holes(e, maxFiles, n, Len(logged), crashes)
      BY <2>7, <2>9, <3>1
    <3> HIDE DEF e
    <3> QED
      BY <1>4, <3>3, <3>4 DEF Placed
  <2> QED
    BY <2>8, <2>9
<1>10. Sized'
  <2>1. /\ \A i \in 0..n : SizeOf(files[i]) < Limit(crashes + 1)
        /\ CurrentSize < Limit(crashes + 1)
    BY DEF SinkInv, Sized
  <2>2. CurrentSize' = CurrentSize
    <3>1. CurrentSize' = SizeOf(files'[0]) + SizeOf(buffer')
      BY DEF CurrentSize
    <3> QED
      BY <1>4, <1>5, <1>7, <3>1, SizeOne
  <2>3. 0 < Limit(crashes + 1)
    <3>1. crashes + 1 \in Nat
      BY <1>2
    <3> QED
      BY <3>1, Limits
  <2>4. ASSUME NEW i \in 0..n PROVE SizeOf(files'[i]) < Limit(crashes + 1)
    <3>1. i = 0 \/ i \in 1..n
      BY <1>2
    <3> QED
      BY <1>5, <1>7, <2>1, <2>3, <3>1, SizeOne
  <2>5. Sized' <=>
           /\ \A i \in 0..n : SizeOf(files'[i]) < Limit(crashes + 1)
           /\ CurrentSize' < Limit(crashes + 1)
           /\ open' => size' = CurrentSize'
           /\ (open' /\ step' = 0) => size' < Limit(crashes)
    BY <1>4 DEF Sized
  <2> QED
    BY <1>4, <2>1, <2>2, <2>4, <2>5
<1> QED
  BY <1>8, <1>9, <1>10 DEF SinkInv

(* A step of rotate() that only moves files, and may open the first, keeps   *)
(* the sizes.                                                                *)
LEMMA SizedMove ==
    ASSUME SinkInv, maxFiles' = maxFiles, crashes' = crashes, buffer' = buffer,
           \A i \in 0..Top(maxFiles) :
               files'[i] = <<>> \/ \E j \in 0..Top(maxFiles) : files'[i] = files[j],
           SizeOf(files'[0]) + SizeOf(buffer) <= CurrentSize,
           SizeOf(files'[0]) \in Nat, SizeOf(buffer) \in Nat, SizeOf(files[0]) \in Nat,
           open' => size' = SizeOf(files'[0]) + SizeOf(buffer),
           (open' /\ step' = 0) => size' = 0
    PROVE  Sized'
<1>1. /\ \A i \in 0..Top(maxFiles) : SizeOf(files[i]) < Limit(crashes + 1)
      /\ CurrentSize < Limit(crashes + 1)
  BY DEF SinkInv, Sized
<1>2. Limit(crashes + 1) \in Nat /\ 0 < Limit(crashes + 1) /\ 0 < Limit(crashes)
  <2>1. crashes \in Nat /\ crashes + 1 \in Nat
    BY DEF SinkInv, SinkTypes
  <2> QED
    BY <2>1, Limits
<1>3. \A i \in 0..Top(maxFiles) : SizeOf(files'[i]) < Limit(crashes + 1)
  BY <1>1, <1>2, SizeOne
<1>4. CurrentSize' = SizeOf(files'[0]) + SizeOf(buffer) /\ CurrentSize' \in Nat /\ CurrentSize \in Nat
  BY DEF CurrentSize
<1>5. CurrentSize' < Limit(crashes + 1)
  <2>1. CurrentSize' <= CurrentSize
    BY <1>4
  <2> QED
    BY <1>1, <1>2, <1>4, <2>1
<1>6. Sized' <=>
         /\ \A i \in 0..Top(maxFiles) : SizeOf(files'[i]) < Limit(crashes + 1)
         /\ CurrentSize' < Limit(crashes + 1)
         /\ open' => size' = CurrentSize'
         /\ (open' /\ step' = 0) => size' < Limit(crashes)
  BY DEF Sized
<1> QED
  BY <1>2, <1>3, <1>4, <1>5, <1>6

(* rotate(): one of the renames of rotated files. *)
LEMMA SinkShift ==
    ASSUME SinkInv, RotateShift
    PROVE  SinkInv'
<1>1. SinkTypes
  BY DEF SinkInv
<1> DEFINE n == Top(maxFiles)
           s == step
<1>2. /\ maxFiles \in Nat /\ logged \in Seq(Lines) /\ files \in [0..n -> Seq(Lines)]
      /\ buffer \in Seq(Lines)
  BY <1>1 DEF SinkTypes
<1>3. /\ s \in 2..maxFiles /\ files' = Rename(files, s - 1, s) /\ step' = s - 1
      /\ UNCHANGED <<maxFiles, open, buffer, size, logged, crashes>>
  BY <1>1, <1>2 DEF RotateShift, SinkTypes, Top
<1>4. n = maxFiles /\ n \in Nat /\ s \in 1..n /\ s \in 0..n /\ s - 1 \in 0..n /\ s - 1 # s
      /\ 0 # s /\ 0 # s - 1 /\ 0 \in 0..n /\ s - 1 # 0
  BY <1>2, <1>3 DEF Top
<1>5. PICK c : /\ InOrder(c, n, files, buffer, logged)
               /\ Holes(c, maxFiles, s, Len(logged), crashes)
  BY DEF SinkInv, Placed
<1> HIDE DEF n, s
<1>6. c[s + 1] = c[s]
  BY <1>4, <1>5 DEF Holes
<1>7. files[s] = <<>>
  <2>1. files[s] = Cut(logged, c[s + 1], c[s]) /\ Within(logged, c[s + 1], c[s])
    BY <1>2, <1>4, <1>5, CutsWithin DEF InOrder
  <2> QED
    BY <1>2, <1>6, <2>1, CutEmpty
<1>8. Moved(files', files, n, s) /\ files' \in [0..n -> Seq(Lines)]
  <2>1. CASE files[s - 1] = <<>>
    <3>1. files' = files
      BY <1>3, <2>1 DEF Rename
    <3> QED
      BY <1>2, <1>4, <1>7, <2>1, <3>1 DEF Moved
  <2>2. CASE files[s - 1] # <<>>
    <3>1. files' = [files EXCEPT ![s] = files[s - 1], ![s - 1] = <<>>]
      BY <1>3, <2>2 DEF Rename
    <3> DEFINE r == s - 1
    <3>2. r \in 0..n /\ r # s /\ s \in 0..n /\ files' = [files EXCEPT ![s] = files[r], ![r] = <<>>]
      BY <1>4, <3>1
    <3> HIDE DEF r
    <3>3. files' \in [0..n -> Seq(Lines)]
      BY ONLY <1>2, <3>2
    <3>4. files'[s] = files[r] /\ files'[r] = <<>> /\ \A i \in 0..n : i # s /\ i # r => files'[i] = files[i]
      BY ONLY <1>2, <3>2
    <3> QED
      BY <3>3, <3>4 DEF Moved, r
  <2> QED
    BY <2>1, <2>2
<1>9. SinkTypes'
  <2>1. s - 1 \in 0..n
    BY <1>4
  <2> QED
    BY <1>1, <1>3, <1>8, <2>1 DEF SinkTypes, n
<1>10. Placed'
  <2> DEFINE e == [c EXCEPT ![s] = c[s - 1]]
  <2>1. InOrder(e, n, files', buffer, logged)
    <3> HIDE DEF e
    <3> QED
      BY ONLY <1>2, <1>4, <1>5, <1>6, <1>8, OrderShift DEF e
  <2>2. Falling(c, Top(maxFiles), Len(logged))
    BY <1>2, <1>4, <1>5, OrderFalls DEF n
  <2>3. Holes(e, maxFiles, s - 1, Len(logged), crashes)
    BY <1>2, <1>3, <1>5, <2>2, HolesShift
  <2> HIDE DEF e
  <2> QED
    BY <1>3, <2>1, <2>3 DEF Placed, n
<1>11. Sized'
  <2>1. files'[0] = files[0] /\ files[0] \in Seq(Lines)
    BY <1>2, <1>4, <1>8 DEF Moved
  <2>2. SizeOf(files[0]) \in Nat /\ SizeOf(buffer) \in Nat
    BY <1>2, <2>1, SizeConcat
  <2>3. ASSUME NEW i \in 0..Top(maxFiles)
        PROVE  files'[i] = <<>> \/ \E j \in 0..Top(maxFiles) : files'[i] = files[j]
    BY <1>4, <1>8 DEF Moved, n
  <2>4. open' => size' = CurrentSize
    BY <1>3 DEF SinkInv, Sized
  <2>5. step' # 0
    BY <1>3, <1>4
  <2>6. SizeOf(files'[0]) + SizeOf(buffer) = CurrentSize /\ CurrentSize <= CurrentSize
    BY <2>1, <2>2 DEF CurrentSize
  <2> QED
    BY <1>3, <2>1, <2>2, <2>3, <2>4, <2>5, <2>6, SizedMove
<1> QED
  BY <1>9, <1>10, <1>11 DEF SinkInv

(* rotate(): the rename of file 0, which has the line that started it all,   *)
(* and openFile().  When no rotated file is to be kept it replaces the one   *)
(* that is there.                                                            *)
LEMMA SinkOpen ==
    ASSUME SinkInv, RotateOpen
    PROVE  SinkInv'
<1>1. SinkTypes
  BY DEF SinkInv
<1> DEFINE n == Top(maxFiles)
<1>2. /\ maxFiles \in Nat /\ logged \in Seq(Lines) /\ files \in [0..n -> Seq(Lines)]
      /\ buffer \in Seq(Lines) /\ n \in Nat \ {0} /\ 0 \in 0..n /\ 1 \in 0..n /\ 1 \in 1..n
  BY <1>1 DEF SinkTypes, Top
<1>3. /\ step = 1 /\ files' = Rename(files, 0, 1) /\ OpenFile(files'[0]) /\ step' = 0
      /\ UNCHANGED <<maxFiles, buffer, logged, crashes>>
  BY DEF RotateOpen
<1>4. PICK c : /\ InOrder(c, n, files, buffer, logged)
               /\ Holes(c, maxFiles, 1, Len(logged), crashes)
  BY <1>3 DEF SinkInv, Placed
<1>5. buffer = <<>>
  BY <1>2, <1>3, NothingBuffered
<1>6. Falling(c, Top(maxFiles), Len(logged))
  BY <1>2, <1>4, OrderFalls
<1>7. /\ c[1] < c[0]
      /\ maxFiles # 0 => c[2] = c[1] /\ Holes([c EXCEPT ![1] = c[0]], maxFiles, 0, Len(logged), crashes)
      /\ maxFiles = 0 => Holes([c EXCEPT ![1] = c[0], ![2] = c[1]], maxFiles, 0, Len(logged), crashes)
  BY <1>2, <1>4, <1>6, HolesOpen
<1>8. files[0] # <<>>
  <2>1. files[0] = Cut(logged, c[0 + 1], c[0]) /\ Within(logged, c[0 + 1], c[0]) /\ 0 + 1 = 1
    <3> HIDE DEF n
    <3>1. n \in Nat /\ logged \in Seq(Lines) /\ 0 \in 0..n /\ 0 + 1 = 1
      BY <1>2
    <3>2. \A i \in 0..n : Within(logged, c[i + 1], c[i])
      BY ONLY <1>4, <3>1, CutsWithin
    <3>3. \A i \in 0..n : files[i] = Cut(logged, c[i + 1], c[i])
      BY ONLY <1>4 DEF InOrder
    <3> QED
      BY ONLY <3>1, <3>2, <3>3
  <2>2. c[1] # c[0]
    BY <1>7, <2>1 DEF Within
  <2> QED
    BY <1>2, <2>1, <2>2, CutEmpty
<1>9. /\ files' \in [0..n -> Seq(Lines)] /\ files'[1] = files[0] /\ files'[0] = <<>>
      /\ \A i \in 0..n : i # 1 /\ i # 0 => files'[i] = files[i]
  <2>1. files' = [files EXCEPT ![1] = files[0], ![0] = <<>>]
    BY <1>3, <1>8 DEF Rename
  <2> HIDE DEF n
  <2>2. /\ files \in [0..n -> Seq(Lines)] /\ 0 \in 0..n /\ 1 \in 0..n /\ 0 # 1
        /\ <<>> \in Seq(Lines) /\ files[0] \in Seq(Lines)
    BY <1>2
  <2>3. files' \in [0..n -> Seq(Lines)]
    BY ONLY <2>1, <2>2
  <2>4. files'[1] = files[0] /\ files'[0] = <<>>
    BY ONLY <2>1, <2>2
  <2>5. \A i \in 0..n : i # 1 /\ i # 0 => files'[i] = files[i]
    BY ONLY <2>1, <2>2
  <2> QED
    BY <2>3, <2>4, <2>5
<1>10. size' \in Nat /\ (open' => size' = 0)
  BY <1>2, <1>3, <1>9, Opened, SizeOne
<1>11. SinkTypes'
  <2>1. step' \in 0..n
    BY <1>2, <1>3
  <2> QED
    BY <1>1, <1>3, <1>9, <1>10, <2>1 DEF SinkTypes
<1>12. Placed'
  <2>0. c \in [0..(n + 1) -> Nat] /\ 0 \in 0..(n + 1) /\ 1 \in 0..(n + 1) /\ 2 \in 0..(n + 1)
        /\ 1 - 1 = 0 /\ 1 + 1 = 2
    BY <1>2, <1>4 DEF InOrder
  <2>1. CASE maxFiles # 0
    <3> DEFINE e == [c EXCEPT ![1] = c[0]]
    <3>1. Moved(files', files, n, 1)
      BY <1>9, <2>0 DEF Moved
    <3>2. InOrder([c EXCEPT ![1] = c[1 - 1]], n, files', buffer, logged)
      <4>1. c[1 + 1] = c[1] /\ n \in Nat /\ 1 \in 1..n
        BY <1>2, <1>7, <2>0, <2>1
      <4> HIDE DEF n
      <4> QED
        BY ONLY <1>2, <1>4, <3>1, <4>1, OrderShift
    <3>3. InOrder(e, n, files', buffer, logged)
      BY <2>0, <3>2
    <3>4. Holes(e, maxFiles, 0, Len(logged), crashes)
      BY <1>7, <2>1
    <3> HIDE DEF e
    <3> QED
      BY <1>3, <3>3, <3>4 DEF Placed
  <2>2. CASE maxFiles = 0
    <3>1. n = 1
      BY <2>2 DEF Top
    <3> HIDE DEF n
    <3> DEFINE g == [files EXCEPT ![1] = <<>>]
               d == [c EXCEPT ![n + 1] = c[n]]
               e == [c EXCEPT ![1] = c[0], ![2] = c[1]]
    <3>2. g[1] = <<>> /\ \A i \in 0..n : i # 1 => g[i] = files[i]
      BY <1>2
    <3> HIDE DEF g
    <3>3. Dropped(g, files, n)
      BY <3>1, <3>2 DEF Dropped
    <3>4. InOrder(d, n, g, buffer, logged)
      <4> HIDE DEF d
      <4> QED
        BY ONLY <1>2, <1>4, <3>3, OrderDrop DEF d
    <3>5. d[2] = c[1] /\ d[1] = c[1] /\ d[0] = c[0] /\ d \in [0..(n + 1) -> Nat]
      BY <2>0, <3>1
    <3> HIDE DEF d
    <3>6. Moved(files', g, n, 1)
      <4>1. g[0] = files[0] /\ files'[1] = g[0] /\ files'[0] = <<>>
        BY <1>2, <1>9, <3>2
      <4>2. \A i \in 0..n : ~(i # 1 /\ i # 0)
        BY <3>1
      <4> QED
        BY <2>0, <4>1, <4>2 DEF Moved
    <3>7. InOrder([d EXCEPT ![1] = d[1 - 1]], n, files', buffer, logged)
      <4>1. d[1 + 1] = d[1] /\ n \in Nat /\ 1 \in 1..n
        BY <1>2, <2>0, <3>5
      <4> QED
        BY ONLY <1>2, <3>4, <3>6, <4>1, OrderShift
    <3>8. [d EXCEPT ![1] = d[1 - 1]] = e
      <4>1. [d EXCEPT ![1] = d[1 - 1]] = [d EXCEPT ![1] = c[0]]
        BY <2>0, <3>5
      <4>2. 0..(n + 1) = {0, 1, 2}
        BY <3>1
      <4> DEFINE a == [d EXCEPT ![1] = c[0]]
      <4>3. a \in [{0, 1, 2} -> Nat] /\ a[0] = c[0] /\ a[1] = c[0] /\ a[2] = c[1]
        BY ONLY <2>0, <3>5, <4>2
      <4>4. e \in [{0, 1, 2} -> Nat] /\ e[0] = c[0] /\ e[1] = c[0] /\ e[2] = c[1]
        BY ONLY <2>0, <4>2
      <4> HIDE DEF a, e
      <4>5. \A i \in {0, 1, 2} : a[i] = e[i]
        BY ONLY <4>3, <4>4
      <4>6. a = [i \in {0, 1, 2} |-> a[i]] /\ e = [i \in {0, 1, 2} |-> e[i]]
        BY ONLY <4>3, <4>4
      <4>7. a = e
        BY ONLY <4>5, <4>6, Zenon
      <4> QED
        BY <4>1, <4>7 DEF a
    <3>9. InOrder(e, n, files', buffer, logged)
      BY ONLY <3>7, <3>8
    <3>10. Holes(e, maxFiles, 0, Len(logged), crashes)
      BY <1>7, <2>2
    <3> HIDE DEF e
    <3> QED
      BY <1>3, <3>9, <3>10 DEF Placed, n
  <2> QED
    BY <2>1, <2>2
<1>13. Sized'
  <2>1. SizeOf(files'[0]) = 0 /\ SizeOf(buffer) = 0
    BY <1>5, <1>9, SizeOne
  <2>2. SizeOf(files[0]) \in Nat
    <3>1. files[0] \in Seq(Lines)
      BY <1>2
    <3> QED
      BY <3>1, SizeConcat
  <2>3. ASSUME NEW i \in 0..Top(maxFiles)
        PROVE  files'[i] = <<>> \/ \E j \in 0..Top(maxFiles) : files'[i] = files[j]
    BY <1>2, <1>9
  <2>4. SizeOf(files'[0]) + SizeOf(buffer) <= CurrentSize /\ SizeOf(files'[0]) + SizeOf(buffer) = 0
    BY <2>1, <2>2 DEF CurrentSize
  <2>5. SizeOf(files'[0]) \in Nat /\ SizeOf(buffer) \in Nat
    BY <2>1
  <2> QED
    BY <1>3, <1>10, <2>2, <2>3, <2>4, <2>5, SizedMove
<1> QED
  BY <1>11, <1>12, <1>13 DEF SinkInv

(* The inductive invariant of the log. *)
LogInv == SinkInv /\ line \in [Threads -> Lines]

(* Every step keeps it. *)
LEMMA LogStep ==
    ASSUME LogInv, [Next]_vars
    PROVE  LogInv'
<1>0. SinkInv /\ line \in [Threads -> Lines] /\ NoLine \in Lines
      /\ [t \in Threads |-> NoLine] \in [Threads -> Lines]
  BY SinkAssumption DEF LogInv, NoLine
<1>1. ASSUME UNCHANGED sinkVars, line' \in [Threads -> Lines] PROVE LogInv'
  BY <1>0, <1>1, SinkStays DEF LogInv
<1>2. ASSUME NEW t \in Threads, NEW level \in Levels, NEW l \in Lines, LogCall(t, level, l)
      PROVE  LogInv'
  <2>1. UNCHANGED sinkVars /\ (line' = [line EXCEPT ![t] = l] \/ line' = line)
    BY <1>2 DEF LogCall
  <2> QED
    BY <1>0, <1>1, <2>1
<1>3. ASSUME NEW t \in Threads, Dispatch(t) \/ WriteConsole(t) PROVE LogInv'
  <2>1. UNCHANGED <<sinkVars, line>>
    BY <1>3 DEF Dispatch, WriteConsole
  <2> QED
    BY <1>0, <1>1, <2>1
<1>4. ASSUME NEW t \in Threads, WriteFile(t) PROVE LogInv'
  <2>1. WriteLine(line[t]) /\ line' = line /\ line[t] \in Lines
    BY <1>0, <1>4 DEF WriteFile
  <2>2. SinkInv'
    BY <1>0, <2>1, SinkWrite
  <2> QED
    BY <1>0, <2>1, <2>2 DEF LogInv
<1>5. ASSUME NEW t \in Threads, RotateFile(t) PROVE LogInv'
  <2>1. (RotateClose \/ RotateShift \/ RotateOpen) /\ line' = line
    BY <1>5 DEF RotateFile, Rotate
  <2>2. SinkInv'
    BY <1>0, <2>1, SinkClose, SinkShift, SinkOpen
  <2> QED
    BY <1>0, <2>1, <2>2 DEF LogInv
<1>6. ASSUME NEW t \in Threads, Unlock(t) PROVE LogInv'
  <2>1. UNCHANGED sinkVars /\ line' = [line EXCEPT ![t] = NoLine]
    BY <1>6 DEF Unlock
  <2> QED
    BY <1>0, <1>1, <2>1
<1>7. ASSUME NEW level \in Levels, SetLevel(level) PROVE LogInv'
  BY <1>0, <1>1, <1>7 DEF SetLevel
<1>8. ASSUME NEW level \in Levels, NEW sinks \in SinkLists, InitCall(level, sinks) PROVE LogInv'
  BY <1>0, <1>1, <1>8 DEF InitCall
<1>9. ASSUME InitSinks \/ ShutdownCall PROVE LogInv'
  BY <1>0, <1>1, <1>9 DEF InitSinks, ShutdownCall
<1>10. ASSUME ShutdownSinks PROVE LogInv'
  <2>1. (Flush \/ UNCHANGED sinkVars) /\ line' = line
    BY <1>10 DEF ShutdownSinks
  <2>2. SinkInv'
    BY <1>0, <2>1, SinkSpill, SinkStays
  <2> QED
    BY <1>0, <2>1, <2>2 DEF LogInv
<1>11. ASSUME Spills PROVE LogInv'
  <2>1. Spill /\ line' = line
    BY <1>11 DEF Spills, loggerVars
  <2>2. SinkInv'
    BY <1>0, <2>1, SinkSpill
  <2> QED
    BY <1>0, <2>1, <2>2 DEF LogInv
<1>12. ASSUME Exit \/ Crashes PROVE LogInv'
  <2>0. buffer \in Seq(Lines) /\ Len(buffer) \in Nat
    BY <1>0, LenProperties DEF SinkInv, SinkTypes
  <2>1. (Reopen(buffer) \/ Reopen(<<>>)) /\ line' = [t \in Threads |-> NoLine]
    BY <1>12 DEF Exit, Crashes, Destroy, Crash, NewProcess
  <2>2. SubSeq(buffer, 1, Len(buffer)) = buffer /\ SubSeq(buffer, 1, 0) = <<>>
    BY <2>0
  <2>3. CASE Reopen(buffer)
    <3>1. Len(buffer) <= Len(buffer)
      BY <2>0
    <3>2. SinkInv'
      BY <1>0, <2>0, <2>2, <2>3, <3>1, SinkReopen
    <3> QED
      BY <1>0, <2>1, <3>2 DEF LogInv
  <2>4. CASE Reopen(<<>>)
    <3>1. 0 \in Nat /\ 0 <= Len(buffer)
      BY <2>0
    <3>2. SinkInv'
      BY <1>0, <2>2, <2>4, <3>1, SinkReopen
    <3> QED
      BY <1>0, <2>1, <3>2 DEF LogInv
  <2> QED
    BY <2>1, <2>3, <2>4
<1>13. CASE UNCHANGED vars
  BY <1>0, <1>1, <1>13 DEF vars, loggerVars
<1>14. CASE Done
  BY <1>13, <1>14 DEF Done
<1> QED
  BY <1>2, <1>3, <1>4, <1>5, <1>6, <1>7, <1>8, <1>9, <1>10, <1>11, <1>12, <1>13, <1>14 DEF Next

(* The empty log of the first process. *)
LEMMA LogInit ==
    ASSUME Init
    PROVE  LogInv
<1>1. /\ maxFiles \in MaxFilesChoices /\ files = [i \in Slots |-> <<>>]
      /\ open = TRUE /\ buffer = <<>> /\ size = 0 /\ step = 0 /\ logged = <<>> /\ crashes = 0
  BY DEF Init, SinkInit
<1>2. maxFiles \in Nat
  BY <1>1, SinkAssumption
<1> DEFINE n == Top(maxFiles)
<1>3. Slots = 0..n /\ n \in Nat \ {0}
  BY <1>2, SlotsAre
<1>4. SinkTypes
  <2>1. <<>> \in Seq(Lines) /\ 0 \in 0..n /\ files \in [0..n -> Seq(Lines)]
    BY <1>1, <1>3
  <2> QED
    BY <1>1, <1>2, <2>1 DEF SinkTypes
<1>5. Placed
  <2> DEFINE c == [i \in 0..(n + 1) |-> 0]
  <2>1. Len(<<>>) = 0 /\ <<>> \in Seq(Lines) /\ Within(<<>>, 0, 0)
    BY DEF Within
  <2>2. Cut(<<>>, 0, 0) = <<>>
    <3>1. SubSeq(<<>>, 0 + 1, 0) = <<>>
      OBVIOUS
    <3> QED
      BY <3>1 DEF Cut
  <2>3. c \in [0..(n + 1) -> Nat] /\ c[0] = 0 /\ c[n + 1] = 0 /\ c[1] = 0
    BY <1>3
  <2>4. ASSUME NEW i \in 0..n PROVE c[i + 1] = 0 /\ c[i] = 0 /\ files[i] = <<>>
    BY <1>1, <1>3
  <2> HIDE DEF c
  <2>5. InOrder(c, n, files, buffer, logged)
    BY <1>1, <2>1, <2>2, <2>3, <2>4 DEF InOrder
  <2>6. \A i \in 1..n : i \in 0..n
    BY <1>3
  <2>7. Holes(c, maxFiles, step, Len(logged), crashes)
    <3>1. step = 0 /\ step \notin 1..Top(maxFiles) /\ step \notin 1..maxFiles
      BY <1>1
    <3>2. \A i, j \in 1..Top(maxFiles) : ~(c[i + 1] < c[i])
      BY <2>4, <2>6
    <3>3. ~(c[Top(maxFiles) + 1] > 0)
      BY <2>3
    <3> QED
      BY <3>1, <3>2, <3>3 DEF Holes
  <2> QED
    BY <2>5, <2>7 DEF Placed
<1>6. Sized
  <2>1. \A i \in 0..n : files[i] = <<>>
    BY <1>1, <1>3
  <2>2. 0 \in 0..n
    BY <1>3
  <2>3. CurrentSize = 0 /\ \A i \in 0..n : SizeOf(files[i]) = 0
    BY <1>1, <2>1, <2>2, SizeOne DEF CurrentSize
  <2>4. 0 < Limit(0) /\ 0 < Limit(0 + 1)
    <3>1. 0 \in Nat /\ 0 + 1 \in Nat
      OBVIOUS
    <3> QED
      BY <3>1, Limits
  <2> QED
    BY <1>1, <2>3, <2>4 DEF Sized
<1>7. line \in [Threads -> Lines]
  <2>1. NoLine \in Lines /\ line = [t \in Threads |-> NoLine]
    BY SinkAssumption DEF Init, NoLine
  <2> QED
    BY <2>1
<1> QED
  BY <1>4, <1>5, <1>6, <1>7 DEF LogInv, SinkInv

(* However many lines and files there are, and wherever the process ends:    *)
(* the files and the buffer hold the latest lines in order and without a gap,*)
(* a process gives lines up only for a full set of rotated files, and no     *)
(* file outgrows the limit by a line more than there were crashes.           *)
THEOREM LogInOrder == Spec => []LogContiguous
<1>1. Init => LogInv
  BY LogInit
<1>2. LogInv /\ [Next]_vars => LogInv'
  BY LogStep
<1>3. LogInv => LogContiguous
  <2> SUFFICES ASSUME LogInv PROVE LogContiguous
    OBVIOUS
  <2> DEFINE n == Top(maxFiles)
             len == Len(logged)
  <2>1. SinkTypes /\ Placed /\ Sized
    BY DEF LogInv, SinkInv
  <2>2. /\ n \in Nat \ {0} /\ Slots = 0..n /\ Max(Slots) = n /\ logged \in Seq(Lines) /\ len \in Nat
        /\ maxFiles \in Nat
    BY <2>1, SlotsAre, LenProperties DEF SinkTypes
  <2>3. PICK c : /\ InOrder(c, n, files, buffer, logged)
                 /\ Holes(c, maxFiles, step, len, crashes)
    BY <2>1 DEF Placed
  <2>4. c \in [0..(n + 1) -> Nat]
    BY <2>3 DEF InOrder
  <2> HIDE DEF n, len
  <2> DEFINE a == c[n + 1]
  <2>5. Log = Cut(logged, a, len)
    <3>1. n \in Nat
      BY <2>2
    <3>2. FlattenSeq([i \in 1..(n + 1) |-> files[n + 1 - i]]) \o buffer = Cut(logged, c[n + 1], Len(logged))
      BY <2>2, <2>3, <3>1, LogIs
    <3> QED
      BY <2>2, <3>2 DEF Log, len
  <2>6. Within(logged, a, len) /\ \A i \in 0..n : Within(logged, c[i + 1], c[i])
    <3>1. Within(logged, c[n + 1], c[0]) /\ Within(logged, c[0], len)
          /\ \A i \in 0..n : Within(logged, c[i + 1], c[i])
      <4>1. n + 1 \in 0..(n + 1) /\ n \in Nat
        BY <2>2
      <4> QED
        BY <2>2, <2>3, <4>1, CutsWithin DEF len
    <3> QED
      BY <3>1 DEF Within
  <2> HIDE DEF a
  <2>7. Log \in Seq(Lines) /\ CutOf(Log, logged, a, len)
    BY <2>2, <2>5, <2>6, CutProperties
  <2>8. IsSuffix(Log, logged)
    <3>1. Len(Log) = len - a /\ a \in Nat /\ a <= len
      BY <2>6, <2>7 DEF CutOf, Within
    <3>2. len - Len(Log) = a /\ Len(Log) <= len
      BY <2>2, <3>1
    <3>3. \A i \in 1..Len(Log) : Log[i] = logged[len - Len(Log) + i]
      BY <2>7, <3>1, <3>2 DEF CutOf
    <3> QED
      BY <2>2, <2>7, <3>2, <3>3, SuffixIs DEF len
  <2>9. ASSUME crashes = 0, step = 0, Log # logged PROVE \A i \in Slots \ {0} : files[i] # <<>>
    <3>1. a # 0
      BY <2>2, <2>5, <2>9, CutWhole DEF len
    <3>2. c[Top(maxFiles) + 1] > 0
      <4>1. a > 0
        BY <2>6, <3>1 DEF Within
      <4> QED
        BY <4>1 DEF a, n
    <3>3. \A i \in 1..n : c[i + 1] < c[i]
      <4>1. \A i \in 1..n : i # step
        BY <2>2, <2>9
      <4> QED
        BY <2>3, <2>9, <3>2, <4>1 DEF Holes, n
    <3>4. ASSUME NEW i \in Slots \ {0} PROVE files[i] # <<>>
      <4>1. i \in 1..n /\ i \in 0..n
        BY <2>2
      <4>2. files[i] = Cut(logged, c[i + 1], c[i]) /\ Within(logged, c[i + 1], c[i])
        BY <2>3, <2>6, <4>1 DEF InOrder
      <4>3. c[i + 1] # c[i]
        BY <3>3, <4>1, <4>2 DEF Within
      <4> QED
        BY <2>2, <4>2, <4>3, CutEmpty
    <3> QED
      BY <3>4
  <2>10. \A i \in Slots : SizeOf(files[i]) < MaxFileSize + (crashes + 1) * MaxLine
    BY <2>1, <2>2 DEF Sized, Limit, n
  <2> QED
    BY <2>8, <2>9, <2>10 DEF LogContiguous
<1> QED
  BY <1>1, <1>2, <1>3, PTL DEF Spec

-----------------------------------------------------------------------------
Kinds == {"file", "console"}
Works == {"file", "console", "rotate"}

(* The sink a thread is busy with. *)
Sink(w) == IF w = "rotate" THEN "file" ELSE w

(* s, as sinks, is what is left of the sinks of g. *)
RestOf(s, g) ==
    /\ Len(s) <= Len(g)
    /\ \A i \in 1..Len(s) : Sink(s[i]) = g[Len(g) - Len(s) + i]

Data ==
    /\ gSinks \in Seq(Kinds) /\ next \in Seq(Kinds)
    /\ pc \in [Threads -> {"idle", "dispatch", "write"}]
    /\ todo \in [Threads -> Seq(Works)]

(* A thread under the shared lock has yet to write the last of the sinks. *)
Iterating == \A t \in Threads : pc[t] = "write" => RestOf(todo[t], gSinks)

(* After shutdown() there are no sinks. *)
Emptied == main = "down" => gSinks = <<>>

(* The sinks shutdown() has released were flushed. *)
Flushed == (main = "down" /\ "file" \in Range(next)) => (buffer = <<>> /\ step = 0)

(* The inductive invariant: once there are no sinks, no thread has one left  *)
(* to write to, so nothing is written to the file after its flush.           *)
Inv == Data /\ Iterating /\ Emptied /\ Flushed

(* A thread that starts has all the sinks left. *)
LEMMA RestAll ==
    ASSUME NEW g \in Seq(Kinds)
    PROVE  RestOf(g, g) /\ g \in Seq(Works)
<1>1. Len(g) \in Nat /\ \A i \in 1..Len(g) : g[i] \in Kinds
  BY LenProperties, ElementOfSeq
<1>2. \A i \in 1..Len(g) : Sink(g[i]) = g[i]
  BY <1>1 DEF Sink, Kinds
<1>3. \A i \in 1..Len(g) : Len(g) - Len(g) + i = i
  BY <1>1
<1>4. g \in Seq(Works)
  BY <1>1 DEF Kinds, Works
<1> QED
  BY <1>1, <1>2, <1>3, <1>4 DEF RestOf

(* One that is done with a sink has the others left. *)
LEMMA RestTail ==
    ASSUME NEW g \in Seq(Kinds), NEW s \in Seq(Works), s # <<>>, RestOf(s, g)
    PROVE  RestOf(Tail(s), g) /\ Tail(s) \in Seq(Works)
<1>1. Len(g) \in Nat /\ Len(s) \in Nat /\ Len(s) >= 1
  BY LenProperties, EmptySeq
<1>2. Tail(s) \in Seq(Works) /\ Len(Tail(s)) = Len(s) - 1
      /\ \A i \in 1..Len(Tail(s)) : Tail(s)[i] = s[i + 1]
  BY HeadTailProperties
<1>3. ASSUME NEW i \in 1..Len(Tail(s))
      PROVE  Sink(Tail(s)[i]) = g[Len(g) - Len(Tail(s)) + i]
  <2>1. i + 1 \in 1..Len(s) /\ Len(g) - Len(Tail(s)) + i = Len(g) - Len(s) + (i + 1)
    BY <1>1, <1>2
  <2> QED
    BY <1>2, <2>1 DEF RestOf
<1>4. Len(Tail(s)) <= Len(g)
  BY <1>1, <1>2 DEF RestOf
<1> QED
  BY <1>2, <1>3, <1>4 DEF RestOf

(* One that turns to the rotation is still at the file. *)
LEMMA RestRotate ==
    ASSUME NEW g \in Seq(Kinds), NEW s \in Seq(Works), s # <<>>, Head(s) = "file", RestOf(s, g)
    PROVE  RestOf(<<"rotate">> \o Tail(s), g) /\ <<"rotate">> \o Tail(s) \in Seq(Works)
<1> DEFINE r == <<"rotate">> \o Tail(s)
<1>1. Len(g) \in Nat /\ Len(s) \in Nat /\ Len(s) >= 1
  BY LenProperties, EmptySeq
<1>2. Tail(s) \in Seq(Works) /\ Len(Tail(s)) = Len(s) - 1
      /\ \A i \in 1..Len(Tail(s)) : Tail(s)[i] = s[i + 1]
  BY HeadTailProperties
<1>3. <<"rotate">> \in Seq(Works) /\ Len(<<"rotate">>) = 1 /\ <<"rotate">>[1] = "rotate"
  BY DEF Works
<1>4. r \in Seq(Works) /\ Len(r) = 1 + Len(Tail(s))
      /\ \A i \in 1..(1 + Len(Tail(s))) :
            r[i] = IF i <= 1 THEN <<"rotate">>[i] ELSE Tail(s)[i - 1]
  BY <1>2, <1>3, ConcatProperties
<1> HIDE DEF r
<1>5. Len(r) = Len(s)
  BY <1>1, <1>2, <1>4
<1>6. ASSUME NEW i \in 1..Len(s) PROVE Sink(r[i]) = Sink(s[i])
  <2>1. i \in 1..(1 + Len(Tail(s)))
    BY <1>1, <1>2
  <2>2. CASE i = 1
    <3>1. s[1] = "file"
      BY <1>1
    <3>2. r[1] = "rotate"
      BY <1>3, <1>4, <2>1, <2>2
    <3> QED
      BY <2>2, <3>1, <3>2 DEF Sink
  <2>3. CASE i # 1
    <3>1. ~(i <= 1) /\ i - 1 \in 1..Len(Tail(s)) /\ (i - 1) + 1 = i
      BY <1>1, <1>2, <2>3
    <3> QED
      BY <1>2, <1>4, <2>1, <3>1
  <2> QED
    BY <2>2, <2>3
<1> QED
  BY <1>4, <1>5, <1>6 DEF RestOf, r

(* With no sinks there is nothing left. *)
LEMMA RestOfNone ==
    ASSUME NEW s \in Seq(Works), RestOf(s, <<>>)
    PROVE  s = <<>>
<1>1. Len(s) \in Nat /\ Len(s) <= 0
  BY LenProperties DEF RestOf
<1> QED
  BY <1>1, EmptySeq

(* What is left is a suffix, as the run has it. *)
LEMMA RestIsSuffix ==
    ASSUME NEW g \in Seq(Kinds), NEW s \in Seq(Works), RestOf(s, g)
    PROVE  IsSuffix([i \in 1..Len(s) |-> IF s[i] = "rotate" THEN "file" ELSE s[i]], g)
<1> DEFINE u == [i \in 1..Len(s) |-> Sink(s[i])]
           n == Len(s)
<1>1. Len(g) \in Nat /\ n \in Nat /\ n <= Len(g)
  BY LenProperties DEF RestOf
<1>2. \A i \in 1..n : Sink(s[i]) \in Works
  BY ElementOfSeq DEF Sink, Works
<1>3. u \in Seq(Works) /\ Len(u) = n /\ g \in Seq(Works)
  BY <1>1, <1>2, RestAll
<1>4. \A i \in 1..n : u[i] = g[Len(g) - n + i]
  BY DEF RestOf
<1>5. IsSuffix(u, g)
  <2> HIDE DEF u, n
  <2> QED
    BY <1>1, <1>3, <1>4, SuffixIs
<1> QED
  BY <1>5 DEF Sink

(* A thread that writes has a sink, so shutdown() has not returned. *)
LEMMA WriterBeforeShutdown ==
    ASSUME Inv, NEW t \in Threads, pc[t] = "write", todo[t] # <<>>
    PROVE  main # "down"
<1> SUFFICES ASSUME main = "down" PROVE FALSE
  OBVIOUS
<1>1. gSinks = <<>> /\ todo[t] \in Seq(Works) /\ RestOf(todo[t], gSinks)
  BY DEF Inv, Data, Emptied, Iterating
<1> QED
  BY <1>1, RestOfNone

(* A thread goes on to what is left of its sinks. *)
LEMMA NextIsRest ==
    ASSUME Inv, NEW t \in Threads, NEW r \in Seq(Works), RestOf(r, gSinks),
           todo' = [todo EXCEPT ![t] = r],
           UNCHANGED <<gSinks, main, next, pc>>
    PROVE  Data' /\ Iterating' /\ Emptied'
<1>1. todo \in [Threads -> Seq(Works)] /\ Iterating /\ Emptied /\ Data
  BY DEF Inv, Data
<1>2. todo' \in [Threads -> Seq(Works)]
  BY <1>1
<1>3. \A u \in Threads : todo'[u] = IF u = t THEN r ELSE todo[u]
  BY <1>1
<1>4. Data'
  BY <1>1, <1>2 DEF Data
<1>5. Iterating'
  BY <1>1, <1>3 DEF Iterating, RestOf
<1>6. Emptied'
  BY <1>1 DEF Emptied
<1> QED
  BY <1>4, <1>5, <1>6

(* Every step keeps the invariant. *)
LEMMA InvStep ==
    ASSUME Inv, [Next]_vars
    PROVE  Inv'
<1>0. /\ gSinks \in Seq(Kinds) /\ next \in Seq(Kinds)
      /\ pc \in [Threads -> {"idle", "dispatch", "write"}]
      /\ todo \in [Threads -> Seq(Works)]
      /\ Iterating /\ Emptied /\ Flushed
  BY DEF Inv, Data
<1>1. ASSUME NEW t \in Threads, NEW level \in Levels, NEW l \in Lines, LogCall(t, level, l)
      PROVE  Inv'
  <2>1. /\ pc[t] = "idle"
        /\ pc' = [pc EXCEPT ![t] = "dispatch"] \/ pc' = pc
        /\ UNCHANGED <<sinkVars, gSinks, main, next, todo>>
    BY <1>1 DEF LogCall
  <2>2. pc' \in [Threads -> {"idle", "dispatch", "write"}]
        /\ \A u \in Threads : pc'[u] = "write" => pc[u] = "write"
    BY <1>0, <2>1
  <2>3. Data' /\ Iterating'
    BY <1>0, <2>1, <2>2 DEF Data, Iterating
  <2>4. Emptied' /\ Flushed'
    BY <2>1 DEF Inv, Emptied, Flushed, sinkVars
  <2> QED
    BY <2>3, <2>4 DEF Inv
<1>2. ASSUME NEW t \in Threads, Dispatch(t) PROVE Inv'
  <2>1. /\ pc' = [pc EXCEPT ![t] = "write"] /\ todo' = [todo EXCEPT ![t] = gSinks]
        /\ UNCHANGED <<sinkVars, gSinks, main, next>>
    BY <1>2 DEF Dispatch
  <2>2. RestOf(gSinks, gSinks) /\ gSinks \in Seq(Works)
    BY <1>0, RestAll
  <2>3. /\ pc' \in [Threads -> {"idle", "dispatch", "write"}]
        /\ todo' \in [Threads -> Seq(Works)]
    BY <1>0, <2>1, <2>2
  <2>4. \A u \in Threads : /\ u # t => pc'[u] = pc[u] /\ todo'[u] = todo[u]
                           /\ u = t => todo'[u] = gSinks
    BY <1>0, <2>1
  <2>5. Data'
    BY <1>0, <2>1, <2>3 DEF Data
  <2>6. Iterating'
    BY <1>0, <2>1, <2>2, <2>4 DEF Iterating
  <2>7. Emptied' /\ Flushed'
    BY <2>1 DEF Inv, Emptied, Flushed, sinkVars
  <2> QED
    BY <2>5, <2>6, <2>7 DEF Inv
<1>3. ASSUME NEW t \in Threads, WriteFile(t) PROVE Inv'
  <2>1. /\ pc[t] = "write" /\ todo[t] # <<>> /\ Head(todo[t]) = "file"
        /\ UNCHANGED <<gSinks, main, next, pc>>
        /\ todo' = [todo EXCEPT ![t] =
              IF step' = 0 THEN Tail(todo[t]) ELSE <<"rotate">> \o Tail(todo[t])]
    BY <1>3 DEF WriteFile
  <2>2. todo[t] \in Seq(Works) /\ RestOf(todo[t], gSinks)
    BY <1>0, <2>1 DEF Iterating
  <2>3. /\ RestOf(Tail(todo[t]), gSinks) /\ Tail(todo[t]) \in Seq(Works)
        /\ RestOf(<<"rotate">> \o Tail(todo[t]), gSinks)
        /\ <<"rotate">> \o Tail(todo[t]) \in Seq(Works)
    BY <1>0, <2>1, <2>2, RestTail, RestRotate
  <2>4. Data' /\ Iterating' /\ Emptied'
    <3>1. CASE step' = 0
      BY <2>1, <2>3, <3>1, NextIsRest
    <3>2. CASE step' # 0
      BY <2>1, <2>3, <3>2, NextIsRest
    <3> QED
      BY <3>1, <3>2
  <2>5. Flushed'
    BY <2>1, WriterBeforeShutdown DEF Flushed
  <2> QED
    BY <2>4, <2>5 DEF Inv
<1>4. ASSUME NEW t \in Threads, RotateFile(t) PROVE Inv'
  <2>1. /\ pc[t] = "write" /\ todo[t] # <<>>
        /\ UNCHANGED <<gSinks, main, next, pc>>
        /\ todo' = [todo EXCEPT ![t] = IF step' = 0 THEN Tail(todo[t]) ELSE todo[t]]
    BY <1>4 DEF RotateFile
  <2>2. todo[t] \in Seq(Works) /\ RestOf(todo[t], gSinks)
    BY <1>0, <2>1 DEF Iterating
  <2>3. RestOf(Tail(todo[t]), gSinks) /\ Tail(todo[t]) \in Seq(Works)
    BY <1>0, <2>1, <2>2, RestTail
  <2>4. Data' /\ Iterating' /\ Emptied'
    <3>1. CASE step' = 0
      BY <2>1, <2>3, <3>1, NextIsRest
    <3>2. CASE step' # 0
      BY <2>1, <2>2, <3>2, NextIsRest
    <3> QED
      BY <3>1, <3>2
  <2>5. Flushed'
    BY <2>1, WriterBeforeShutdown DEF Flushed
  <2> QED
    BY <2>4, <2>5 DEF Inv
<1>5. ASSUME NEW t \in Threads, WriteConsole(t) PROVE Inv'
  <2>1. /\ pc[t] = "write" /\ todo[t] # <<>>
        /\ UNCHANGED <<sinkVars, gSinks, main, next, pc>>
        /\ todo' = [todo EXCEPT ![t] = Tail(todo[t])]
    BY <1>5 DEF WriteConsole
  <2>2. todo[t] \in Seq(Works) /\ RestOf(todo[t], gSinks)
    BY <1>0, <2>1 DEF Iterating
  <2>3. RestOf(Tail(todo[t]), gSinks) /\ Tail(todo[t]) \in Seq(Works)
    BY <1>0, <2>1, <2>2, RestTail
  <2>4. Data' /\ Iterating'
    BY <2>1, <2>3, NextIsRest
  <2>5. Emptied' /\ Flushed'
    BY <2>1 DEF Inv, Emptied, Flushed, sinkVars
  <2> QED
    BY <2>4, <2>5 DEF Inv
<1>6. ASSUME NEW t \in Threads, Unlock(t) PROVE Inv'
  <2>1. /\ pc' = [pc EXCEPT ![t] = "idle"]
        /\ UNCHANGED <<sinkVars, gSinks, main, next, todo>>
    BY <1>6 DEF Unlock
  <2>2. pc' \in [Threads -> {"idle", "dispatch", "write"}]
        /\ \A u \in Threads : pc'[u] = "write" => pc[u] = "write"
    BY <1>0, <2>1
  <2>3. Data' /\ Iterating'
    BY <1>0, <2>1, <2>2 DEF Data, Iterating
  <2>4. Emptied' /\ Flushed'
    BY <2>1 DEF Inv, Emptied, Flushed, sinkVars
  <2> QED
    BY <2>3, <2>4 DEF Inv
<1>7. ASSUME UNCHANGED <<sinkVars, gSinks, main, next, pc, todo>> PROVE Inv'
  <2>1. UNCHANGED <<sinkVars, gSinks, main, next, pc, todo>>
    BY <1>7
  <2>2. Data' /\ Iterating'
    BY <1>0, <2>1 DEF Data, Iterating
  <2>3. Emptied' /\ Flushed'
    BY <2>1 DEF Inv, Emptied, Flushed, sinkVars
  <2> QED
    BY <2>2, <2>3 DEF Inv
<1>8. ASSUME NEW level \in Levels, SetLevel(level) PROVE Inv'
  BY <1>7, <1>8 DEF SetLevel
<1>9. ASSUME NEW level \in Levels, NEW sinks \in SinkLists, InitCall(level, sinks) PROVE Inv'
  <2>1. main' = "init" /\ next' = sinks /\ UNCHANGED <<gSinks, pc, todo>>
    BY <1>9 DEF InitCall
  <2>2. sinks \in Seq(Kinds)
    <3>1. sinks = <<"file", "console">> \/ sinks = <<"console">>
      BY DEF SinkLists
    <3>2. <<"file", "console">> \in Seq(Kinds) /\ <<"console">> \in Seq(Kinds)
      BY DEF Kinds
    <3> QED
      BY <3>1, <3>2
  <2>3. Data' /\ Iterating'
    BY <1>0, <2>1, <2>2 DEF Data, Iterating
  <2> QED
    BY <2>1, <2>3 DEF Inv, Emptied, Flushed
<1>10. CASE InitSinks
  <2>1. gSinks' = next /\ main' = "run" /\ UNCHANGED <<next, pc, todo>> /\ Readers = {}
    BY <1>10 DEF InitSinks
  <2>2. Data'
    BY <1>0, <2>1 DEF Data
  <2>3. Iterating'
    BY <2>1 DEF Iterating, Readers
  <2> QED
    BY <2>1, <2>2, <2>3 DEF Inv, Emptied, Flushed
<1>11. CASE ShutdownCall
  <2>1. main' = "shutdown" /\ UNCHANGED <<gSinks, next, pc, todo>>
    BY <1>11 DEF ShutdownCall
  <2>2. Data' /\ Iterating'
    BY <1>0, <2>1 DEF Data, Iterating
  <2> QED
    BY <2>1, <2>2 DEF Inv, Emptied, Flushed
<1>12. CASE ShutdownSinks
  <2>1. /\ gSinks' = <<>> /\ next' = gSinks /\ main' = "down" /\ Readers = {}
        /\ UNCHANGED <<pc, todo>>
        /\ "file" \in Range(gSinks) => Flush
    BY <1>12 DEF ShutdownSinks
  <2>2. gSinks' \in Seq(Kinds)
    BY <2>1
  <2>3. Data'
    BY <1>0, <2>1, <2>2 DEF Data
  <2>4. Iterating'
    BY <2>1 DEF Iterating, Readers
  <2>5. Emptied'
    BY <2>1 DEF Emptied
  <2>6. Flush => buffer' = <<>> /\ step' = 0
    BY DEF Flush
  <2>7. Range(next') = Range(gSinks)
    BY <2>1
  <2>8. Flushed'
    BY <2>1, <2>6, <2>7 DEF Flushed, Range
  <2> QED
    BY <2>3, <2>4, <2>5, <2>8 DEF Inv
<1>13. ASSUME NewProcess PROVE Inv'
  <2>1. /\ gSinks' = <<"file", "console">> /\ main' = "run" /\ next' = <<>>
        /\ pc' = [t \in Threads |-> "idle"] /\ todo' = [t \in Threads |-> <<>>]
    BY <1>13 DEF NewProcess
  <2>2. gSinks' \in Seq(Kinds) /\ next' \in Seq(Kinds) /\ <<>> \in Seq(Works)
    BY <2>1 DEF Kinds
  <2>3. /\ pc' \in [Threads -> {"idle", "dispatch", "write"}]
        /\ todo' \in [Threads -> Seq(Works)]
        /\ \A t \in Threads : pc'[t] # "write"
    BY <2>1, <2>2
  <2>4. Data' /\ Iterating'
    BY <2>2, <2>3 DEF Data, Iterating
  <2> QED
    BY <2>1, <2>4 DEF Inv, Emptied, Flushed
<1>14. CASE Exit \/ Crashes
  BY <1>13, <1>14 DEF Exit, Crashes
<1>15. CASE Spills
  <2>1. UNCHANGED <<gSinks, main, next, pc, todo>> /\ buffer # <<>>
    <3>1. Spill /\ UNCHANGED loggerVars
      BY <1>15 DEF Spills
    <3>2. PICK n \in 1..Len(buffer) : TRUE
      BY <3>1 DEF Spill
    <3> QED
      BY <3>1, <3>2 DEF loggerVars
  <2>2. Data' /\ Iterating' /\ Emptied'
    BY <1>0, <2>1 DEF Data, Iterating, Emptied
  <2>3. ~(main = "down" /\ "file" \in Range(next))
    BY <1>0, <2>1 DEF Flushed
  <2>4. Flushed'
    BY <2>1, <2>3 DEF Flushed, Range
  <2> QED
    BY <2>2, <2>4 DEF Inv
<1>16. CASE UNCHANGED vars
  BY <1>7, <1>16 DEF vars, loggerVars
<1>17. CASE Done
  BY <1>16, <1>17 DEF Done
<1> QED
  BY <1>1, <1>2, <1>3, <1>4, <1>5, <1>6, <1>8, <1>9, <1>10, <1>11, <1>12, <1>14, <1>15,
     <1>16, <1>17 DEF Next

(* The sinks a thread iterates over under the shared lock are never taken    *)
(* from under it, and what any thread had written to the file is on disk     *)
(* when shutdown() has returned, with no rotation half done and nobody left  *)
(* to write: init(), shutdown(), crashes and restarts included.              *)
THEOREM ShutdownKeepsLines == Spec => []ShutdownFlushes
<1>1. Init => Inv
  <2> SUFFICES ASSUME Init PROVE Inv
    OBVIOUS
  <2>1. /\ gSinks = <<"file", "console">> /\ main = "run" /\ next = <<>>
        /\ pc = [t \in Threads |-> "idle"] /\ todo = [t \in Threads |-> <<>>]
    BY DEF Init
  <2>2. gSinks \in Seq(Kinds) /\ next \in Seq(Kinds) /\ <<>> \in Seq(Works)
    BY <2>1 DEF Kinds
  <2>3. /\ pc \in [Threads -> {"idle", "dispatch", "write"}]
        /\ todo \in [Threads -> Seq(Works)]
        /\ \A t \in Threads : pc[t] # "write"
    BY <2>1, <2>2
  <2>4. Data /\ Iterating
    BY <2>2, <2>3 DEF Data, Iterating
  <2> QED
    BY <2>1, <2>4 DEF Inv, Emptied, Flushed
<1>2. Inv /\ [Next]_vars => Inv'
  BY InvStep
<1>3. Inv => ShutdownFlushes
  <2> SUFFICES ASSUME Inv PROVE ShutdownFlushes
    OBVIOUS
  <2>1. ASSUME NEW t \in Readers
        PROVE  IsSuffix([i \in 1..Len(todo[t]) |->
                   IF todo[t][i] = "rotate" THEN "file" ELSE todo[t][i]], gSinks)
    <3>1. t \in Threads /\ pc[t] = "write"
      BY DEF Readers
    <3>2. gSinks \in Seq(Kinds) /\ todo[t] \in Seq(Works) /\ RestOf(todo[t], gSinks)
      BY <3>1 DEF Inv, Data, Iterating
    <3> QED
      BY <3>2, RestIsSuffix
  <2> QED
    BY <2>1 DEF ShutdownFlushes, Inv, Flushed
<1> QED
  BY <1>1, <1>2, <1>3, PTL DEF Spec
-----------------------------------------------------------------------------
(* A part of a sequence, as a cut. *)
LEMMA CutMiddle ==
    ASSUME NEW S, NEW a \in Seq(S), NEW b \in Seq(S), NEW c \in Seq(S)
    PROVE  /\ Within((a \o b) \o c, Len(a), Len(a) + Len(b))
           /\ b = Cut((a \o b) \o c, Len(a), Len(a) + Len(b))
<1> DEFINE ab == a \o b
           s == ab \o c
           m == Len(a)
           d == Len(a) + Len(b)
<1>1. m \in Nat /\ Len(b) \in Nat /\ Len(c) \in Nat
  BY LenProperties
<1>2. /\ ab \in Seq(S) /\ Len(ab) = m + Len(b)
      /\ \A i \in 1..(m + Len(b)) : ab[i] = IF i <= m THEN a[i] ELSE b[i - m]
  BY ConcatProperties
<1> HIDE DEF ab
<1>3. /\ s \in Seq(S) /\ Len(s) = Len(ab) + Len(c)
      /\ \A i \in 1..(Len(ab) + Len(c)) : s[i] = IF i <= Len(ab) THEN ab[i] ELSE c[i - Len(ab)]
  <2>1. ab \in Seq(S)
    BY <1>2
  <2> QED
    BY ONLY <2>1, c \in Seq(S), ConcatProperties
<1> HIDE DEF s
<1>4. d \in Nat /\ Within(s, m, d) /\ d - m = Len(b)
  BY <1>1, <1>2, <1>3 DEF Within
<1>5. ASSUME NEW i \in 1..(d - m) PROVE b[i] = s[m + i]
  <2>1. m + i \in 1..(m + Len(b)) /\ m + i \in 1..(Len(ab) + Len(c)) /\ m + i <= Len(ab)
        /\ ~(m + i <= m) /\ (m + i) - m = i
    BY <1>1, <1>2, <1>4
  <2>2. s[m + i] = ab[m + i]
    BY <1>3, <2>1
  <2>3. ab[m + i] = b[(m + i) - m]
    BY <1>2, <2>1
  <2> QED
    BY <2>1, <2>2, <2>3
<1>6. CutOf(b, s, m, d)
  BY <1>4, <1>5 DEF CutOf
<1> HIDE DEF m, d
<1>7. b = Cut(s, m, d)
  BY <1>3, <1>4, <1>6, CutIs
<1> QED
  BY <1>4, <1>7 DEF s, ab, m, d

(* A cut of one element. *)
LEMMA CutSingle ==
    ASSUME NEW S, NEW s \in Seq(S), NEW i \in 1..Len(s)
    PROVE  Cut(s, i - 1, i) = <<s[i]>> /\ Within(s, i - 1, i)
<1>1. Len(s) \in Nat /\ s[i] \in S
  BY LenProperties, ElementOfSeq
<1>2. Within(s, i - 1, i)
  BY <1>1 DEF Within
<1>3. CutOf(<<s[i]>>, s, i - 1, i)
  <2>1. Len(<<s[i]>>) = i - (i - 1) /\ \A j \in 1..(i - (i - 1)) : j = 1 /\ (i - 1) + j = i
    BY <1>1
  <2> QED
    BY <2>1 DEF CutOf
<1>4. <<s[i]>> \in Seq(S)
  BY <1>1
<1> QED
  BY <1>2, <1>3, <1>4, CutIs

(* q says where in the whole l the pieces of p start: the i-th is the cut    *)
(* from q[i - 1] to q[i].                                                    *)
Starts(q, p, l) ==
    /\ q \in [0..Len(p) -> Nat] /\ q[0] = 0 /\ q[Len(p)] = Len(l)
    /\ \A i \in 1..Len(p) : /\ q[i] = q[i - 1] + Len(p[i])
                            /\ Within(l, q[i - 1], q[i]) /\ p[i] = Cut(l, q[i - 1], q[i])

(* There are such places. *)
LEMMA StartsExist ==
    ASSUME NEW S, NEW p \in Seq(Seq(S))
    PROVE  \E q : Starts(q, p, FlattenSeq(p))
<1> DEFINE n == Len(p)
           l == FlattenSeq(p)
           F(i) == FlattenSeq(Cut(p, 0, i))
           q == [i \in 0..n |-> Len(F(i))]
<1>0. n \in Nat
  BY LenProperties
<1>1. ASSUME NEW i \in 0..n PROVE F(i) \in Seq(S) /\ Len(F(i)) \in Nat
  <2>1. Within(p, 0, i)
    BY <1>0 DEF Within
  <2>2. Cut(p, 0, i) \in Seq(Seq(S))
    BY <2>1, CutProperties
  <2>3. F(i) \in Seq(S)
    BY <2>2, FlattenConcat
  <2> QED
    BY <2>3, LenProperties
<1>2. q \in [0..n -> Nat]
  BY <1>1
<1>3. q[0] = 0
  <2>1. Within(p, 0, 0)
    BY <1>0 DEF Within
  <2>2. Cut(p, 0, 0) = <<>>
    BY <2>1, CutEmpty
  <2>3. F(0) = <<>>
    BY <2>2, FlattenOne
  <2> QED
    BY <1>0, <2>3
<1>4. q[n] = Len(l)
  <2>1. Cut(p, 0, n) = p
    BY CutWhole
  <2> QED
    BY <1>0, <2>1
<1>5. ASSUME NEW i \in 1..n
      PROVE  q[i] = q[i - 1] + Len(p[i]) /\ Within(l, q[i - 1], q[i]) /\ p[i] = Cut(l, q[i - 1], q[i])
  <2> DEFINE r == i - 1
             x == F(r)
             v == p[i]
             z == FlattenSeq(Cut(p, i, n))
  <2>1. r \in 0..n /\ i \in 0..n /\ v \in Seq(S)
    BY <1>0, ElementOfSeq
  <2>2. Within(p, 0, r) /\ Within(p, r, i) /\ Within(p, 0, i) /\ Within(p, i, n)
    BY <1>0, <2>1 DEF Within
  <2>3. /\ Cut(p, 0, r) \in Seq(Seq(S)) /\ Cut(p, 0, i) \in Seq(Seq(S)) /\ Cut(p, i, n) \in Seq(Seq(S))
        /\ <<v>> \in Seq(Seq(S))
    BY <2>1, <2>2, CutProperties
  <2>4. Cut(p, 0, i) = Cut(p, 0, r) \o <<v>>
    <3>1. Cut(p, r, i) = <<v>>
      BY CutSingle
    <3> HIDE DEF r, v
    <3>2. Cut(p, 0, r) \o Cut(p, r, i) = Cut(p, 0, i)
      BY <2>2, CutConcat
    <3> QED
      BY <3>1, <3>2
  <2>5. F(i) = x \o v
    <3> HIDE DEF r, v
    <3>1. FlattenSeq(Cut(p, 0, r) \o <<v>>) = FlattenSeq(Cut(p, 0, r)) \o FlattenSeq(<<v>>)
      BY <2>3, FlattenConcat
    <3>2. FlattenSeq(<<v>>) = v
      BY <2>1, FlattenOne
    <3> QED
      BY <2>4, <3>1, <3>2
  <2>6. l = F(i) \o z /\ z \in Seq(S)
    <3>1. p = Cut(p, 0, i) \o Cut(p, i, n)
      <4>1. Cut(p, 0, i) \o Cut(p, i, n) = Cut(p, 0, n)
        BY <2>2, CutConcat
      <4> QED
        BY <4>1, CutWhole
    <3>2. /\ FlattenSeq(Cut(p, i, n)) \in Seq(S)
          /\ FlattenSeq(Cut(p, 0, i) \o Cut(p, i, n)) = FlattenSeq(Cut(p, 0, i)) \o FlattenSeq(Cut(p, i, n))
      BY <2>3, FlattenConcat
    <3> QED
      BY <3>1, <3>2
  <2>7. l = (x \o v) \o z /\ x \in Seq(S)
    BY <1>1, <2>1, <2>5, <2>6
  <2>8. q[r] = Len(x) /\ q[i] = Len(F(i))
    BY <2>1
  <2> HIDE DEF r, x, v, z, l
  <2>9. Len(x \o v) = Len(x) + Len(v)
    BY <2>1, <2>7, ConcatProperties
  <2>10. Within(l, Len(x), Len(x) + Len(v)) /\ v = Cut(l, Len(x), Len(x) + Len(v))
    <3>1. x \in Seq(S) /\ v \in Seq(S) /\ z \in Seq(S) /\ l = (x \o v) \o z
      BY <2>1, <2>6, <2>7
    <3>2. /\ Within((x \o v) \o z, Len(x), Len(x) + Len(v))
          /\ v = Cut((x \o v) \o z, Len(x), Len(x) + Len(v))
      BY ONLY <3>1, CutMiddle
    <3> QED
      BY ONLY <3>1, <3>2
  <2> HIDE DEF q
  <2>11. q[i] = Len(x) + Len(v)
    BY <2>5, <2>8, <2>9
  <2> QED
    BY <2>8, <2>10, <2>11 DEF r, v
<1> HIDE DEF q, l
<1>6. Starts(q, p, l)
  BY <1>2, <1>3, <1>4, <1>5 DEF Starts
<1> QED
  BY <1>6 DEF l

(* Pieces that are all empty make nothing. *)
LEMMA FlattenEmpty ==
    ASSUME NEW S, NEW p \in Seq(Seq(S)), \A i \in 1..Len(p) : p[i] = <<>>
    PROVE  FlattenSeq(p) = <<>>
<1> DEFINE f == [i \in 0..Len(p) |-> <<>>]
<1>1. Len(p) \in Nat
  BY LenProperties
<1>2. <<>> \o <<>> = <<>>
  OBVIOUS
<1>3. f[0] = <<>> /\ f[Len(p)] = <<>> /\ \A i \in 1..Len(p) : f[i] = <<>> /\ f[i - 1] = <<>>
  BY <1>1
<1> HIDE DEF f
<1>4. Glues(f, p)
  BY <1>2, <1>3 DEF Glues
<1> QED
  BY <1>3, <1>4, FlattenIs

-----------------------------------------------------------------------------
SliceSet == [cap : Nat, pos : Nat, data : Seq(Nat)]

(* The data of the slices ss, and the bytes they hold together. *)
Datas(ss) == [i \in DOMAIN ss |-> ss[i].data]
Joined(ss) == FlattenSeq(Datas(ss))

(* They are sequences of bytes. *)
LEMMA DatasAre ==
    ASSUME NEW ss \in Seq(SliceSet)
    PROVE  /\ Datas(ss) \in Seq(Seq(Nat)) /\ Len(Datas(ss)) = Len(ss)
           /\ \A i \in 1..Len(ss) : Datas(ss)[i] = ss[i].data /\ ss[i] \in SliceSet
           /\ Joined(ss) \in Seq(Nat) /\ Len(Joined(ss)) \in Nat
<1>1. Len(ss) \in Nat /\ DOMAIN ss = 1..Len(ss) /\ \A i \in 1..Len(ss) : ss[i] \in SliceSet
  BY LenProperties, ElementOfSeq
<1>2. \A i \in 1..Len(ss) : ss[i].data \in Seq(Nat)
  BY <1>1 DEF SliceSet
<1>3. Datas(ss) = [i \in 1..Len(ss) |-> ss[i].data]
  BY <1>1 DEF Datas
<1>4. Datas(ss) \in [1..Len(ss) -> Seq(Nat)]
  BY <1>2, <1>3
<1>5. Datas(ss) \in Seq(Seq(Nat)) /\ Len(Datas(ss)) = Len(ss)
  BY <1>1, <1>4, SeqDef, LenProperties
<1>6. Joined(ss) \in Seq(Nat)
  BY <1>5, FlattenConcat DEF Joined
<1>7. Len(Joined(ss)) \in Nat
  BY <1>6, LenProperties
<1> QED
  BY <1>1, <1>3, <1>5, <1>6, <1>7

(* Slices, one vector after another. *)
LEMMA JoinedConcat ==
    ASSUME NEW ss \in Seq(SliceSet), NEW tt \in Seq(SliceSet)
    PROVE  Joined(ss \o tt) = Joined(ss) \o Joined(tt)
<1> DEFINE u == ss \o tt
           w == Datas(ss) \o Datas(tt)
<1>1. /\ Datas(ss) \in Seq(Seq(Nat)) /\ Len(Datas(ss)) = Len(ss)
      /\ \A i \in 1..Len(ss) : Datas(ss)[i] = ss[i].data
  BY DatasAre
<1>2. /\ Datas(tt) \in Seq(Seq(Nat)) /\ Len(Datas(tt)) = Len(tt)
      /\ \A i \in 1..Len(tt) : Datas(tt)[i] = tt[i].data
  BY DatasAre
<1>3. /\ u \in Seq(SliceSet) /\ Len(u) = Len(ss) + Len(tt)
      /\ \A i \in 1..(Len(ss) + Len(tt)) : u[i] = IF i <= Len(ss) THEN ss[i] ELSE tt[i - Len(ss)]
  BY ConcatProperties
<1>4. /\ w \in Seq(Seq(Nat)) /\ Len(w) = Len(Datas(ss)) + Len(Datas(tt))
      /\ \A i \in 1..(Len(Datas(ss)) + Len(Datas(tt))) :
            w[i] = IF i <= Len(Datas(ss)) THEN Datas(ss)[i] ELSE Datas(tt)[i - Len(Datas(ss))]
  BY <1>1, <1>2, ConcatProperties
<1>5. Len(ss) \in Nat /\ Len(tt) \in Nat
  BY LenProperties
<1>6. FlattenSeq(w) = FlattenSeq(Datas(ss)) \o FlattenSeq(Datas(tt))
  BY <1>1, <1>2, FlattenConcat
<1> HIDE DEF u, w
<1>7. /\ Datas(u) \in Seq(Seq(Nat)) /\ Len(Datas(u)) = Len(u)
      /\ \A i \in 1..Len(u) : Datas(u)[i] = u[i].data
  BY <1>3, DatasAre
<1>8. ASSUME NEW i \in 1..Len(u) PROVE Datas(u)[i] = w[i]
  <2>1. i \in 1..(Len(ss) + Len(tt)) /\ (i <= Len(ss) => i \in 1..Len(ss))
        /\ (~(i <= Len(ss)) => i - Len(ss) \in 1..Len(tt))
    BY <1>3, <1>5
  <2>2. Datas(u)[i] = u[i].data
    BY <1>7
  <2>3. CASE i <= Len(ss)
    BY <1>1, <1>2, <1>3, <1>4, <2>1, <2>2, <2>3
  <2>4. CASE ~(i <= Len(ss))
    BY <1>1, <1>2, <1>3, <1>4, <2>1, <2>2, <2>4
  <2> QED
    BY <2>3, <2>4
<1>9. Datas(u) = w
  <2>1. Len(Datas(u)) = Len(w) /\ \A i \in 1..Len(Datas(u)) : Datas(u)[i] = w[i]
    BY <1>1, <1>2, <1>3, <1>4, <1>7, <1>8
  <2> QED
    BY <1>4, <1>7, <2>1, SeqEqual
<1> QED
  BY <1>6, <1>9 DEF u, Joined

(* No slices, and one. *)
LEMMA JoinedOne ==
    /\ Joined(<<>>) = <<>>
    /\ \A s \in SliceSet : Joined(<<s>>) = s.data
<1>1. Joined(<<>>) = <<>>
  <2>1. <<>> \in Seq(SliceSet) /\ Len(<<>>) = 0
    OBVIOUS
  <2>2. Datas(<<>>) \in Seq(Seq(Nat)) /\ Len(Datas(<<>>)) = 0
    BY <2>1, DatasAre
  <2>3. Datas(<<>>) = <<>>
    BY <2>2, EmptySeq
  <2>4. <<>> \in Seq(Nat)
    OBVIOUS
  <2>5. FlattenSeq(<<>>) = <<>>
    BY ONLY <2>4, FlattenOne
  <2> QED
    BY <2>3, <2>5 DEF Joined
<1>2. ASSUME NEW s \in SliceSet PROVE Joined(<<s>>) = s.data
  <2>1. <<s>> \in Seq(SliceSet) /\ Len(<<s>>) = 1 /\ <<s>>[1] = s /\ s.data \in Seq(Nat)
    BY DEF SliceSet
  <2>2. /\ Datas(<<s>>) \in Seq(Seq(Nat)) /\ Len(Datas(<<s>>)) = 1
        /\ \A i \in 1..1 : Datas(<<s>>)[i] = <<s>>[i].data
    BY <2>1, DatasAre
  <2>3. Datas(<<s>>) = <<s.data>>
    <3>1. <<s.data>> \in Seq(Seq(Nat)) /\ Len(<<s.data>>) = 1 /\ <<s.data>>[1] = s.data
      BY <2>1
    <3>2. Len(Datas(<<s>>)) = Len(<<s.data>>)
          /\ \A i \in 1..Len(Datas(<<s>>)) : Datas(<<s>>)[i] = <<s.data>>[i]
      BY <2>1, <2>2, <3>1
    <3> QED
      BY <2>2, <3>1, <3>2, SeqEqual
  <2>4. FlattenSeq(<<s.data>>) = s.data
    BY <2>1, FlattenOne
  <2> QED
    BY <2>3, <2>4 DEF Joined
<1> QED
  BY <1>1, <1>2

(* Slices in front that are empty do not count. *)
LEMMA JoinedFront ==
    ASSUME NEW ss \in Seq(SliceSet), NEW f \in 0..Len(ss), \A i \in 1..f : ss[i].data = <<>>
    PROVE  Joined(Cut(ss, f, Len(ss))) = Joined(ss) /\ Cut(ss, f, Len(ss)) \in Seq(SliceSet)
<1> DEFINE n == Len(ss)
           u == Cut(ss, 0, f)
           v == Cut(ss, f, n)
<1>1. n \in Nat /\ f \in Nat /\ Within(ss, 0, f) /\ Within(ss, f, n)
  BY LenProperties DEF Within
<1>2. u \in Seq(SliceSet) /\ CutOf(u, ss, 0, f) /\ v \in Seq(SliceSet)
  BY <1>1, CutProperties
<1>3. u \o v = ss
  <2>1. Cut(ss, 0, f) \o Cut(ss, f, n) = Cut(ss, 0, n)
    BY <1>1, CutConcat
  <2> QED
    BY <2>1, CutWhole
<1> HIDE DEF n, u, v
<1>4. Joined(u) = <<>>
  <2>1. /\ Datas(u) \in Seq(Seq(Nat)) /\ Len(Datas(u)) = Len(u)
        /\ \A i \in 1..Len(u) : Datas(u)[i] = u[i].data
    BY <1>2, DatasAre
  <2>2. Len(u) = f /\ \A i \in 1..f : u[i] = ss[i]
    BY <1>1, <1>2 DEF CutOf
  <2>3. \A i \in 1..Len(Datas(u)) : Datas(u)[i] = <<>>
    BY <2>1, <2>2
  <2> QED
    BY <2>1, <2>3, FlattenEmpty DEF Joined
<1>5. Joined(ss) = Joined(u) \o Joined(v)
  BY <1>2, <1>3, JoinedConcat
<1>6. Joined(v) \in Seq(Nat)
  BY <1>2, DatasAre
<1>7. <<>> \o Joined(v) = Joined(v)
  BY <1>6, ConcatEmptySeq
<1> QED
  BY <1>2, <1>4, <1>5, <1>7 DEF v, n

(* The last slice takes more. *)
LEMMA JoinedFill ==
    ASSUME NEW ss \in Seq(SliceSet), ss # <<>>, NEW x \in Seq(Nat)
    PROVE  LET n == Len(ss)
               tt == [ss EXCEPT ![n] = Fill(@, x)]
           IN  /\ tt \in Seq(SliceSet) /\ Len(tt) = n /\ n \in Nat \ {0}
               /\ \A i \in 1..n : i # n => tt[i] = ss[i]
               /\ tt[n] = [ss[n] EXCEPT !.data = ss[n].data \o x]
               /\ Joined(tt) = Joined(ss) \o x
<1> DEFINE n == Len(ss)
           s == ss[n]
           t == [s EXCEPT !.data = s.data \o x]
           tt == [ss EXCEPT ![n] = t]
           u == Cut(ss, 0, n - 1)
<1>1. n \in Nat \ {0} /\ n \in 1..n /\ n - 1 \in Nat
  BY LenProperties, EmptySeq
<1>2. s \in SliceSet /\ s.data \in Seq(Nat)
  <2>1. s \in SliceSet
    BY <1>1, ElementOfSeq
  <2> HIDE DEF s
  <2> QED
    BY <2>1 DEF SliceSet
<1>3. s.data \o x \in Seq(Nat)
  BY <1>2, ConcatProperties
<1>4. t \in SliceSet /\ t.data = s.data \o x
  BY <1>2, <1>3 DEF SliceSet
<1>5. tt = [ss EXCEPT ![n] = Fill(@, x)]
  BY DEF Fill
<1> HIDE DEF t
<1>6. tt \in Seq(SliceSet) /\ Len(tt) = n /\ \A i \in 1..n : tt[i] = IF i = n THEN t ELSE ss[i]
  BY <1>1, <1>4, ExceptSeq
<1> HIDE DEF tt
<1>7. Within(ss, 0, n - 1) /\ Within(ss, n - 1, n) /\ Within(tt, 0, n - 1) /\ Within(tt, n - 1, n)
  BY <1>1, <1>6 DEF Within
<1>8. u \in Seq(SliceSet) /\ CutOf(u, ss, 0, n - 1)
  BY <1>7, CutProperties
<1>9. ss = u \o <<s>>
  <2> DEFINE r == n - 1
  <2>1. Cut(ss, r, n) = <<s>>
    BY <1>1, CutSingle
  <2>2. Within(ss, 0, r) /\ Within(ss, r, n)
    BY <1>7
  <2> HIDE DEF r, n, s
  <2>3. Cut(ss, 0, r) \o Cut(ss, r, n) = Cut(ss, 0, n)
    BY <2>2, CutConcat
  <2> QED
    BY <2>1, <2>3, CutWhole DEF n, r
<1>10. tt = u \o <<t>>
  <2> DEFINE r == n - 1
  <2>1. Cut(tt, n - 1, n) = <<tt[n]>> /\ tt[n] = t
    BY <1>1, <1>6, CutSingle
  <2>2. CutOf(u, tt, 0, n - 1)
    <3>1. \A i \in 1..(n - 1 - 0) : 0 + i \in 1..n /\ 0 + i # n
      BY <1>1
    <3> QED
      BY <1>6, <1>8, <3>1 DEF CutOf
  <2>3. Within(tt, 0, r) /\ Within(tt, r, n) /\ CutOf(u, tt, 0, r) /\ Cut(tt, r, n) = <<t>>
    BY <1>7, <2>1, <2>2
  <2> HIDE DEF r, n, s, u
  <2>4. u = Cut(tt, 0, r)
    BY <1>6, <1>8, <2>3, CutIs
  <2>5. Cut(tt, 0, r) \o Cut(tt, r, n) = Cut(tt, 0, n)
    BY <1>6, <2>3, CutConcat
  <2> QED
    BY <1>6, <2>3, <2>4, <2>5, CutWhole
<1> HIDE DEF u, s, n
<1>11. Joined(ss) = Joined(u) \o s.data /\ Joined(tt) = Joined(u) \o t.data /\ Joined(u) \in Seq(Nat)
  <2>1. <<s>> \in Seq(SliceSet) /\ <<t>> \in Seq(SliceSet)
    BY <1>2, <1>4
  <2>2. Joined(u \o <<s>>) = Joined(u) \o Joined(<<s>>) /\ Joined(u \o <<t>>) = Joined(u) \o Joined(<<t>>)
    BY <1>8, <2>1, JoinedConcat
  <2>3. Joined(<<s>>) = s.data /\ Joined(<<t>>) = t.data
    BY <1>2, <1>4, JoinedOne
  <2> QED
    BY <1>8, <1>9, <1>10, <2>2, <2>3, DatasAre
<1>12. Joined(tt) = Joined(ss) \o x
  <2>1. (Joined(u) \o s.data) \o x = Joined(u) \o (s.data \o x)
    <3> DEFINE a == Joined(u)
               d == s.data
    <3>1. a \in Seq(Nat) /\ d \in Seq(Nat)
      BY <1>2, <1>11
    <3> HIDE DEF a, d
    <3>2. (a \o d) \o x = a \o (d \o x)
      BY <3>1, Associative, SMTT(60)
    <3> QED
      BY <3>2 DEF a, d
  <2> QED
    BY <1>4, <1>11, <2>1
<1> QED
  BY <1>1, <1>5, <1>6, <1>12 DEF t, s, n

(* The larger of two numbers. *)
LEMMA MaxTwo ==
    ASSUME NEW a \in Nat, NEW b \in Nat
    PROVE  Max({a, b}) \in Nat /\ a <= Max({a, b}) /\ b <= Max({a, b})
<1>1. \E x \in {a, b} : \A y \in {a, b} : x >= y
  BY a >= b \/ b >= a
<1>2. Max({a, b}) \in {a, b} /\ \A y \in {a, b} : Max({a, b}) >= y
  BY <1>1 DEF Max
<1> QED
  BY <1>2

(* The smaller of two numbers. *)
LEMMA MinTwo ==
    ASSUME NEW a \in Nat, NEW b \in Nat
    PROVE  Min({a, b}) = IF a <= b THEN a ELSE b
<1>1. \E x \in {a, b} : \A y \in {a, b} : x <= y
  BY a >= b \/ b >= a
<1>2. Min({a, b}) \in {a, b} /\ \A y \in {a, b} : Min({a, b}) <= y
  BY <1>1 DEF Min
<1> QED
  BY <1>2

(* What a method finds: the first f slices are drained, the others hold      *)
(* data, but for the last one of a buffer that is reserved (r).              *)
Holds(s) == s.pos + Len(s.data) <= s.cap
Shaped(ss, f, r) ==
    /\ ss \in Seq(SliceSet) /\ f \in Nat /\ (f = 0 \/ 2 * f < Len(ss))
    /\ r => ss # <<>>
    /\ \A i \in 1..Len(ss) :
        /\ Holds(ss[i])
        /\ i <= f => ss[i].data = <<>>
        /\ ss[i].data = <<>> => (i <= f \/ (r /\ i = Len(ss)))

(* The last slice is an active one. *)
LEMMA LastActive ==
    ASSUME NEW ss, NEW f, NEW r, Shaped(ss, f, r), ss # <<>>
    PROVE  /\ Len(ss) \in Nat \ {0} /\ Len(ss) \in 1..Len(ss) /\ f < Len(ss)
           /\ Last(ss) = ss[Len(ss)] /\ Last(ss) \in SliceSet
           /\ Available(Last(ss)) \in Nat /\ Len(Last(ss).data) \in Nat
           /\ Last(ss).pos \in Nat /\ Last(ss).cap \in Nat /\ Last(ss).data \in Seq(Nat)
<1>1. ss \in Seq(SliceSet) /\ f \in Nat /\ (f = 0 \/ 2 * f < Len(ss))
      /\ \A i \in 1..Len(ss) : Holds(ss[i])
  BY DEF Shaped
<1>2. Len(ss) \in Nat \ {0} /\ Len(ss) \in 1..Len(ss)
  BY <1>1, LenProperties, EmptySeq
<1>3. f < Len(ss)
  BY <1>1, <1>2
<1>4. Last(ss) = ss[Len(ss)]
  BY DEF Last
<1>5. Last(ss) \in SliceSet /\ Holds(Last(ss))
  BY <1>1, <1>2, <1>4, ElementOfSeq
<1>6. Last(ss).pos \in Nat /\ Last(ss).cap \in Nat /\ Last(ss).data \in Seq(Nat)
  BY <1>5 DEF SliceSet
<1>7. Len(Last(ss).data) \in Nat
  BY <1>6, LenProperties
<1>8. Available(Last(ss)) \in Nat
  BY <1>5, <1>6, <1>7 DEF Available, Holds
<1> QED
  BY <1>2, <1>3, <1>4, <1>5, <1>6, <1>7, <1>8

(* reserve(), and add() before it copies: there is room, for n bytes if a    *)
(* slice had to be made.                                                     *)
LEMMA Roomy ==
    ASSUME NEW ss, NEW f, Shaped(ss, f, FALSE), NEW n \in Nat
    PROVE  LET tt == WithRoom(ss, n)
           IN  /\ Shaped(tt, f, TRUE) /\ Joined(tt) = Joined(ss) /\ Available(Last(tt)) > 0
               /\ (ss = <<>> \/ Available(Last(ss)) = 0) => n <= Available(Last(tt))
<1> DEFINE tt == WithRoom(ss, n)
           full == ss = <<>> \/ Available(Last(ss)) = 0
<1>0. /\ ss \in Seq(SliceSet) /\ f \in Nat /\ (f = 0 \/ 2 * f < Len(ss))
      /\ \A i \in 1..Len(ss) :
            /\ Holds(ss[i])
            /\ i <= f => ss[i].data = <<>>
            /\ ss[i].data = <<>> => i <= f
  BY DEF Shaped
<1>1. CASE ~full
  <2>1. tt = ss /\ ss # <<>> /\ Available(Last(ss)) # 0
    BY <1>1 DEF WithRoom
  <2>2. Shaped(ss, f, TRUE)
    BY <1>0, <2>1 DEF Shaped
  <2>3. Available(Last(ss)) > 0
    <3>1. Available(Last(ss)) \in Nat
      BY <2>1, LastActive
    <3> QED
      BY <2>1, <3>1
  <2> QED
    BY <1>1, <2>1, <2>2, <2>3
<1>2. CASE full
  <2> DEFINE c == Max({n, DefaultCapacity})
             s == NewSlice(c)
  <2>1. tt = Append(ss, s)
    BY <1>2 DEF WithRoom
  <2>2. c \in Nat /\ n <= c /\ c > 0
    <3>1. DefaultCapacity \in Nat /\ DefaultCapacity > 0
      BY BufferAssumption
    <3>2. c \in Nat /\ n <= c /\ DefaultCapacity <= c
      BY <3>1, MaxTwo
    <3> HIDE DEF c
    <3> QED
      BY <3>1, <3>2
  <2> HIDE DEF c
  <2>3. s.cap = c /\ s.pos = 0 /\ s.data = <<>> /\ s \in SliceSet /\ Len(<<>>) = 0
    BY <2>2 DEF NewSlice, SliceSet
  <2> HIDE DEF s, tt
  <2>4. /\ tt \in Seq(SliceSet) /\ Len(tt) = Len(ss) + 1
        /\ \A i \in 1..Len(ss) : tt[i] = ss[i]
        /\ tt[Len(ss) + 1] = s
    BY <1>0, <2>1, <2>3, AppendProperties
  <2>5. Len(ss) \in Nat
    BY <1>0, LenProperties
  <2>6. Last(tt) = s /\ Available(s) = c
    BY <2>2, <2>3, <2>4 DEF Last, Available
  <2>7. Holds(s)
    BY <2>2, <2>3 DEF Holds
  <2>8. ASSUME NEW i \in 1..Len(tt)
        PROVE  /\ Holds(tt[i])
               /\ i <= f => tt[i].data = <<>>
               /\ tt[i].data = <<>> => (i <= f \/ i = Len(tt))
    <3>1. CASE i = Len(tt)
      <4>1. ~(i <= f)
        BY <1>0, <2>4, <2>5, <3>1
      <4> QED
        BY <2>4, <2>7, <3>1, <4>1
    <3>2. CASE i # Len(tt)
      <4>1. i \in 1..Len(ss)
        BY <2>4, <2>5, <3>2
      <4> QED
        BY <1>0, <2>4, <4>1
    <3> QED
      BY <3>1, <3>2
  <2>9. tt # <<>> /\ (f = 0 \/ 2 * f < Len(tt))
    BY <1>0, <2>4, <2>5
  <2>10. Shaped(tt, f, TRUE)
    BY <1>0, <2>4, <2>8, <2>9 DEF Shaped
  <2>11. Joined(tt) = Joined(ss)
    <3>1. <<s>> \in Seq(SliceSet) /\ tt = ss \o <<s>>
      BY <1>0, <2>1, <2>3, AppendIsConcat
    <3>2. Joined(ss \o <<s>>) = Joined(ss) \o Joined(<<s>>) /\ Joined(<<s>>) = <<>>
          /\ Joined(ss) \in Seq(Nat)
      BY <1>0, <2>3, <3>1, JoinedConcat, JoinedOne, DatasAre
    <3> QED
      BY <3>1, <3>2, ConcatEmptySeq
  <2> QED
    BY <2>2, <2>6, <2>10, <2>11 DEF tt
<1> QED
  BY <1>1, <1>2

(* commit(), and add() when it copies: the last slice takes x. *)
LEMMA Filling ==
    ASSUME NEW ss, NEW f, NEW r, Shaped(ss, f, r), ss # <<>>,
           NEW x \in Seq(Nat), x # <<>>, Len(x) <= Available(Last(ss))
    PROVE  LET tt == [ss EXCEPT ![Len(ss)] = Fill(@, x)]
           IN  /\ Shaped(tt, f, FALSE) /\ tt # <<>> /\ Joined(tt) = Joined(ss) \o x
               /\ Available(Last(tt)) = Available(Last(ss)) - Len(x)
<1> DEFINE n == Len(ss)
           tt == [ss EXCEPT ![n] = Fill(@, x)]
           s == ss[n]
           d == s.data \o x
           t == [s EXCEPT !.data = d]
<1>0. /\ ss \in Seq(SliceSet) /\ f \in Nat /\ (f = 0 \/ 2 * f < n)
      /\ \A i \in 1..n :
            /\ Holds(ss[i])
            /\ i <= f => ss[i].data = <<>>
            /\ ss[i].data = <<>> => (i <= f \/ (r /\ i = n))
  BY DEF Shaped
<1>1. /\ n \in Nat \ {0} /\ n \in 1..n /\ f < n
      /\ Last(ss) = s /\ s \in SliceSet /\ Available(s) \in Nat
      /\ s.pos \in Nat /\ s.cap \in Nat /\ s.data \in Seq(Nat) /\ Len(s.data) \in Nat
  BY LastActive
<1>2. /\ tt \in Seq(SliceSet) /\ Len(tt) = n
      /\ \A i \in 1..n : i # n => tt[i] = ss[i]
      /\ tt[n] = t /\ Joined(tt) = Joined(ss) \o x
  BY <1>0, JoinedFill
<1>3. d \in Seq(Nat) /\ Len(d) = Len(s.data) + Len(x) /\ Len(x) \in Nat \ {0}
  BY <1>1, ConcatProperties, LenProperties, EmptySeq
<1>4. d # <<>>
  BY <1>1, <1>3
<1> HIDE DEF d
<1>5. t.data = d /\ t.pos = s.pos /\ t.cap = s.cap
  BY <1>1 DEF SliceSet
<1> HIDE DEF t, s, tt, n
<1>6. Available(t) = Available(s) - Len(x) /\ Holds(t)
  <2> DEFINE p == s.pos
             c == s.cap
             m == Len(s.data)
             k == Len(x)
  <2>1. p \in Nat /\ c \in Nat /\ m \in Nat /\ k \in Nat
    BY <1>1, <1>3
  <2>2. Available(s) = c - (p + m) /\ Available(t) = c - (p + Len(d)) /\ Len(d) = m + k
    BY <1>3, <1>5 DEF Available
  <2>3. Holds(t) <=> p + Len(d) <= c
    BY <1>5 DEF Holds
  <2>4. k <= Available(s)
    BY <1>1
  <2> HIDE DEF p, c, m, k
  <2>5. k <= c - (p + m)
    BY ONLY <2>2, <2>4
  <2>6. c - (p + (m + k)) = (c - (p + m)) - k /\ p + (m + k) <= c
    BY ONLY <2>1, <2>5
  <2>7. Available(t) = Available(s) - k /\ Holds(t)
    BY ONLY <2>2, <2>3, <2>6
  <2> QED
    BY <2>7 DEF k
<1>8. Last(tt) = t /\ tt # <<>>
  BY <1>1, <1>2 DEF Last
<1>9. ASSUME NEW i \in 1..Len(tt)
      PROVE  /\ Holds(tt[i])
             /\ i <= f => tt[i].data = <<>>
             /\ tt[i].data = <<>> => i <= f
  <2>1. CASE i = n
    <3>1. ~(i <= f)
      BY <1>0, <1>1, <2>1
    <3> QED
      BY <1>2, <1>4, <1>5, <1>6, <2>1, <3>1
  <2>2. CASE i # n
    BY <1>0, <1>2, <2>2
  <2> QED
    BY <2>1, <2>2
<1>10. Shaped(tt, f, FALSE)
  BY <1>0, <1>2, <1>9 DEF Shaped
<1> QED
  BY <1>1, <1>2, <1>6, <1>8, <1>10 DEF tt, n

(* One turn of the loop of add(). *)
LEMMA AddTurn ==
    ASSUME NEW ss, NEW f, Shaped(ss, f, FALSE), NEW x \in Seq(Nat), x # <<>>
    PROVE  LET a == AddSome(ss, x)
           IN  /\ Shaped(a.slices, f, FALSE) /\ a.slices # <<>>
               /\ a.rest \in Seq(Nat)
               /\ Joined(a.slices) \o a.rest = Joined(ss) \o x
               /\ a.rest # <<>> => Available(Last(a.slices)) = 0
               /\ (ss = <<>> \/ Available(Last(ss)) = 0) => a.rest = <<>>
<1> DEFINE n == Len(x)
           room == WithRoom(ss, n)
           v == Available(Last(room))
           k == Min({v, n})
           y == Cut(x, 0, k)
           z == Cut(x, k, n)
           tt == [room EXCEPT ![Len(room)] = Fill(@, y)]
<1>1. n \in Nat \ {0}
  BY LenProperties, EmptySeq
<1>2. /\ Shaped(room, f, TRUE) /\ Joined(room) = Joined(ss) /\ v > 0
      /\ (ss = <<>> \/ Available(Last(ss)) = 0) => n <= v
  BY <1>1, Roomy
<1>3. room # <<>> /\ v \in Nat
  <2>1. room # <<>>
    BY <1>2 DEF Shaped
  <2> HIDE DEF room
  <2> QED
    BY <1>2, <2>1, LastActive
<1>4. AddSome(ss, x) = [slices |-> tt, rest |-> z]
  BY DEF AddSome, FillLast, Cut
<1> HIDE DEF v
<1>5. k = IF v <= n THEN v ELSE n
  BY <1>1, <1>3, MinTwo
<1>6. k \in Nat \ {0} /\ k <= n /\ k <= v
  BY <1>1, <1>2, <1>3, <1>5
<1> HIDE DEF k
<1>7. Within(x, 0, k) /\ Within(x, k, n)
  BY <1>1, <1>6 DEF Within
<1>8. y \in Seq(Nat) /\ Len(y) = k /\ z \in Seq(Nat) /\ y \o z = x /\ (z = <<>> <=> k = n)
  <2>1. y \in Seq(Nat) /\ CutOf(y, x, 0, k) /\ z \in Seq(Nat)
    BY <1>7, CutProperties
  <2>2. Len(y) = k
    BY <1>6, <2>1 DEF CutOf
  <2>3. y \o z = Cut(x, 0, n)
    BY <1>7, CutConcat
  <2>4. z = <<>> <=> k = n
    BY <1>7, CutEmpty
  <2> QED
    BY <2>1, <2>2, <2>3, <2>4, CutWhole
<1> HIDE DEF y, z, room
<1>9. y # <<>>
  BY <1>6, <1>8
<1>10. /\ Shaped(tt, f, FALSE) /\ tt # <<>> /\ Joined(tt) = Joined(room) \o y
       /\ Available(Last(tt)) = v - k
  <2>1. Len(y) <= Available(Last(room))
    BY <1>6, <1>8 DEF v
  <2> QED
    BY <1>2, <1>3, <1>8, <1>9, <2>1, Filling DEF v
<1> HIDE DEF tt
<1>11. Joined(tt) \o z = Joined(ss) \o x
  <2> DEFINE j == Joined(ss)
  <2>1. j \in Seq(Nat)
    BY DatasAre DEF Shaped
  <2> HIDE DEF j
  <2>2. (j \o y) \o z = j \o (y \o z)
    <3>1. y \in Seq(Nat) /\ z \in Seq(Nat)
      BY <1>8
    <3> QED
      BY ONLY <2>1, <3>1, Associative, SMTT(60)
  <2> QED
    BY <1>2, <1>8, <1>10, <2>2 DEF j
<1>12. z # <<>> => v - k = 0
  BY <1>1, <1>3, <1>5, <1>8
<1>13. (ss = <<>> \/ Available(Last(ss)) = 0) => z = <<>>
  BY <1>1, <1>2, <1>3, <1>5, <1>8
<1> DEFINE a == AddSome(ss, x)
<1>14. a.slices = tt /\ a.rest = z
  BY <1>4
<1> HIDE DEF a
<1>15. /\ Shaped(a.slices, f, FALSE) /\ a.slices # <<>> /\ a.rest \in Seq(Nat)
       /\ Joined(a.slices) \o a.rest = Joined(ss) \o x
       /\ a.rest # <<>> => Available(Last(a.slices)) = 0
       /\ (ss = <<>> \/ Available(Last(ss)) = 0) => a.rest = <<>>
  BY ONLY <1>8, <1>10, <1>11, <1>12, <1>13, <1>14
<1> QED
  BY <1>15 DEF a

(* The loop of add(): two turns are enough. *)
LEMMA Adding ==
    ASSUME NEW ss, NEW f, Shaped(ss, f, FALSE), NEW x \in Seq(Nat), x # <<>>
    PROVE  LET first == AddSome(ss, x)
               last == AddSome(first.slices, first.rest)
               tt == IF first.rest = <<>> THEN first.slices ELSE last.slices
           IN  Shaped(tt, f, FALSE) /\ Joined(tt) = Joined(ss) \o x
<1> DEFINE a == AddSome(ss, x)
           aa == a.slices
           z == a.rest
           b == AddSome(aa, z)
           bb == b.slices
<1>1. /\ Shaped(aa, f, FALSE) /\ aa # <<>> /\ z \in Seq(Nat)
      /\ Joined(aa) \o z = Joined(ss) \o x
      /\ z # <<>> => Available(Last(aa)) = 0
  BY AddTurn
<1> HIDE DEF aa, z
<1>2. CASE z = <<>>
  <2>1. Joined(aa) \in Seq(Nat)
    BY <1>1, DatasAre DEF Shaped
  <2>2. Joined(aa) \o <<>> = Joined(aa)
    BY <2>1, ConcatEmptySeq
  <2> QED
    BY <1>1, <1>2, <2>2 DEF aa, z
<1>3. CASE z # <<>>
  <2>1. /\ Shaped(bb, f, FALSE) /\ b.rest \in Seq(Nat)
        /\ Joined(bb) \o b.rest = Joined(aa) \o z
        /\ (aa = <<>> \/ Available(Last(aa)) = 0) => b.rest = <<>>
    BY <1>1, <1>3, AddTurn
  <2>2. b.rest = <<>>
    BY <1>1, <1>3, <2>1
  <2> HIDE DEF bb, b
  <2>3. Joined(bb) \in Seq(Nat)
    BY <2>1, DatasAre DEF Shaped
  <2>4. Joined(bb) \o <<>> = Joined(bb)
    BY <2>3, ConcatEmptySeq
  <2> QED
    BY <1>1, <1>3, <2>1, <2>2, <2>4 DEF aa, z, bb, b
<1> QED
  BY <1>2, <1>3
-----------------------------------------------------------------------------
(* In a vector of slices where q says where their data starts: up to the     *)
(* f-th, drained one all is at the front, from there the places grow, and    *)
(* the sums of drain() are these places.                                     *)
PlacesOf(ss, f, q, l) ==
    /\ q \in [0..Len(ss) -> Nat] /\ q[0] = 0 /\ q[Len(ss)] = Len(l)
    /\ f \in 0..Len(ss) /\ Len(ss) \in Nat
    /\ \A i \in 1..Len(ss) :
          /\ i - 1 \in 0..Len(ss) /\ i \in 0..Len(ss)
          /\ Len(ss[i].data) \in Nat /\ q[i] = q[i - 1] + Len(ss[i].data)
          /\ Within(l, q[i - 1], q[i]) /\ ss[i].data = Cut(l, q[i - 1], q[i])
          /\ ss[i] \in SliceSet
          /\ i <= f => q[i] = 0
          /\ f < i => q[i - 1] < q[i]
    /\ \A i \in f..Len(ss) : SumSeq([j \in 1..(i - f) |-> Len(ss[f + j].data)]) = q[i]

(* That is how it is in a buffer that is not reserved. *)
LEMMA Places ==
    ASSUME NEW ss, NEW f, Shaped(ss, f, FALSE), NEW q, NEW l, Starts(q, Datas(ss), l)
    PROVE  PlacesOf(ss, f, q, l)
<1> DEFINE n == Len(ss)
<1>1. /\ ss \in Seq(SliceSet) /\ f \in Nat /\ (f = 0 \/ 2 * f < n)
      /\ \A i \in 1..n : (i <= f => ss[i].data = <<>>) /\ (ss[i].data = <<>> => i <= f)
  BY DEF Shaped
<1>2. Len(Datas(ss)) = n /\ \A i \in 1..n : Datas(ss)[i] = ss[i].data /\ ss[i] \in SliceSet
  BY <1>1, DatasAre
<1>3. n \in Nat /\ f \in 0..n
  <2>1. n \in Nat
    BY <1>1, LenProperties
  <2> QED
    BY <1>1, <2>1
<1>4. /\ q \in [0..n -> Nat] /\ q[0] = 0 /\ q[n] = Len(l)
      /\ \A i \in 1..n : /\ q[i] = q[i - 1] + Len(ss[i].data)
                         /\ Within(l, q[i - 1], q[i]) /\ ss[i].data = Cut(l, q[i - 1], q[i])
  BY <1>2 DEF Starts
<1>5. \A i \in 1..n : i - 1 \in 0..n /\ i \in 0..n /\ ss[i].data \in Seq(Nat) /\ Len(ss[i].data) \in Nat
  <2>1. \A i \in 1..n : ss[i].data \in Seq(Nat)
    BY <1>2 DEF SliceSet
  <2>2. \A i \in 1..n : Len(ss[i].data) \in Nat
    BY <2>1, LenProperties
  <2> QED
    BY <1>3, <2>1, <2>2
<1> HIDE DEF n
<1>6. \A i \in 0..f : q[i] = 0
  <2> DEFINE S == {i \in 0..f : q[i] = 0}
  <2>1. 0 \in S
    BY <1>3, <1>4
  <2>2. ASSUME NEW i \in 1..f, i - 1 \in S PROVE i \in S
    <3>1. i \in 1..n /\ i <= f /\ i \in 0..f
      BY <1>3
    <3>2. q[i] = q[i - 1] + Len(ss[i].data) /\ ss[i].data = <<>> /\ Len(<<>>) = 0
      BY <1>1, <1>4, <3>1 DEF n
    <3>3. q[i - 1] = 0
      BY <2>2
    <3> QED
      BY <3>1, <3>2, <3>3
  <2>3. 0..f \subseteq S
    <3> HIDE DEF S
    <3> QED
      BY <1>1, <2>1, <2>2, SetInduction
  <2> QED
    BY <2>3
<1>7. ASSUME NEW i \in 1..n, f < i PROVE q[i - 1] < q[i]
  <2>1. ss[i].data # <<>>
    <3>1. ~(i <= f)
      BY <1>1, <1>3, <1>7
    <3> QED
      BY <1>1, <3>1 DEF n
  <2>2. Len(ss[i].data) # 0
    BY <1>5, <2>1, EmptySeq
  <2>3. Len(ss[i].data) \in Nat /\ q[i - 1] \in Nat /\ q[i] = q[i - 1] + Len(ss[i].data)
    BY <1>4, <1>5
  <2> QED
    BY <2>2, <2>3
<1>8. ASSUME NEW i \in f..n PROVE SumSeq([j \in 1..(i - f) |-> Len(ss[f + j].data)]) = q[i]
  <2> DEFINE m == i - f
             D(j) == Len(ss[f + j].data)
             w == [j \in 1..m |-> D(j)]
             h == [j \in 0..m |-> q[f + j]]
  <2>1. m \in Nat /\ f + m = i
    BY <1>3
  <2>2. ASSUME NEW j \in 1..m
        PROVE  /\ f + j \in 1..n /\ (f + j) - 1 = f + (j - 1) /\ j \in 0..m /\ j - 1 \in 0..m
               /\ D(j) \in Nat /\ q[f + j] = q[f + (j - 1)] + D(j)
    <3>1. f + j \in 1..n /\ (f + j) - 1 = f + (j - 1) /\ j \in 0..m /\ j - 1 \in 0..m
      BY <1>3, <2>1
    <3>2. D(j) \in Nat
      BY <1>5, <3>1
    <3>3. q[f + j] = q[(f + j) - 1] + D(j)
      BY <1>4, <3>1
    <3> QED
      BY <3>1, <3>2, <3>3
  <2>3. w \in [1..m -> Nat]
    BY <2>2
  <2>4. w \in Seq(Nat) /\ Len(w) = m
    BY <2>1, <2>3, SeqDef, LenProperties
  <2>5. h[0] = 0
    <3>1. f + 0 = f /\ f \in 0..f /\ 0 \in 0..m
      BY <1>3, <2>1
    <3> QED
      BY <1>6, <3>1
  <2>6. ASSUME NEW j \in 1..m PROVE h[j] = h[j - 1] + w[j]
    <3>1. h[j] = q[f + j] /\ h[j - 1] = q[f + (j - 1)] /\ w[j] = D(j)
      BY <2>2
    <3> QED
      BY <2>2, <3>1
  <2>7. h[m] = q[i]
    BY <2>1
  <2> HIDE DEF h
  <2>8. Sums(h, w)
    BY <2>4, <2>5, <2>6 DEF Sums
  <2>9. SumSeq(w) = h[m]
    <3> HIDE DEF w, m
    <3> QED
      BY <2>4, <2>8, SumIs
  <2> QED
    BY <2>7, <2>9
<1>9. \A i \in 1..n : i <= f => q[i] = 0
  BY <1>3, <1>6
<1> QED
  BY <1>2, <1>3, <1>4, <1>5, <1>7, <1>8, <1>9 DEF n, PlacesOf

(* Of the slices f + 1..N those up to k lie within the first n bytes. *)
EndsAt(k, q, n, f, N) == k \in f..N /\ \A i \in (f + 1)..N : q[i] <= n <=> i <= k

(* There is such a k: the slices that drain() empties are the first ones. *)
LEMMA FrontExists ==
    ASSUME NEW N \in Nat, NEW f \in 0..N, NEW q \in [0..N -> Nat], NEW n \in Nat,
           \A i \in 1..N : f < i => q[i - 1] < q[i]
    PROVE  \E k : EndsAt(k, q, n, f, N)
<1> DEFINE P(m) == \E k \in f..(f + m) : \A i \in (f + 1)..(f + m) : q[i] <= n <=> i <= k
           M == N - f
           S == {m \in 0..M : P(m)}
<1>0. M \in Nat /\ f \in Nat /\ f + M = N
  OBVIOUS
<1>1. 0 \in S
  <2>1. P(0)
    <3>1. f \in f..(f + 0) /\ \A i \in (f + 1)..(f + 0) : FALSE
      OBVIOUS
    <3> QED
      BY <3>1
  <2> QED
    BY <1>0, <2>1
<1>2. ASSUME NEW m \in 1..M, m - 1 \in S PROVE m \in S
  <2>1. PICK k \in f..(f + (m - 1)) : \A i \in (f + 1)..(f + (m - 1)) : q[i] <= n <=> i <= k
    BY <1>2
  <2> DEFINE t == f + m
  <2>2. t \in 1..N /\ f < t /\ t - 1 = f + (m - 1) /\ t \in Nat /\ t - 1 \in 0..N /\ t \in 0..N /\ f <= t - 1
    BY <1>0
  <2>3. k \in f..(t - 1) /\ \A i \in (f + 1)..(t - 1) : q[i] <= n <=> i <= k
    BY <2>1, <2>2
  <2>4. q[t - 1] < q[t] /\ q[t - 1] \in Nat /\ q[t] \in Nat
    BY <2>2
  <2> HIDE DEF t
  <2>5. \E j \in f..t : \A i \in (f + 1)..t : q[i] <= n <=> i <= j
    <3>0. \A i \in (f + 1)..t : i = t \/ i \in (f + 1)..(t - 1)
      BY <1>0, <2>2
    <3>1. CASE q[t] <= n
      <4>1. k = t - 1
        <5>1. CASE f = t - 1
          BY <1>0, <2>2, <2>3, <5>1
        <5>2. CASE f # t - 1
          <6>1. t - 1 \in (f + 1)..(t - 1)
            BY <1>0, <2>2, <5>2
          <6>2. q[t - 1] <= n
            BY <2>4, <3>1
          <6>3. t - 1 <= k
            BY <2>3, <6>1, <6>2
          <6> QED
            BY <1>0, <2>2, <2>3, <6>3
        <5> QED
          BY <5>1, <5>2
      <4>2. ASSUME NEW i \in (f + 1)..t PROVE q[i] <= n <=> i <= t
        <5>1. i <= t
          BY <1>0, <2>2
        <5>2. q[i] <= n
          <6>1. CASE i = t
            BY <3>1, <6>1
          <6>2. CASE i \in (f + 1)..(t - 1)
            <7>1. i <= k
              BY <1>0, <2>2, <4>1, <6>2
            <7> QED
              BY <2>3, <6>2, <7>1
          <6> QED
            BY <3>0, <6>1, <6>2
        <5> QED
          BY <5>1, <5>2
      <4>3. t \in f..t
        BY <1>0, <2>2
      <4> QED
        BY <4>2, <4>3
    <3>2. CASE ~(q[t] <= n)
      <4>1. k \in f..t /\ ~(t <= k)
        BY <1>0, <2>2, <2>3
      <4>2. ASSUME NEW i \in (f + 1)..t PROVE q[i] <= n <=> i <= k
        BY <2>3, <3>0, <3>2, <4>1
      <4> QED
        BY <4>1, <4>2
    <3> QED
      BY <3>1, <3>2
  <2>6. P(m)
    BY <2>5 DEF t
  <2>7. m \in 0..M
    BY <1>0
  <2> QED
    BY <2>6, <2>7
<1>3. 0..M \subseteq S
  <2> HIDE DEF S
  <2> QED
    BY <1>0, <1>1, <1>2, SetInduction
<1>4. P(M)
  <2>1. M \in 0..M
    BY <1>0
  <2>2. M \in S
    <3> HIDE DEF S, M
    <3> QED
      BY <1>3, <2>1
  <2> HIDE DEF M
  <2> QED
    BY <2>2
<1> QED
  BY <1>0, <1>4 DEF EndsAt

(* Where the i-th slice starts when n bytes are drained. *)
From(q, n, i) == IF q[i] <= n THEN q[i] ELSE IF n <= q[i - 1] THEN q[i - 1] ELSE n

(* ss is drained to dd: each slice gives up what is before that place. *)
Drained(dd, ss, q, n, l) ==
    /\ dd \in Seq(SliceSet) /\ Len(dd) = Len(ss)
    /\ \A i \in 1..Len(ss) : Holds(dd[i]) /\ dd[i].data = Cut(l, From(q, n, i), q[i])

(* Together the slices give up the first n bytes. *)
LEMMA DrainedJoin ==
    ASSUME NEW ss, NEW f, Shaped(ss, f, FALSE), NEW l \in Seq(Nat), NEW q, Starts(q, Datas(ss), l),
           NEW n \in Nat, NEW dd, Drained(dd, ss, q, n, l)
    PROVE  Joined(dd) = SubSeq(l, n + 1, Len(l))
<1> DEFINE N == Len(ss)
           Low(i) == IF q[i] <= n THEN q[i] ELSE n
           C(i) == Cut(l, Low(i), q[i])
           g == [i \in 0..N |-> C(i)]
<1>1. /\ q \in [0..N -> Nat] /\ q[0] = 0 /\ q[N] = Len(l) /\ N \in Nat
      /\ \A i \in 1..N : i - 1 \in 0..N /\ i \in 0..N /\ Within(l, q[i - 1], q[i])
  <2>1. PlacesOf(ss, f, q, l)
    BY Places
  <2> QED
    BY <2>1 DEF PlacesOf
<1>2. Len(l) \in Nat
  BY LenProperties
<1>3. /\ dd \in Seq(SliceSet) /\ Len(dd) = N
      /\ \A i \in 1..N : dd[i].data = Cut(l, From(q, n, i), q[i])
  BY DEF Drained
<1>4. /\ Datas(dd) \in Seq(Seq(Nat)) /\ Len(Datas(dd)) = N
      /\ \A i \in 1..N : Datas(dd)[i] = dd[i].data
  BY <1>3, DatasAre
<1> HIDE DEF N
<1>5. g[0] = <<>>
  <2>1. 0 \in 0..N /\ Low(0) = 0 /\ Within(l, 0, 0)
    BY <1>1, <1>2 DEF Within
  <2>2. Cut(l, 0, 0) = <<>>
    BY <2>1, CutEmpty
  <2> QED
    BY <1>1, <2>1, <2>2
<1>6. ASSUME NEW i \in 1..N PROVE C(i) = C(i - 1) \o Cut(l, From(q, n, i), q[i])
  <2> DEFINE a == q[i - 1]
             d == q[i]
             x == C(i)
             y == C(i - 1)
             m == From(q, n, i)
  <2>1. a \in Nat /\ d \in Nat /\ a <= d /\ d <= Len(l) /\ Within(l, a, d) /\ Within(l, a, a) /\ Within(l, d, d)
    <3>1. Within(l, a, d)
      BY <1>1
    <3> HIDE DEF a, d
    <3> QED
      BY <1>2, <3>1 DEF Within
  <2>2. /\ x = Cut(l, IF d <= n THEN d ELSE n, d)
        /\ y = Cut(l, IF a <= n THEN a ELSE n, a)
        /\ m = IF d <= n THEN d ELSE IF n <= a THEN a ELSE n
    BY DEF From
  <2> SUFFICES x = y \o Cut(l, m, d)
    OBVIOUS
  <2> HIDE DEF a, d, x, y, m
  <2>3. Cut(l, a, a) = <<>> /\ Cut(l, d, d) = <<>>
    BY <2>1, CutEmpty
  <2>4. CASE d <= n
    <3>1. a <= n
      BY <2>1, <2>4
    <3>2. <<>> = <<>> \o <<>>
      OBVIOUS
    <3> QED
      BY <2>2, <2>3, <2>4, <3>1, <3>2
  <2>5. CASE ~(d <= n) /\ n <= a
    <3>1. Within(l, n, a)
      BY <1>2, <2>1, <2>5 DEF Within
    <3>2. Cut(l, n, a) \o Cut(l, a, d) = Cut(l, n, d)
      BY <2>1, <3>1, CutConcat
    <3>3. (IF a <= n THEN a ELSE n) = n
      BY <2>1, <2>5
    <3> QED
      BY <2>2, <2>5, <3>2, <3>3
  <2>6. CASE ~(d <= n) /\ ~(n <= a)
    <3>1. Within(l, n, d) /\ a <= n
      BY <1>2, <2>1, <2>6 DEF Within
    <3>2. Cut(l, n, d) \in Seq(Nat)
      BY <3>1, CutProperties
    <3>3. Cut(l, n, d) = <<>> \o Cut(l, n, d)
      BY <3>2, ConcatEmptySeq
    <3> QED
      BY <2>2, <2>3, <2>6, <3>1, <3>3
  <2> QED
    BY <2>4, <2>5, <2>6
<1>7. ASSUME NEW i \in 1..N PROVE g[i] = g[i - 1] \o Datas(dd)[i]
  <2>1. g[i] = C(i) /\ g[i - 1] = C(i - 1)
    BY <1>1
  <2> HIDE DEF g, C
  <2> QED
    BY <1>3, <1>4, <1>6, <2>1
<1>8. g[N] = Cut(l, IF Len(l) <= n THEN Len(l) ELSE n, Len(l))
  <2>1. N \in 0..N
    BY <1>1
  <2> QED
    BY <1>1, <2>1
<1> HIDE DEF g
<1>9. Glues(g, Datas(dd))
  BY <1>4, <1>5, <1>7 DEF Glues
<1>10. Joined(dd) = g[N]
  BY <1>4, <1>9, FlattenIs DEF Joined
<1>11. CASE Len(l) <= n
  <2>1. Within(l, Len(l), Len(l))
    BY <1>2 DEF Within
  <2>2. Cut(l, Len(l), Len(l)) = <<>>
    BY <2>1, CutEmpty
  <2>3. SubSeq(l, n + 1, Len(l)) = <<>>
    BY <1>2, <1>11, SubSeqEmpty
  <2> QED
    BY <1>8, <1>10, <1>11, <2>2, <2>3
<1>12. CASE ~(Len(l) <= n)
  BY <1>8, <1>10, <1>12 DEF Cut
<1> QED
  BY <1>11, <1>12

(* The slices up to k, and only they, are empty. *)
EmptyUpto(k, dd) == \A i \in 1..Len(dd) : dd[i].data = <<>> <=> i <= k

(* drain() leaves those empty that it drains to the end. *)
LEMMA DrainedShape ==
    ASSUME NEW ss, NEW f, Shaped(ss, f, FALSE), NEW l \in Seq(Nat), NEW q, Starts(q, Datas(ss), l),
           NEW n \in Nat, NEW dd, Drained(dd, ss, q, n, l),
           NEW k, EndsAt(k, q, n, f, Len(ss))
    PROVE  EmptyUpto(k, dd)
<1> DEFINE N == Len(ss)
<1>1. /\ q \in [0..N -> Nat] /\ N \in Nat /\ f \in 0..N
      /\ \A i \in 1..N : i - 1 \in 0..N /\ i \in 0..N /\ Within(l, q[i - 1], q[i])
      /\ \A i \in 1..N : i <= f => q[i] = 0
      /\ \A i \in 1..N : f < i => q[i - 1] < q[i]
  <2>1. PlacesOf(ss, f, q, l)
    BY Places
  <2> QED
    BY <2>1 DEF PlacesOf
<1> SUFFICES ASSUME NEW i \in 1..N PROVE dd[i].data = <<>> <=> i <= k
  BY DEF EmptyUpto, Drained
<1> DEFINE a == q[i - 1]
           d == q[i]
           m == From(q, n, i)
<1>2. dd[i].data = Cut(l, m, d) /\ m = IF d <= n THEN d ELSE IF n <= a THEN a ELSE n
  BY DEF Drained, From
<1>3. Within(l, a, d) /\ (f < i => a < d) /\ (i <= f => d = 0)
  BY <1>1
<1>4. k \in Nat /\ f <= k /\ f \in Nat
  BY <1>1 DEF EndsAt
<1>5. f < i => (d <= n <=> i <= k)
  <2>1. f < i => i \in (f + 1)..N
    BY <1>1
  <2> QED
    BY <2>1 DEF EndsAt
<1> HIDE DEF a, d, m, N
<1>6. a \in Nat /\ d \in Nat /\ a <= d /\ d <= Len(l) /\ Len(l) \in Nat
  BY <1>3, LenProperties DEF Within
<1>7. Within(l, m, d)
  BY <1>2, <1>6 DEF Within
<1>8. Cut(l, m, d) = <<>> <=> m = d
  BY <1>7, CutEmpty
<1>9. m = d <=> i <= k
  <2>1. CASE f < i
    BY <1>2, <1>3, <1>5, <1>6, <2>1
  <2>2. CASE ~(f < i)
    <3>1. i <= f /\ i <= k
      BY <1>1, <1>4, <2>2
    <3>2. d = 0
      BY <1>3, <3>1
    <3> QED
      BY <1>2, <1>6, <3>1, <3>2
  <2> QED
    BY <2>1, <2>2
<1> QED
  BY <1>2, <1>8, <1>9

(* compactSlices(): without their drained prefix the slices are the same     *)
(* bytes.                                                                    *)
LEMMA Compacting ==
    ASSUME NEW ss \in Seq(SliceSet), NEW k \in 0..Len(ss), \A i \in 1..Len(ss) : Holds(ss[i]),
           EmptyUpto(k, ss)
    PROVE  /\ Shaped(CompactSlices(ss, k), 0, FALSE)
           /\ Joined(CompactSlices(ss, k)) = Joined(ss)
           /\ ~(k * 2 >= Len(ss)) => Shaped(ss, k, FALSE)
<1> DEFINE N == Len(ss)
           tt == Cut(ss, k, N)
<1>1. N \in Nat /\ k \in Nat /\ Within(ss, k, N) /\ \A i \in 1..k : i \in 1..N /\ i <= k
  BY LenProperties DEF Within
<1>0. \A i \in 1..N : ss[i].data = <<>> <=> i <= k
  BY DEF EmptyUpto
<1>2. CompactSlices(ss, k) = tt
  BY DEF CompactSlices, Cut
<1>3. Joined(tt) = Joined(ss) /\ tt \in Seq(SliceSet)
  <2>1. \A i \in 1..k : ss[i].data = <<>>
    BY <1>0, <1>1
  <2> QED
    BY <2>1, JoinedFront
<1>4. CutOf(tt, ss, k, N)
  BY <1>1, CutProperties
<1> HIDE DEF tt
<1>5. ASSUME NEW i \in 1..Len(tt) PROVE Holds(tt[i]) /\ tt[i].data # <<>>
  <2>1. i \in 1..(N - k) /\ k + i \in 1..N /\ ~(k + i <= k)
    BY <1>1, <1>4 DEF CutOf
  <2>2. tt[i] = ss[k + i]
    BY <1>4, <2>1 DEF CutOf
  <2> QED
    BY <1>0, <2>1, <2>2
<1>6. Shaped(tt, 0, FALSE)
  <2>1. \A i \in 1..Len(tt) : ~(i <= 0)
    OBVIOUS
  <2> QED
    BY <1>3, <1>5, <2>1 DEF Shaped
<1>7. ASSUME ~(k * 2 >= N) PROVE Shaped(ss, k, FALSE)
  <2>1. 2 * k < N
    BY <1>1, <1>7
  <2> QED
    BY <1>0, <1>1, <2>1 DEF Shaped
<1> QED
  BY <1>2, <1>3, <1>6, <1>7

(* move(): vectors without drained slices, one after the other. *)
LEMMA ShapedConcat ==
    ASSUME NEW ss, NEW tt, Shaped(ss, 0, FALSE), Shaped(tt, 0, FALSE)
    PROVE  Shaped(ss \o tt, 0, FALSE) /\ Joined(ss \o tt) = Joined(ss) \o Joined(tt)
<1> DEFINE u == ss \o tt
<1>1. ss \in Seq(SliceSet) /\ tt \in Seq(SliceSet)
  BY DEF Shaped
<1>2. Len(ss) \in Nat /\ Len(tt) \in Nat
  BY <1>1, LenProperties
<1>3. /\ u \in Seq(SliceSet) /\ Len(u) = Len(ss) + Len(tt)
      /\ \A i \in 1..(Len(ss) + Len(tt)) : u[i] = IF i <= Len(ss) THEN ss[i] ELSE tt[i - Len(ss)]
  BY <1>1, ConcatProperties
<1>4. /\ \A i \in 1..Len(ss) : Holds(ss[i]) /\ ss[i].data # <<>>
      /\ \A i \in 1..Len(tt) : Holds(tt[i]) /\ tt[i].data # <<>>
  BY DEF Shaped
<1> HIDE DEF u
<1>5. ASSUME NEW i \in 1..Len(u) PROVE Holds(u[i]) /\ u[i].data # <<>>
  <2>1. CASE i <= Len(ss)
    <3>1. i \in 1..Len(ss) /\ u[i] = ss[i]
      BY <1>2, <1>3, <2>1
    <3> QED
      BY <1>4, <3>1
  <2>2. CASE ~(i <= Len(ss))
    <3>1. i - Len(ss) \in 1..Len(tt) /\ u[i] = tt[i - Len(ss)]
      BY <1>2, <1>3, <2>2
    <3> QED
      BY <1>4, <3>1
  <2> QED
    BY <2>1, <2>2
<1>6. Shaped(u, 0, FALSE)
  <2>1. \A i \in 1..Len(u) : ~(i <= 0)
    OBVIOUS
  <2> QED
    BY <1>3, <1>5, <2>1 DEF Shaped
<1> QED
  BY <1>1, <1>6, JoinedConcat DEF u

(* drain() of one slice: t bytes of it. *)
LEMMA DrainSliceIs ==
    ASSUME NEW s \in SliceSet, Holds(s), NEW l \in Seq(Nat), NEW a, NEW d, Within(l, a, d),
           s.data = Cut(l, a, d), NEW t \in Nat, t <= d - a
    PROVE  /\ DrainSlice(s, t) \in SliceSet /\ Holds(DrainSlice(s, t))
           /\ DrainSlice(s, t).data = Cut(l, a + t, d)
<1> DEFINE x == s.data
           y == SubSeq(x, t + 1, Len(x))
           p == s.pos
           c == s.cap
           u == [s EXCEPT !.pos = p + t, !.data = y]
<1>1. p \in Nat /\ c \in Nat /\ x \in Seq(Nat)
  BY DEF SliceSet
<1>2. DrainSlice(s, t) = u
  BY DEF DrainSlice
<1>3. a \in Nat /\ d \in Nat /\ a <= d /\ d <= Len(l) /\ Len(l) \in Nat
  BY LenProperties DEF Within
<1>4. x = Cut(l, a, d) /\ p + Len(x) <= c
  BY DEF Holds
<1> HIDE DEF x, p, c
<1>5. y = Cut(l, a + t, d)
  <2>1. SubSeq(Cut(l, a, d), t + 1, Len(Cut(l, a, d))) = Cut(l, a + t, d)
    BY CutSplit
  <2> QED
    BY <1>4, <2>1
<1> HIDE DEF y
<1>6. Within(l, a + t, d)
  BY <1>3 DEF Within
<1>7. y \in Seq(Nat) /\ Len(y) = d - (a + t) /\ Len(x) = d - a
  <2> DEFINE at == a + t
  <2>1. Within(l, at, d) /\ y = Cut(l, at, d)
    BY <1>5, <1>6
  <2> HIDE DEF at
  <2>2. y \in Seq(Nat) /\ CutOf(y, l, at, d)
    BY <2>1, CutProperties
  <2>3. CutOf(x, l, a, d)
    BY <1>4, CutProperties
  <2> QED
    BY <2>2, <2>3 DEF CutOf, at
<1>8. p + t \in Nat /\ (p + t) + (d - (a + t)) <= c
  BY <1>1, <1>3, <1>4, <1>7
<1>9. u.pos = p + t /\ u.cap = c /\ u.data = y /\ u \in SliceSet
  BY <1>1, <1>7, <1>8 DEF SliceSet, c
<1> HIDE DEF u
<1>10. Holds(u)
  BY <1>7, <1>8, <1>9 DEF Holds
<1> QED
  BY <1>2, <1>5, <1>9, <1>10

(* drain(): what it takes from each slice and where frontSlice_ ends up.     *)
DrainedSlices(b, n) == [i \in DOMAIN slices[b] |-> DrainSlice(slices[b][i], Taken(b, n, i))]

(* The bytes left are those after the n-th. *)
LEMMA Draining ==
    ASSUME NEW b, Shaped(slices[b], front[b], FALSE), NEW n \in Nat
    PROVE  LET dd == DrainedSlices(b, n)
               k == NewFront(b, n)
               l == Joined(slices[b])
           IN  /\ dd \in Seq(SliceSet) /\ k \in 0..Len(dd)
               /\ \A i \in 1..Len(dd) : Holds(dd[i])
               /\ EmptyUpto(k, dd)
               /\ Joined(dd) = SubSeq(l, n + 1, Len(l))
               /\ Upto(b, Len(slices[b])) = Len(l)
<1> DEFINE ss == slices[b]
           f == front[b]
           l == Joined(ss)
           N == Len(ss)
           dd == DrainedSlices(b, n)
<1>1. ss \in Seq(SliceSet) /\ l \in Seq(Nat) /\ Datas(ss) \in Seq(Seq(Nat)) /\ l = FlattenSeq(Datas(ss))
      /\ DOMAIN ss = 1..N /\ \A i \in 1..N : Holds(ss[i])
  BY DatasAre, LenProperties DEF Shaped, Joined
<1>2. PICK q : Starts(q, Datas(ss), l)
  BY <1>1, StartsExist
<1>3. PlacesOf(ss, f, q, l)
  BY <1>2, Places
<1>4. /\ q \in [0..N -> Nat] /\ q[N] = Len(l) /\ N \in Nat /\ f \in 0..N
      /\ \A i \in 1..N :
          /\ i - 1 \in 0..N /\ i \in 0..N
          /\ Len(ss[i].data) \in Nat /\ q[i] = q[i - 1] + Len(ss[i].data)
          /\ Within(l, q[i - 1], q[i]) /\ ss[i].data = Cut(l, q[i - 1], q[i])
          /\ ss[i] \in SliceSet
          /\ i <= f => q[i] = 0
          /\ f < i => q[i - 1] < q[i]
  BY <1>3 DEF PlacesOf
<1>5. \A i \in f..N : Upto(b, i) = q[i]
  BY <1>3 DEF PlacesOf, Upto
<1> HIDE DEF ss, f, l, N
<1>6. ASSUME NEW i \in 1..N
      PROVE  LET t == Taken(b, n, i)
             IN  t \in Nat /\ t <= q[i] - q[i - 1] /\ q[i - 1] + t = From(q, n, i)
  <2> DEFINE t == Taken(b, n, i)
             a == q[i - 1]
             d == q[i]
             m == Len(ss[i].data)
  <2>1. a \in Nat /\ d \in Nat /\ m \in Nat /\ d = a + m /\ (i <= f => d = 0) /\ f \in Nat
    BY <1>4
  <2>2. From(q, n, i) = IF d <= n THEN d ELSE IF n <= a THEN a ELSE n
    BY DEF From
  <2>3. CASE i <= f
    <3>1. t = 0
      BY <2>3 DEF Taken, f
    <3> HIDE DEF t, a, d, m
    <3> QED
      BY <2>1, <2>2, <2>3, <3>1 DEF a, d, t
  <2>4. CASE ~(i <= f)
    <3>1. i - 1 \in f..N /\ f < i
      BY <1>4, <2>4
    <3>2. Upto(b, i - 1) = a
      BY <1>5, <3>1
    <3>3. t = IF a >= n THEN 0 ELSE Min({n - a, m})
      BY <2>4, <3>2 DEF Taken, f, ss
    <3>4. a < d
      BY <1>4, <3>1
    <3> HIDE DEF t, a, d, m
    <3>5. CASE a >= n
      <4>1. ~(d <= n) /\ n <= a
        BY <2>1, <3>4, <3>5
      <4>2. t = 0
        BY <3>3, <3>5
      <4> QED
        BY <2>1, <2>2, <4>1, <4>2 DEF t, a, d
    <3>6. CASE ~(a >= n)
      <4>1. n - a \in Nat
        BY <2>1, <3>6
      <4>2. Min({n - a, m}) = IF n - a <= m THEN n - a ELSE m
        BY <2>1, <4>1, MinTwo
      <4>3. t = IF n - a <= m THEN n - a ELSE m
        BY <3>3, <3>6, <4>2
      <4>4. t \in Nat /\ t <= d - a /\ a + t = IF d <= n THEN d ELSE IF n <= a THEN a ELSE n
        BY <2>1, <3>6, <4>1, <4>3
      <4> QED
        BY <2>2, <4>4 DEF t, a, d
    <3> QED
      BY <3>5, <3>6
  <2> QED
    BY <2>3, <2>4
<1>7. ASSUME NEW i \in 1..N
      PROVE  LET u == DrainSlice(ss[i], Taken(b, n, i))
             IN  u \in SliceSet /\ Holds(u) /\ u.data = Cut(l, From(q, n, i), q[i])
  <2> DEFINE t == Taken(b, n, i)
             a == q[i - 1]
             d == q[i]
             s == ss[i]
             m == From(q, n, i)
  <2>1. t \in Nat /\ t <= d - a /\ a + t = m
    BY <1>6
  <2>2. s \in SliceSet /\ Holds(s) /\ Within(l, a, d) /\ s.data = Cut(l, a, d)
    BY <1>1, <1>4
  <2>3. l \in Seq(Nat)
    BY <1>1
  <2> HIDE DEF t, a, d, s, m
  <2>4. DrainSlice(s, t) \in SliceSet /\ Holds(DrainSlice(s, t)) /\ DrainSlice(s, t).data = Cut(l, a + t, d)
    BY ONLY <2>1, <2>2, <2>3, DrainSliceIs
  <2> QED
    BY <2>1, <2>4 DEF t, d, s, m
<1>8. dd = [i \in 1..N |-> DrainSlice(ss[i], Taken(b, n, i))]
  BY <1>1 DEF DrainedSlices, ss
<1> HIDE DEF dd
<1>9. dd \in Seq(SliceSet) /\ Len(dd) = N /\ \A i \in 1..N : dd[i] = DrainSlice(ss[i], Taken(b, n, i))
  <2>1. dd \in [1..N -> SliceSet]
    BY <1>7, <1>8
  <2>2. N \in Nat
    BY <1>4
  <2>3. dd \in Seq(SliceSet) /\ Len(dd) = N
    BY ONLY <2>1, <2>2, SeqDef, LenProperties
  <2>4. \A i \in 1..N : dd[i] = DrainSlice(ss[i], Taken(b, n, i))
    BY ONLY <1>8
  <2> QED
    BY ONLY <2>3, <2>4
<1>10. Drained(dd, ss, q, n, l)
  BY <1>7, <1>9 DEF Drained, N
<1>11. Shaped(ss, f, FALSE)
  BY DEF ss, f
<1>12. Joined(dd) = SubSeq(l, n + 1, Len(l))
  BY <1>1, <1>2, <1>10, <1>11, DrainedJoin
<1>13. PICK k : EndsAt(k, q, n, f, N)
  <2>1. \A i \in 1..N : f < i => q[i - 1] < q[i]
    BY <1>4
  <2> QED
    BY <1>4, <2>1, FrontExists
<1>14. EmptyUpto(k, dd) /\ k \in f..N
  <2>1. EndsAt(k, q, n, f, Len(ss)) /\ l \in Seq(Nat)
    BY <1>1, <1>13 DEF N
  <2>2. EmptyUpto(k, dd)
    BY ONLY <1>2, <1>10, <1>11, <2>1, n \in Nat, DrainedShape
  <2> QED
    BY <1>13, <2>2 DEF EndsAt
<1>15. NewFront(b, n) = k
  <2> DEFINE V == {i \in Visited(b, n) : Upto(b, i) <= n}
  <2>1. V = (f + 1)..k
    <3>1. ASSUME NEW i \in (f + 1)..N
          PROVE  /\ i \in 1..N /\ Upto(b, i - 1) = q[i - 1] /\ Upto(b, i) = q[i]
                 /\ q[i - 1] \in Nat /\ q[i] \in Nat /\ q[i - 1] < q[i]
      <4>1. i \in 1..N /\ i - 1 \in f..N /\ i \in f..N /\ f < i
        BY <1>4
      <4> QED
        BY <1>4, <1>5, <4>1
    <3>2. ASSUME NEW i \in (f + 1)..N PROVE (Upto(b, i - 1) < n /\ Upto(b, i) <= n) <=> i <= k
      BY <1>13, <3>1 DEF EndsAt
    <3>3. \A i : i \in V <=> (i \in (f + 1)..N /\ Upto(b, i - 1) < n /\ Upto(b, i) <= n)
      BY DEF Visited, f, ss, N
    <3>4. \A i : i \in (f + 1)..k <=> (i \in (f + 1)..N /\ i <= k)
      BY <1>4, <1>14
    <3> HIDE DEF V
    <3> QED
      BY <3>2, <3>3, <3>4
  <2>2. Cardinality((f + 1)..k) = k - f
    <3>1. f + 1 \in Int /\ k \in Int /\ f \in Nat /\ k \in Nat /\ f <= k
      BY <1>4, <1>14
    <3>2. Cardinality((f + 1)..k) = IF f + 1 > k THEN 0 ELSE k - (f + 1) + 1
      BY <3>1, FS_Interval
    <3> QED
      BY <3>1, <3>2
  <2>3. NewFront(b, n) = f + Cardinality(V)
    BY DEF NewFront, f
  <2> HIDE DEF V
  <2>4. f \in Nat /\ k \in Nat
    BY <1>4, <1>14
  <2>5. NewFront(b, n) = f + (k - f)
    BY <2>1, <2>2, <2>3
  <2> QED
    BY <2>4, <2>5
<1>16. k \in 0..Len(dd) /\ N \in f..N
  BY <1>4, <1>9, <1>14
<1>17. Upto(b, N) = Len(l)
  BY <1>4, <1>5, <1>16
<1>18. \A i \in 1..N : Holds(dd[i])
  BY <1>7, <1>9
<1> QED
  BY <1>9, <1>12, <1>14, <1>15, <1>16, <1>17, <1>18 DEF dd, l, ss, N
-----------------------------------------------------------------------------
(* The inductive invariant of the buffers: every vector has its shape, and   *)
(* totalLength_ counts the bytes in it.                                      *)
BufInv ==
    /\ slices \in [Buffers -> Seq(SliceSet)] /\ front \in [Buffers -> Nat] /\ total \in [Buffers -> Nat]
    /\ written \in Nat /\ reserved \subseteq Buffers
    /\ \A b \in Buffers : /\ Shaped(slices[b], front[b], b \in reserved)
                          /\ total[b] = Len(Joined(slices[b]))

(* The bytes in each buffer. *)
Contents == [b \in Buffers |-> Joined(slices[b])]

(* A method that changes one buffer keeps the others. *)
LEMMA OneBuffer ==
    ASSUME BufInv, NEW b \in Buffers, NEW STATE ss, NEW STATE f, NEW STATE t,
           slices' = [slices EXCEPT ![b] = ss],
           front' = [front EXCEPT ![b] = f],
           total' = [total EXCEPT ![b] = t],
           written' \in Nat, reserved' \subseteq Buffers,
           \A c \in Buffers : c # b => (c \in reserved' <=> c \in reserved),
           Shaped(ss, f, b \in reserved'), t = Len(Joined(ss))
    PROVE  BufInv' /\ Contents' = [Contents EXCEPT ![b] = Joined(ss)]
<1>1. /\ slices \in [Buffers -> Seq(SliceSet)] /\ front \in [Buffers -> Nat] /\ total \in [Buffers -> Nat]
      /\ \A c \in Buffers : Shaped(slices[c], front[c], c \in reserved) /\ total[c] = Len(Joined(slices[c]))
  BY DEF BufInv
<1>2. ss \in Seq(SliceSet) /\ f \in Nat
  BY DEF Shaped
<1>3. t \in Nat
  BY <1>2, DatasAre
<1>4. /\ slices' \in [Buffers -> Seq(SliceSet)] /\ front' \in [Buffers -> Nat] /\ total' \in [Buffers -> Nat]
      /\ slices'[b] = ss /\ front'[b] = f /\ total'[b] = t
      /\ \A c \in Buffers : c # b => slices'[c] = slices[c] /\ front'[c] = front[c] /\ total'[c] = total[c]
  BY <1>1, <1>2, <1>3
<1>5. ASSUME NEW c \in Buffers
      PROVE  Shaped(slices'[c], front'[c], c \in reserved') /\ total'[c] = Len(Joined(slices'[c]))
  <2>1. CASE c = b
    <3>1. Shaped(ss, f, c \in reserved')
      BY <2>1
    <3>2. slices'[c] = ss /\ front'[c] = f /\ total'[c] = t
      BY <2>1, <1>4
    <3> QED
      BY ONLY <3>1, <3>2, t = Len(Joined(ss)), Zenon
  <2>2. CASE c # b
    <3>1. slices'[c] = slices[c] /\ front'[c] = front[c] /\ total'[c] = total[c] /\ (c \in reserved' <=> c \in reserved)
      BY <2>2, <1>4
    <3>2. Shaped(slices[c], front[c], c \in reserved) /\ total[c] = Len(Joined(slices[c]))
      BY <1>1
    <3>3. Shaped(slices[c], front[c], c \in reserved')
      BY ONLY <3>1, <3>2, Zenon DEF Shaped
    <3> QED
      BY ONLY <3>1, <3>2, <3>3, Zenon
  <2> QED
    BY <2>1, <2>2
<1>6. BufInv'
  BY ONLY <1>4, <1>5, written' \in Nat, reserved' \subseteq Buffers, Zenon DEF BufInv
<1>7. ASSUME NEW c \in Buffers
      PROVE  Joined(slices'[c]) = IF c = b THEN Joined(ss) ELSE Joined(slices[c])
  BY <1>4, Zenon
<1>8. Contents' = [Contents EXCEPT ![b] = Joined(ss)]
  BY ONLY <1>7, b \in Buffers DEF Contents
<1> QED
  BY <1>6, <1>8

(* The bytes an add() or a read() brings. *)
LEMMA BytesAre ==
    ASSUME written \in Nat, NEW n \in Nat
    PROVE  /\ Bytes(n) \in Seq(Nat) /\ Len(Bytes(n)) = n
           /\ n # 0 => Bytes(n) # <<>>
           /\ n = 0 => Bytes(n) = <<>>
<1>1. Bytes(n) \in [1..n -> Nat]
  BY DEF Bytes
<1>2. Bytes(n) \in Seq(Nat) /\ Len(Bytes(n)) = n
  BY <1>1
<1> QED
  BY <1>2, EmptySeq

(* What a call finds in its buffer. *)
LEMMA Found ==
    ASSUME BufInv, NEW b \in Buffers
    PROVE  /\ Shaped(slices[b], front[b], b \in reserved) /\ total[b] = Len(Joined(slices[b]))
           /\ b \notin reserved => Shaped(slices[b], front[b], FALSE)
           /\ slices[b] \in Seq(SliceSet) /\ front[b] \in Nat /\ Joined(slices[b]) \in Seq(Nat)
           /\ Len(Joined(slices[b])) \in Nat
           /\ Contents[b] = Joined(slices[b])
           /\ written \in Nat /\ reserved \subseteq Buffers
           /\ slices \in [Buffers -> Seq(SliceSet)] /\ front \in [Buffers -> Nat] /\ total \in [Buffers -> Nat]
<1>1. /\ Shaped(slices[b], front[b], b \in reserved) /\ total[b] = Len(Joined(slices[b]))
      /\ written \in Nat /\ reserved \subseteq Buffers
      /\ slices \in [Buffers -> Seq(SliceSet)] /\ front \in [Buffers -> Nat] /\ total \in [Buffers -> Nat]
  BY DEF BufInv
<1>2. b \notin reserved => Shaped(slices[b], front[b], FALSE)
  BY ONLY <1>1, Zenon DEF Shaped
<1>3. slices[b] \in Seq(SliceSet) /\ front[b] \in Nat
  BY ONLY <1>1, b \in Buffers
<1>4. Joined(slices[b]) \in Seq(Nat) /\ Len(Joined(slices[b])) \in Nat
  BY ONLY <1>3, DatasAre
<1>5. Contents[b] = Joined(slices[b])
  BY ONLY b \in Buffers DEF Contents
<1> QED
  BY ONLY <1>1, <1>2, <1>3, <1>4, <1>5

(* add() appends its bytes. *)
LEMMA AddStep ==
    ASSUME BufInv, NEW b \in Buffers, NEW n \in Nat, Add(b, n)
    PROVE  BufInv' /\ Contents' = [Contents EXCEPT ![b] = @ \o Bytes(n)]
<1> DEFINE ss == slices[b]
           x == Bytes(n)
           l == Joined(ss)
           first == AddSome(ss, x)
           last == AddSome(first.slices, first.rest)
           uu == IF first.rest = <<>> THEN first.slices ELSE last.slices
           tt == IF n = 0 THEN ss ELSE uu
           f == front[b]
           t == total[b] + n
<1>1. /\ Shaped(ss, f, FALSE) /\ total[b] = Len(l) /\ Len(l) \in Nat /\ l \in Seq(Nat)
      /\ Contents[b] = l /\ written \in Nat /\ reserved \subseteq Buffers
      /\ front \in [Buffers -> Nat]
  BY Found DEF Add, Usable
<1>2. x \in Seq(Nat) /\ Len(x) = n /\ (n # 0 => x # <<>>) /\ (n = 0 => x = <<>>)
  BY ONLY <1>1, n \in Nat, BytesAre
<1>3. /\ slices' = [slices EXCEPT ![b] = tt] /\ total' = [total EXCEPT ![b] = t]
      /\ front' = front /\ reserved' = reserved /\ written' = written + n
  BY ONLY Add(b, n) DEF Add
<1> HIDE DEF x, l
<1>4. Shaped(tt, f, FALSE) /\ Joined(tt) = l \o x
  <2>1. CASE n = 0
    <3>1. tt = ss
      BY ONLY <2>1
    <3>2. l \o x = l
      BY ONLY <1>1, <1>2, <2>1, ConcatEmptySeq
    <3> HIDE DEF tt
    <3> QED
      BY ONLY <3>1, <3>2, <1>1, Zenon DEF l
  <2>2. CASE n # 0
    <3>1. tt = uu
      BY ONLY <2>2, Zenon
    <3>2. x # <<>> /\ x \in Seq(Nat)
      BY <2>2, <1>2
    <3> HIDE DEF tt
    <3>3. Shaped(uu, f, FALSE) /\ Joined(uu) = Joined(ss) \o x
      BY ONLY <3>2, <1>1, Adding, Zenon
    <3> QED
      BY ONLY <3>1, <3>3, Zenon DEF l
  <2> QED
    BY <2>1, <2>2
<1> HIDE DEF tt
<1>5. t = Len(Joined(tt))
  <2>1. Len(l \o x) = Len(l) + Len(x)
    BY ONLY <1>1, <1>2, ConcatProperties
  <2>2. t = Len(l) + Len(x)
    BY ONLY <1>1, <1>2
  <2> HIDE DEF t
  <2> QED
    BY ONLY <2>1, <2>2, <1>4, Zenon
<1> HIDE DEF t
<1>6. front' = [front EXCEPT ![b] = f]
  BY ONLY <1>1, <1>3, b \in Buffers
<1>7. Shaped(tt, f, b \in reserved')
  <2>1. b \notin reserved'
    BY <1>3 DEF Add, Usable
  <2> QED
    BY ONLY <2>1, <1>4, Zenon DEF Shaped
<1>8. written' \in Nat /\ reserved' \subseteq Buffers /\ \A c \in Buffers : c # b => (c \in reserved' <=> c \in reserved)
  BY ONLY <1>1, <1>3, n \in Nat
<1> HIDE DEF f
<1>9. BufInv' /\ Contents' = [Contents EXCEPT ![b] = Joined(tt)]
  BY ONLY BufInv, b \in Buffers, <1>3, <1>5, <1>6, <1>7, <1>8, OneBuffer
<1> QED
  BY ONLY <1>9, <1>4, <1>1, Zenon DEF x, l

(* reserve() adds no byte. *)
LEMMA ReserveStep ==
    ASSUME BufInv, NEW b \in Buffers, Reserve(b)
    PROVE  BufInv' /\ Contents' = Contents
<1> DEFINE ss == slices[b]
           tt == WithRoom(ss, DefaultCapacity)
           f == front[b]
           t == total[b]
<1>1. /\ Shaped(ss, f, FALSE) /\ total[b] = Len(Joined(ss))
      /\ Contents[b] = Joined(ss) /\ written \in Nat /\ reserved \subseteq Buffers
      /\ front \in [Buffers -> Nat] /\ total \in [Buffers -> Nat]
  BY Found DEF Reserve, Usable
<1>2. /\ slices' = [slices EXCEPT ![b] = tt]
      /\ front' = front /\ total' = total /\ reserved' = reserved \cup {b} /\ written' = written
  BY ONLY Reserve(b) DEF Reserve
<1>3. Shaped(tt, f, TRUE) /\ Joined(tt) = Joined(ss)
  <2>1. DefaultCapacity \in Nat
    BY BufferAssumption
  <2> QED
    BY ONLY <2>1, <1>1, Roomy, Zenon
<1> HIDE DEF tt
<1>4. front' = [front EXCEPT ![b] = f] /\ total' = [total EXCEPT ![b] = t]
  BY ONLY <1>1, <1>2, b \in Buffers
<1>5. Shaped(tt, f, b \in reserved')
  <2>1. b \in reserved'
    BY <1>2
  <2> QED
    BY ONLY <2>1, <1>3, Zenon DEF Shaped
<1>6. written' \in Nat /\ reserved' \subseteq Buffers /\ \A c \in Buffers : c # b => (c \in reserved' <=> c \in reserved)
  BY ONLY <1>1, <1>2, b \in Buffers
<1>7. t = Len(Joined(tt))
  BY ONLY <1>1, <1>3, Zenon
<1> HIDE DEF f, t
<1>8. BufInv' /\ Contents' = [Contents EXCEPT ![b] = Joined(tt)]
  BY ONLY BufInv, b \in Buffers, <1>2, <1>4, <1>5, <1>6, <1>7, OneBuffer
<1>9. Joined(tt) = Contents[b]
  BY ONLY <1>1, <1>3, Zenon
<1> HIDE DEF ss
<1> QED
  BY ONLY <1>8, <1>9 DEF Contents

(* commit() appends the bytes that were read. *)
LEMMA CommitStep ==
    ASSUME BufInv, NEW b \in Buffers, NEW n \in Nat \ {0}, Commit(b, n)
    PROVE  BufInv' /\ Contents' = [Contents EXCEPT ![b] = @ \o Bytes(n)]
<1> DEFINE ss == slices[b]
           x == Bytes(n)
           l == Joined(ss)
           tt == [ss EXCEPT ![Len(ss)] = Fill(@, x)]
           f == front[b]
           t == total[b] + n
           r == b \in reserved
<1>1. /\ Shaped(ss, f, r) /\ total[b] = Len(l) /\ Len(l) \in Nat /\ l \in Seq(Nat)
      /\ Contents[b] = l /\ written \in Nat /\ reserved \subseteq Buffers
      /\ front \in [Buffers -> Nat]
  BY Found
<1>2. x \in Seq(Nat) /\ Len(x) = n /\ x # <<>>
  BY ONLY <1>1, n \in Nat \ {0}, BytesAre
<1>3. /\ slices' = [slices EXCEPT ![b] = tt] /\ total' = [total EXCEPT ![b] = t]
      /\ front' = front /\ reserved' = reserved \ {b} /\ written' = written + n
      /\ b \in reserved /\ n <= Available(Last(ss))
  BY ONLY Commit(b, n) DEF Commit, FillLast
<1> HIDE DEF x, l
<1>4. Shaped(tt, f, FALSE) /\ Joined(tt) = l \o x
  <2>1. ss # <<>>
    BY ONLY <1>1, <1>3 DEF Shaped
  <2>2. Len(x) <= Available(Last(ss))
    BY ONLY <1>2, <1>3
  <2> HIDE DEF r
  <2> QED
    BY ONLY <2>1, <2>2, <1>1, <1>2, Filling, Zenon DEF l
<1> HIDE DEF tt
<1>5. t = Len(Joined(tt))
  <2>1. Len(l \o x) = Len(l) + Len(x)
    BY ONLY <1>1, <1>2, ConcatProperties
  <2>2. t = Len(l) + Len(x)
    BY ONLY <1>1, <1>2
  <2> HIDE DEF t
  <2> QED
    BY ONLY <2>1, <2>2, <1>4, Zenon
<1> HIDE DEF t
<1>6. front' = [front EXCEPT ![b] = f]
  BY ONLY <1>1, <1>3, b \in Buffers
<1>7. Shaped(tt, f, b \in reserved')
  <2>1. b \notin reserved'
    BY <1>3
  <2> QED
    BY ONLY <2>1, <1>4, Zenon DEF Shaped
<1>8. written' \in Nat /\ reserved' \subseteq Buffers /\ \A c \in Buffers : c # b => (c \in reserved' <=> c \in reserved)
  BY ONLY <1>1, <1>3, n \in Nat \ {0}
<1> HIDE DEF f
<1>9. BufInv' /\ Contents' = [Contents EXCEPT ![b] = Joined(tt)]
  BY ONLY BufInv, b \in Buffers, <1>3, <1>5, <1>6, <1>7, <1>8, OneBuffer
<1> QED
  BY ONLY <1>9, <1>4, <1>1, Zenon DEF x, l

(* A new buffer is empty. *)
LEMMA RenewStep ==
    ASSUME BufInv, NEW b \in Buffers, Renew(b)
    PROVE  BufInv' /\ Contents' = [Contents EXCEPT ![b] = <<>>]
<1> DEFINE tt == <<>>
           f == 0
           t == 0
<1>1. written \in Nat /\ reserved \subseteq Buffers
  BY Found
<1>2. /\ slices' = [slices EXCEPT ![b] = tt] /\ front' = [front EXCEPT ![b] = f]
      /\ total' = [total EXCEPT ![b] = t] /\ reserved' = reserved \ {b} /\ written' = written
  BY ONLY Renew(b) DEF Renew
<1>3. Joined(tt) = <<>>
  BY JoinedOne
<1>4. t = Len(Joined(tt))
  BY ONLY <1>3
<1>5. b \notin reserved'
  BY ONLY <1>2
<1>6. Shaped(tt, f, b \in reserved')
  <2>1. tt \in Seq(SliceSet) /\ Len(tt) = 0
    OBVIOUS
  <2>2. \A i \in 1..Len(tt) : FALSE
    BY ONLY <2>1
  <2> HIDE DEF tt
  <2> QED
    BY ONLY <2>1, <2>2, <1>5 DEF Shaped
<1>7. written' \in Nat /\ reserved' \subseteq Buffers /\ \A c \in Buffers : c # b => (c \in reserved' <=> c \in reserved)
  BY ONLY <1>1, <1>2
<1> HIDE DEF tt, f, t
<1>8. BufInv' /\ Contents' = [Contents EXCEPT ![b] = Joined(tt)]
  BY ONLY BufInv, b \in Buffers, <1>2, <1>4, <1>6, <1>7, OneBuffer
<1> QED
  BY ONLY <1>8, <1>3, Zenon
-----------------------------------------------------------------------------
(* drain() takes the first n bytes, or all there are. *)
LEMMA DrainStep ==
    ASSUME BufInv, NEW b \in Buffers, NEW n \in Nat, Drain(b, n)
    PROVE  BufInv' /\ Contents' = [Contents EXCEPT ![b] = SubSeq(@, n + 1, Len(@))]
<1> DEFINE ss == slices[b]
           l == Joined(ss)
           dd == DrainedSlices(b, n)
           k == NewFront(b, n)
           full == k * 2 >= Len(dd)
           cc == CompactSlices(dd, k)
           tt == IF full THEN cc ELSE dd
           f == IF full THEN 0 ELSE k
           t == total[b] - Min({n, Upto(b, Len(ss))})
           y == SubSeq(l, n + 1, Len(l))
<1>1. /\ Shaped(ss, front[b], FALSE) /\ total[b] = Len(l) /\ Len(l) \in Nat /\ l \in Seq(Nat)
      /\ Contents[b] = l /\ written \in Nat /\ reserved \subseteq Buffers
      /\ b \notin reserved
  BY Found DEF Drain, Usable
<1>2. /\ dd \in Seq(SliceSet) /\ k \in 0..Len(dd)
      /\ \A i \in 1..Len(dd) : Holds(dd[i])
      /\ EmptyUpto(k, dd)
      /\ Joined(dd) = y
      /\ Upto(b, Len(ss)) = Len(l)
  BY ONLY <1>1, n \in Nat, Draining, Zenon
<1>3. /\ slices' = [slices EXCEPT ![b] = tt] /\ front' = [front EXCEPT ![b] = f]
      /\ total' = [total EXCEPT ![b] = t]
      /\ reserved' = reserved /\ written' = written
  BY ONLY Drain(b, n) DEF Drain, DrainedSlices
<1> HIDE DEF dd, k, l
<1>4. /\ Shaped(cc, 0, FALSE) /\ Joined(cc) = Joined(dd)
      /\ ~full => Shaped(dd, k, FALSE)
  BY ONLY <1>2, Compacting
<1> HIDE DEF cc, full, y
<1>5. Shaped(tt, f, FALSE) /\ Joined(tt) = y
  <2>1. CASE full
    <3>1. tt = cc /\ f = 0
      BY ONLY <2>1
    <3> HIDE DEF tt, f
    <3> QED
      BY ONLY <3>1, <1>4, <1>2, Zenon
  <2>2. CASE ~full
    <3>1. tt = dd /\ f = k
      BY ONLY <2>2
    <3> HIDE DEF tt, f
    <3> QED
      BY ONLY <3>1, <2>2, <1>4, <1>2, Zenon
  <2> QED
    BY <2>1, <2>2
<1> HIDE DEF tt, f
<1>6. t = Len(Joined(tt))
  <2> DEFINE m == Len(l)
             u == Min({n, m})
  <2>1. m \in Nat
    BY ONLY <1>1
  <2>2. t = m - u
    BY ONLY <1>1, <1>2, Zenon
  <2> HIDE DEF t
  <2>3. u = IF n <= m THEN n ELSE m
    BY ONLY <2>1, n \in Nat, MinTwo
  <2> HIDE DEF u
  <2>4. Len(y) = IF n + 1 <= m THEN m - n ELSE 0
    <3>1. n + 1 \in Nat
      OBVIOUS
    <3> QED
      BY ONLY <1>1, <2>1, n \in Nat DEF y
  <2>5. m - u = Len(y)
    <3> HIDE DEF m
    <3> QED
      BY ONLY <2>1, <2>3, <2>4, n \in Nat
  <2> QED
    BY ONLY <2>2, <2>5, <1>5, Zenon
<1> HIDE DEF t
<1>7. Shaped(tt, f, b \in reserved')
  <2>1. b \notin reserved'
    BY <1>1, <1>3
  <2> QED
    BY ONLY <2>1, <1>5, Zenon DEF Shaped
<1>8. written' \in Nat /\ reserved' \subseteq Buffers /\ \A c \in Buffers : c # b => (c \in reserved' <=> c \in reserved)
  BY ONLY <1>1, <1>3
<1>9. BufInv' /\ Contents' = [Contents EXCEPT ![b] = Joined(tt)]
  BY ONLY BufInv, b \in Buffers, <1>3, <1>6, <1>7, <1>8, OneBuffer
<1>10. Joined(tt) = SubSeq(Contents[b], n + 1, Len(Contents[b]))
  BY ONLY <1>5, <1>1, Zenon DEF y
<1> QED
  BY ONLY <1>9, <1>10, Zenon

(* The active slices of a buffer hold its bytes. *)
LEMMA ActiveIs ==
    ASSUME BufInv, NEW b \in Buffers
    PROVE  /\ Active(b) = CompactSlices(slices[b], front[b])
           /\ Joined(Active(b)) = Joined(slices[b]) /\ Active(b) \in Seq(SliceSet)
           /\ b \notin reserved => Shaped(Active(b), 0, FALSE)
<1> DEFINE ss == slices[b]
           f == front[b]
<1>1. /\ Shaped(ss, f, b \in reserved)
      /\ b \notin reserved => Shaped(ss, f, FALSE)
  BY Found
<1>2. /\ ss \in Seq(SliceSet) /\ f \in Nat /\ (f = 0 \/ 2 * f < Len(ss)) /\ Len(ss) \in Nat
      /\ \A i \in 1..Len(ss) : i <= f => ss[i].data = <<>>
  BY ONLY <1>1, LenProperties DEF Shaped
<1>3. Active(b) = CompactSlices(ss, f) /\ Active(b) = Cut(ss, f, Len(ss))
  BY ONLY Zenon DEF Active, CompactSlices, Cut
<1> HIDE DEF ss, f
<1>4. f \in 0..Len(ss)
  BY ONLY <1>2
<1>5. \A i \in 1..f : ss[i].data = <<>>
  BY ONLY <1>2
<1>6. Joined(Cut(ss, f, Len(ss))) = Joined(ss) /\ Cut(ss, f, Len(ss)) \in Seq(SliceSet)
  BY ONLY <1>2, <1>4, <1>5, JoinedFront
<1>7. ASSUME b \notin reserved PROVE Shaped(Active(b), 0, FALSE)
  <2>1. \A i \in 1..Len(ss) : Holds(ss[i])
    BY ONLY <1>7, <1>1 DEF Shaped
  <2>2. EmptyUpto(f, ss)
    BY ONLY <1>7, <1>1, Zenon DEF Shaped, EmptyUpto
  <2>3. Shaped(CompactSlices(ss, f), 0, FALSE)
    BY ONLY <2>1, <2>2, <1>2, <1>4, Compacting
  <2> QED
    BY ONLY <2>3, <1>3, Zenon
<1> QED
  BY ONLY <1>3, <1>6, <1>7, Zenon DEF ss, f

(* The invariant makes linearize() the bytes in a buffer. *)
LEMMA LinearizeIs ==
    ASSUME BufInv, NEW b \in Buffers
    PROVE  Linearize(b) = Contents[b]
<1>1. Linearize(b) = Joined(Active(b))
  BY DEF Linearize, Joined, Datas
<1>2. Joined(Active(b)) = Joined(slices[b])
  BY ActiveIs
<1>3. Contents[b] = Joined(slices[b])
  BY Found
<1> QED
  BY ONLY <1>1, <1>2, <1>3, Zenon

(* move() appends the bytes of the other buffer, which is left empty. *)
LEMMA MoveStep ==
    ASSUME BufInv, NEW b \in Buffers, NEW other \in Buffers, Move(b, other)
    PROVE  BufInv' /\ Contents' = [Contents EXCEPT ![b] = @ \o Contents[other], ![other] = <<>>]
<1> DEFINE ss == Active(b)
           uu == Active(other)
           tt == ss \o uu
           ee == <<>>
           x == Joined(slices[b])
           y == Joined(slices[other])
<1>1. b \notin reserved /\ other \notin reserved /\ b # other
  BY ONLY Move(b, other) DEF Move, Usable
<1>2. /\ total[b] = Len(x) /\ x \in Seq(Nat) /\ Len(x) \in Nat /\ Contents[b] = x
      /\ written \in Nat /\ reserved \subseteq Buffers
      /\ slices \in [Buffers -> Seq(SliceSet)] /\ front \in [Buffers -> Nat] /\ total \in [Buffers -> Nat]
  BY Found
<1>3. total[other] = Len(y) /\ y \in Seq(Nat) /\ Len(y) \in Nat /\ Contents[other] = y
  BY Found
<1>4. CompactSlices(slices[b], front[b]) = ss /\ Shaped(ss, 0, FALSE) /\ Joined(ss) = x
  BY <1>1, ActiveIs
<1>5. Shaped(uu, 0, FALSE) /\ Joined(uu) = y
  BY <1>1, ActiveIs
<1>6. /\ slices' = [slices EXCEPT ![b] = CompactSlices(slices[b], front[b]) \o uu, ![other] = <<>>]
      /\ front' = [front EXCEPT ![b] = 0, ![other] = 0]
      /\ total' = [total EXCEPT ![b] = total[b] + total[other], ![other] = 0]
      /\ reserved' = reserved /\ written' = written
  BY ONLY Move(b, other), <1>1 DEF Move
<1> HIDE DEF ss, uu, x, y
<1>7. Shaped(tt, 0, FALSE) /\ Joined(tt) = x \o y
  BY ONLY <1>4, <1>5, ShapedConcat
<1>8. Shaped(ee, 0, FALSE) /\ Joined(ee) = <<>>
  <2>1. ee \in Seq(SliceSet) /\ Len(ee) = 0
    OBVIOUS
  <2>2. \A i \in 1..Len(ee) : FALSE
    BY ONLY <2>1
  <2>3. Joined(ee) = <<>>
    BY JoinedOne
  <2> HIDE DEF ee
  <2>4. Shaped(ee, 0, FALSE)
    BY ONLY <2>1, <2>2 DEF Shaped
  <2> QED
    BY <2>3, <2>4
<1>9. tt \in Seq(SliceSet) /\ ee \in Seq(SliceSet)
  BY ONLY <1>7, <1>8 DEF Shaped
<1>10. Len(x \o y) = Len(x) + Len(y)
  BY ONLY <1>2, <1>3, ConcatProperties
<1>11. slices' = [slices EXCEPT ![b] = tt, ![other] = ee]
  BY ONLY <1>6, <1>4, Zenon
<1> HIDE DEF tt, ee
<1>12. /\ slices' \in [Buffers -> Seq(SliceSet)] /\ front' \in [Buffers -> Nat] /\ total' \in [Buffers -> Nat]
  <2>1. total[b] + total[other] \in Nat
    BY ONLY <1>2, <1>3
  <2>2. total' \in [Buffers -> Nat]
    BY ONLY <1>6, <2>1, <1>2
  <2>3. front' \in [Buffers -> Nat]
    BY ONLY <1>6, <1>2
  <2>4. slices' \in [Buffers -> Seq(SliceSet)]
    BY ONLY <1>11, <1>9, <1>2
  <2> QED
    BY <2>2, <2>3, <2>4
<1>13. /\ slices'[b] = tt /\ front'[b] = 0 /\ total'[b] = Len(x) + Len(y)
       /\ slices'[other] = ee /\ front'[other] = 0 /\ total'[other] = 0
       /\ \A c \in Buffers : c # b /\ c # other =>
             slices'[c] = slices[c] /\ front'[c] = front[c] /\ total'[c] = total[c]
  BY ONLY <1>11, <1>6, <1>1, <1>2, <1>3, b \in Buffers, other \in Buffers
<1>14. ASSUME NEW c \in Buffers
       PROVE  Shaped(slices'[c], front'[c], c \in reserved') /\ total'[c] = Len(Joined(slices'[c]))
  <2>1. CASE c = b
    <3>1. Shaped(slices'[b], front'[b], FALSE) /\ total'[b] = Len(Joined(slices'[b]))
      BY ONLY <1>13, <1>7, <1>10, Zenon
    <3>2. c \notin reserved'
      BY <2>1, <1>1, <1>6
    <3>3. Shaped(slices'[b], front'[b], c \in reserved')
      BY ONLY <3>1, <3>2, Zenon DEF Shaped
    <3> QED
      BY ONLY <2>1, <3>1, <3>3, Zenon
  <2>2. CASE c = other
    <3>1. Len(Joined(ee)) = 0
      BY ONLY <1>8
    <3>2. Shaped(slices'[other], front'[other], FALSE) /\ total'[other] = Len(Joined(slices'[other]))
      BY ONLY <1>13, <1>8, <3>1, Zenon
    <3>3. c \notin reserved'
      BY <2>2, <1>1, <1>6
    <3>4. Shaped(slices'[other], front'[other], c \in reserved')
      BY ONLY <3>2, <3>3, Zenon DEF Shaped
    <3> QED
      BY ONLY <2>2, <3>2, <3>4, Zenon
  <2>3. CASE c # b /\ c # other
    <3>1. slices'[c] = slices[c] /\ front'[c] = front[c] /\ total'[c] = total[c] /\ reserved' = reserved
      BY ONLY <2>3, <1>13, <1>6, c \in Buffers
    <3>2. Shaped(slices[c], front[c], c \in reserved) /\ total[c] = Len(Joined(slices[c]))
      BY Found
    <3> QED
      BY ONLY <3>1, <3>2, Zenon
  <2> QED
    BY <2>1, <2>2, <2>3
<1>15. BufInv'
  <2>1. written' \in Nat /\ reserved' \subseteq Buffers
    BY ONLY <1>2, <1>6
  <2> QED
    BY ONLY <1>12, <1>14, <2>1, Zenon DEF BufInv
<1>16. ASSUME NEW c \in Buffers
       PROVE  Joined(slices'[c]) =
                 IF c = other THEN <<>> ELSE IF c = b THEN x \o y ELSE Joined(slices[c])
  BY ONLY <1>13, <1>7, <1>8, <1>1, c \in Buffers, Zenon
<1>17. Contents' = [Contents EXCEPT ![b] = x \o y, ![other] = <<>>]
  BY ONLY <1>16, <1>1, b \in Buffers, other \in Buffers DEF Contents
<1> QED
  BY ONLY <1>15, <1>17, <1>2, <1>3, Zenon

(* The buffers start empty. *)
LEMMA BufInit ==
    ASSUME BufferInit
    PROVE  BufInv /\ Contents = [b \in Buffers |-> <<>>]
<1> DEFINE ee == <<>>
<1>1. /\ slices = [b \in Buffers |-> ee] /\ front = [b \in Buffers |-> 0] /\ total = [b \in Buffers |-> 0]
      /\ reserved = {} /\ written = 0
  BY DEF BufferInit
<1>2. ee \in Seq(SliceSet) /\ Len(ee) = 0 /\ ee = <<>>
  OBVIOUS
<1>3. \A i \in 1..Len(ee) : FALSE
  BY ONLY <1>2
<1>4. Joined(ee) = <<>> /\ Len(Joined(ee)) = 0
  BY JoinedOne
<1> HIDE DEF ee
<1>5. Shaped(ee, 0, FALSE)
  BY ONLY <1>2, <1>3 DEF Shaped
<1>6. ASSUME NEW b \in Buffers
      PROVE  Shaped(slices[b], front[b], b \in reserved) /\ total[b] = Len(Joined(slices[b]))
  <2>1. slices[b] = ee /\ front[b] = 0 /\ total[b] = 0 /\ b \notin reserved
    BY ONLY <1>1, b \in Buffers
  <2>2. Shaped(ee, 0, b \in reserved)
    BY ONLY <2>1, <1>5, Zenon DEF Shaped
  <2> QED
    BY ONLY <2>1, <2>2, <1>4, Zenon
<1>7. /\ slices \in [Buffers -> Seq(SliceSet)] /\ front \in [Buffers -> Nat] /\ total \in [Buffers -> Nat]
      /\ written \in Nat /\ reserved \subseteq Buffers
  BY ONLY <1>1, <1>2
<1>8. BufInv
  BY ONLY <1>6, <1>7, Zenon DEF BufInv
<1>9. \A b \in Buffers : Joined(slices[b]) = <<>>
  BY ONLY <1>1, <1>4
<1> QED
  BY ONLY <1>8, <1>9 DEF Contents

(* The layout is what the invariant says of the slices. *)
LEMMA BufLayout ==
    ASSUME BufInv PROVE Layout
<1>1. \A b \in Buffers : Shaped(slices[b], front[b], b \in reserved)
  BY DEF BufInv
<1> SUFFICES ASSUME NEW b \in Buffers
             PROVE  /\ front[b] = 0 \/ 2 * front[b] < Len(slices[b])
                    /\ \A i \in DOMAIN slices[b] :
                        LET s == slices[b][i]
                        IN  /\ s.pos + Len(s.data) <= s.cap
                            /\ i <= front[b] => s.data = <<>>
                            /\ s.data = <<>> => i <= front[b] \/ (b \in reserved /\ i = Len(slices[b]))
  BY DEF Layout
<1>2. Shaped(slices[b], front[b], b \in reserved)
  BY <1>1
<1>3. DOMAIN slices[b] = 1..Len(slices[b])
  BY <1>2, LenProperties DEF Shaped
<1> QED
  BY ONLY <1>2, <1>3, Zenon DEF Shaped, Holds

(* The queue each buffer stands for. *)
BufferQueues == [b \in Buffers |-> Linearize(b)]

(* It holds the bytes in the buffer, as totalLength_ counts them. *)
LEMMA QueuesAre ==
    BufInv => BufferQueues = Contents /\ total = [b \in Buffers |-> Len(BufferQueues[b])]
<1> SUFFICES ASSUME BufInv
             PROVE  BufferQueues = Contents /\ total = [b \in Buffers |-> Len(BufferQueues[b])]
  OBVIOUS
<1>1. \A b \in Buffers : Linearize(b) = Contents[b] /\ total[b] = Len(Contents[b])
  <2> SUFFICES ASSUME NEW b \in Buffers
               PROVE  Linearize(b) = Contents[b] /\ total[b] = Len(Contents[b])
    OBVIOUS
  <2>1. Linearize(b) = Contents[b]
    BY LinearizeIs
  <2>2. total[b] = Len(Joined(slices[b])) /\ Contents[b] = Joined(slices[b])
    BY Found
  <2> QED
    BY ONLY <2>1, <2>2, Zenon
<1>2. BufferQueues = Contents
  <2>1. Contents = [b \in Buffers |-> Contents[b]]
    BY ONLY Zenon DEF Contents
  <2>2. BufferQueues = [b \in Buffers |-> Contents[b]]
    BY ONLY <1>1, Zenon DEF BufferQueues
  <2> QED
    BY ONLY <2>1, <2>2, Zenon
<1>3. total = [b \in Buffers |-> Len(BufferQueues[b])]
  <2>1. total = [b \in Buffers |-> total[b]]
    BY DEF BufInv
  <2>2. \A b \in Buffers : total[b] = Len(BufferQueues[b])
    BY ONLY <1>1, <1>2, Zenon
  <2> QED
    BY ONLY <2>1, <2>2, Zenon
<1> QED
  BY <1>2, <1>3

(* One call does to the bytes what a queue does. *)
Called(c) ==
    CASE c[1] = "put"   -> [Contents EXCEPT ![c[2]] = @ \o c[3]]
      [] c[1] = "drain" -> [Contents EXCEPT ![c[2]] = SubSeq(@, c[3] + 1, Len(@))]
      [] c[1] = "move"  -> [Contents EXCEPT ![c[2]] = @ \o Contents[c[3]], ![c[3]] = <<>>]
      [] c[1] = "new"   -> [Contents EXCEPT ![c[2]] = <<>>]
      [] OTHER          -> Contents

(* Every call keeps the invariant and does just that. *)
LEMMA BufStep ==
    ASSUME BufInv, BufferNext
    PROVE  BufInv' /\ Contents' = Called(call')
<1>1. PICK b \in Buffers :
        \/ \E n \in 0..MaxAdd : Add(b, n)
        \/ Reserve(b)
        \/ \E n \in 1..MaxAdd : Commit(b, n)
        \/ Renew(b)
        \/ \E n \in 0..MaxDrain : Drain(b, n)
        \/ \E other \in Buffers : Move(b, other)
  BY DEF BufferNext
<1>2. ASSUME NEW n \in 0..MaxAdd, Add(b, n) PROVE BufInv' /\ Contents' = Called(call')
  <2>1. n \in Nat
    BY BufferAssumption
  <2>2. BufInv' /\ Contents' = [Contents EXCEPT ![b] = @ \o Bytes(n)]
    BY <1>2, <2>1, AddStep
  <2>3. call' = <<"put", b, Bytes(n)>>
    BY <1>2 DEF Add
  <2> QED
    BY ONLY <2>2, <2>3 DEF Called
<1>3. ASSUME Reserve(b) PROVE BufInv' /\ Contents' = Called(call')
  <2>1. BufInv' /\ Contents' = Contents
    BY <1>3, ReserveStep
  <2>2. call' = <<"reserve", b>>
    BY <1>3 DEF Reserve
  <2> QED
    BY ONLY <2>1, <2>2 DEF Called
<1>4. ASSUME NEW n \in 1..MaxAdd, Commit(b, n) PROVE BufInv' /\ Contents' = Called(call')
  <2>1. n \in Nat \ {0}
    BY BufferAssumption
  <2>2. BufInv' /\ Contents' = [Contents EXCEPT ![b] = @ \o Bytes(n)]
    BY <1>4, <2>1, CommitStep
  <2>3. call' = <<"put", b, Bytes(n)>>
    BY <1>4 DEF Commit
  <2> QED
    BY ONLY <2>2, <2>3 DEF Called
<1>5. ASSUME Renew(b) PROVE BufInv' /\ Contents' = Called(call')
  <2>1. BufInv' /\ Contents' = [Contents EXCEPT ![b] = <<>>]
    BY <1>5, RenewStep
  <2>2. call' = <<"new", b>>
    BY <1>5 DEF Renew
  <2> QED
    BY ONLY <2>1, <2>2 DEF Called
<1>6. ASSUME NEW n \in 0..MaxDrain, Drain(b, n) PROVE BufInv' /\ Contents' = Called(call')
  <2>1. n \in Nat
    BY BufferAssumption
  <2>2. BufInv' /\ Contents' = [Contents EXCEPT ![b] = SubSeq(@, n + 1, Len(@))]
    BY <1>6, <2>1, DrainStep
  <2>3. call' = <<"drain", b, n>>
    BY <1>6 DEF Drain
  <2> QED
    BY ONLY <2>2, <2>3 DEF Called
<1>7. ASSUME NEW other \in Buffers, Move(b, other) PROVE BufInv' /\ Contents' = Called(call')
  <2>1. BufInv' /\ Contents' = [Contents EXCEPT ![b] = @ \o Contents[other], ![other] = <<>>]
    BY <1>7, MoveStep
  <2>2. call' = <<"move", b, other>>
    BY <1>7 DEF Move
  <2> QED
    BY ONLY <2>1, <2>2 DEF Called
<1> QED
  BY ONLY <1>1, <1>2, <1>3, <1>4, <1>5, <1>6, <1>7, Zenon

(* The invariant of the buffers, in every reachable state. *)
LEMMA BufferInvariant == BufferSpec => []BufInv
<1>1. BufferInit => BufInv
  BY BufInit
<1>2. BufInv /\ [BufferNext]_bufferVars => BufInv'
  <2>1. BufInv /\ BufferNext => BufInv'
    BY BufStep
  <2>2. BufInv /\ UNCHANGED bufferVars => BufInv'
    BY DEF BufInv, bufferVars
  <2> QED
    BY <2>1, <2>2
<1> QED
  BY <1>1, <1>2, PTL DEF BufferSpec

(* For any number of buffers, any capacity of a slice and any sequence of    *)
(* add(), reserve(), commit(), drain() and move(), the layout that the       *)
(* methods of Buffer rely on holds: what is drained is in front and less     *)
(* than half of the vector, everything else has data.                        *)
THEOREM BuffersLaidOut == BufferSpec => []Layout
<1>1. BufInv => Layout
  BY BufLayout
<1> QED
  BY <1>1, BufferInvariant, PTL

(* Buffers implement queues of bytes: whatever the sequence of calls and     *)
(* however they cut the bytes into slices, linearize() gives the bytes put   *)
(* and not yet drained or moved away, in order, and totalLength_ their       *)
(* number.                                                                   *)
THEOREM BuffersAreQueues == BufferSpec => QueueSpec
<1>1. BufferInit => Queues!Init
  <2> SUFFICES ASSUME BufferInit PROVE Queues!Init
    OBVIOUS
  <2>1. BufInv /\ Contents = [b \in Buffers |-> <<>>]
    BY BufInit
  <2>2. BufferQueues = [b \in Buffers |-> <<>>]
    BY <2>1, QueuesAre
  <2>3. total = [b \in Buffers |-> 0] /\ call = <<"none">>
    BY DEF BufferInit
  <2> QED
    BY ONLY <2>2, <2>3, Zenon DEF Queues!Init, BufferQueues
<1>2. BufInv' => (BufferQueues = Contents /\ total = [b \in Buffers |-> Len(BufferQueues[b])])'
  BY QueuesAre, PTL
<1>3. BufInv /\ [BufferNext]_bufferVars => [Queues!Call]_<<BufferQueues, total, call>>
  <2>1. ASSUME BufInv, BufferNext PROVE Queues!Call
    <3>1. BufInv' /\ Contents' = Called(call')
      BY <2>1, BufStep
    <3>2. BufferQueues = Contents /\ BufferQueues' = Contents'
      BY <1>2, <2>1, <3>1, QueuesAre
    <3>3. Queues!Effect(call') = Called(call')
      BY ONLY <3>2, Zenon DEF Queues!Effect, Called, BufferQueues
    <3>4. total' = [b \in Buffers |-> Len(BufferQueues'[b])]
      BY <1>2, <3>1
    <3>5. BufferQueues' = Queues!Effect(call')
      BY ONLY <3>1, <3>2, <3>3, Zenon
    <3> QED
      BY ONLY <3>4, <3>5, Zenon DEF Queues!Call, BufferQueues
  <2>2. ASSUME UNCHANGED bufferVars PROVE UNCHANGED <<BufferQueues, total, call>>
    BY ONLY <2>2 DEF bufferVars, BufferQueues, Linearize, Active
  <2> QED
    BY <2>1, <2>2
<1> QED
  BY <1>1, <1>3, BufferInvariant, PTL DEF BufferSpec, QueueSpec, Queues!Spec, BufferQueues

-----------------------------------------------------------------------------
(* A set of numbers has a least one. *)
LEMMA LeastOf ==
    ASSUME NEW S \in SUBSET Nat, S # {}
    PROVE  \E m \in S : \A k \in S : m <= k
<1> DEFINE R == OpToRel(<, Nat)
<1>1. PICK f \in S : \A g \in S : <<g, f>> \notin R
  BY NatLessThanWellFounded, WFMin, Zenon
<1>2. ASSUME NEW g \in S PROVE f <= g
  <2>1. f \in Nat /\ g \in Nat
    OBVIOUS
  <2>2. ~(g < f)
    BY <1>1, <2>1 DEF OpToRel
  <2> QED
    BY <2>1, <2>2
<1> QED
  BY <1>2

(* n bytes of white space are in front of the first other byte of p. *)
Leading(p, n) ==
    /\ n \in 0..Len(p) /\ (n = Len(p) \/ p[n + 1] \notin Whitespace)
    /\ \A i \in 1..n : p[i] \in Whitespace

(* There is one such n, and it is begStart. *)
LEMMA LeadingIs ==
    ASSUME NEW p \in Seq(Nat)
    PROVE  Leading(p, BegStart(p)) /\ \A n : Leading(p, n) => n = BegStart(p)
<1> DEFINE N == Len(p)
           S == {i \in 1..N : p[i] \notin Whitespace}
<1>0. N \in Nat
  BY LenProperties
<1>1. \E n \in 0..N : Leading(p, n)
  <2>1. CASE S = {}
    <3>1. Leading(p, N)
      BY <1>0, <2>1 DEF Leading
    <3> QED
      BY <3>1, <1>0
  <2>2. CASE S # {}
    <3>1. PICK m \in S : \A k \in S : m <= k
      <4>1. S \in SUBSET Nat
        BY <1>0
      <4> QED
        BY <4>1, <2>2, LeastOf
    <3>2. m \in 1..N /\ p[m] \notin Whitespace
      OBVIOUS
    <3>3. \A i \in 1..(m - 1) : p[i] \in Whitespace
      BY <3>1, <3>2, <1>0
    <3>4. m - 1 \in 0..N /\ (m - 1) + 1 = m
      BY <3>2, <1>0
    <3>5. Leading(p, m - 1)
      BY <3>2, <3>3, <3>4 DEF Leading
    <3> QED
      BY <3>4, <3>5
  <2> QED
    BY <2>1, <2>2
<1>2. BegStart(p) = CHOOSE n \in 0..N : Leading(p, n)
  <2>1. \A n \in 0..N : Leading(p, n) <=>
           ((n = N \/ p[n + 1] \notin Whitespace) /\ \A i \in 1..n : p[i] \in Whitespace)
    BY DEF Leading
  <2> QED
    BY <2>1, Zenon DEF BegStart
<1>3. Leading(p, BegStart(p))
  BY <1>1, <1>2, Zenon
<1>4. ASSUME NEW n, NEW m, Leading(p, n), Leading(p, m), n < m PROVE FALSE
  <2>1. n \in 0..N /\ m \in 0..N /\ (n = N \/ p[n + 1] \notin Whitespace) /\ \A i \in 1..m : p[i] \in Whitespace
    BY <1>4 DEF Leading
  <2>2. n + 1 \in 1..m /\ n # N
    BY <2>1, <1>0, <1>4
  <2> QED
    BY <2>1, <2>2
<1>5. ASSUME NEW n, Leading(p, n) PROVE n = BegStart(p)
  <2>1. n \in Nat /\ BegStart(p) \in Nat
    BY <1>3, <1>5, <1>0 DEF Leading
  <2>2. ~(n < BegStart(p)) /\ ~(BegStart(p) < n)
    BY <1>3, <1>4, <1>5
  <2> QED
    BY <2>1, <2>2
<1> QED
  BY <1>3, <1>5

(* The beginning of p without its leading white space. *)
LEMMA BeginningIs ==
    ASSUME NEW p \in Seq(Nat), NEW n \in Nat
    PROVE  /\ BegStart(p) \in 0..Len(p) /\ Len(p) \in Nat
           /\ Beginning(p, n) = [i \in 1..n |-> IF i <= Len(p) - BegStart(p) THEN p[BegStart(p) + i]
                                                ELSE kPaddingToken]
<1> DEFINE N == Len(p)
           s == BegStart(p)
           I == {i \in 1..N : p[i] \notin Whitespace}
           q == Lstrip(p)
           k == SelectInSeq(p, LAMBDA b : b \notin Whitespace)
<1>0. N \in Nat
  BY LenProperties
<1>1. Leading(p, s)
  BY LeadingIs
<1>2. /\ s \in 0..N /\ (s = N \/ p[s + 1] \notin Whitespace)
      /\ \A i \in 1..s : p[i] \in Whitespace
  BY <1>1 DEF Leading
<1>3. k = IF I # {} THEN Min(I) ELSE 0
  BY DEF SelectInSeq
<1>4. q = IF k = 0 THEN <<>> ELSE SubSeq(p, k, N)
  BY DEF Lstrip
<1> HIDE DEF s, k, q
<1>5. Len(q) = N - s /\ \A i \in 1..(N - s) : q[i] = p[s + i]
  <2>1. CASE s = N
    <3>1. I = {}
      BY <2>1, <1>2
    <3>2. q = <<>>
      BY <3>1, <1>3, <1>4
    <3> QED
      BY <3>2, <2>1, <1>0
  <2>2. CASE s # N
    <3>1. s + 1 \in I /\ \A i \in I : s + 1 <= i
      BY <2>2, <1>2, <1>0
    <3>2. I \subseteq Nat
      BY <1>0
    <3> HIDE DEF I
    <3>3. Min(I) = s + 1
      <4>1. s + 1 \in Nat
        BY <1>2
      <4>2. ASSUME NEW x \in I, \A y \in I : x <= y PROVE x = s + 1
        BY <4>2, <4>1, <3>1, <3>2
      <4> QED
        BY <3>1, <4>2 DEF Min
    <3>4. k = s + 1 /\ k # 0
      BY <3>3, <3>1, <1>3, <1>2
    <3>5. q = SubSeq(p, s + 1, N)
      BY <3>4, <1>4
    <3> QED
      BY <3>5, <1>0, <1>2, SubSeqProperties
  <2> QED
    BY <2>1, <2>2
<1>6. Beginning(p, n) = [i \in 1..n |-> IF i <= Len(q) THEN q[i] ELSE kPaddingToken]
  BY ONLY Zenon DEF Beginning, q
<1>7. \A i \in 1..n : (IF i <= Len(q) THEN q[i] ELSE kPaddingToken)
                      = IF i <= N - s THEN p[s + i] ELSE kPaddingToken
  BY ONLY <1>5, <1>2, <1>0, n \in Nat
<1>8. Beginning(p, n) = [i \in 1..n |-> IF i <= N - s THEN p[s + i] ELSE kPaddingToken]
  BY ONLY <1>6, <1>7, Zenon
<1> QED
  BY ONLY <1>8, <1>2, <1>0, Zenon DEF s

(* The white space at the end of p begins after the n-th byte. *)
Trailing(p, n) ==
    /\ n \in 0..Len(p) /\ (n = 0 \/ p[n] \notin Whitespace)
    /\ \A i \in (n + 1)..Len(p) : p[i] \in Whitespace

(* The reverse of a sequence. *)
LEMMA ReverseIs ==
    ASSUME NEW S, NEW p \in Seq(S)
    PROVE  /\ Reverse(p) \in Seq(S) /\ Len(Reverse(p)) = Len(p) /\ Len(p) \in Nat
           /\ \A i \in 1..Len(p) : Reverse(p)[i] = p[(Len(p) - i) + 1]
<1>1. Len(p) \in Nat /\ p \in [1..Len(p) -> S]
  BY LenProperties
<1>2. Reverse(p) \in [1..Len(p) -> S]
  BY <1>1 DEF Reverse
<1>3. Reverse(p) \in Seq(S) /\ Len(Reverse(p)) = Len(p)
  BY <1>1, <1>2
<1> QED
  BY <1>1, <1>3 DEF Reverse

(* What trails in p leads in its reverse. *)
LEMMA TrailingLeads ==
    ASSUME NEW p \in Seq(Nat), NEW n, n \in 0..Len(p)
    PROVE  Trailing(p, n) <=> Leading(Reverse(p), Len(p) - n)
<1> DEFINE N == Len(p)
           r == Reverse(p)
           m == N - n
<1>1. /\ N \in Nat /\ Len(r) = N
      /\ \A i \in 1..N : r[i] = p[(N - i) + 1]
  BY ReverseIs
<1> HIDE DEF r
<1>2. m \in 0..N /\ (m = N <=> n = 0)
  BY <1>1
<1>3. n # 0 => r[m + 1] = p[n]
  <2>1. n # 0 => m + 1 \in 1..N /\ (N - (m + 1)) + 1 = n
    BY <1>1
  <2> QED
    BY <2>1, <1>1
<1>4. ASSUME \A i \in (n + 1)..N : p[i] \in Whitespace, NEW i \in 1..m PROVE r[i] \in Whitespace
  <2>1. i \in 1..N /\ (N - i) + 1 \in (n + 1)..N
    BY <1>1
  <2> QED
    BY <2>1, <1>1, <1>4
<1>5. ASSUME \A i \in 1..m : r[i] \in Whitespace, NEW i \in (n + 1)..N PROVE p[i] \in Whitespace
  <2> DEFINE j == (N - i) + 1
  <2>1. j \in 1..m /\ j \in 1..N /\ (N - j) + 1 = i
    BY <1>1
  <2> HIDE DEF j
  <2>2. r[j] = p[(N - j) + 1]
    BY <2>1, <1>1
  <2> QED
    BY <2>1, <2>2, <1>5
<1>6. (\A i \in (n + 1)..N : p[i] \in Whitespace) <=> (\A i \in 1..m : r[i] \in Whitespace)
  BY <1>4, <1>5
<1> HIDE DEF m, N
<1>7. Leading(r, m) <=> /\ (m = N \/ r[m + 1] \notin Whitespace)
                        /\ \A i \in 1..m : r[i] \in Whitespace
  BY <1>1, <1>2 DEF Leading
<1>8. Trailing(p, n) <=> /\ (n = 0 \/ p[n] \notin Whitespace)
                         /\ \A i \in (n + 1)..N : p[i] \in Whitespace
  BY DEF Trailing, N
<1>9. (m = N \/ r[m + 1] \notin Whitespace) <=> (n = 0 \/ p[n] \notin Whitespace)
  BY <1>2, <1>3
<1>10. Trailing(p, n) <=> Leading(r, m)
  BY <1>6, <1>7, <1>8, <1>9
<1> QED
  BY <1>10 DEF r, m, N

(* endPos is where the reverse's leading white space begins. *)
LEMMA EndPosIs ==
    ASSUME NEW p \in Seq(Nat)
    PROVE  /\ EndPos(p) \in 0..Len(p) /\ Len(p) \in Nat
           /\ BegStart(Reverse(p)) = Len(p) - EndPos(p)
<1> DEFINE N == Len(p)
           r == Reverse(p)
           s == BegStart(r)
<1>1. N \in Nat /\ r \in Seq(Nat) /\ Len(r) = N
  BY ReverseIs
<1>2. Leading(r, s) /\ \A n : Leading(r, n) => n = s
  BY <1>1, LeadingIs
<1>3. s \in 0..N
  BY <1>1, <1>2 DEF Leading
<1>4. EndPos(p) = CHOOSE n \in 0..N : Trailing(p, n)
  <2>1. \A n \in 0..N : Trailing(p, n) <=>
           ((n = 0 \/ p[n] \notin Whitespace) /\ \A i \in (n + 1)..N : p[i] \in Whitespace)
    BY DEF Trailing
  <2> QED
    BY <2>1, Zenon DEF EndPos
<1> HIDE DEF s, r
<1>5. \E n \in 0..N : Trailing(p, n)
  <2>1. N - s \in 0..N /\ N - (N - s) = s
    BY <1>1, <1>3
  <2>2. Trailing(p, N - s) <=> Leading(r, N - (N - s))
    BY <2>1, TrailingLeads DEF r
  <2> QED
    BY <2>1, <2>2, <1>2
<1>6. EndPos(p) \in 0..N /\ Trailing(p, EndPos(p))
  BY <1>4, <1>5, Zenon
<1>7. Leading(r, N - EndPos(p))
  BY <1>6, TrailingLeads DEF r
<1>8. N - EndPos(p) = s
  BY <1>2, <1>7, Zenon
<1> QED
  BY <1>1, <1>6, <1>8 DEF s, r

(* The tokens of every payload, for regions of every size. *)
LEMMA Tokens ==
    ASSUME NEW p \in Seq(Nat)
    PROVE  ExtractInputTokens(p) = Beginning(p, kBegSize) \o Reverse(Beginning(Reverse(p), kEndSize))
<1> DEFINE N == Len(p)
           r == Reverse(p)
           s == BegStart(p)
           e == EndPos(p)
           B == kBegSize
           E == kEndSize
           T == Nat \cup {kPaddingToken}
           f == Beginning(p, B)
           g == Beginning(r, E)
           h == Reverse(g)
           c == MinOf(B, N - s)
           d == MinOf(E, e)
           o == B + (E - d)
           t == ExtractInputTokens(p)
<1>0. B \in Nat /\ E \in Nat /\ kInputLen = B + E
  BY ShapeAssumption DEF kInputLen
<1>1. /\ N \in Nat /\ s \in 0..N
      /\ f = [i \in 1..B |-> IF i <= N - s THEN p[s + i] ELSE kPaddingToken]
  BY <1>0, BeginningIs
<1>2. e \in 0..N /\ BegStart(r) = N - e
  BY EndPosIs
<1>3. r \in Seq(Nat) /\ Len(r) = N /\ \A i \in 1..N : r[i] = p[(N - i) + 1]
  BY ReverseIs
<1>4. g = [i \in 1..E |-> IF i <= Len(r) - BegStart(r) THEN r[BegStart(r) + i] ELSE kPaddingToken]
  BY <1>3, <1>0, BeginningIs
<1>5. t = [j \in 1..(B + E) |->
             IF j <= c THEN p[s + j] ELSE IF j > o THEN p[(e - d) + j - o] ELSE kPaddingToken]
  BY <1>0 DEF ExtractInputTokens
<1>6. c = (IF B < N - s THEN B ELSE N - s) /\ d = IF E < e THEN E ELSE e
  BY DEF MinOf
<1> HIDE DEF N, r, s, e, B, E, f, g, h, c, d, o, t
<1>7. c \in Nat /\ d \in Nat /\ c <= B /\ c <= N - s /\ d <= E /\ d <= e
  BY <1>0, <1>1, <1>2, <1>6
<1>8. o \in Nat /\ o = B + (E - d)
  BY <1>0, <1>7 DEF o
<1>9. \A i \in 1..N : p[i] \in Nat
  BY ElementOfSeq DEF N
<1>10. f \in [1..B -> T] /\ f \in Seq(T) /\ Len(f) = B
  <2>1. \A i \in 1..B : (IF i <= N - s THEN p[s + i] ELSE kPaddingToken) \in T
    BY <1>1, <1>0, <1>9
  <2>2. f \in [1..B -> T]
    BY <2>1, <1>1
  <2> HIDE DEF T
  <2> QED
    BY <2>2, <1>0
<1>11. g \in Seq(T) /\ Len(g) = E /\
       \A i \in 1..E : g[i] = IF i <= e THEN p[(e - i) + 1] ELSE kPaddingToken
  <2>1. ASSUME NEW i \in 1..E
        PROVE  (IF i <= Len(r) - BegStart(r) THEN r[BegStart(r) + i] ELSE kPaddingToken)
               = IF i <= e THEN p[(e - i) + 1] ELSE kPaddingToken
    <3>1. Len(r) - BegStart(r) = e
      BY <1>1, <1>2, <1>3
    <3>2. CASE i <= e
      <4>1. BegStart(r) + i \in 1..N /\ (N - (BegStart(r) + i)) + 1 = (e - i) + 1
        BY <1>0, <1>1, <1>2, <3>2
      <4>2. r[BegStart(r) + i] = p[(e - i) + 1]
        BY <4>1, <1>3
      <4> QED
        BY <3>1, <3>2, <4>2
    <3> QED
      BY <3>1, <3>2
  <2>2. \A i \in 1..E : (IF i <= e THEN p[(e - i) + 1] ELSE kPaddingToken) \in T
    BY <1>0, <1>1, <1>2, <1>9
  <2>3. g = [i \in 1..E |-> IF i <= e THEN p[(e - i) + 1] ELSE kPaddingToken]
    BY ONLY <2>1, <1>4, Zenon
  <2>4. g \in [1..E -> T]
    BY ONLY <2>2, <2>3
  <2> HIDE DEF T
  <2> QED
    BY <2>3, <2>4, <1>0
<1>12. h \in Seq(T) /\ Len(h) = E /\ \A i \in 1..E : h[i] = g[(E - i) + 1]
  BY <1>11, ReverseIs DEF h
<1>13. /\ f \o h \in Seq(T) /\ Len(f \o h) = B + E
       /\ \A j \in 1..(B + E) : (f \o h)[j] = IF j <= B THEN f[j] ELSE h[j - B]
  <2> HIDE DEF T
  <2> QED
    BY <1>10, <1>12, ConcatProperties
<1>14. ASSUME NEW j \in 1..(B + E) PROVE t[j] = (f \o h)[j]
  <2>0. t[j] = IF j <= c THEN p[s + j] ELSE IF j > o THEN p[(e - d) + j - o] ELSE kPaddingToken
    BY <1>5
  <2>1. CASE j <= B
    <3>1. (f \o h)[j] = f[j] /\ j \in 1..B /\ ~(j > o)
      BY <2>1, <1>0, <1>7, <1>8, <1>13
    <3>2. f[j] = IF j <= N - s THEN p[s + j] ELSE kPaddingToken
      BY <3>1, <1>1
    <3>3. j <= c <=> j <= N - s
      BY <3>1, <1>0, <1>1, <1>6
    <3> QED
      BY ONLY <2>0, <3>1, <3>2, <3>3, Zenon
  <2>2. CASE ~(j <= B)
    <3> DEFINE i == (E - (j - B)) + 1
    <3>1. j - B \in 1..E /\ i \in 1..E /\ ~(j <= c)
      BY <2>2, <1>0, <1>7
    <3>2. (f \o h)[j] = h[j - B]
      BY <2>2, <1>13
    <3>3. h[j - B] = g[i]
      BY <3>1, <1>12
    <3>4. g[i] = IF i <= e THEN p[(e - i) + 1] ELSE kPaddingToken
      BY <3>1, <1>11
    <3>5. j > o <=> i <= e
      BY <3>1, <1>0, <1>2, <1>6, <1>8
    <3>6. (e - d) + j - o = (e - i) + 1
      BY <3>1, <1>0, <1>2, <1>7, <1>8
    <3> HIDE DEF i
    <3> QED
      BY ONLY <2>0, <3>1, <3>2, <3>3, <3>4, <3>5, <3>6, Zenon
  <2> QED
    BY <2>1, <2>2
<1>15. t = [j \in 1..(B + E) |-> t[j]]
  BY ONLY <1>5
<1>16. f \o h = [j \in 1..(B + E) |-> (f \o h)[j]]
  <2> DEFINE u == f \o h
  <2>1. u \in Seq(T) /\ Len(u) = B + E
    BY <1>13
  <2> HIDE DEF u, T
  <2>2. u = [j \in 1..Len(u) |-> u[j]]
    BY ONLY <2>1, LenProperties
  <2> QED
    BY ONLY <2>1, <2>2, Zenon DEF u
<1>17. t = f \o h
  BY ONLY <1>14, <1>15, <1>16, Zenon
<1> QED
  BY ONLY <1>17, Zenon DEF t, f, h, g, r, B, E

-----------------------------------------------------------------------------
(* f has the products of the beginnings of w. *)
Products(f, w) == f[0] = 1 /\ \A i \in 1..Len(w) : f[i] = f[i - 1] * w[i]

(* Whatever has them ends in the product. *)
LEMMA ProductIs ==
    ASSUME NEW w, Len(w) \in Nat, NEW V, NEW e \in [0..Len(w) -> V], Products(e, w)
    PROVE  Product(w) = e[Len(w)]
<1> DEFINE n == Len(w)
           product[i \in 0..n] == IF i = 0 THEN 1 ELSE product[i - 1] * w[i]
<1>1. e = [i \in 0..n |-> IF i = 0 THEN 1 ELSE e[i - 1] * w[i]]
  <2>1. \A i \in 0..n : e[i] = IF i = 0 THEN 1 ELSE e[i - 1] * w[i]
    <3> SUFFICES ASSUME NEW i \in 0..n PROVE e[i] = IF i = 0 THEN 1 ELSE e[i - 1] * w[i]
      OBVIOUS
    <3>1. i = 0 \/ i \in 1..n
      OBVIOUS
    <3> QED
      BY <3>1, Zenon DEF Products
  <2>2. e = [i \in 0..n |-> e[i]]
    OBVIOUS
  <2> QED
    BY ONLY <2>1, <2>2, Zenon
<1>2. product = [i \in 0..n |-> IF i = 0 THEN 1 ELSE product[i - 1] * w[i]]
  BY <1>1, Zenon
<1>3. Product(w) = product[n]
  BY DEF Product
<1> HIDE DEF product
<1>4. product[0] = 1 /\ \A i \in 1..n : product[i] = product[i - 1] * w[i]
  <2>1. 0 \in 0..n /\ \A i \in 1..n : i \in 0..n /\ i # 0
    OBVIOUS
  <2> QED
    BY ONLY <1>2, <2>1, Zenon
<1> DEFINE S == {i \in 0..n : e[i] = product[i]}
<1>5. 0 \in S
  BY <1>4 DEF Products
<1>6. ASSUME NEW i \in 1..n, i - 1 \in S PROVE i \in S
  <2>1. i \in 0..n
    OBVIOUS
  <2>2. e[i] = e[i - 1] * w[i] /\ product[i] = product[i - 1] * w[i] /\ e[i - 1] = product[i - 1]
    BY <1>4, <1>6, Zenon DEF Products
  <2> QED
    BY ONLY <2>1, <2>2, Zenon
<1>7. 0..n \subseteq S
  <2> HIDE DEF S
  <2> QED
    BY <1>5, <1>6, SetInduction
<1> QED
  BY <1>3, <1>7

(* The products of the shapes of one, two and three dimensions. *)
LEMMA ProductOf ==
    ASSUME NEW a \in Nat, NEW b \in Nat, NEW c \in Nat
    PROVE  Product(<<a>>) = a /\ Product(<<a, b>>) = a * b /\ Product(<<a, b, c>>) = (a * b) * c
<1>1. Product(<<a>>) = a
  <2> DEFINE w == <<a>>
             e == [i \in 0..1 |-> IF i = 0 THEN 1 ELSE a]
  <2>1. Len(w) = 1 /\ w[1] = a /\ 1 * a = a
    OBVIOUS
  <2>2. e[0] = 1 /\ e[1] = a /\ e \in [0..1 -> Nat]
    OBVIOUS
  <2> HIDE DEF w, e
  <2>3. Products(e, w)
    <3>1. \A i \in 1..Len(w) : i = 1 /\ i - 1 = 0
      BY <2>1
    <3> QED
      BY ONLY <2>1, <2>2, <3>1, Zenon DEF Products
  <2>4. Product(w) = e[Len(w)]
    <3>1. Len(w) \in Nat /\ e \in [0..Len(w) -> Nat]
      BY <2>1, <2>2
    <3> QED
      BY ONLY <3>1, <2>3, ProductIs
  <2> QED
    BY <2>1, <2>2, <2>4 DEF w
<1>2. Product(<<a, b>>) = a * b
  <2> DEFINE w == <<a, b>>
             e == [i \in 0..2 |-> IF i = 0 THEN 1 ELSE IF i = 1 THEN a ELSE a * b]
  <2>1. Len(w) = 2 /\ w[1] = a /\ w[2] = b /\ 1 * a = a /\ a * b \in Nat
    OBVIOUS
  <2>2. e[0] = 1 /\ e[1] = a /\ e[2] = a * b /\ e \in [0..2 -> Nat]
    BY <2>1
  <2> HIDE DEF w, e
  <2>3. Products(e, w)
    <3>1. \A i \in 1..Len(w) : (i = 1 /\ i - 1 = 0) \/ (i = 2 /\ i - 1 = 1)
      BY <2>1
    <3> QED
      BY ONLY <2>1, <2>2, <3>1, Zenon DEF Products
  <2>4. Product(w) = e[Len(w)]
    <3>1. Len(w) \in Nat /\ e \in [0..Len(w) -> Nat]
      BY <2>1, <2>2
    <3> QED
      BY ONLY <3>1, <2>3, ProductIs
  <2> QED
    BY ONLY <2>1, <2>2, <2>4, Zenon DEF w
<1>3. Product(<<a, b, c>>) = (a * b) * c
  <2> DEFINE w == <<a, b, c>>
             d == a * b
             m == d * c
             e == [i \in 0..3 |-> IF i = 0 THEN 1 ELSE IF i = 1 THEN a ELSE IF i = 2 THEN d ELSE m]
  <2>1. Len(w) = 3 /\ w[1] = a /\ w[2] = b /\ w[3] = c /\ 1 * a = a
    OBVIOUS
  <2>0. d \in Nat /\ m \in Nat
    <3>1. d \in Nat
      OBVIOUS
    <3> HIDE DEF d
    <3> QED
      BY <3>1
  <2>2. e[0] = 1 /\ e[1] = a /\ e[2] = d /\ e[3] = m /\ e \in [0..3 -> Nat]
    <3> HIDE DEF d, m
    <3> QED
      BY <2>0
  <2> HIDE DEF w, e
  <2>3. Products(e, w)
    <3>1. \A i \in 1..Len(w) : (i = 1 /\ i - 1 = 0) \/ (i = 2 /\ i - 1 = 1) \/ (i = 3 /\ i - 1 = 2)
      BY <2>1
    <3> QED
      BY ONLY <2>1, <2>2, <3>1, Zenon DEF Products
  <2>4. Product(w) = e[Len(w)]
    <3>1. Len(w) \in Nat /\ e \in [0..Len(w) -> Nat]
      BY <2>1, <2>2
    <3> QED
      BY ONLY <3>1, <2>3, ProductIs
  <2> QED
    BY ONLY <2>1, <2>2, <2>4, Zenon DEF w
<1> QED
  BY <1>1, <1>2, <1>3

(* An index into n rows of m cells, by row and cell. *)
Cell(x, n, m) == \E i \in Below(n) : \E d \in Below(m) : x = i * m + d

(* Its value is below their product ... *)
LEMMA CellBelow ==
    ASSUME NEW n \in Nat, NEW m \in Nat, NEW i \in Below(n), NEW d \in Below(m)
    PROVE  i * m + d \in Below(n * m) /\ i * m + d \in Nat
<1>1. n # 0 /\ m # 0 /\ i \in 0..(n - 1) /\ d \in 0..(m - 1)
  BY DEF Below
<1>2. PICK k \in Nat : n = (i + 1) + k
  <2>1. n - (i + 1) \in Nat /\ n = (i + 1) + (n - (i + 1))
    BY <1>1
  <2> QED
    BY <2>1
<1>3. n * m = (i * m + m) + k * m /\ k * m \in Nat /\ i * m \in Nat
  BY <1>1, <1>2
<1> DEFINE u == i * m
           v == k * m
           w == n * m
<1> HIDE DEF u, v, w
<1>4. w = (u + m) + v /\ v \in Nat /\ u \in Nat
  BY <1>3 DEF u, v, w
<1>5. u + d \in Nat /\ w # 0 /\ u + d \in 0..(w - 1)
  BY ONLY <1>1, <1>4, m \in Nat
<1>6. u + d \in Below(w) /\ u + d \in Nat
  BY ONLY <1>5 DEF Below
<1> QED
  BY <1>6 DEF u, w

(* ... and every number below it is such an index. *)
LEMMA BelowCell ==
    ASSUME NEW n \in Nat, NEW m \in Nat, m # 0, NEW x \in Below(n * m)
    PROVE  Cell(x, n, m)
<1> DEFINE S == {k \in 0..n : \A y \in Below(k * m) : Cell(y, k, m)}
<1>1. 0 \in S
  <2>1. 0 * m = 0
    OBVIOUS
  <2>2. \A y \in Below(0 * m) : FALSE
    BY <2>1 DEF Below
  <2> QED
    BY <2>2
<1>2. ASSUME NEW k \in 1..n, k - 1 \in S PROVE k \in S
  <2> DEFINE j == k - 1
             v == j * m
             w == k * m
  <2>1. j \in Nat /\ k = j + 1 /\ w = v + m /\ v \in Nat /\ w \in Nat
    OBVIOUS
  <2>2. \A y \in Below(v) : Cell(y, j, m)
    BY <1>2
  <2> SUFFICES ASSUME NEW y \in Below(w) PROVE Cell(y, k, m)
    OBVIOUS
  <2> HIDE DEF v, w, j
  <2>3. y \in Nat /\ y < w
    BY <2>1 DEF Below
  <2>4. CASE y < v
    <3>1. y \in Below(v)
      BY <2>1, <2>3, <2>4 DEF Below
    <3>2. PICK i \in Below(j) : \E d \in Below(m) : y = i * m + d
      BY <2>2, <3>1 DEF Cell
    <3>3. i \in Below(k)
      BY <2>1 DEF Below
    <3> QED
      BY <3>2, <3>3 DEF Cell
  <2>5. CASE ~(y < v)
    <3> DEFINE d == y - v
    <3>1. d \in Nat /\ d < m /\ y = v + d
      BY <2>1, <2>3, <2>5
    <3> HIDE DEF d
    <3>2. d \in Below(m) /\ j \in Below(k)
      BY <3>1, <2>1 DEF Below
    <3>3. y = j * m + d
      BY ONLY <3>1 DEF v
    <3> QED
      BY ONLY <3>2, <3>3, Zenon DEF Cell
  <2> QED
    BY <2>4, <2>5
<1>3. 0..n \subseteq S
  <2> HIDE DEF S
  <2> QED
    BY <1>1, <1>2, SetInduction
<1>4. n \in S
  BY <1>3
<1> QED
  BY <1>4

(* The model that was written, and its tokens. *)
Complete ==
    /\ tensors = [n \in Required |-> Product(ShapeOf[n])]
    /\ classes = Len(Labels) /\ classes \in Nat \ {0}
    /\ tokens \in [1..kInputLen -> Below(kVocabSize)]

(* The names of the tensors. *)
LEMMA RequiredAre ==
    Required = {"embed_weight", "embed_bias", "ln0_scale", "ln0_bias", "conv_weight",
                "conv_bias", "ln1_scale", "ln1_bias", "output_weight", "output_bias"}
<1>1. Len(Names) = 10 /\ DOMAIN Names = 1..10
  BY DEF Names
<1>2. /\ Names[1] = "embed_weight" /\ Names[2] = "embed_bias" /\ Names[3] = "ln0_scale"
      /\ Names[4] = "ln0_bias" /\ Names[5] = "conv_weight" /\ Names[6] = "conv_bias"
      /\ Names[7] = "ln1_scale" /\ Names[8] = "ln1_bias" /\ Names[9] = "output_weight"
      /\ Names[10] = "output_bias"
  BY DEF Names
<1>3. 1..10 = {1, 2, 3, 4, 5, 6, 7, 8, 9, 10}
  OBVIOUS
<1>4. Required = {Names[i] : i \in {1, 2, 3, 4, 5, 6, 7, 8, 9, 10}}
  BY ONLY <1>1, <1>3 DEF Required, Range
<1> QED
  BY ONLY <1>2, <1>4

(* The constants of the network are numbers. *)
LEMMA Dimensions ==
    /\ kBegSize \in Nat \ {0} /\ kEndSize \in Nat \ {0} /\ kEmbedDim \in Nat \ {0}
    /\ kReshapedSeq \in Nat \ {0} /\ kReshapedDim \in Nat \ {0} /\ kConvOut \in Nat \ {0}
    /\ kKernelSize \in Nat \ {0} /\ kVocabSize \in Nat \ {0} /\ kInputLen \in Nat \ {0}
    /\ convOutLen \in Nat \ {0} /\ convOutLen = kReshapedSeq - kKernelSize + 1
    /\ kInputLen * kEmbedDim = kReshapedSeq * kReshapedDim
    /\ Len(Labels) \in Nat
<1>1. /\ kBegSize \in Nat \ {0} /\ kEndSize \in Nat \ {0} /\ kEmbedDim \in Nat \ {0}
      /\ kReshapedSeq \in Nat \ {0} /\ kReshapedDim \in Nat \ {0} /\ kConvOut \in Nat \ {0}
      /\ kKernelSize \in Nat \ {0} /\ kVocabSize \in Nat \ {0}
      /\ kInputLen * kEmbedDim = kReshapedSeq * kReshapedDim
      /\ Len(Labels) \in Nat /\ kKernelSize <= kReshapedSeq
  BY ShapeAssumption, LenProperties
<1>2. kInputLen \in Nat \ {0}
  BY ONLY <1>1 DEF kInputLen
<1>3. convOutLen \in Nat \ {0}
  BY ONLY <1>1 DEF convOutLen
<1> QED
  BY <1>1, <1>2, <1>3 DEF convOutLen

(* The number of floats of each tensor. *)
LEMMA ShapesAre ==
    /\ Product(ShapeOf["embed_weight"]) = kVocabSize * kEmbedDim
    /\ Product(ShapeOf["embed_bias"]) = kEmbedDim
    /\ Product(ShapeOf["ln0_scale"]) = kReshapedSeq
    /\ Product(ShapeOf["ln0_bias"]) = kReshapedSeq
    /\ Product(ShapeOf["conv_weight"]) = (kConvOut * kReshapedDim) * kKernelSize
    /\ Product(ShapeOf["conv_bias"]) = kConvOut
    /\ Product(ShapeOf["ln1_scale"]) = kConvOut
    /\ Product(ShapeOf["ln1_bias"]) = kConvOut
    /\ Product(ShapeOf["output_weight"]) = kConvOut * Len(Labels)
    /\ Product(ShapeOf["output_bias"]) = Len(Labels)
<1>1. /\ ShapeOf["embed_weight"] = <<kVocabSize, kEmbedDim>>
      /\ ShapeOf["embed_bias"] = <<kEmbedDim>>
      /\ ShapeOf["ln0_scale"] = <<kReshapedSeq>>
      /\ ShapeOf["ln0_bias"] = <<kReshapedSeq>>
      /\ ShapeOf["conv_weight"] = <<kConvOut, kReshapedDim, kKernelSize>>
      /\ ShapeOf["conv_bias"] = <<kConvOut>>
      /\ ShapeOf["ln1_scale"] = <<kConvOut>>
      /\ ShapeOf["ln1_bias"] = <<kConvOut>>
      /\ ShapeOf["output_weight"] = <<kConvOut, Len(Labels)>>
      /\ ShapeOf["output_bias"] = <<Len(Labels)>>
  BY DEF ShapeOf
<1>2. /\ kVocabSize \in Nat /\ kEmbedDim \in Nat /\ kReshapedSeq \in Nat /\ kConvOut \in Nat
      /\ kReshapedDim \in Nat /\ kKernelSize \in Nat /\ Len(Labels) \in Nat
  BY Dimensions
<1>3. /\ Product(<<kVocabSize, kEmbedDim>>) = kVocabSize * kEmbedDim
      /\ Product(<<kConvOut, Len(Labels)>>) = kConvOut * Len(Labels)
      /\ Product(<<kConvOut, kReshapedDim, kKernelSize>>) = (kConvOut * kReshapedDim) * kKernelSize
  <2>1. Product(<<kVocabSize, kEmbedDim>>) = kVocabSize * kEmbedDim
    BY ONLY <1>2, ProductOf, Zenon
  <2>2. Product(<<kConvOut, Len(Labels)>>) = kConvOut * Len(Labels)
    BY ONLY <1>2, ProductOf, Zenon
  <2>3. Product(<<kConvOut, kReshapedDim, kKernelSize>>) = (kConvOut * kReshapedDim) * kKernelSize
    <3>1. \A a, b, c \in Nat : Product(<<a, b, c>>) = (a * b) * c
      BY ProductOf
    <3> QED
      BY ONLY <1>2, <3>1
  <2> QED
    BY ONLY <2>1, <2>2, <2>3
<1>4. /\ Product(<<kEmbedDim>>) = kEmbedDim /\ Product(<<kReshapedSeq>>) = kReshapedSeq
      /\ Product(<<kConvOut>>) = kConvOut /\ Product(<<Len(Labels)>>) = Len(Labels)
  BY ONLY <1>2, ProductOf, Zenon
<1> QED
  BY ONLY <1>1, <1>3, <1>4, Zenon

(* The arrays of the layers. *)
Arrays == Required \cup {"embedded", "convOut", "pooled", "logits"}

(* The sizes of the arrays. *)
SizesOf ==
    /\ DOMAIN Sizes = Arrays
    /\ Sizes["embed_weight"] = kVocabSize * kEmbedDim
    /\ Sizes["embed_bias"] = kEmbedDim
    /\ Sizes["ln0_scale"] = kReshapedSeq
    /\ Sizes["ln0_bias"] = kReshapedSeq
    /\ Sizes["conv_weight"] = (kConvOut * kReshapedDim) * kKernelSize
    /\ Sizes["conv_bias"] = kConvOut
    /\ Sizes["ln1_scale"] = kConvOut
    /\ Sizes["ln1_bias"] = kConvOut
    /\ Sizes["output_weight"] = kConvOut * classes
    /\ Sizes["output_bias"] = classes
    /\ Sizes["embedded"] = kInputLen * kEmbedDim
    /\ Sizes["convOut"] = convOutLen * kConvOut
    /\ Sizes["pooled"] = kConvOut
    /\ Sizes["logits"] = classes

(* They have them once the model is complete. *)
LEMMA ArraySizes ==
    ASSUME Complete PROVE SizesOf
<1> DEFINE e == kInputLen * kEmbedDim
           c == convOutLen * kConvOut
           g == [embedded |-> e, convOut |-> c, pooled |-> kConvOut, logits |-> classes]
           D == {"embedded", "convOut", "pooled", "logits"}
           f == tensors
<1>1. f = [n \in Required |-> Product(ShapeOf[n])] /\ classes = Len(Labels)
  BY DEF Complete
<1>2. DOMAIN f = Required /\ \A n \in Required : f[n] = Product(ShapeOf[n])
  BY ONLY <1>1
<1> HIDE DEF e, c
<1>3. DOMAIN g = D /\ g["embedded"] = e /\ g["convOut"] = c /\ g["pooled"] = kConvOut /\ g["logits"] = classes
  OBVIOUS
<1>4. Sizes = Extended(f, g)
  BY DEF Sizes, e, c
<1> HIDE DEF g
<1>5. Sizes = [x \in (DOMAIN f) \cup (DOMAIN g) |-> IF x \in DOMAIN f THEN f[x] ELSE g[x]]
  BY ONLY <1>4 DEF Extended
<1>6. DOMAIN Sizes = Required \cup D /\ \A x \in Required \cup D : Sizes[x] = IF x \in Required THEN f[x] ELSE g[x]
  BY ONLY <1>2, <1>3, <1>5
<1>7. \A n \in Required : Sizes[n] = Product(ShapeOf[n])
  BY ONLY <1>2, <1>6, Zenon
<1>8. D \cap Required = {}
  BY RequiredAre
<1>9. Sizes["embedded"] = e /\ Sizes["convOut"] = c /\ Sizes["pooled"] = kConvOut /\ Sizes["logits"] = classes
  <2>1. \A x \in D : Sizes[x] = g[x]
    BY ONLY <1>6, <1>8, Zenon
  <2>2. "embedded" \in D /\ "convOut" \in D /\ "pooled" \in D /\ "logits" \in D
    OBVIOUS
  <2> HIDE DEF D
  <2> QED
    BY ONLY <2>1, <2>2, <1>3, Zenon
<1>10. /\ "embed_weight" \in Required /\ "embed_bias" \in Required /\ "ln0_scale" \in Required
       /\ "ln0_bias" \in Required /\ "conv_weight" \in Required /\ "conv_bias" \in Required
       /\ "ln1_scale" \in Required /\ "ln1_bias" \in Required /\ "output_weight" \in Required
       /\ "output_bias" \in Required
  BY ONLY RequiredAre
<1>11. DOMAIN Sizes = Arrays
  BY ONLY <1>6, Zenon DEF Arrays
<1> HIDE DEF f, D
<1>12. /\ Sizes["embed_weight"] = Product(ShapeOf["embed_weight"])
       /\ Sizes["embed_bias"] = Product(ShapeOf["embed_bias"])
       /\ Sizes["ln0_scale"] = Product(ShapeOf["ln0_scale"])
       /\ Sizes["ln0_bias"] = Product(ShapeOf["ln0_bias"])
       /\ Sizes["conv_weight"] = Product(ShapeOf["conv_weight"])
       /\ Sizes["conv_bias"] = Product(ShapeOf["conv_bias"])
       /\ Sizes["ln1_scale"] = Product(ShapeOf["ln1_scale"])
       /\ Sizes["ln1_bias"] = Product(ShapeOf["ln1_bias"])
       /\ Sizes["output_weight"] = Product(ShapeOf["output_weight"])
       /\ Sizes["output_bias"] = Product(ShapeOf["output_bias"])
  BY ONLY <1>7, <1>10, Zenon
<1>13. /\ Sizes["embed_weight"] = kVocabSize * kEmbedDim
       /\ Sizes["embed_bias"] = kEmbedDim
       /\ Sizes["ln0_scale"] = kReshapedSeq
       /\ Sizes["ln0_bias"] = kReshapedSeq
  BY ONLY <1>12, ShapesAre, Zenon
<1>14. /\ Sizes["conv_weight"] = (kConvOut * kReshapedDim) * kKernelSize
       /\ Sizes["conv_bias"] = kConvOut
       /\ Sizes["ln1_scale"] = kConvOut
       /\ Sizes["ln1_bias"] = kConvOut
  BY ONLY <1>12, ShapesAre, Zenon
<1>15. /\ Sizes["output_weight"] = kConvOut * classes
       /\ Sizes["output_bias"] = classes
  BY ONLY <1>12, <1>1, ShapesAre, Zenon
<1>16. Sizes["embedded"] = kInputLen * kEmbedDim /\ Sizes["convOut"] = convOutLen * kConvOut
  BY ONLY <1>9, Zenon DEF e, c
<1> QED
  BY <1>9, <1>11, <1>13, <1>14, <1>15, <1>16 DEF SizesOf

-----------------------------------------------------------------------------
(* The names of the arrays. *)
LEMMA ArrayNames ==
    Arrays = {"embed_weight", "embed_bias", "ln0_scale", "ln0_bias", "conv_weight", "conv_bias",
              "ln1_scale", "ln1_bias", "output_weight", "output_bias",
              "embedded", "convOut", "pooled", "logits"}
BY RequiredAre DEF Arrays

(* An access to an array within its size; the first n cells of an array are  *)
(* among the accesses A.                                                     *)
InArray(a) == a[1] \in Arrays /\ a[2] \in Below(Sizes[a[1]])
Uses(A, x, n) == \A k \in Below(n) : <<x, k>> \in A

(* Below n are the numbers less than n. *)
LEMMA BelowIs ==
    ASSUME NEW n \in Nat
    PROVE  /\ \A k \in Below(n) : k \in Nat /\ k < n
           /\ \A k \in Nat : k < n => k \in Below(n)
           /\ n # 0 => 0 \in Below(n)
BY DEF Below

(* The cells of an embedding. *)
LEMMA EmbeddingCells ==
    ASSUME Complete
    PROVE  /\ \A a \in Embedding(tokens) : InArray(a)
           /\ Uses(Embedding(tokens), "embed_bias", kEmbedDim)
           /\ Uses(Embedding(tokens), "embedded", kInputLen * kEmbedDim)
<1> DEFINE A == Embedding(tokens)
           L == kInputLen
           E == kEmbedDim
           C(i, d) == {<<"embed_weight", tokens[i + 1] * E + d>>, <<"embed_bias", d>>, <<"embedded", i * E + d>>}
<1>1. A = UNION {C(i, d) : i \in Below(L), d \in Below(E)}
  BY DEF Embedding
<1>0. \A i \in Below(L), d \in Below(E) : C(i, d) \subseteq A
  <2> HIDE DEF C, A
  <2> QED
    BY ONLY <1>1
<1>2. SizesOf
  BY ArraySizes
<1>3. /\ Sizes["embed_weight"] = kVocabSize * E /\ Sizes["embed_bias"] = E /\ Sizes["embedded"] = L * E
  BY ONLY <1>2 DEF SizesOf
<1>4. L \in Nat \ {0} /\ E \in Nat \ {0} /\ kVocabSize \in Nat
  BY Dimensions
<1>5. \A i \in Below(L) : tokens[i + 1] \in Below(kVocabSize)
  <2>1. tokens \in [1..L -> Below(kVocabSize)]
    BY DEF Complete
  <2>2. \A i \in Below(L) : i + 1 \in 1..L
    BY ONLY <1>4 DEF Below
  <2> QED
    BY ONLY <2>1, <2>2, Zenon
<1> HIDE DEF A, L, E
<1>6. ASSUME NEW i \in Below(L), NEW d \in Below(E)
      PROVE  tokens[i + 1] * E + d \in Below(kVocabSize * E) /\ i * E + d \in Below(L * E)
  <2> DEFINE t == tokens[i + 1]
  <2>1. t \in Below(kVocabSize)
    BY <1>5
  <2> HIDE DEF t
  <2>2. t * E + d \in Below(kVocabSize * E)
    BY ONLY <2>1, <1>4, d \in Below(E), CellBelow
  <2>3. i * E + d \in Below(L * E)
    BY ONLY <1>4, i \in Below(L), d \in Below(E), CellBelow
  <2> QED
    BY ONLY <2>2, <2>3 DEF t
<1>7. ASSUME NEW a \in A PROVE InArray(a)
  <2>1. PICK i \in Below(L), d \in Below(E) : a \in C(i, d)
    BY ONLY <1>1, a \in A
  <2> DEFINE u == tokens[i + 1] * E + d
             v == i * E + d
  <2>2. u \in Below(kVocabSize * E) /\ v \in Below(L * E)
    BY ONLY <1>6, i \in Below(L), d \in Below(E)
  <2>3. a = <<"embed_weight", u>> \/ a = <<"embed_bias", d>> \/ a = <<"embedded", v>>
    BY ONLY <2>1
  <2> HIDE DEF u, v
  <2>4. CASE a = <<"embed_weight", u>>
    BY ONLY <2>4, <2>2, <1>3, ArrayNames DEF InArray
  <2>5. CASE a = <<"embed_bias", d>>
    BY ONLY <2>5, d \in Below(E), <1>3, ArrayNames DEF InArray
  <2>6. CASE a = <<"embedded", v>>
    BY ONLY <2>6, <2>2, <1>3, ArrayNames DEF InArray
  <2> QED
    BY ONLY <2>3, <2>4, <2>5, <2>6
<1>8. ASSUME NEW d \in Below(E) PROVE <<"embed_bias", d>> \in A
  <2>1. 0 \in Below(L)
    BY ONLY <1>4 DEF Below
  <2>2. <<"embed_bias", d>> \in C(0, d)
    OBVIOUS
  <2> QED
    BY ONLY <2>1, <2>2, <1>0, d \in Below(E), Zenon
<1>9. ASSUME NEW k \in Below(L * E) PROVE <<"embedded", k>> \in A
  <2>1. PICK i \in Below(L), d \in Below(E) : k = i * E + d
    <3>1. Cell(k, L, E)
      BY ONLY <1>4, k \in Below(L * E), BelowCell
    <3> QED
      BY ONLY <3>1 DEF Cell
  <2>2. <<"embedded", k>> \in C(i, d)
    BY ONLY <2>1
  <2> QED
    BY ONLY <2>2, <1>0, i \in Below(L), d \in Below(E), Zenon
<1> QED
  BY ONLY <1>7, <1>8, <1>9, Zenon DEF Uses, A, L, E

(* The cells of the first normalisation. *)
LEMMA LayerNorm0Cells ==
    ASSUME Complete
    PROVE  /\ \A a \in LayerNorm0 : InArray(a)
           /\ Uses(LayerNorm0, "ln0_scale", kReshapedSeq) /\ Uses(LayerNorm0, "ln0_bias", kReshapedSeq)
<1> DEFINE A == LayerNorm0
           S == kReshapedSeq
           D == kReshapedDim
           C(s, d) == {<<"embedded", s * D + d>>, <<"ln0_scale", s>>, <<"ln0_bias", s>>}
<1>1. A = UNION {C(s, d) : s \in Below(S), d \in Below(D)}
  BY DEF LayerNorm0
<1>0. \A s \in Below(S), d \in Below(D) : C(s, d) \subseteq A
  <2> HIDE DEF C, A
  <2> QED
    BY ONLY <1>1
<1>2. SizesOf
  BY ArraySizes
<1>3. S \in Nat \ {0} /\ D \in Nat \ {0} /\ kInputLen * kEmbedDim = S * D
  BY Dimensions
<1>4. Sizes["ln0_scale"] = S /\ Sizes["ln0_bias"] = S /\ Sizes["embedded"] = S * D
  BY ONLY <1>2, <1>3 DEF SizesOf
<1> HIDE DEF A, S, D
<1>5. ASSUME NEW a \in A PROVE InArray(a)
  <2>1. PICK s \in Below(S), d \in Below(D) : a \in C(s, d)
    BY ONLY <1>1, a \in A
  <2> DEFINE v == s * D + d
  <2>2. v \in Below(S * D)
    BY ONLY <1>3, s \in Below(S), d \in Below(D), CellBelow
  <2>3. a = <<"embedded", v>> \/ a = <<"ln0_scale", s>> \/ a = <<"ln0_bias", s>>
    BY ONLY <2>1
  <2> HIDE DEF v
  <2> QED
    BY ONLY <2>2, <2>3, s \in Below(S), <1>4, ArrayNames DEF InArray
<1>6. ASSUME NEW s \in Below(S) PROVE <<"ln0_scale", s>> \in A /\ <<"ln0_bias", s>> \in A
  <2>1. 0 \in Below(D)
    BY ONLY <1>3 DEF Below
  <2>2. <<"ln0_scale", s>> \in C(s, 0) /\ <<"ln0_bias", s>> \in C(s, 0)
    OBVIOUS
  <2> QED
    BY ONLY <2>1, <2>2, <1>0, s \in Below(S), Zenon
<1> QED
  BY ONLY <1>5, <1>6, Zenon DEF Uses, A, S

(* The cells of the convolution. *)
LEMMA Conv1dCells ==
    ASSUME Complete
    PROVE  /\ \A a \in Conv1d : InArray(a)
           /\ Uses(Conv1d, "conv_bias", kConvOut)
           /\ Uses(Conv1d, "convOut", convOutLen * kConvOut)
           /\ Uses(Conv1d, "conv_weight", (kConvOut * kReshapedDim) * kKernelSize)
<1> DEFINE A == Conv1d
           S == kReshapedSeq
           D == kReshapedDim
           O == kConvOut
           P == convOutLen
           K == kKernelSize
           C(oc, p, ic, k) ==
              {<<"conv_bias", oc>>, <<"convOut", p * O + oc>>, <<"embedded", (p + k) * D + ic>>,
               <<"conv_weight", (oc * D + ic) * K + k>>}
<1>1. A = UNION {C(oc, p, ic, k) : oc \in Below(O), p \in Below(P), ic \in Below(D), k \in Below(K)}
  BY DEF Conv1d
<1>0. \A oc \in Below(O), p \in Below(P), ic \in Below(D), k \in Below(K) : C(oc, p, ic, k) \subseteq A
  <2> HIDE DEF C, A
  <2> QED
    BY ONLY <1>1
<1>2. SizesOf
  BY ArraySizes
<1>3. /\ S \in Nat \ {0} /\ D \in Nat \ {0} /\ O \in Nat \ {0} /\ P \in Nat \ {0} /\ K \in Nat \ {0}
      /\ P = S - K + 1 /\ kInputLen * kEmbedDim = S * D
  BY Dimensions
<1>4. /\ Sizes["conv_bias"] = O /\ Sizes["convOut"] = P * O
      /\ Sizes["embedded"] = S * D /\ Sizes["conv_weight"] = (O * D) * K
  BY ONLY <1>2, <1>3 DEF SizesOf
<1> HIDE DEF A, S, D, O, P, K
<1>5. O * D \in Nat
  BY ONLY <1>3
<1>6. ASSUME NEW a \in A PROVE InArray(a)
  <2>1. PICK oc \in Below(O), p \in Below(P), ic \in Below(D), k \in Below(K) : a \in C(oc, p, ic, k)
    BY ONLY <1>1, a \in A
  <2> DEFINE u == p * O + oc
             r == p + k
             v == r * D + ic
             m == oc * D + ic
             w == m * K + k
  <2>2. u \in Below(P * O)
    BY ONLY <1>3, p \in Below(P), oc \in Below(O), CellBelow
  <2>3. r \in Below(S)
    BY ONLY <1>3, p \in Below(P), k \in Below(K) DEF Below
  <2>4. m \in Below(O * D)
    BY ONLY <1>3, oc \in Below(O), ic \in Below(D), CellBelow
  <2>5. a = <<"conv_bias", oc>> \/ a = <<"convOut", u>> \/ a = <<"embedded", v>> \/ a = <<"conv_weight", w>>
    BY ONLY <2>1
  <2> HIDE DEF u, r, m
  <2>6. v \in Below(S * D)
    BY ONLY <1>3, <2>3, ic \in Below(D), CellBelow
  <2>7. w \in Below((O * D) * K)
    <3> DEFINE n == O * D
    <3>1. n \in Nat /\ m \in Below(n)
      BY <1>5, <2>4
    <3> HIDE DEF n
    <3>2. w \in Below(n * K)
      BY ONLY <1>3, <3>1, k \in Below(K), CellBelow
    <3> QED
      BY <3>2 DEF n
  <2> HIDE DEF v, w
  <2>8. CASE a = <<"conv_bias", oc>>
    BY ONLY <2>8, oc \in Below(O), <1>4, ArrayNames DEF InArray
  <2>9. CASE a = <<"convOut", u>>
    BY ONLY <2>9, <2>2, <1>4, ArrayNames DEF InArray
  <2>10. CASE a = <<"embedded", v>>
    BY ONLY <2>10, <2>6, <1>4, ArrayNames DEF InArray
  <2>11. CASE a = <<"conv_weight", w>>
    BY ONLY <2>11, <2>7, <1>4, ArrayNames DEF InArray
  <2> QED
    BY ONLY <2>5, <2>8, <2>9, <2>10, <2>11
<1>7. 0 \in Below(P) /\ 0 \in Below(O) /\ 0 \in Below(D) /\ 0 \in Below(K)
  BY ONLY <1>3 DEF Below
<1>8. ASSUME NEW oc \in Below(O) PROVE <<"conv_bias", oc>> \in A
  <2>1. <<"conv_bias", oc>> \in C(oc, 0, 0, 0)
    OBVIOUS
  <2> QED
    BY ONLY <2>1, <1>0, <1>7, oc \in Below(O), Zenon
<1>9. ASSUME NEW x \in Below(P * O) PROVE <<"convOut", x>> \in A
  <2>1. PICK p \in Below(P), oc \in Below(O) : x = p * O + oc
    <3>1. Cell(x, P, O)
      BY ONLY <1>3, x \in Below(P * O), BelowCell
    <3> QED
      BY ONLY <3>1 DEF Cell
  <2>2. <<"convOut", x>> \in C(oc, p, 0, 0)
    BY ONLY <2>1
  <2> QED
    BY ONLY <2>2, <1>0, <1>7, p \in Below(P), oc \in Below(O), Zenon
<1>10. ASSUME NEW x \in Below((O * D) * K) PROVE <<"conv_weight", x>> \in A
  <2> DEFINE n == O * D
  <2>1. n \in Nat /\ x \in Below(n * K)
    BY <1>5
  <2> HIDE DEF n
  <2>2. PICK m \in Below(n), k \in Below(K) : x = m * K + k
    <3>1. Cell(x, n, K)
      BY ONLY <1>3, <2>1, BelowCell
    <3> QED
      BY ONLY <3>1 DEF Cell
  <2>3. PICK oc \in Below(O), ic \in Below(D) : m = oc * D + ic
    <3>1. m \in Below(O * D)
      BY ONLY m \in Below(n) DEF n
    <3>2. Cell(m, O, D)
      BY ONLY <1>3, <3>1, BelowCell
    <3> QED
      BY ONLY <3>2 DEF Cell
  <2>4. x = (oc * D + ic) * K + k
    BY ONLY <2>2, <2>3, Zenon
  <2>5. <<"conv_weight", x>> \in C(oc, 0, ic, k)
    BY ONLY <2>4
  <2> QED
    BY ONLY <2>5, <1>0, <1>7, oc \in Below(O), ic \in Below(D), k \in Below(K), Zenon
<1> QED
  BY ONLY <1>6, <1>8, <1>9, <1>10, Zenon DEF Uses, A, O, P, D, K

(* The cells of the pooling and of the second normalisation. *)
LEMMA PooledCells ==
    ASSUME Complete
    PROVE  /\ \A a \in GlobalMaxPool \cup LayerNorm1 : InArray(a)
           /\ Uses(GlobalMaxPool, "pooled", kConvOut)
           /\ Uses(LayerNorm1, "ln1_scale", kConvOut) /\ Uses(LayerNorm1, "ln1_bias", kConvOut)
<1> DEFINE A == GlobalMaxPool
           B == LayerNorm1
           O == kConvOut
           P == convOutLen
           C(s, c) == {<<"convOut", s * O + c>>, <<"pooled", c>>}
           E(i) == {<<"pooled", i>>, <<"ln1_scale", i>>, <<"ln1_bias", i>>}
<1>1. A = UNION {C(s, c) : s \in Below(P), c \in Below(O)}
  BY DEF GlobalMaxPool
<1>2. B = UNION {E(i) : i \in Below(O)}
  BY DEF LayerNorm1
<1>3. \A s \in Below(P), c \in Below(O) : C(s, c) \subseteq A
  <2> HIDE DEF C, A
  <2> QED
    BY ONLY <1>1
<1>4. \A i \in Below(O) : E(i) \subseteq B
  <2> HIDE DEF E, B
  <2> QED
    BY ONLY <1>2
<1>5. SizesOf
  BY ArraySizes
<1>6. O \in Nat \ {0} /\ P \in Nat \ {0}
  BY Dimensions
<1>7. Sizes["convOut"] = P * O /\ Sizes["pooled"] = O /\ Sizes["ln1_scale"] = O /\ Sizes["ln1_bias"] = O
  BY ONLY <1>5 DEF SizesOf
<1> HIDE DEF A, B, O, P
<1>8. ASSUME NEW a \in A PROVE InArray(a)
  <2>1. PICK s \in Below(P), c \in Below(O) : a \in C(s, c)
    BY ONLY <1>1, a \in A
  <2> DEFINE v == s * O + c
  <2>2. v \in Below(P * O)
    BY ONLY <1>6, s \in Below(P), c \in Below(O), CellBelow
  <2>3. a = <<"convOut", v>> \/ a = <<"pooled", c>>
    BY ONLY <2>1
  <2> HIDE DEF v
  <2> QED
    BY ONLY <2>2, <2>3, c \in Below(O), <1>7, ArrayNames DEF InArray
<1>9. ASSUME NEW a \in B PROVE InArray(a)
  <2>1. PICK i \in Below(O) : a \in E(i)
    BY ONLY <1>2, a \in B
  <2>2. a = <<"pooled", i>> \/ a = <<"ln1_scale", i>> \/ a = <<"ln1_bias", i>>
    BY ONLY <2>1
  <2> QED
    BY ONLY <2>2, i \in Below(O), <1>7, ArrayNames DEF InArray
<1>10. 0 \in Below(P)
  BY ONLY <1>6 DEF Below
<1>11. ASSUME NEW c \in Below(O)
       PROVE  <<"pooled", c>> \in A /\ <<"ln1_scale", c>> \in B /\ <<"ln1_bias", c>> \in B
  <2>1. <<"pooled", c>> \in C(0, c) /\ <<"ln1_scale", c>> \in E(c) /\ <<"ln1_bias", c>> \in E(c)
    OBVIOUS
  <2> QED
    BY ONLY <2>1, <1>3, <1>4, <1>10, c \in Below(O), Zenon
<1> QED
  BY ONLY <1>8, <1>9, <1>11, Zenon DEF Uses, A, B, O

(* The cells of the output. *)
LEMMA OutputCells ==
    ASSUME Complete
    PROVE  /\ \A a \in Dense \cup Softmax : InArray(a)
           /\ Uses(Dense, "output_bias", classes) /\ Uses(Dense, "logits", classes)
           /\ Uses(Dense, "output_weight", kConvOut * classes)
<1> DEFINE A == Dense
           B == Softmax
           O == kConvOut
           N == classes
           C(i, c) == {<<"output_bias", c>>, <<"pooled", i>>, <<"output_weight", i * N + c>>, <<"logits", c>>}
<1>1. A = UNION {C(i, c) : i \in Below(O), c \in Below(N)}
  BY DEF Dense
<1>2. B = {<<"logits", c>> : c \in Below(N)} \cup {<<"logits", 0>>}
  BY DEF Softmax
<1>3. \A i \in Below(O), c \in Below(N) : C(i, c) \subseteq A
  <2> HIDE DEF C, A, N
  <2> QED
    BY ONLY <1>1
<1>4. SizesOf
  BY ArraySizes
<1>5. O \in Nat \ {0} /\ N \in Nat \ {0}
  BY Dimensions DEF Complete
<1>6. /\ Sizes["output_bias"] = N /\ Sizes["pooled"] = O /\ Sizes["output_weight"] = O * N
      /\ Sizes["logits"] = N
  BY ONLY <1>4 DEF SizesOf
<1> HIDE DEF A, B, O, N
<1>7. 0 \in Below(O) /\ 0 \in Below(N)
  BY ONLY <1>5 DEF Below
<1>8. ASSUME NEW a \in A PROVE InArray(a)
  <2>1. PICK i \in Below(O), c \in Below(N) : a \in C(i, c)
    BY ONLY <1>1, a \in A
  <2> DEFINE v == i * N + c
  <2>2. v \in Below(O * N)
    BY ONLY <1>5, i \in Below(O), c \in Below(N), CellBelow
  <2>3. a = <<"output_bias", c>> \/ a = <<"pooled", i>> \/ a = <<"output_weight", v>> \/ a = <<"logits", c>>
    BY ONLY <2>1
  <2> HIDE DEF v
  <2> QED
    BY ONLY <2>2, <2>3, i \in Below(O), c \in Below(N), <1>6, ArrayNames DEF InArray
<1>9. ASSUME NEW a \in B PROVE InArray(a)
  <2>1. PICK c \in Below(N) : a = <<"logits", c>>
    BY ONLY <1>2, <1>7, a \in B
  <2> QED
    BY ONLY <2>1, c \in Below(N), <1>6, ArrayNames DEF InArray
<1>10. ASSUME NEW c \in Below(N) PROVE <<"output_bias", c>> \in A /\ <<"logits", c>> \in A
  <2>1. <<"output_bias", c>> \in C(0, c) /\ <<"logits", c>> \in C(0, c)
    OBVIOUS
  <2> QED
    BY ONLY <2>1, <1>3, <1>7, c \in Below(N), Zenon
<1>11. ASSUME NEW x \in Below(O * N) PROVE <<"output_weight", x>> \in A
  <2>1. PICK i \in Below(O), c \in Below(N) : x = i * N + c
    <3>1. Cell(x, O, N)
      BY ONLY <1>5, x \in Below(O * N), BelowCell
    <3> QED
      BY ONLY <3>1 DEF Cell
  <2>2. <<"output_weight", x>> \in C(i, c)
    BY ONLY <2>1
  <2> QED
    BY ONLY <2>2, <1>3, i \in Below(O), c \in Below(N), Zenon
<1> QED
  BY ONLY <1>8, <1>9, <1>10, <1>11, Zenon DEF Uses, A, B, O, N

(* The sizes are numbers. *)
LEMMA SizesAreNumbers ==
    ASSUME Complete, NEW x \in Arrays
    PROVE  Sizes[x] \in Nat
<1>1. SizesOf
  BY ArraySizes
<1>2. /\ kEmbedDim \in Nat /\ kReshapedSeq \in Nat /\ kReshapedDim \in Nat /\ kConvOut \in Nat
      /\ kKernelSize \in Nat /\ kVocabSize \in Nat /\ kInputLen \in Nat /\ convOutLen \in Nat
      /\ classes \in Nat
  BY Dimensions DEF Complete
<1>3. /\ kVocabSize * kEmbedDim \in Nat /\ kConvOut * kReshapedDim \in Nat /\ kConvOut * classes \in Nat
      /\ kInputLen * kEmbedDim \in Nat /\ convOutLen * kConvOut \in Nat
  BY ONLY <1>2
<1>4. (kConvOut * kReshapedDim) * kKernelSize \in Nat
  <2> DEFINE n == kConvOut * kReshapedDim
  <2>1. n \in Nat
    BY <1>3
  <2> HIDE DEF n
  <2>2. n * kKernelSize \in Nat
    BY ONLY <2>1, <1>2
  <2> QED
    BY <2>2 DEF n
<1> QED
  BY ONLY <1>1, <1>2, <1>3, <1>4, x \in Arrays, ArrayNames, Zenon DEF SizesOf

(* A prediction uses every cell of every array but the embedding, and no     *)
(* cell outside of one.                                                      *)
LEMMA AccessesFit ==
    ASSUME Complete
    PROVE  InBounds /\ \A a \in DOMAIN Sizes \ {"embed_weight"} : Used(a) = Below(Sizes[a])
<1> DEFINE A == Accesses(tokens)
<1>1. \A x \in A : InArray(x)
  <2>1. \A x \in Embedding(tokens) : InArray(x)
    BY EmbeddingCells
  <2>2. \A x \in LayerNorm0 : InArray(x)
    BY LayerNorm0Cells
  <2>3. \A x \in Conv1d : InArray(x)
    BY Conv1dCells
  <2>4. \A x \in GlobalMaxPool \cup LayerNorm1 : InArray(x)
    BY PooledCells
  <2>5. \A x \in Dense \cup Softmax : InArray(x)
    BY OutputCells
  <2> QED
    BY ONLY <2>1, <2>2, <2>3, <2>4, <2>5, Zenon DEF Accesses
<1>2. \A x \in Arrays : Sizes[x] \in Nat
  BY SizesAreNumbers
<1>3. \A x \in A : x[1] \in Arrays /\ x[2] \in Below(Sizes[x[1]])
  BY ONLY <1>1, Zenon DEF InArray
<1>4. InBounds
  <2> SUFFICES ASSUME NEW x \in A PROVE x[2] < Sizes[x[1]]
    BY DEF InBounds
  <2> DEFINE n == Sizes[x[1]]
             k == x[2]
  <2>1. n \in Nat /\ k \in Below(n)
    BY ONLY <1>2, <1>3, x \in A, Zenon
  <2> HIDE DEF n, k
  <2>2. k < n
    BY ONLY <2>1, BelowIs
  <2> QED
    BY ONLY <2>2 DEF n, k
<1>5. ASSUME NEW x \in Arrays, x # "embed_weight" PROVE Uses(A, x, Sizes[x])
  <2>0. SizesOf
    BY ArraySizes
  <2>1. \A y, n : \/ Uses(Embedding(tokens), y, n) \/ Uses(LayerNorm0, y, n) \/ Uses(Conv1d, y, n)
                  \/ Uses(GlobalMaxPool, y, n) \/ Uses(LayerNorm1, y, n) \/ Uses(Dense, y, n)
                  => Uses(A, y, n)
    BY ONLY Zenon DEF Uses, Accesses
  <2>2. CASE x = "embed_bias"
    BY ONLY <2>0, <2>1, <2>2, EmbeddingCells, Complete, Zenon DEF SizesOf
  <2>3. CASE x = "embedded"
    BY ONLY <2>0, <2>1, <2>3, EmbeddingCells, Complete, Zenon DEF SizesOf
  <2>4. CASE x = "ln0_scale" \/ x = "ln0_bias"
    BY ONLY <2>0, <2>1, <2>4, LayerNorm0Cells, Complete, Zenon DEF SizesOf
  <2>5. CASE x = "conv_bias" \/ x = "convOut" \/ x = "conv_weight"
    BY ONLY <2>0, <2>1, <2>5, Conv1dCells, Complete, Zenon DEF SizesOf
  <2>6. CASE x = "pooled" \/ x = "ln1_scale" \/ x = "ln1_bias"
    BY ONLY <2>0, <2>1, <2>6, PooledCells, Complete, Zenon DEF SizesOf
  <2>7. CASE x = "output_bias" \/ x = "output_weight" \/ x = "logits"
    BY ONLY <2>0, <2>1, <2>7, OutputCells, Complete, Zenon DEF SizesOf
  <2> QED
    BY ONLY <1>5, <2>2, <2>3, <2>4, <2>5, <2>6, <2>7, ArrayNames, Zenon
<1>6. ASSUME NEW x \in Arrays, x # "embed_weight" PROVE Used(x) = Below(Sizes[x])
  <2>1. ASSUME NEW k \in Used(x) PROVE k \in Below(Sizes[x])
    <3>1. PICK y \in A : y[1] = x /\ y[2] = k
      BY ONLY k \in Used(x) DEF Used
    <3> QED
      BY ONLY <3>1, <1>3, Zenon
  <2>2. ASSUME NEW k \in Below(Sizes[x]) PROVE k \in Used(x)
    <3>1. <<x, k>> \in A
      BY ONLY <1>5, x \in Arrays, <1>6, k \in Below(Sizes[x]), Zenon DEF Uses
    <3>2. <<x, k>>[1] = x /\ <<x, k>>[2] = k
      OBVIOUS
    <3> QED
      BY ONLY <3>1, <3>2, Zenon DEF Used
  <2> QED
    BY ONLY <2>1, <2>2, Zenon
<1>7. DOMAIN Sizes = Arrays
  <2>1. SizesOf
    BY ArraySizes
  <2> QED
    BY ONLY <2>1 DEF SizesOf
<1> QED
  BY ONLY <1>4, <1>6, <1>7, Zenon

-----------------------------------------------------------------------------
(* The bytes that a payload may have. *)
Byte == 0..(kPaddingToken - 1)

(* They are numbers below the padding token, which is the last of the        *)
(* vocabulary.                                                               *)
LEMMA ByteIs ==
    Byte \subseteq Nat /\ Byte \subseteq Below(kVocabSize) /\ kPaddingToken \in Below(kVocabSize)
<1>1. kVocabSize \in Nat \ {0}
  BY Dimensions
<1> QED
  BY <1>1 DEF Byte, Below, kPaddingToken

(* The tokens are those of the last payload. *)
TokensInv ==
    /\ payload \in Seq(Byte)
    /\ tokens # <<>> => tokens = ExtractInputTokens(payload)

(* A payload is a sequence of bytes. *)
LEMMA PayloadIs ==
    ASSUME NEW p \in BoundedSeq(0..(kPaddingToken - 1), MaxPayload)
    PROVE  p \in Seq(Byte)
<1>1. MaxPayload \in Nat
  BY ShapeAssumption
<1>2. PICK m \in 0..MaxPayload : p \in [1..m -> Byte]
  BY <1>1 DEF BoundedSeq, SeqOf, Byte
<1> HIDE DEF Byte
<1> QED
  BY <1>1, <1>2

(* A sequence of bytes is one of numbers. *)
LEMMA BytesAreNumbers ==
    ASSUME NEW p \in Seq(Byte)
    PROVE  p \in Seq(Nat) /\ Len(p) \in Nat /\ p \in [1..Len(p) -> Byte]
<1>1. Len(p) \in Nat /\ p \in [1..Len(p) -> Byte]
  BY LenProperties
<1>2. p \in [1..Len(p) -> Nat]
  BY <1>1, ByteIs
<1> QED
  BY <1>1, <1>2

(* Every token is of the vocabulary. *)
LEMMA TokensOfVocabulary ==
    ASSUME NEW p \in Seq(Byte)
    PROVE  ExtractInputTokens(p) \in [1..kInputLen -> Below(kVocabSize)]
<1> DEFINE N == Len(p)
           s == BegStart(p)
           e == EndPos(p)
           B == kBegSize
           E == kEndSize
           c == MinOf(B, N - s)
           d == MinOf(E, e)
           o == B + (E - d)
           V == Below(kVocabSize)
           t == ExtractInputTokens(p)
<1>0. B \in Nat /\ E \in Nat /\ kInputLen = B + E
  BY ShapeAssumption DEF kInputLen
<1>1. p \in Seq(Nat) /\ N \in Nat /\ p \in [1..N -> Byte]
  BY BytesAreNumbers
<1>2. s \in 0..N /\ e \in 0..N
  BY <1>0, <1>1, BeginningIs, EndPosIs
<1>3. t = [j \in 1..(B + E) |->
             IF j <= c THEN p[s + j] ELSE IF j > o THEN p[(e - d) + j - o] ELSE kPaddingToken]
  BY <1>0 DEF ExtractInputTokens
<1>4. c = (IF B < N - s THEN B ELSE N - s) /\ d = IF E < e THEN E ELSE e
  BY DEF MinOf
<1>5. c \in Nat /\ c <= N - s /\ d \in Nat /\ d <= e /\ d <= E /\ o = (B + E) - d
  BY <1>0, <1>1, <1>2, <1>4
<1>6. Byte \subseteq V /\ kPaddingToken \in V
  BY ByteIs
<1> HIDE DEF s, e, c, d, o, t, B, E, V, Byte
<1>7. ASSUME NEW j \in 1..(B + E) PROVE t[j] \in V
  <2>1. j <= c => s + j \in 1..N
    BY <1>0, <1>1, <1>2, <1>5
  <2>2. j > o => (e - d) + j - o \in 1..N
    BY <1>0, <1>1, <1>2, <1>5
  <2>3. t[j] = IF j <= c THEN p[s + j] ELSE IF j > o THEN p[(e - d) + j - o] ELSE kPaddingToken
    BY <1>3
  <2>4. \A i \in 1..N : p[i] \in Byte
    BY <1>1
  <2> QED
    BY ONLY <2>1, <2>2, <2>3, <2>4, <1>6, Zenon
<1>8. t \in [1..(B + E) -> V]
  <2>1. t = [j \in 1..(B + E) |-> t[j]]
    BY ONLY <1>3
  <2> QED
    BY ONLY <2>1, <1>7, Zenon
<1> QED
  BY ONLY <1>0, <1>8, Zenon DEF t, V

(* Predict() alone changes the payload and the tokens. *)
LEMMA TokensStep ==
    ASSUME TokensInv, [ModelNext]_modelVars
    PROVE  TokensInv'
<1>1. CASE UNCHANGED <<payload, tokens>>
  BY <1>1 DEF TokensInv
<1>2. CASE \E p \in BoundedSeq(0..(kPaddingToken - 1), MaxPayload) : Predict(p)
  <2>1. PICK p \in BoundedSeq(0..(kPaddingToken - 1), MaxPayload) : Predict(p)
    BY <1>2
  <2>2. payload' = p /\ tokens' = ExtractInputTokens(p) /\ p \in Seq(Byte)
    BY <2>1, PayloadIs DEF Predict
  <2> QED
    BY ONLY <2>2, Zenon DEF TokensInv
<1>3. Load \/ Rejected \/ UNCHANGED modelVars => UNCHANGED <<payload, tokens>>
  BY DEF Load, Rejected, modelVars, OpenFails, ReadMagic, ReadVersion, ReadNumTensors, ReadName,
         ReadNumDims, ReadDim, ReadData, ReadNumLabels, ReadLabel, Validate, Rest
<1> QED
  BY <1>1, <1>2, <1>3 DEF ModelNext

(* There is no payload yet. *)
LEMMA TokensInit == ModelInit => TokensInv
<1>1. ModelInit => payload = <<>> /\ tokens = <<>>
  BY DEF ModelInit
<1>2. <<>> \in Seq(Byte)
  OBVIOUS
<1> QED
  BY ONLY <1>1, <1>2, Zenon DEF TokensInv

(* TokensAsTrained, for regions of every size and every payload:             *)
(* extractInputTokens() takes the first and the last bytes of the payload as *)
(* the network was trained to see them.                                      *)
THEOREM PayloadsTokenized == ModelSpec => []TokensAsTrained
<1>1. ModelInit => TokensInv
  BY TokensInit
<1>2. TokensInv /\ [ModelNext]_modelVars => TokensInv'
  BY TokensStep
<1>3. TokensInv => TokensAsTrained
  <2> SUFFICES ASSUME TokensInv, tokens # <<>>
               PROVE  tokens = Beginning(payload, kBegSize)
                               \o Reverse(Beginning(Reverse(payload), kEndSize))
    BY DEF TokensAsTrained
  <2>1. payload \in Seq(Nat) /\ tokens = ExtractInputTokens(payload)
    BY BytesAreNumbers DEF TokensInv
  <2> QED
    BY <2>1, Tokens, Zenon
<1> QED
  BY <1>1, <1>2, <1>3, PTL DEF ModelSpec

-----------------------------------------------------------------------------
(* Every tensor has a shape, of at least one dimension. *)
LEMMA ShapesOf ==
    ASSUME NEW n \in Required
    PROVE  ShapeOf[n] \in Seq(Nat) /\ Len(ShapeOf[n]) \in Nat \ {0}
<1>1. /\ ShapeOf["embed_weight"] = <<kVocabSize, kEmbedDim>>
      /\ ShapeOf["embed_bias"] = <<kEmbedDim>>
      /\ ShapeOf["ln0_scale"] = <<kReshapedSeq>>
      /\ ShapeOf["ln0_bias"] = <<kReshapedSeq>>
      /\ ShapeOf["conv_weight"] = <<kConvOut, kReshapedDim, kKernelSize>>
      /\ ShapeOf["conv_bias"] = <<kConvOut>>
      /\ ShapeOf["ln1_scale"] = <<kConvOut>>
      /\ ShapeOf["ln1_bias"] = <<kConvOut>>
      /\ ShapeOf["output_weight"] = <<kConvOut, Len(Labels)>>
      /\ ShapeOf["output_bias"] = <<Len(Labels)>>
  BY DEF ShapeOf
<1>2. /\ kVocabSize \in Nat /\ kEmbedDim \in Nat /\ kReshapedSeq \in Nat /\ kConvOut \in Nat
      /\ kReshapedDim \in Nat /\ kKernelSize \in Nat /\ Len(Labels) \in Nat
  BY Dimensions
<1>3. \/ \E a \in Nat : ShapeOf[n] = <<a>>
      \/ \E a, b \in Nat : ShapeOf[n] = <<a, b>>
      \/ \E a, b, c \in Nat : ShapeOf[n] = <<a, b, c>>
  BY ONLY <1>1, <1>2, n \in Required, RequiredAre, Zenon
<1>4. ASSUME NEW a \in Nat, NEW b \in Nat, NEW c \in Nat, NEW w, w = <<a>> \/ w = <<a, b>> \/ w = <<a, b, c>>
      PROVE  w \in Seq(Nat) /\ Len(w) \in Nat \ {0}
  <2>1. /\ <<a>> \in Seq(Nat) /\ Len(<<a>>) = 1
        /\ <<a, b>> \in Seq(Nat) /\ Len(<<a, b>>) = 2
        /\ <<a, b, c>> \in Seq(Nat) /\ Len(<<a, b, c>>) = 3
    BY ONLY a \in Nat, b \in Nat, c \in Nat
  <2>2. 1 \in Nat \ {0} /\ 2 \in Nat \ {0} /\ 3 \in Nat \ {0}
    OBVIOUS
  <2> QED
    BY ONLY <1>4, <2>1, <2>2, Zenon
<1>5. ShapeOf[n] \in Seq(Nat) /\ Len(ShapeOf[n]) \in Nat \ {0}
  <2> DEFINE w == ShapeOf[n]
  <2>0. 0 \in Nat
    OBVIOUS
  <2> HIDE DEF w
  <2> QED
    BY <1>3, <1>4, <2>0, Zenon DEF w
<1> QED
  BY <1>5

(* What a file's items are: numbers, strings and the floats of tensors. *)
Entry == (Nat \cup STRING \cup Required) \cup {Product(ShapeOf[n]) : n \in Required}

(* The items of a tensor. *)
LEMMA TensorItemsAre ==
    ASSUME NEW n \in Required
    PROVE  /\ TensorItems(n) \in Seq(Entry) /\ Len(TensorItems(n)) = Len(ShapeOf[n]) + 3
           /\ TensorItems(n)[1] = n /\ TensorItems(n)[2] = Len(ShapeOf[n])
           /\ \A j \in 1..Len(ShapeOf[n]) : TensorItems(n)[2 + j] = ShapeOf[n][j]
<1> DEFINE s == ShapeOf[n]
           k == Len(s)
           x == Product(s)
           h == <<n, k>>
           t == <<x>>
<1>1. s \in Seq(Nat) /\ k \in Nat
  BY ShapesOf
<1>2. x \in Entry /\ n \in Entry /\ Nat \subseteq Entry
  BY <1>1 DEF Entry
<1>3. TensorItems(n) = (h \o s) \o t
  BY DEF TensorItems
<1> HIDE DEF s, x, Entry
<1>4. h \in Seq(Entry) /\ Len(h) = 2 /\ h[1] = n /\ h[2] = k
  <2>1. k \in Entry
    BY <1>1, <1>2
  <2>2. \A a, b \in Entry : <<a, b>> \in Seq(Entry) /\ Len(<<a, b>>) = 2
    OBVIOUS
  <2> HIDE DEF k
  <2> QED
    BY <1>2, <2>1, <2>2
<1>5. t \in Seq(Entry) /\ Len(t) = 1
  BY <1>2
<1>6. s \in Seq(Entry)
  BY <1>1, <1>2, SeqMonotonic
<1> HIDE DEF h, t, k
<1>7. /\ h \o s \in Seq(Entry) /\ Len(h \o s) = 2 + k
      /\ \A i \in 1..(2 + k) : (h \o s)[i] = IF i <= 2 THEN h[i] ELSE s[i - 2]
  <2>1. Len(s) = k
    BY DEF k
  <2>2. /\ h \o s \in Seq(Entry) /\ Len(h \o s) = Len(h) + Len(s)
        /\ \A i \in 1..Len(h) + Len(s) : (h \o s)[i] = IF i <= Len(h) THEN h[i] ELSE s[i - Len(h)]
    BY ONLY <1>4, <1>6, ConcatProperties
  <2> QED
    BY ONLY <2>1, <2>2, <1>4, Zenon
<1> DEFINE u == h \o s
<1> HIDE DEF u
<1>8. /\ u \o t \in Seq(Entry) /\ Len(u \o t) = (2 + k) + 1
      /\ \A i \in 1..((2 + k) + 1) : (u \o t)[i] = IF i <= 2 + k THEN u[i] ELSE t[i - (2 + k)]
  <2>1. u \in Seq(Entry) /\ Len(u) = 2 + k
    BY <1>7 DEF u
  <2>2. /\ u \o t \in Seq(Entry) /\ Len(u \o t) = Len(u) + Len(t)
        /\ \A i \in 1..Len(u) + Len(t) : (u \o t)[i] = IF i <= Len(u) THEN u[i] ELSE t[i - Len(u)]
    BY ONLY <2>1, <1>5, ConcatProperties
  <2> QED
    BY ONLY <2>1, <2>2, <1>5, Zenon
<1> DEFINE w == u \o t
<1> HIDE DEF w
<1>9. /\ w \in Seq(Entry) /\ Len(w) = (2 + k) + 1
      /\ \A i \in 1..(2 + k) : w[i] = u[i]
  <2>1. \A i \in 1..(2 + k) : i \in 1..((2 + k) + 1) /\ i <= 2 + k
    BY <1>1
  <2> QED
    BY <2>1, <1>8, Zenon DEF w
<1>10. \A i \in 1..(2 + k) : u[i] = IF i <= 2 THEN h[i] ELSE s[i - 2]
  BY <1>7 DEF u
<1>11. 1 \in 1..(2 + k) /\ 2 \in 1..(2 + k) /\ 1 <= 2 /\ 2 <= 2 /\ Len(w) = k + 3
  BY <1>1, <1>9
<1>12. w[1] = n /\ w[2] = k
  BY ONLY <1>4, <1>9, <1>10, <1>11
<1>13. ASSUME NEW j \in 1..k PROVE w[2 + j] = s[j]
  <2>1. 2 + j \in 1..(2 + k) /\ ~(2 + j <= 2) /\ (2 + j) - 2 = j
    BY <1>1
  <2> QED
    BY <2>1, <1>9, <1>10
<1>14. TensorItems(n) = w
  BY <1>3 DEF w, u
<1> QED
  BY <1>9, <1>11, <1>12, <1>13, <1>14 DEF s, k

(* The tensors of w are those named in ns, and the i-th begins after the     *)
(* first q[i - 1] items.                                                     *)
TensorsLaid(w, ns, q) ==
    \A i \in 1..Len(ns) :
        /\ q[i] = q[i - 1] + (Len(ShapeOf[ns[i]]) + 3)
        /\ w[q[i - 1] + 1] = ns[i] /\ w[q[i - 1] + 2] = Len(ShapeOf[ns[i]])
        /\ \A j \in 1..Len(ShapeOf[ns[i]]) : w[q[i - 1] + (2 + j)] = ShapeOf[ns[i]][j]

(* The labels of w follow its first m items. *)
LabelsLaid(w, m) ==
    w[m + 1] = Len(Labels) /\ \A j \in 1..Len(Labels) : w[(m + 1) + j] = Labels[j]

(* w is laid out as a file of the tensors ns. *)
Laid(w, ns, q) ==
    /\ ns \in Seq(Required) /\ q \in [0..Len(ns) -> Nat] /\ q[0] = 3
    /\ w[3] = Len(ns)
    /\ TensorsLaid(w, ns, q)
    /\ LabelsLaid(w, q[Len(ns)])

(* Where the elements of two sequences are in their concatenation. *)
LEMMA ConcatAt ==
    ASSUME NEW S, NEW a \in Seq(S), NEW b \in Seq(S)
    PROVE  /\ a \o b \in Seq(S) /\ Len(a \o b) = Len(a) + Len(b) /\ Len(a) \in Nat /\ Len(b) \in Nat
           /\ \A i \in 1..Len(a) : (a \o b)[i] = a[i]
           /\ \A i \in 1..Len(b) : (a \o b)[Len(a) + i] = b[i]
<1> DEFINE m == Len(a)
           n == Len(b)
           w == a \o b
<1>1. m \in Nat /\ n \in Nat
  BY LenProperties
<1>2. /\ w \in Seq(S) /\ Len(w) = m + n
      /\ \A i \in 1..m + n : w[i] = IF i <= m THEN a[i] ELSE b[i - m]
  BY ConcatProperties
<1> HIDE DEF m, n, w
<1>3. ASSUME NEW i \in 1..m PROVE w[i] = a[i]
  <2>1. i \in 1..m + n /\ i <= m
    BY <1>1
  <2> QED
    BY <2>1, <1>2
<1>4. ASSUME NEW i \in 1..n PROVE w[m + i] = b[i]
  <2>1. m + i \in 1..m + n /\ ~(m + i <= m) /\ (m + i) - m = i
    BY <1>1
  <2> QED
    BY <2>1, <1>2
<1> QED
  BY <1>1, <1>2, <1>3, <1>4 DEF m, n, w

(* A file that the exporter writes is laid out as loadFromFile() expects,    *)
(* whatever its magic number, its version and the tensors it has.            *)
LEMMA ItemsLaid ==
    ASSUME NEW ns \in Seq(Required), NEW magic \in Nat, NEW version \in Nat
    PROVE  /\ Items(magic, version, ns) \in Seq(Entry)
           /\ \E q : Laid(Items(magic, version, ns), ns, q)
<1> DEFINE K == Len(ns)
           NL == Len(Labels)
           h == <<magic, version, K>>
           p == [i \in 1..K |-> TensorItems(ns[i])]
           l == FlattenSeq(p)
           c == <<NL>>
           x == h \o l
           y == x \o c
           w == y \o Labels
<1>1. K \in Nat /\ NL \in Nat /\ \A i \in 1..K : ns[i] \in Required
  BY LenProperties, ElementOfSeq, Dimensions
<1>2. Nat \subseteq Entry /\ STRING \subseteq Entry
  BY DEF Entry
<1>3. Labels \in Seq(Entry)
  BY <1>2, ShapeAssumption, SeqMonotonic
<1> HIDE DEF K, NL
<1>4. h \in Seq(Entry) /\ Len(h) = 3 /\ h[3] = K
  <2>1. \A a1, a2, a3 \in Entry : <<a1, a2, a3>> \in Seq(Entry)
    OBVIOUS
  <2>2. h \in Seq(Entry)
    BY <1>1, <1>2, <2>1
  <2> QED
    BY <2>2
<1>5. c \in Seq(Entry) /\ Len(c) = 1 /\ c[1] = NL
  <2>1. \A a1 \in Entry : <<a1>> \in Seq(Entry)
    OBVIOUS
  <2>2. c \in Seq(Entry)
    BY <1>1, <1>2, <2>1
  <2> QED
    BY <2>2
<1>6. p \in Seq(Seq(Entry)) /\ Len(p) = K
  <2>1. \A i \in 1..K : TensorItems(ns[i]) \in Seq(Entry)
    BY <1>1, TensorItemsAre
  <2>2. p \in [1..K -> Seq(Entry)]
    BY ONLY <2>1
  <2> QED
    BY ONLY <2>2, <1>1
<1>7. l \in Seq(Entry)
  <2> HIDE DEF p
  <2> QED
    BY <1>6, FlattenConcat
<1>8. PICK z : Starts(z, p, l)
  <2> HIDE DEF p
  <2> QED
    BY <1>6, StartsExist
<1>9. \A i \in 1..K : p[i] = TensorItems(ns[i])
  OBVIOUS
<1>10. Items(magic, version, ns) = w
  BY ONLY Zenon DEF Items, w, y, x, c, l, p, h, K, NL
<1> DEFINE r == Len(l)
<1> HIDE DEF h, p, l, c
<1>11. /\ x \in Seq(Entry) /\ Len(x) = 3 + r /\ r \in Nat
       /\ \A i \in 1..3 : x[i] = h[i]
       /\ \A i \in 1..r : x[3 + i] = l[i]
  <2>1. /\ h \o l \in Seq(Entry) /\ Len(h \o l) = Len(h) + Len(l) /\ Len(l) \in Nat
        /\ \A i \in 1..Len(h) : (h \o l)[i] = h[i]
        /\ \A i \in 1..Len(l) : (h \o l)[Len(h) + i] = l[i]
    <3>1. h \in Seq(Entry) /\ l \in Seq(Entry)
      BY ONLY <1>4, <1>7
    <3>2. h \o l \in Seq(Entry) /\ Len(l) \in Nat
      BY ONLY <3>1, ConcatAt
    <3>3. Len(h \o l) = Len(h) + Len(l)
      BY ONLY <3>1, ConcatAt
    <3>4. \A i \in 1..Len(h) : (h \o l)[i] = h[i]
      BY ONLY <3>1, ConcatAt
    <3>5. \A i \in 1..Len(l) : (h \o l)[Len(h) + i] = l[i]
      BY ONLY <3>1, ConcatAt
    <3> QED
      BY ONLY <3>2, <3>3, <3>4, <3>5, Zenon
  <2> QED
    BY ONLY <2>1, <1>4, Zenon
<1> HIDE DEF x, r
<1>12. /\ y \in Seq(Entry) /\ Len(y) = (3 + r) + 1
       /\ \A i \in 1..(3 + r) : y[i] = x[i]
       /\ \A i \in 1..1 : y[(3 + r) + i] = c[i]
  <2>1. /\ x \o c \in Seq(Entry) /\ Len(x \o c) = Len(x) + Len(c)
        /\ \A i \in 1..Len(x) : (x \o c)[i] = x[i]
        /\ \A i \in 1..Len(c) : (x \o c)[Len(x) + i] = c[i]
    <3>1. x \in Seq(Entry) /\ c \in Seq(Entry)
      BY ONLY <1>5, <1>11
    <3>2. x \o c \in Seq(Entry)
      BY ONLY <3>1, ConcatAt
    <3>3. Len(x \o c) = Len(x) + Len(c)
      BY ONLY <3>1, ConcatAt
    <3>4. \A i \in 1..Len(x) : (x \o c)[i] = x[i]
      BY ONLY <3>1, ConcatAt
    <3>5. \A i \in 1..Len(c) : (x \o c)[Len(x) + i] = c[i]
      BY ONLY <3>1, ConcatAt
    <3> QED
      BY ONLY <3>2, <3>3, <3>4, <3>5, Zenon
  <2> QED
    BY ONLY <2>1, <1>11, <1>5, Zenon
<1> HIDE DEF y
<1>13. /\ w \in Seq(Entry)
       /\ \A i \in 1..((3 + r) + 1) : w[i] = y[i]
       /\ \A i \in 1..NL : w[((3 + r) + 1) + i] = Labels[i]
  <2>1. /\ y \o Labels \in Seq(Entry)
        /\ \A i \in 1..Len(y) : (y \o Labels)[i] = y[i]
        /\ \A i \in 1..Len(Labels) : (y \o Labels)[Len(y) + i] = Labels[i]
    BY ONLY <1>12, <1>3, ConcatAt
  <2> QED
    BY ONLY <2>1, <1>12, Zenon DEF NL
<1> HIDE DEF w
<1>14. w[3] = K
  <2>1. 3 \in 1..3 /\ 3 \in 1..(3 + r) /\ 3 \in 1..((3 + r) + 1)
    BY <1>11
  <2> QED
    BY <2>1, <1>4, <1>11, <1>12, <1>13
<1>15. \A i \in 1..r : w[3 + i] = l[i]
  <2> SUFFICES ASSUME NEW i \in 1..r PROVE w[3 + i] = l[i]
    OBVIOUS
  <2>1. 3 + i \in 1..(3 + r) /\ 3 + i \in 1..((3 + r) + 1)
    BY <1>11
  <2> QED
    BY <2>1, <1>11, <1>12, <1>13
<1>16. LabelsLaid(w, 3 + r)
  <2>1. 1 \in 1..1 /\ (3 + r) + 1 \in 1..((3 + r) + 1)
    BY <1>11
  <2>2. w[(3 + r) + 1] = NL
    BY <2>1, <1>12, <1>13, <1>5
  <2> QED
    BY <2>2, <1>13 DEF LabelsLaid, NL
<1> DEFINE q == [i \in 0..K |-> 3 + z[i]]
<1>17. /\ z \in [0..K -> Nat] /\ z[0] = 0 /\ z[K] = r
       /\ \A i \in 1..K : /\ z[i] = z[i - 1] + Len(p[i])
                          /\ Within(l, z[i - 1], z[i]) /\ p[i] = Cut(l, z[i - 1], z[i])
  BY ONLY <1>8, <1>6 DEF Starts, r
<1>18. /\ q \in [0..K -> Nat] /\ q[0] = 3 /\ q[K] = 3 + r
       /\ \A i \in 0..K : q[i] = 3 + z[i]
  BY ONLY <1>17, <1>1
<1> HIDE DEF q
<1>19. TensorsLaid(w, ns, q)
  <2> SUFFICES ASSUME NEW i \in 1..K
               PROVE  /\ q[i] = q[i - 1] + (Len(ShapeOf[ns[i]]) + 3)
                      /\ w[q[i - 1] + 1] = ns[i] /\ w[q[i - 1] + 2] = Len(ShapeOf[ns[i]])
                      /\ \A j \in 1..Len(ShapeOf[ns[i]]) : w[q[i - 1] + (2 + j)] = ShapeOf[ns[i]][j]
    BY DEF TensorsLaid, K
  <2> DEFINE n == ns[i]
             s == ShapeOf[n]
             k == Len(s)
             a == z[i - 1]
             b == z[i]
             t == p[i]
  <2>1. n \in Required /\ i - 1 \in 0..K /\ i \in 0..K
    BY <1>1
  <2>2. k \in Nat
    BY <2>1, ShapesOf
  <2>3. t = TensorItems(n)
    BY <1>9
  <2>4. Len(t) = k + 3 /\ t[1] = n /\ t[2] = k /\ \A j \in 1..k : t[2 + j] = s[j]
    <3> DEFINE u == TensorItems(n)
    <3>1. Len(u) = k + 3 /\ u[1] = n /\ u[2] = k /\ \A j \in 1..k : u[2 + j] = s[j]
      <4>1. n \in Required
        BY <2>1
      <4> HIDE DEF n
      <4> QED
        BY ONLY <4>1, TensorItemsAre
    <3> HIDE DEF u, t, k, s, n
    <3>2. t = u
      BY <2>3 DEF u
    <3> QED
      BY ONLY <3>1, <3>2, Zenon
  <2>5. b = a + Len(t) /\ Within(l, a, b) /\ t = Cut(l, a, b) /\ a \in Nat /\ b \in Nat
    BY <2>1, <1>17
  <2> HIDE DEF t, k, s, n
  <2>6. CutOf(t, l, a, b)
    BY ONLY <2>5, <1>7, CutProperties
  <2>7. b - a = k + 3 /\ \A j \in 1..(k + 3) : t[j] = l[a + j]
    BY ONLY <2>2, <2>4, <2>5, <2>6 DEF CutOf
  <2>8. b <= r
    BY ONLY <2>5 DEF Within, r
  <2>9. q[i] = 3 + b /\ q[i - 1] = 3 + a
    BY <2>1, <1>18
  <2> HIDE DEF a, b
  <2>10. \A j \in 1..(k + 3) : w[(3 + a) + j] = t[j]
    <3> SUFFICES ASSUME NEW j \in 1..(k + 3) PROVE w[(3 + a) + j] = t[j]
      OBVIOUS
    <3>1. a + j \in 1..r /\ 3 + (a + j) = (3 + a) + j
      BY ONLY <2>2, <2>5, <2>7, <2>8, <1>11, j \in 1..(k + 3)
    <3> QED
      BY ONLY <3>1, <1>15, <2>7, j \in 1..(k + 3), Zenon
  <2>11. 1 \in 1..(k + 3) /\ 2 \in 1..(k + 3) /\ \A j \in 1..k : 2 + j \in 1..(k + 3)
    BY ONLY <2>2
  <2>12. w[(3 + a) + 1] = n /\ w[(3 + a) + 2] = k /\ \A j \in 1..k : w[(3 + a) + (2 + j)] = s[j]
    BY ONLY <2>10, <2>11, <2>4, Zenon
  <2>13. 3 + b = (3 + a) + (k + 3)
    BY ONLY <2>2, <2>5, <2>7
  <2>14. /\ q[i] = q[i - 1] + (k + 3)
         /\ w[q[i - 1] + 1] = n /\ w[q[i - 1] + 2] = k
         /\ \A j \in 1..k : w[q[i - 1] + (2 + j)] = s[j]
    BY ONLY <2>9, <2>12, <2>13, Zenon
  <2> QED
    BY ONLY <2>14, Zenon DEF k, s, n
<1>20. Laid(w, ns, q)
  BY <1>14, <1>16, <1>18, <1>19 DEF Laid, K
<1> QED
  BY <1>10, <1>13, <1>20

(* The items of f are the first ones of w. *)
BeginsAs(f, w) == Len(f.items) \in Nat /\ \A i \in 1..Len(f.items) : f.items[i] = w[i]

(* Names is a sequence of the tensors, and so is it without one of them. *)
LEMMA NamesAre ==
    /\ Names \in Seq(Required) /\ Len(Names) \in Nat
    /\ \A n \in 1..Len(Names) : RemoveAt(Names, n) \in Seq(Required)
<1>1. Len(Names) = 10 /\ DOMAIN Names = 1..10
  BY DEF Names
<1>2. Names = [i \in 1..10 |-> Names[i]]
  BY DEF Names
<1>3. \A i \in 1..10 : Names[i] \in Required
  BY <1>1 DEF Required, Range
<1>4. Names \in [1..10 -> Required]
  BY ONLY <1>2, <1>3
<1>5. Names \in Seq(Required)
  <2>1. 10 \in Nat
    OBVIOUS
  <2> QED
    BY ONLY <2>1, <1>4, SeqDef, Zenon
<1> DEFINE N == Names
<1> HIDE DEF N
<1>6. ASSUME NEW n \in 1..Len(N) PROVE RemoveAt(N, n) \in Seq(Required)
  <2>1. N \in Seq(Required) /\ Len(N) \in Nat
    BY <1>1, <1>5 DEF N
  <2>2. SubSeq(N, 1, n - 1) \in Seq(Required) /\ SubSeq(N, n + 1, Len(N)) \in Seq(Required)
    BY <2>1
  <2> QED
    BY <2>2, ConcatProperties DEF RemoveAt
<1> QED
  BY <1>1, <1>5, <1>6 DEF N

(* Every file, whole or cut short, is the beginning of one that is laid out  *)
(* as loadFromFile() expects.                                                *)
LEMMA FilesLaid ==
    ASSUME NEW f \in Files
    PROVE  \E w, ns, q : Laid(w, ns, q) /\ BeginsAs(f, w)
<1>0. 1 \in Nat /\ 2 \in Nat /\ Magic = 1 /\ Magic + 1 = 2
  BY DEF Magic
<1>1. ASSUME NEW ns \in Seq(Required), NEW magic \in Nat, NEW version \in Nat,
             f.items = Items(magic, version, ns)
      PROVE  \E w, xs, q : Laid(w, xs, q) /\ BeginsAs(f, w)
  <2> DEFINE w == Items(magic, version, ns)
  <2>1. w \in Seq(Entry) /\ \E q : Laid(w, ns, q)
    BY ItemsLaid
  <2> HIDE DEF w
  <2>2. f.items = w
    BY <1>1 DEF w
  <2>3. Len(w) \in Nat
    BY <2>1, LenProperties
  <2>4. BeginsAs(f, w)
    BY ONLY <2>2, <2>3, Zenon DEF BeginsAs
  <2> QED
    BY <2>1, <2>4
<1>2. CASE \E n \in 0..Len(Written), p \in BOOLEAN :
             f = [items |-> SubSeq(Written, 1, n), partial |-> p]
  <2> DEFINE w == Written
  <2>1. w = Items(1, 1, Names)
    BY <1>0 DEF Written
  <2>2. w \in Seq(Entry) /\ \E q : Laid(w, Names, q)
    BY <1>0, <2>1, NamesAre, ItemsLaid
  <2> HIDE DEF w
  <2>3. PICK n \in 0..Len(w), p \in BOOLEAN : f = [items |-> SubSeq(w, 1, n), partial |-> p]
    BY <1>2 DEF w
  <2>4. f.items = SubSeq(w, 1, n) /\ Len(w) \in Nat
    BY <2>2, <2>3, LenProperties
  <2>5. Len(SubSeq(w, 1, n)) = n /\ \A i \in 1..n : SubSeq(w, 1, n)[i] = w[i]
    BY ONLY <2>2, <2>4, n \in 0..Len(w)
  <2>6. Len(f.items) = n /\ n \in Nat /\ \A i \in 1..n : f.items[i] = w[i]
    BY <2>4, <2>5
  <2>7. BeginsAs(f, w)
    BY ONLY <2>6, Zenon DEF BeginsAs
  <2> QED
    BY <2>2, <2>7
<1>3. CASE \E w \in {Items(Magic + 1, 1, Names), Items(Magic, 2, Names)}
                    \cup {Items(Magic, 1, RemoveAt(Names, n)) : n \in 1..Len(Names)} :
             f = [items |-> w, partial |-> FALSE]
  <2>1. PICK w \in {Items(Magic + 1, 1, Names), Items(Magic, 2, Names)}
                    \cup {Items(Magic, 1, RemoveAt(Names, n)) : n \in 1..Len(Names)} :
             f = [items |-> w, partial |-> FALSE]
    BY <1>3
  <2>2. f.items = w
    BY <2>1
  <2>3. \E ns \in Seq(Required), magic, version \in Nat : w = Items(magic, version, ns)
    <3>1. CASE w = Items(2, 1, Names)
      BY ONLY <3>1, <1>0, NamesAre, Zenon
    <3>2. CASE w = Items(1, 2, Names)
      BY ONLY <3>2, <1>0, NamesAre, Zenon
    <3>3. CASE \E n \in 1..Len(Names) : w = Items(1, 1, RemoveAt(Names, n))
      BY ONLY <3>3, <1>0, NamesAre, Zenon
    <3> QED
      BY ONLY <2>1, <1>0, <3>1, <3>2, <3>3, Zenon
  <2> QED
    BY <1>1, <2>2, <2>3, Zenon
<1>4. \/ \E n \in 0..Len(Written), p \in BOOLEAN : f = [items |-> SubSeq(Written, 1, n), partial |-> p]
      \/ \E w \in {Items(Magic + 1, 1, Names), Items(Magic, 2, Names)}
                    \cup {Items(Magic, 1, RemoveAt(Names, n)) : n \in 1..Len(Names)} :
             f = [items |-> w, partial |-> FALSE]
  <2> DEFINE A == {[items |-> SubSeq(Written, 1, n), partial |-> p] : n \in 0..Len(Written), p \in BOOLEAN}
             W == {Items(Magic + 1, 1, Names), Items(Magic, 2, Names)}
                    \cup {Items(Magic, 1, RemoveAt(Names, n)) : n \in 1..Len(Names)}
             B == {[items |-> i, partial |-> FALSE] : i \in W}
  <2>0. Files = A \cup B
    BY DEF Files
  <2>1. f \in A \/ f \in B
    <3> HIDE DEF A, B
    <3> QED
      BY ONLY <2>0, f \in Files, Zenon
  <2>2. CASE f \in A
    BY ONLY <2>2
  <2>3. CASE f \in B
    <3> HIDE DEF W
    <3>1. \E w \in W : f = [items |-> w, partial |-> FALSE]
      BY ONLY <2>3
    <3> QED
      BY ONLY <3>1 DEF W
  <2> HIDE DEF A, B
  <2> QED
    BY ONLY <2>1, <2>2, <2>3, Zenon
<1> QED
  BY <1>2, <1>3, <1>4

-----------------------------------------------------------------------------
(* Where the tensor that is read begins, and its name. *)
TensorStart(ns, q) == q[Len(ns) - togo]
TensorName(ns) == ns[(Len(ns) - togo) + 1]

(* Where loadFromFile() is at each stage, as long as the stream is good. *)
Here(ns, q) ==
    /\ stage = "magic" => pos = 0
    /\ stage = "version" => pos = 1
    /\ stage = "numTensors" => pos = 2
    /\ stage \in {"name", "numDims", "dim", "data"} => togo \in 1..Len(ns)
    /\ stage \in {"numDims", "dim", "data"} => name = TensorName(ns)
    /\ stage = "name" => pos = TensorStart(ns, q)
    /\ stage = "numDims" => pos = TensorStart(ns, q) + 1
    /\ stage = "dim" => /\ dims \in 1..Len(ShapeOf[name])
                        /\ pos = TensorStart(ns, q) + (2 + (Len(ShapeOf[name]) - dims))
                        /\ shape = Cut(ShapeOf[name], 0, Len(ShapeOf[name]) - dims)
    /\ stage = "data" => /\ pos = TensorStart(ns, q) + (2 + Len(ShapeOf[name]))
                         /\ shape = ShapeOf[name]
    /\ stage = "numLabels" => pos = q[Len(ns)]
    /\ stage = "label" => /\ classes = Len(Labels) /\ togo \in 1..Len(Labels)
                          /\ pos = (q[Len(ns)] + 1) + (Len(Labels) - togo)
                          /\ labels = Cut(Labels, 0, Len(Labels) - togo)
    /\ stage \in {"validate", "loaded"} => classes = Len(Labels) /\ labels = Labels
    /\ stage \notin {"label", "validate", "loaded", "rejected"} => labels = <<>>

(* The tensors that were read have as many floats as their shapes say. *)
TensorsRead == \E D \in SUBSET Required : tensors = [n \in D |-> Product(ShapeOf[n])]

(* The state of the loader on a file that is the beginning of w.  A stream   *)
(* that failed leads to no class.                                            *)
LoadInv(w, ns, q) ==
    /\ Laid(w, ns, q) /\ BeginsAs(file, w)
    /\ pos \in Nat /\ ok \in BOOLEAN
    /\ TensorsRead
    /\ stage = "loaded" => Required \subseteq DOMAIN tensors
    /\ ok => Here(ns, q)
    /\ (~ok /\ stage \in {"validate", "loaded"}) => classes = 0

(* A read that delivers an item of the file, and one that does not. *)
GoodRead(w, v) == ok /\ ok' = TRUE /\ pos' = pos + 1 /\ v = w[pos + 1]
BadRead(v, initial) == ok' = FALSE /\ pos' = pos /\ (ok \/ v = initial)

(* There are no others. *)
LEMMA ReadIs ==
    ASSUME NEW w, BeginsAs(file, w), pos \in Nat, ok \in BOOLEAN, NEW initial,
           NEW r \in Reads(initial), Advance(r)
    PROVE  \/ r.good /\ GoodRead(w, r.v)
           \/ ~r.good /\ BadRead(r.v, initial)
<1>1. ok' = r.good /\ pos' = IF r.good THEN pos + 1 ELSE pos
  BY DEF Advance
<1>2. CASE Whole
  <2>1. r = [v |-> file.items[pos + 1], good |-> TRUE]
    BY <1>2 DEF Reads
  <2>2. r.good = TRUE /\ r.v = file.items[pos + 1]
    BY ONLY <2>1
  <2>3. ok /\ pos < Len(file.items)
    BY <1>2 DEF Whole
  <2>4. Len(file.items) \in Nat /\ \A i \in 1..Len(file.items) : file.items[i] = w[i]
    BY DEF BeginsAs
  <2>5. pos + 1 \in 1..Len(file.items)
    BY <2>3, <2>4
  <2>6. r.v = w[pos + 1]
    BY ONLY <2>2, <2>4, <2>5, Zenon
  <2> QED
    BY ONLY <1>1, <2>2, <2>3, <2>6, Zenon DEF GoodRead
<1>3. CASE ~Whole
  <2>1. \/ r = [v |-> initial, good |-> FALSE]
        \/ CutShort /\ r = [v |-> file.items[pos + 1], good |-> FALSE]
    BY <1>3 DEF Reads
  <2>2. r.good = FALSE
    BY ONLY <2>1
  <2>3. r.v = initial \/ ok
    BY ONLY <2>1 DEF CutShort
  <2> QED
    BY ONLY <1>1, <2>2, <2>3, Zenon DEF BadRead
<1> QED
  BY <1>2, <1>3

(* What is left to show of a step of the loader. *)
LEMMA LoadStepIs ==
    ASSUME NEW w, NEW ns, NEW q, LoadInv(w, ns, q), UNCHANGED file, NEW v, NEW initial,
           GoodRead(w, v) \/ BadRead(v, initial),
           TensorsRead', stage' # "loaded",
           GoodRead(w, v) => Here(ns, q)',
           (BadRead(v, initial) /\ stage' = "validate") => classes' = 0
    PROVE  LoadInv(w, ns, q)'
<1>1. Laid(w, ns, q)
  BY DEF LoadInv
<1>2. BeginsAs(file, w)'
  BY DEF LoadInv, BeginsAs
<1>3. pos \in Nat /\ pos + 1 \in Nat
  BY DEF LoadInv
<1>4. CASE GoodRead(w, v)
  <2>1. ok' = TRUE /\ pos' = pos + 1 /\ Here(ns, q)'
    BY ONLY <1>4, GoodRead(w, v) => Here(ns, q)', Zenon DEF GoodRead
  <2>2. ok' /\ ok' \in BOOLEAN
    BY ONLY <2>1
  <2> QED
    BY ONLY <1>1, <1>2, <1>3, <2>1, <2>2, TensorsRead', stage' # "loaded", Zenon DEF LoadInv
<1>5. CASE BadRead(v, initial)
  <2>1. ok' = FALSE /\ pos' = pos /\ (stage' = "validate" => classes' = 0)
    BY ONLY <1>5, (BadRead(v, initial) /\ stage' = "validate") => classes' = 0, Zenon DEF BadRead
  <2>2. ~ok' /\ ok' \in BOOLEAN
    BY ONLY <2>1
  <2>3. (stage \in {"validate", "loaded"} => classes = 0)'
    BY ONLY <2>1, stage' # "loaded", Zenon
  <2> QED
    BY ONLY <1>1, <1>2, <1>3, <2>1, <2>2, <2>3, TensorsRead', stage' # "loaded", Zenon DEF LoadInv
<1> QED
  BY <1>4, <1>5

(* The parts of the loader's invariant. *)
LEMMA LoadFacts ==
    ASSUME NEW w, NEW ns, NEW q, LoadInv(w, ns, q)
    PROVE  /\ Laid(w, ns, q) /\ BeginsAs(file, w) /\ pos \in Nat /\ ok \in BOOLEAN
           /\ TensorsRead /\ (ok => Here(ns, q))
  BY Zenon DEF LoadInv

(* The parts of a file's layout. *)
LEMMA LaidFacts ==
    ASSUME NEW w, NEW ns, NEW q, Laid(w, ns, q)
    PROVE  /\ Len(ns) \in Nat /\ q \in [0..Len(ns) -> Nat] /\ q[0] = 3 /\ w[3] = Len(ns)
           /\ Len(Labels) \in Nat /\ w[q[Len(ns)] + 1] = Len(Labels)
           /\ \A j \in 1..Len(Labels) : w[(q[Len(ns)] + 1) + j] = Labels[j]
<1>1. ns \in Seq(Required) /\ q \in [0..Len(ns) -> Nat] /\ q[0] = 3 /\ w[3] = Len(ns) /\ LabelsLaid(w, q[Len(ns)])
  BY Zenon DEF Laid
<1>2. Len(ns) \in Nat /\ Len(Labels) \in Nat
  BY <1>1, LenProperties, Dimensions
<1> QED
  BY ONLY <1>1, <1>2, Zenon DEF LabelsLaid

(* The items of w after the first a and up to the b-th are the tensor n. *)
IsTensor(w, a, n, b) ==
    /\ n \in Required /\ a \in Nat /\ Len(ShapeOf[n]) \in Nat \ {0} /\ ShapeOf[n] \in Seq(Nat)
    /\ b = a + (Len(ShapeOf[n]) + 3) /\ w[a + 1] = n /\ w[a + 2] = Len(ShapeOf[n])
    /\ \A j \in 1..Len(ShapeOf[n]) : w[a + (2 + j)] = ShapeOf[n][j]

(* Where the tensor is that is read when t of them are left. *)
LEMMA TensorAt ==
    ASSUME NEW w, NEW ns, NEW q, Laid(w, ns, q), NEW STATE t, t \in 1..Len(ns)
    PROVE  IsTensor(w, q[Len(ns) - t], ns[(Len(ns) - t) + 1], q[Len(ns) - (t - 1)])
<1> DEFINE K == Len(ns)
           i == (K - t) + 1
           a == q[K - t]
           n == ns[i]
           k == Len(ShapeOf[n])
<1>1. K \in Nat /\ q \in [0..K -> Nat]
  BY LaidFacts
<1>2. K - t \in 0..K /\ i \in 1..K /\ i - 1 = K - t /\ i = K - (t - 1)
  BY <1>1
<1>3. n \in Required /\ a \in Nat
  <2>1. ns \in Seq(Required)
    BY Zenon DEF Laid
  <2> QED
    BY <1>1, <1>2, <2>1, ElementOfSeq
<1>4. k \in Nat \ {0} /\ ShapeOf[n] \in Seq(Nat)
  BY <1>3, ShapesOf
<1> HIDE DEF i
<1>6. /\ q[i] = q[i - 1] + (Len(ShapeOf[ns[i]]) + 3)
      /\ w[q[i - 1] + 1] = ns[i] /\ w[q[i - 1] + 2] = Len(ShapeOf[ns[i]])
      /\ \A j \in 1..Len(ShapeOf[ns[i]]) : w[q[i - 1] + (2 + j)] = ShapeOf[ns[i]][j]
  <2>1. TensorsLaid(w, ns, q)
    BY Zenon DEF Laid
  <2> QED
    BY ONLY <1>2, <2>1, Zenon DEF TensorsLaid
<1>7. /\ q[K - (t - 1)] = a + (k + 3) /\ w[a + 1] = n /\ w[a + 2] = k
      /\ \A j \in 1..k : w[a + (2 + j)] = ShapeOf[n][j]
  BY ONLY <1>6, <1>2, Zenon
<1> QED
  BY ONLY <1>3, <1>4, <1>7, Zenon DEF IsTensor, i

(* The magic number. *)
LEMMA ReadMagicStep ==
    ASSUME NEW w, NEW ns, NEW q, LoadInv(w, ns, q), ReadMagic PROVE LoadInv(w, ns, q)'
<1>1. stage = "magic" /\ UNCHANGED <<file, tensors, labels>>
  BY DEF ReadMagic, Rest
<1>2. PICK r \in Reads(0) \cup (IF Whole THEN {} ELSE {[v |-> Magic, good |-> FALSE]}) :
         Advance(r) /\ stage' = IF r.v = Magic THEN "version" ELSE "rejected"
  BY DEF ReadMagic
<1>3. BeginsAs(file, w) /\ pos \in Nat /\ ok \in BOOLEAN /\ TensorsRead /\ (ok => Here(ns, q))
  BY LoadFacts
<1>4. GoodRead(w, r.v) \/ BadRead(r.v, r.v)
  <2>1. CASE r \in Reads(0)
    <3>1. GoodRead(w, r.v) \/ BadRead(r.v, 0)
      BY <1>2, <1>3, <2>1, ReadIs
    <3> QED
      BY ONLY <3>1, Zenon DEF BadRead
  <2>2. CASE r = [v |-> Magic, good |-> FALSE]
    <3>1. r.good = FALSE
      BY ONLY <2>2
    <3>2. ok' = r.good /\ pos' = IF r.good THEN pos + 1 ELSE pos
      BY <1>2 DEF Advance
    <3> QED
      BY ONLY <3>1, <3>2, Zenon DEF BadRead
  <2> QED
    BY ONLY <1>2, <2>1, <2>2, Zenon
<1>5. TensorsRead' /\ stage' # "loaded" /\ stage' # "validate" /\ stage' \in {"version", "rejected"}
  BY <1>1, <1>2, <1>3 DEF TensorsRead
<1>6. ASSUME GoodRead(w, r.v) PROVE Here(ns, q)'
  <2>1. ok /\ pos' = pos + 1
    BY ONLY <1>6, Zenon DEF GoodRead
  <2>2. pos = 0 /\ labels = <<>>
    BY <1>1, <1>3, <2>1 DEF Here
  <2>3. pos' = 1 /\ labels' = <<>>
    BY <1>1, <2>1, <2>2
  <2> QED
    BY ONLY <1>5, <2>3 DEF Here
<1> QED
  BY ONLY <1>1, <1>4, <1>5, <1>6, LoadInv(w, ns, q), LoadStepIs

(* The version. *)
LEMMA ReadVersionStep ==
    ASSUME NEW w, NEW ns, NEW q, LoadInv(w, ns, q), ReadVersion PROVE LoadInv(w, ns, q)'
<1>1. stage = "version" /\ UNCHANGED <<file, tensors, labels>>
  BY DEF ReadVersion, Rest
<1>2. PICK r \in Reads(0) : Advance(r) /\ stage' = IF r.v = 1 THEN "numTensors" ELSE "rejected"
  BY DEF ReadVersion
<1>3. BeginsAs(file, w) /\ pos \in Nat /\ ok \in BOOLEAN /\ TensorsRead /\ (ok => Here(ns, q))
  BY LoadFacts
<1>4. GoodRead(w, r.v) \/ BadRead(r.v, 0)
  BY <1>2, <1>3, ReadIs
<1>5. TensorsRead' /\ stage' # "loaded" /\ stage' # "validate" /\ stage' \in {"numTensors", "rejected"}
  BY <1>1, <1>2, <1>3 DEF TensorsRead
<1>6. ASSUME GoodRead(w, r.v) PROVE Here(ns, q)'
  <2>1. ok /\ pos' = pos + 1
    BY ONLY <1>6, Zenon DEF GoodRead
  <2>2. pos = 1 /\ labels = <<>>
    BY <1>1, <1>3, <2>1 DEF Here
  <2>3. pos' = 2 /\ labels' = <<>>
    BY <1>1, <2>1, <2>2
  <2> QED
    BY ONLY <1>5, <2>3 DEF Here
<1> QED
  BY ONLY <1>1, <1>4, <1>5, <1>6, LoadInv(w, ns, q), LoadStepIs

(* The number of tensors. *)
LEMMA ReadNumTensorsStep ==
    ASSUME NEW w, NEW ns, NEW q, LoadInv(w, ns, q), ReadNumTensors PROVE LoadInv(w, ns, q)'
<1>1. stage = "numTensors" /\ UNCHANGED <<file, tensors, labels>>
  BY DEF ReadNumTensors, Rest
<1>2. PICK r \in Reads(0) : /\ Advance(r) /\ togo' = r.v
                            /\ stage' = IF r.v = 0 THEN "numLabels" ELSE "name"
  BY DEF ReadNumTensors
<1>3. BeginsAs(file, w) /\ pos \in Nat /\ ok \in BOOLEAN /\ TensorsRead /\ (ok => Here(ns, q)) /\ Laid(w, ns, q)
  BY LoadFacts
<1>4. GoodRead(w, r.v) \/ BadRead(r.v, 0)
  BY <1>2, <1>3, ReadIs
<1>5. TensorsRead' /\ stage' # "loaded" /\ stage' # "validate"
  BY <1>1, <1>2, <1>3 DEF TensorsRead
<1>6. ASSUME GoodRead(w, r.v) PROVE Here(ns, q)'
  <2> DEFINE K == Len(ns)
  <2>1. ok /\ pos' = pos + 1 /\ r.v = w[pos + 1]
    BY ONLY <1>6, Zenon DEF GoodRead
  <2>2. pos = 2 /\ labels = <<>>
    BY <1>1, <1>3, <2>1 DEF Here
  <2>3. K \in Nat /\ q[0] = 3 /\ w[3] = K
    BY <1>3, LaidFacts
  <2>4. pos' = 3 /\ labels' = <<>> /\ togo' = K /\ K - K = 0
    BY <1>1, <1>2, <2>1, <2>2, <2>3
  <2>5. stage' = (IF K = 0 THEN "numLabels" ELSE "name") /\ pos' = q[K - togo']
    BY <1>2, <2>3, <2>4
  <2> HIDE DEF K
  <2>6. K = 0 => pos' = q[K]
    BY <2>3, <2>4
  <2>7. K # 0 => togo' \in 1..K
    BY <2>3, <2>4
  <2> QED
    BY ONLY <2>4, <2>5, <2>6, <2>7 DEF Here, TensorStart, K
<1> QED
  BY ONLY <1>1, <1>4, <1>5, <1>6, LoadInv(w, ns, q), LoadStepIs

(* A beginning of a sequence, with its next element. *)
LEMMA CutNext ==
    ASSUME NEW S, NEW s \in Seq(S), NEW i \in 1..Len(s)
    PROVE  Append(Cut(s, 0, i - 1), s[i]) = Cut(s, 0, i)
<1>1. Len(s) \in Nat
  BY LenProperties
<1>2. Within(s, 0, i - 1) /\ Within(s, i - 1, i)
  BY <1>1 DEF Within
<1>3. Cut(s, i - 1, i) = <<s[i]>>
  BY CutSingle
<1> DEFINE r == i - 1
<1> HIDE DEF r
<1>4. Cut(s, 0, r) \o Cut(s, r, i) = Cut(s, 0, i)
  BY <1>2, CutConcat DEF r
<1>5. Cut(s, 0, r) \in Seq(S) /\ s[i] \in S
  BY <1>2, CutProperties, ElementOfSeq DEF r
<1>6. Append(Cut(s, 0, r), s[i]) = Cut(s, 0, r) \o <<s[i]>>
  BY <1>5, AppendIsConcat
<1> QED
  BY <1>3, <1>4, <1>6 DEF r

(* The name of a tensor. *)
LEMMA ReadNameStep ==
    ASSUME NEW w, NEW ns, NEW q, LoadInv(w, ns, q), ReadName PROVE LoadInv(w, ns, q)'
<1>1. stage = "name" /\ UNCHANGED <<file, tensors, labels, togo>>
  BY DEF ReadName, Rest
<1>2. PICK r \in Reads("") : /\ Advance(r)
                             /\ IF r.good THEN name' = r.v /\ stage' = "numDims"
                                ELSE stage' = "rejected" /\ UNCHANGED name
  BY DEF ReadName
<1>3. BeginsAs(file, w) /\ pos \in Nat /\ ok \in BOOLEAN /\ TensorsRead /\ (ok => Here(ns, q)) /\ Laid(w, ns, q)
  BY LoadFacts
<1>4. (r.good /\ GoodRead(w, r.v)) \/ (~r.good /\ BadRead(r.v, ""))
  BY <1>2, <1>3, ReadIs
<1>5. TensorsRead' /\ stage' # "loaded" /\ stage' # "validate"
  BY <1>1, <1>2, <1>3 DEF TensorsRead
<1>6. ASSUME GoodRead(w, r.v) PROVE Here(ns, q)'
  <2> DEFINE a == TensorStart(ns, q)
             n == TensorName(ns)
  <2>1. ok /\ pos' = pos + 1 /\ r.v = w[pos + 1]
    BY ONLY <1>6, Zenon DEF GoodRead
  <2>2. r.good
    BY ONLY <1>4, <1>6 DEF GoodRead, BadRead
  <2>3. name' = r.v /\ stage' = "numDims"
    BY <1>2, <2>2
  <2>4. pos = a /\ togo \in 1..Len(ns) /\ labels = <<>>
    BY <1>1, <1>3, <2>1 DEF Here
  <2>5. w[a + 1] = n
    <3>1. IsTensor(w, a, n, q[Len(ns) - (togo - 1)])
      BY ONLY <1>3, <2>4, TensorAt, Zenon DEF TensorStart, TensorName
    <3> HIDE DEF a, n
    <3> QED
      BY ONLY <3>1, Zenon DEF IsTensor
  <2>6. a' = a /\ n' = n
    BY <1>1 DEF TensorStart, TensorName
  <2> HIDE DEF a, n
  <2>7. pos' = a' + 1 /\ name' = n' /\ togo' \in 1..Len(ns) /\ labels' = <<>>
    BY <1>1, <2>1, <2>3, <2>4, <2>5, <2>6
  <2> QED
    BY ONLY <2>3, <2>7 DEF Here, a, n
<1>7. GoodRead(w, r.v) \/ BadRead(r.v, "")
  BY ONLY <1>4, Zenon
<1> QED
  BY ONLY <1>1, <1>5, <1>6, <1>7, LoadInv(w, ns, q), LoadStepIs

(* The number of its dimensions. *)
LEMMA ReadNumDimsStep ==
    ASSUME NEW w, NEW ns, NEW q, LoadInv(w, ns, q), ReadNumDims PROVE LoadInv(w, ns, q)'
<1>1. stage = "numDims" /\ UNCHANGED <<file, tensors, labels, togo, name>>
  BY DEF ReadNumDims, Rest
<1>2. PICK r \in Reads(0) : /\ Advance(r) /\ dims' = r.v /\ shape' = <<>>
                            /\ stage' = IF r.v = 0 THEN "data" ELSE "dim"
  BY DEF ReadNumDims
<1>3. BeginsAs(file, w) /\ pos \in Nat /\ ok \in BOOLEAN /\ TensorsRead /\ (ok => Here(ns, q)) /\ Laid(w, ns, q)
  BY LoadFacts
<1>4. GoodRead(w, r.v) \/ BadRead(r.v, 0)
  BY <1>2, <1>3, ReadIs
<1>5. TensorsRead' /\ stage' # "loaded" /\ stage' # "validate"
  BY <1>1, <1>2, <1>3 DEF TensorsRead
<1>6. ASSUME GoodRead(w, r.v) PROVE Here(ns, q)'
  <2> DEFINE a == TensorStart(ns, q)
             n == TensorName(ns)
             s == ShapeOf[n]
             k == Len(s)
  <2>1. ok /\ pos' = pos + 1 /\ r.v = w[pos + 1]
    BY ONLY <1>6, Zenon DEF GoodRead
  <2>2. pos = a + 1 /\ togo \in 1..Len(ns) /\ labels = <<>> /\ name = n
    BY <1>1, <1>3, <2>1 DEF Here
  <2>3. w[a + 2] = k /\ k \in Nat \ {0} /\ s \in Seq(Nat) /\ a \in Nat
    <3>1. IsTensor(w, a, n, q[Len(ns) - (togo - 1)])
      BY ONLY <1>3, <2>2, TensorAt, Zenon DEF TensorStart, TensorName
    <3> HIDE DEF a, n
    <3> QED
      BY ONLY <3>1, Zenon DEF IsTensor, s, k
  <2>4. a' = a /\ n' = n
    BY <1>1 DEF TensorStart, TensorName
  <2>5. Cut(s, 0, k - k) = <<>>
    <3>1. Within(s, 0, 0) /\ k - k = 0
      BY <2>3 DEF Within
    <3> HIDE DEF s
    <3> QED
      BY <2>3, <3>1, CutEmpty
  <2> HIDE DEF a, n, s
  <2>6. r.v = k /\ pos' = a + (2 + (k - k)) /\ k \in 1..k /\ k # 0
    BY <2>1, <2>2, <2>3
  <2>7. /\ stage' = "dim" /\ dims' = k /\ shape' = Cut(s, 0, k - k)
        /\ togo' \in 1..Len(ns) /\ labels' = <<>> /\ name' = n
    BY <1>1, <1>2, <2>2, <2>5, <2>6
  <2>8. /\ name' = n' /\ pos' = a' + (2 + (Len(ShapeOf[name']) - dims')) /\ dims' \in 1..Len(ShapeOf[name'])
        /\ shape' = Cut(ShapeOf[name'], 0, Len(ShapeOf[name']) - dims')
    BY ONLY <2>4, <2>6, <2>7, Zenon DEF s, k
  <2> QED
    BY ONLY <2>7, <2>8 DEF Here, a, n
<1> QED
  BY ONLY <1>1, <1>4, <1>5, <1>6, LoadInv(w, ns, q), LoadStepIs

(* A dimension. *)
LEMMA ReadDimStep ==
    ASSUME NEW w, NEW ns, NEW q, LoadInv(w, ns, q), ReadDim PROVE LoadInv(w, ns, q)'
<1>1. /\ stage = "dim" /\ UNCHANGED <<file, tensors, labels, togo, name>>
      /\ dims' = dims - 1 /\ stage' = IF dims = 1 THEN "data" ELSE "dim"
  BY DEF ReadDim, Rest
<1>2. PICK r \in Reads(0) : Advance(r) /\ shape' = Append(shape, r.v)
  BY DEF ReadDim
<1>3. BeginsAs(file, w) /\ pos \in Nat /\ ok \in BOOLEAN /\ TensorsRead /\ (ok => Here(ns, q)) /\ Laid(w, ns, q)
  BY LoadFacts
<1>4. GoodRead(w, r.v) \/ BadRead(r.v, 0)
  BY <1>2, <1>3, ReadIs
<1>5. TensorsRead' /\ stage' # "loaded" /\ stage' # "validate"
  BY <1>1, <1>2, <1>3 DEF TensorsRead
<1>6. ASSUME GoodRead(w, r.v) PROVE Here(ns, q)'
  <2> DEFINE a == TensorStart(ns, q)
             n == TensorName(ns)
             s == ShapeOf[n]
             k == Len(s)
             j == (k - dims) + 1
  <2>1. ok /\ pos' = pos + 1 /\ r.v = w[pos + 1]
    BY ONLY <1>6, Zenon DEF GoodRead
  <2>2. /\ togo \in 1..Len(ns) /\ labels = <<>> /\ name = n
        /\ dims \in 1..k /\ pos = a + (2 + (k - dims)) /\ shape = Cut(s, 0, k - dims)
    BY <1>1, <1>3, <2>1 DEF Here
  <2>3. /\ k \in Nat \ {0} /\ s \in Seq(Nat) /\ a \in Nat
        /\ \A i \in 1..k : w[a + (2 + i)] = s[i]
    <3>1. IsTensor(w, a, n, q[Len(ns) - (togo - 1)])
      BY ONLY <1>3, <2>2, TensorAt, Zenon DEF TensorStart, TensorName
    <3> HIDE DEF a, n
    <3> QED
      BY ONLY <3>1, Zenon DEF IsTensor, s, k
  <2>4. a' = a /\ n' = n
    BY <1>1 DEF TensorStart, TensorName
  <2> HIDE DEF a, n, s
  <2>5. j = k - dims' /\ j \in 1..k /\ j - 1 = k - dims /\ pos + 1 = a + (2 + j) /\ k - (k - dims') = dims'
    <3>1. dims \in 1..k /\ k \in Nat /\ a \in Nat /\ dims' = dims - 1 /\ pos = a + (2 + (k - dims))
      BY ONLY <1>1, <2>2, <2>3
    <3> HIDE DEF k
    <3> QED
      BY ONLY <3>1
  <2> HIDE DEF j
  <2>6. r.v = s[j] /\ pos' = a + (2 + j)
    BY <2>1, <2>3, <2>5
  <2>7. shape' = Cut(s, 0, j)
    <3>1. Append(Cut(s, 0, j - 1), s[j]) = Cut(s, 0, j)
      BY ONLY <2>3, <2>5, CutNext DEF k
    <3> QED
      BY ONLY <1>2, <2>2, <2>5, <2>6, <3>1, Zenon
  <2>8. togo' \in 1..Len(ns) /\ labels' = <<>> /\ name' = n'
    BY <1>1, <2>2, <2>4
  <2>9. CASE dims = 1
    <3>1. stage' = "data" /\ j = k
      BY <1>1, <2>3, <2>5, <2>9
    <3>2. Cut(s, 0, k) = s
      BY ONLY <2>3, CutWhole DEF k
    <3>3. pos' = a' + (2 + Len(ShapeOf[name'])) /\ shape' = ShapeOf[name']
      BY ONLY <2>4, <2>6, <2>7, <2>8, <3>1, <3>2, Zenon DEF s, k
    <3> QED
      BY ONLY <2>8, <3>1, <3>3 DEF Here, a, n
  <2>10. CASE dims # 1
    <3>1. stage' = "dim" /\ dims' \in 1..k
      <4>1. dims' = dims - 1 /\ stage' = "dim"
        BY ONLY <1>1, <2>10
      <4>2. dims \in 1..k /\ k \in Nat
        BY ONLY <2>2, <2>3
      <4> HIDE DEF k
      <4> QED
        BY ONLY <4>1, <4>2, <2>10
    <3>2. /\ pos' = a' + (2 + (Len(ShapeOf[name']) - dims')) /\ dims' \in 1..Len(ShapeOf[name'])
          /\ shape' = Cut(ShapeOf[name'], 0, Len(ShapeOf[name']) - dims')
      BY ONLY <2>4, <2>5, <2>6, <2>7, <2>8, <3>1, Zenon DEF s, k
    <3> QED
      BY ONLY <2>8, <3>1, <3>2 DEF Here, a, n
  <2> QED
    BY <2>9, <2>10
<1> QED
  BY ONLY <1>1, <1>4, <1>5, <1>6, LoadInv(w, ns, q), LoadStepIs

(* A tensor that is read has as many floats as its shape says, and those     *)
(* read before still do.                                                     *)
LEMMA TensorsGrow ==
    ASSUME TensorsRead, NEW STATE n, n \in Required, NEW STATE s, s = ShapeOf[n],
           tensors' = Extended([x \in {n} |-> Product(s)], tensors)
    PROVE  TensorsRead'
<1> DEFINE P(x) == Product(ShapeOf[x])
           g == [x \in {n} |-> P(n)]
<1>1. PICK D \in SUBSET Required : tensors = [x \in D |-> P(x)]
  BY DEF TensorsRead
<1>2. tensors' = Extended(g, tensors)
  OBVIOUS
<1>3. tensors' = [x \in {n} \cup D |-> P(x)]
  <2>1. DOMAIN tensors = D /\ \A x \in D : tensors[x] = P(x)
    BY ONLY <1>1
  <2>2. DOMAIN g = {n} /\ \A x \in {n} : g[x] = P(x)
    OBVIOUS
  <2> HIDE DEF P, g
  <2>3. tensors' = [x \in (DOMAIN g) \cup (DOMAIN tensors) |-> IF x \in DOMAIN g THEN g[x] ELSE tensors[x]]
    BY ONLY <1>2 DEF Extended
  <2>4. \A x \in {n} \cup D : (IF x \in {n} THEN g[x] ELSE tensors[x]) = P(x)
    BY ONLY <2>1, <2>2, Zenon
  <2> QED
    BY ONLY <2>1, <2>2, <2>3, <2>4, Zenon
<1> DEFINE E == {n} \cup D
<1>4. E \in SUBSET Required
  OBVIOUS
<1>5. \E B \in SUBSET Required : tensors' = [x \in B |-> P(x)]
  BY ONLY <1>3, <1>4, Zenon
<1> QED
  BY ONLY <1>5, Zenon DEF TensorsRead

(* The floats of a tensor. *)
LEMMA ReadDataStep ==
    ASSUME NEW w, NEW ns, NEW q, LoadInv(w, ns, q), ReadData PROVE LoadInv(w, ns, q)'
<1>1. stage = "data" /\ UNCHANGED <<file, labels, name, shape>>
  BY DEF ReadData, Rest
<1>2. PICK r \in Reads(0) :
         /\ Advance(r)
         /\ IF r.good
            THEN /\ tensors' = Extended([n \in {name} |-> Product(shape)], tensors)
                 /\ togo' = togo - 1
                 /\ stage' = IF togo = 1 THEN "numLabels" ELSE "name"
            ELSE stage' = "rejected" /\ UNCHANGED <<tensors, togo>>
  BY DEF ReadData
<1>3. BeginsAs(file, w) /\ pos \in Nat /\ ok \in BOOLEAN /\ TensorsRead /\ (ok => Here(ns, q)) /\ Laid(w, ns, q)
  BY LoadFacts
<1>4. (r.good /\ GoodRead(w, r.v)) \/ (~r.good /\ BadRead(r.v, 0))
  BY <1>2, <1>3, ReadIs
<1>5. stage' # "loaded" /\ stage' # "validate"
  BY <1>2
<1>6. CASE r.good /\ GoodRead(w, r.v)
  <2> DEFINE a == TensorStart(ns, q)
             n == TensorName(ns)
             k == Len(ShapeOf[n])
             K == Len(ns)
  <2>1. ok /\ pos' = pos + 1
    BY ONLY <1>6, Zenon DEF GoodRead
  <2>2. togo \in 1..K /\ labels = <<>> /\ name = n /\ pos = a + (2 + k) /\ shape = ShapeOf[n]
    BY <1>1, <1>3, <2>1 DEF Here
  <2>3. /\ tensors' = Extended([x \in {name} |-> Product(shape)], tensors)
        /\ togo' = togo - 1 /\ stage' = IF togo = 1 THEN "numLabels" ELSE "name"
    BY <1>2, <1>6
  <2>4. n \in Required /\ a \in Nat /\ k \in Nat /\ q[K - (togo - 1)] = a + (k + 3)
    <3>1. IsTensor(w, a, n, q[K - (togo - 1)])
      BY ONLY <1>3, <2>2, TensorAt, Zenon DEF TensorStart, TensorName
    <3> HIDE DEF a, n
    <3> QED
      BY ONLY <3>1 DEF IsTensor
  <2>5. K \in Nat
    BY <1>3, LaidFacts
  <2> HIDE DEF a, n, k
  <2>6. TensorsRead'
    <3>1. name \in Required /\ shape = ShapeOf[name]
      BY <2>2, <2>4
    <3> QED
      BY ONLY <1>3, <2>3, <3>1, TensorsGrow
  <2>7. pos' = q[K - togo']
    <3>1. pos' = a + (k + 3)
      BY <2>1, <2>2, <2>4
    <3> QED
      BY ONLY <2>3, <2>4, <3>1, Zenon
  <2>8. Here(ns, q)'
    <3>1. togo = 1 => K - togo' = K
      BY <2>3, <2>5
    <3>2. togo # 1 => togo' \in 1..K
      BY <2>2, <2>3, <2>5
    <3>3. (stage' = "numLabels" /\ pos' = q[K]) \/ (stage' = "name" /\ togo' \in 1..K)
      BY ONLY <2>3, <2>7, <3>1, <3>2, Zenon
    <3>4. labels' = <<>>
      BY <1>1, <2>2
    <3> QED
      BY ONLY <2>7, <3>3, <3>4 DEF Here, TensorStart
  <2>9. (BadRead(r.v, 0) /\ stage' = "validate") => classes' = 0
    BY ONLY <1>5
  <2> QED
    BY ONLY <1>1, <1>5, <1>6, <2>6, <2>8, <2>9, LoadInv(w, ns, q), LoadStepIs
<1>7. CASE ~r.good /\ BadRead(r.v, 0)
  <2>1. TensorsRead'
    BY <1>2, <1>3, <1>7 DEF TensorsRead
  <2>2. ~GoodRead(w, r.v)
    BY ONLY <1>7 DEF GoodRead, BadRead
  <2> QED
    BY ONLY <1>1, <1>5, <1>7, <2>1, <2>2, LoadInv(w, ns, q), LoadStepIs
<1> QED
  BY <1>4, <1>6, <1>7

(* The number of labels. *)
LEMMA ReadNumLabelsStep ==
    ASSUME NEW w, NEW ns, NEW q, LoadInv(w, ns, q), ReadNumLabels PROVE LoadInv(w, ns, q)'
<1> DEFINE NL == Len(Labels)
           m == q[Len(ns)]
<1>1. stage = "numLabels" /\ UNCHANGED <<file, tensors, labels>>
  BY DEF ReadNumLabels, Rest
<1>2. PICK r \in Reads(0) : /\ Advance(r) /\ togo' = r.v /\ classes' = r.v
                            /\ stage' = IF r.v = 0 THEN "validate" ELSE "label"
  BY DEF ReadNumLabels
<1>3. BeginsAs(file, w) /\ pos \in Nat /\ ok \in BOOLEAN /\ TensorsRead /\ (ok => Here(ns, q)) /\ Laid(w, ns, q)
  BY LoadFacts
<1>4. GoodRead(w, r.v) \/ BadRead(r.v, 0)
  BY <1>2, <1>3, ReadIs
<1>5. TensorsRead' /\ stage' # "loaded" /\ (stage' = "validate" => classes' = 0)
  BY <1>1, <1>2, <1>3 DEF TensorsRead
<1>6. ASSUME GoodRead(w, r.v) PROVE Here(ns, q)'
  <2>1. ok /\ pos' = pos + 1 /\ r.v = w[pos + 1]
    BY ONLY <1>6, Zenon DEF GoodRead
  <2>2. pos = m /\ labels = <<>>
    BY <1>1, <1>3, <2>1 DEF Here
  <2>3. NL \in Nat /\ w[m + 1] = NL /\ m \in Nat
    <3>1. Len(ns) \in Nat /\ q \in [0..Len(ns) -> Nat]
      BY <1>3, LaidFacts
    <3>2. m \in Nat
      BY <3>1
    <3> QED
      BY <1>3, <3>2, LaidFacts
  <2> HIDE DEF m
  <2>4. r.v = NL /\ togo' = NL /\ classes' = NL /\ pos' = m + 1 /\ labels' = <<>>
    BY <1>1, <1>2, <2>1, <2>2, <2>3
  <2>5. Labels \in Seq(STRING)
    BY ShapeAssumption
  <2>6. CASE NL = 0
    <3>1. stage' = "validate"
      BY <1>2, <2>4, <2>6
    <3>2. Labels = <<>>
      BY ONLY <2>5, <2>6, EmptySeq
    <3> QED
      BY ONLY <2>4, <3>1, <3>2 DEF Here
  <2>7. CASE NL # 0
    <3>1. stage' = "label"
      BY <1>2, <2>4, <2>7
    <3>2. togo' \in 1..NL /\ pos' = (m + 1) + (NL - togo') /\ NL - togo' = 0
      BY <2>3, <2>4, <2>7
    <3>3. Cut(Labels, 0, 0) = <<>>
      <4>1. Within(Labels, 0, 0)
        BY <2>3 DEF Within
      <4> QED
        BY <2>5, <4>1, CutEmpty
    <3>4. labels' = Cut(Labels, 0, NL - togo')
      BY ONLY <2>4, <3>2, <3>3, Zenon
    <3> QED
      BY ONLY <2>4, <3>1, <3>2, <3>4 DEF Here, m
  <2> QED
    BY <2>6, <2>7
<1> QED
  BY ONLY <1>1, <1>4, <1>5, <1>6, LoadInv(w, ns, q), LoadStepIs

(* A label. *)
LEMMA ReadLabelStep ==
    ASSUME NEW w, NEW ns, NEW q, LoadInv(w, ns, q), ReadLabel PROVE LoadInv(w, ns, q)'
<1> DEFINE NL == Len(Labels)
           m == q[Len(ns)]
           j == (NL - togo) + 1
<1>1. stage = "label" /\ UNCHANGED <<file, tensors, classes>>
  BY DEF ReadLabel, Rest
<1>2. PICK r :
         /\ r \in Reads("") /\ Advance(r)
         /\ IF r.good
            THEN /\ labels' = Append(labels, r.v)
                 /\ togo' = togo - 1
                 /\ stage' = IF togo = 1 THEN "validate" ELSE "label"
            ELSE stage' = "rejected" /\ UNCHANGED <<labels, togo>>
  BY Zenon DEF ReadLabel
<1>3. BeginsAs(file, w) /\ pos \in Nat /\ ok \in BOOLEAN /\ TensorsRead /\ (ok => Here(ns, q)) /\ Laid(w, ns, q)
  BY LoadFacts
<1>4. (r.good /\ GoodRead(w, r.v)) \/ (~r.good /\ BadRead(r.v, ""))
  BY <1>2, <1>3, ReadIs
<1>5. TensorsRead' /\ stage' # "loaded"
  BY <1>1, <1>2, <1>3 DEF TensorsRead
<1>6. CASE r.good /\ GoodRead(w, r.v)
  <2>1. ok /\ pos' = pos + 1 /\ r.v = w[pos + 1]
    BY ONLY <1>6, Zenon DEF GoodRead
  <2>2. /\ classes = NL /\ togo \in 1..NL /\ pos = (m + 1) + (NL - togo)
        /\ labels = Cut(Labels, 0, NL - togo)
    BY <1>1, <1>3, <2>1 DEF Here
  <2>3. NL \in Nat /\ (\A i \in 1..NL : w[(m + 1) + i] = Labels[i]) /\ m \in Nat
    <3>1. Len(ns) \in Nat /\ q \in [0..Len(ns) -> Nat]
      BY <1>3, LaidFacts
    <3>2. m \in Nat
      BY <3>1
    <3> QED
      BY <1>3, <3>2, LaidFacts
  <2>4. /\ labels' = Append(labels, r.v) /\ togo' = togo - 1
        /\ stage' = IF togo = 1 THEN "validate" ELSE "label"
    BY <1>2, <1>6
  <2> HIDE DEF m
  <2>5. j \in 1..NL /\ j - 1 = NL - togo /\ j = NL - togo' /\ pos + 1 = (m + 1) + j
    BY <2>2, <2>3, <2>4
  <2> HIDE DEF j
  <2>6. r.v = Labels[j] /\ pos' = (m + 1) + j
    BY <2>1, <2>3, <2>5
  <2>7. Labels \in Seq(STRING)
    BY ShapeAssumption
  <2>8. labels' = Cut(Labels, 0, j)
    <3>1. Append(Cut(Labels, 0, j - 1), Labels[j]) = Cut(Labels, 0, j)
      BY ONLY <2>5, <2>7, CutNext
    <3> QED
      BY ONLY <2>2, <2>4, <2>5, <2>6, <3>1, Zenon
  <2>9. classes' = NL
    BY <1>1, <2>2
  <2>10. Here(ns, q)'
    <3>1. CASE togo = 1
      <4>1. stage' = "validate" /\ j = NL
        BY <2>3, <2>4, <2>5, <3>1
      <4>2. labels' = Labels
        BY ONLY <2>7, <2>8, <4>1, CutWhole
      <4> QED
        BY ONLY <2>9, <4>1, <4>2 DEF Here
    <3>2. CASE togo # 1
      <4>1. stage' = "label" /\ togo' \in 1..NL
        <5>1. stage' = "label" /\ togo' = togo - 1
          BY ONLY <2>4, <3>2
        <5>2. togo \in 1..NL /\ NL \in Nat
          BY ONLY <2>2, <2>3
        <5> HIDE DEF NL
        <5> QED
          BY ONLY <5>1, <5>2, <3>2
      <4>2. pos' = (m + 1) + (NL - togo') /\ labels' = Cut(Labels, 0, NL - togo')
        BY ONLY <2>5, <2>6, <2>8, Zenon
      <4> QED
        BY ONLY <2>9, <4>1, <4>2 DEF Here, m
    <3> QED
      BY <3>1, <3>2
  <2>11. ~BadRead(r.v, "")
    BY ONLY <1>6 DEF GoodRead, BadRead
  <2> QED
    BY ONLY <1>1, <1>5, <1>6, <2>10, <2>11, LoadInv(w, ns, q), LoadStepIs
<1>7. CASE ~r.good /\ BadRead(r.v, "")
  <2>1. stage' # "validate"
    BY <1>2, <1>7
  <2>2. ~GoodRead(w, r.v)
    BY ONLY <1>7 DEF GoodRead, BadRead
  <2> QED
    BY ONLY <1>1, <1>5, <1>7, <2>1, <2>2, LoadInv(w, ns, q), LoadStepIs
<1> QED
  BY <1>4, <1>6, <1>7

(* The last check, and a file that cannot be opened. *)
LEMMA ValidateStep ==
    ASSUME NEW w, NEW ns, NEW q, LoadInv(w, ns, q), Validate \/ OpenFails PROVE LoadInv(w, ns, q)'
<1>1. UNCHANGED <<file, pos, ok, tensors, labels, classes>>
  BY DEF Validate, OpenFails, Rest
<1>2. Laid(w, ns, q) /\ BeginsAs(file, w) /\ pos \in Nat /\ ok \in BOOLEAN /\ TensorsRead /\ (ok => Here(ns, q))
  BY LoadFacts
<1>3. BeginsAs(file, w)' /\ TensorsRead' /\ pos' \in Nat /\ ok' \in BOOLEAN
  BY <1>1, <1>2 DEF BeginsAs, TensorsRead
<1>4. \/ stage' = "rejected"
      \/ stage = "validate" /\ stage' = "loaded" /\ Required \subseteq DOMAIN tensors
  BY DEF Validate, OpenFails
<1>5. CASE stage' = "rejected"
  <2>1. Here(ns, q)'
    BY ONLY <1>5 DEF Here
  <2>2. stage' \notin {"validate", "loaded"} /\ stage' # "loaded"
    BY ONLY <1>5
  <2> QED
    BY ONLY <1>2, <1>3, <2>1, <2>2, Zenon DEF LoadInv
<1>6. CASE stage = "validate" /\ stage' = "loaded" /\ Required \subseteq DOMAIN tensors
  <2>1. (Required \subseteq DOMAIN tensors)'
    BY <1>1, <1>6
  <2>2. stage \in {"validate", "loaded"}
    BY <1>6
  <2>3. ~ok => classes = 0
    BY ONLY LoadInv(w, ns, q), <2>2, Zenon DEF LoadInv
  <2>4. (~ok => classes = 0)'
    BY ONLY <1>1, <2>3, Zenon
  <2>5. ok => classes' = Len(Labels) /\ labels' = Labels
    <3>1. ok => classes = Len(Labels) /\ labels = Labels
      BY ONLY <1>2, <2>2, Zenon DEF Here
    <3> QED
      BY ONLY <1>1, <3>1, Zenon
  <2>6. ok => Here(ns, q)'
    <3> SUFFICES ASSUME ok PROVE Here(ns, q)'
      OBVIOUS
    <3>1. classes' = Len(Labels) /\ labels' = Labels
      BY <2>5
    <3> QED
      BY ONLY <1>6, <3>1 DEF Here
  <2>7. ok' => Here(ns, q)'
    BY ONLY <1>1, <2>6, Zenon
  <2> QED
    BY ONLY <1>2, <1>3, <2>1, <2>4, <2>7, Zenon DEF LoadInv
<1> QED
  BY <1>4, <1>5, <1>6

-----------------------------------------------------------------------------
(* The loader reads a file that was laid out for it. *)
Loading == \E w, ns, q : LoadInv(w, ns, q)

(* It starts at the beginning of it. *)
LEMMA LoadingInit ==
    ASSUME ModelInit PROVE Loading
<1>1. /\ file \in Files /\ stage = "magic" /\ pos = 0 /\ ok = TRUE /\ tensors = <<>> /\ labels = <<>>
  BY DEF ModelInit
<1>2. PICK w, ns, q : Laid(w, ns, q) /\ BeginsAs(file, w)
  <2>1. \A f \in Files : \E w, ns, q : Laid(w, ns, q) /\ BeginsAs(f, w)
    BY FilesLaid
  <2> QED
    BY ONLY <1>1, <2>1, Zenon
<1>3. TensorsRead
  <2> DEFINE e == [n \in {} |-> Product(ShapeOf[n])]
  <2>1. e \in [1..0 -> Nat]
    OBVIOUS
  <2> HIDE DEF e
  <2>2. e \in Seq(Nat) /\ Len(e) = 0
    BY <2>1
  <2>3. e = <<>>
    BY ONLY <2>2, EmptySeq
  <2>4. {} \in SUBSET Required /\ tensors = e
    BY <1>1, <2>3
  <2> QED
    BY ONLY <2>4, Zenon DEF TensorsRead, e
<1>4. Here(ns, q)
  BY ONLY <1>1 DEF Here
<1>5. pos \in Nat /\ ok \in BOOLEAN /\ ok /\ stage # "loaded"
  BY ONLY <1>1
<1>6. LoadInv(w, ns, q)
  BY ONLY <1>2, <1>3, <1>4, <1>5, Zenon DEF LoadInv
<1> QED
  BY <1>6 DEF Loading

(* Every step of the program leaves it there. *)
LEMMA LoadingStep ==
    ASSUME Loading, [ModelNext]_modelVars PROVE Loading'
<1>1. PICK w, ns, q : LoadInv(w, ns, q)
  BY DEF Loading
<1>2. CASE UNCHANGED <<file, loadVars>>
  <2>1. UNCHANGED <<file, stage, pos, ok, togo, name, dims, shape, tensors, labels, classes>>
    BY <1>2 DEF loadVars
  <2>2. LoadInv(w, ns, q)'
    <3>1. Here(ns, q)' <=> Here(ns, q)
      BY ONLY <2>1 DEF Here, TensorStart, TensorName
    <3>2. TensorsRead' <=> TensorsRead
      BY ONLY <2>1 DEF TensorsRead
    <3>3. BeginsAs(file, w)' <=> BeginsAs(file, w)
      BY ONLY <2>1 DEF BeginsAs
    <3> QED
      BY ONLY <1>1, <2>1, <3>1, <3>2, <3>3, Zenon DEF LoadInv
  <2> QED
    BY <2>2 DEF Loading
<1>3. CASE Load
  <2>1. LoadInv(w, ns, q)'
    BY ONLY <1>1, <1>3, ReadMagicStep, ReadVersionStep, ReadNumTensorsStep, ReadNameStep,
            ReadNumDimsStep, ReadDimStep, ReadDataStep, ReadNumLabelsStep, ReadLabelStep,
            ValidateStep, Zenon DEF Load
  <2> QED
    BY <2>1 DEF Loading
<1>4. ASSUME NEW p, Predict(p) PROVE UNCHANGED <<file, loadVars>>
  BY <1>4 DEF Predict
<1>5. Rejected \/ UNCHANGED modelVars => UNCHANGED <<file, loadVars>>
  BY DEF Rejected, modelVars
<1> QED
  BY ONLY <1>2, <1>3, <1>4, <1>5, [ModelNext]_modelVars, Zenon DEF ModelNext

(* A model with classes is the one that was written, and what predict() does *)
(* with it stays inside its arrays.                                          *)
LEMMA LoadingUsable ==
    ASSUME Loading, TokensInv PROVE LoadedIsUsable
<1> SUFFICES ASSUME stage = "loaded", classes > 0
             PROVE  /\ tensors = [n \in Required |-> Product(ShapeOf[n])]
                    /\ labels = Labels /\ classes = Len(Labels)
                    /\ tokens # <<>> => InBounds /\ \A a \in DOMAIN Sizes \ {"embed_weight"} : Used(a) = Below(Sizes[a])
  BY DEF LoadedIsUsable
<1>1. PICK w, ns, q : LoadInv(w, ns, q)
  BY DEF Loading
<1>2. stage \in {"validate", "loaded"} /\ classes # 0
  OBVIOUS
<1>3. ok /\ Here(ns, q) /\ TensorsRead /\ Required \subseteq DOMAIN tensors
  BY ONLY <1>1, <1>2, stage = "loaded", Zenon DEF LoadInv
<1>4. labels = Labels /\ classes = Len(Labels)
  BY ONLY <1>2, <1>3, Zenon DEF Here
<1>5. tensors = [n \in Required |-> Product(ShapeOf[n])]
  <2>1. PICK D \in SUBSET Required : tensors = [n \in D |-> Product(ShapeOf[n])]
    BY ONLY <1>3, Zenon DEF TensorsRead
  <2>2. DOMAIN tensors = D
    BY ONLY <2>1
  <2>3. D = Required
    BY ONLY <1>3, <2>2, D \in SUBSET Required
  <2> QED
    BY ONLY <2>1, <2>3, Zenon
<1>6. ASSUME tokens # <<>> PROVE Complete
  <2>1. tokens \in [1..kInputLen -> Below(kVocabSize)]
    BY ONLY <1>6, TokensInv, TokensOfVocabulary, Zenon DEF TokensInv
  <2>2. classes \in Nat \ {0}
    <3>1. Len(Labels) \in Nat
      BY Dimensions
    <3> QED
      BY ONLY <3>1, <1>2, <1>4
  <2> QED
    BY ONLY <1>4, <1>5, <2>1, <2>2, Zenon DEF Complete
<1>7. tokens # <<>> => InBounds /\ \A a \in DOMAIN Sizes \ {"embed_weight"} : Used(a) = Below(Sizes[a])
  BY ONLY <1>6, AccessesFit, Zenon
<1> QED
  BY ONLY <1>4, <1>5, <1>7, Zenon

(* LoadedIsUsable, for every vocabulary, set of labels and size of the       *)
(* layers: a model file cut short at any item either is rejected or leaves   *)
(* no class; otherwise every weight that predict() wants is there, and each  *)
(* index it computes is below the size of its array.                         *)
THEOREM ModelsUsable == ModelSpec => []LoadedIsUsable
<1>1. ModelInit => TokensInv /\ Loading
  <2>1. ModelInit => Loading
    BY LoadingInit
  <2>2. ModelInit => TokensInv
    BY TokensInit
  <2> QED
    BY <2>1, <2>2
<1>2. TokensInv /\ Loading /\ [ModelNext]_modelVars => TokensInv' /\ Loading'
  BY TokensStep, LoadingStep
<1>3. TokensInv /\ Loading => LoadedIsUsable
  BY LoadingUsable
<1> QED
  BY <1>1, <1>2, <1>3, PTL DEF ModelSpec
=============================================================================

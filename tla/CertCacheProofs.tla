--------------------------- MODULE CertCacheProofs ---------------------------
(***************************************************************************)
(* Proofs about the certificate cache, for any hostnames, contexts and     *)
(* capacity: put() evicts the least recently used entry, and every         *)
(* reference to a context has an owner.                                    *)
(***************************************************************************)
EXTENDS CertCache, SequenceTheorems, FiniteSetTheorems, TLAPS

(***************************************************************************)
(* Moving to the front.                                                    *)
(***************************************************************************)

(* Moving an element to the front gives a sequence of the same length. *)
LEMMA ToFrontType ==
    ASSUME NEW S, NEW s \in Seq(S), NEW p \in 1..Len(s)
    PROVE  /\ ToFront(s, p) \in Seq(S)
           /\ Len(ToFront(s, p)) = Len(s)
           /\ \A j \in 1..Len(s) : ToFront(s, p)[j] =
                 IF j = 1 THEN s[p] ELSE IF j <= p THEN s[j - 1] ELSE s[j]
<1> DEFINE F(j) == IF j = 1 THEN s[p] ELSE IF j <= p THEN s[j - 1] ELSE s[j]
<1>1. Len(s) \in Nat
  BY LenProperties
<1>2. \A j \in 1..Len(s) : F(j) \in S
  BY <1>1, ElementOfSeq
<1>3. ToFront(s, p) = [j \in 1..Len(s) |-> F(j)]
  BY DEF ToFront
<1> HIDE DEF F
<1>4. ToFront(s, p) \in Seq(S) /\ Len(ToFront(s, p)) = Len(s)
  BY <1>1, <1>2, <1>3
<1>5. \A j \in 1..Len(s) : ToFront(s, p)[j] = F(j)
  BY <1>3
<1> QED
  BY <1>4, <1>5 DEF F

(* The place an element has after the p-th has gone to the front. *)
Moved(p, i) == IF i = p THEN 1 ELSE IF i < p THEN i + 1 ELSE i

(* Every element is found again, and no other is added. *)
LEMMA ToFrontMoves ==
    ASSUME NEW S, NEW s \in Seq(S), NEW p \in 1..Len(s)
    PROVE  /\ \A i \in 1..Len(s) :
                 Moved(p, i) \in 1..Len(s) /\ ToFront(s, p)[Moved(p, i)] = s[i]
           /\ \A i, j \in 1..Len(s) : Moved(p, i) = Moved(p, j) => i = j
           /\ \A j \in 1..Len(s) : \E i \in 1..Len(s) : Moved(p, i) = j
<1>1. Len(s) \in Nat
  BY LenProperties
<1>2. ASSUME NEW i \in 1..Len(s)
      PROVE  Moved(p, i) \in 1..Len(s) /\ ToFront(s, p)[Moved(p, i)] = s[i]
  <2>1. Moved(p, i) \in 1..Len(s)
    BY <1>1 DEF Moved
  <2>2. ToFront(s, p)[Moved(p, i)] =
           IF Moved(p, i) = 1 THEN s[p]
           ELSE IF Moved(p, i) <= p THEN s[Moved(p, i) - 1] ELSE s[Moved(p, i)]
    BY <2>1, ToFrontType
  <2>3. CASE i = p
    BY <2>1, <2>2, <2>3 DEF Moved
  <2>4. CASE i < p
    <3>1. Moved(p, i) = i + 1
      BY <1>1, <2>4 DEF Moved
    <3>2. i + 1 # 1 /\ i + 1 <= p /\ (i + 1) - 1 = i
      BY <1>1, <2>4
    <3> QED
      BY <2>1, <2>2, <3>1, <3>2
  <2>5. CASE i > p
    <3>1. Moved(p, i) = i
      BY <1>1, <2>5 DEF Moved
    <3>2. i # 1 /\ ~(i <= p)
      BY <1>1, <2>5
    <3> QED
      BY <2>1, <2>2, <3>1, <3>2
  <2> QED
    BY <1>1, <2>3, <2>4, <2>5
<1>3. ASSUME NEW i \in 1..Len(s), NEW j \in 1..Len(s), Moved(p, i) = Moved(p, j)
      PROVE  i = j
  BY <1>1, <1>3 DEF Moved
<1>4. ASSUME NEW j \in 1..Len(s)
      PROVE  \E i \in 1..Len(s) : Moved(p, i) = j
  <2>1. CASE j = 1
    BY <1>1, <2>1 DEF Moved
  <2>2. CASE j # 1 /\ j <= p
    <3>1. j - 1 \in 1..Len(s) /\ Moved(p, j - 1) = j
      BY <1>1, <2>2 DEF Moved
    <3> QED
      BY <3>1
  <2>3. CASE j > p
    BY <1>1, <2>3 DEF Moved
  <2> QED
    BY <1>1, <2>1, <2>2, <2>3
<1> QED
  BY <1>2, <1>3, <1>4

(***************************************************************************)
(* How often a context is cached.                                          *)
(***************************************************************************)
Uses(s, c) == {i \in 1..Len(s) : s[i].ctx = c}
Count(s, c) == Cardinality(Uses(s, c))
One(b) == IF b THEN 1 ELSE 0

(* A context is cached a finite number of times. *)
LEMMA CountType ==
    ASSUME NEW s \in Seq(Entries), NEW c
    PROVE  /\ IsFiniteSet(Uses(s, c)) /\ Count(s, c) \in Nat
           /\ Count(s, c) = 0 <=> Uses(s, c) = {}
<1>1. Len(s) \in Nat
  BY LenProperties
<1>2. IsFiniteSet(1..Len(s))
  BY <1>1, FS_Interval
<1>3. IsFiniteSet(Uses(s, c))
  BY <1>2, FS_Subset DEF Uses
<1> QED
  BY <1>3, FS_CardinalityType, FS_EmptySet DEF Count

(* Using an entry does not change how often its context is cached. *)
LEMMA CountToFront ==
    ASSUME NEW s \in Seq(Entries), NEW p \in 1..Len(s), NEW c
    PROVE  Count(ToFront(s, p), c) = Count(s, c)
<1> DEFINE A == Uses(s, c)
           B == Uses(ToFront(s, p), c)
           f == [i \in A |-> Moved(p, i)]
<1>1. Len(ToFront(s, p)) = Len(s)
  BY ToFrontType
<1>2. A \subseteq 1..Len(s) /\ B \subseteq 1..Len(s)
  BY <1>1 DEF Uses
<1>3. \A i \in A : Moved(p, i) \in B
  <2> SUFFICES ASSUME NEW i \in A PROVE Moved(p, i) \in B
    OBVIOUS
  <2>1. i \in 1..Len(s) /\ s[i].ctx = c
    BY DEF Uses
  <2>2. Moved(p, i) \in 1..Len(s) /\ ToFront(s, p)[Moved(p, i)] = s[i]
    BY <2>1, ToFrontMoves
  <2> QED
    BY <1>1, <2>1, <2>2 DEF Uses
<1>4. \A i, j \in A : Moved(p, i) = Moved(p, j) => i = j
  BY <1>2, ToFrontMoves
<1>5. \A j \in B : \E i \in A : Moved(p, i) = j
  <2> SUFFICES ASSUME NEW j \in B PROVE \E i \in A : Moved(p, i) = j
    OBVIOUS
  <2>1. PICK i \in 1..Len(s) : Moved(p, i) = j
    BY <1>2, ToFrontMoves
  <2>2. ToFront(s, p)[Moved(p, i)] = s[i]
    BY ToFrontMoves
  <2>3. i \in A
    <3>1. ToFront(s, p)[j].ctx = c
      BY DEF Uses
    <3> QED
      BY <2>1, <2>2, <3>1 DEF Uses
  <2> QED
    BY <2>1, <2>3
<1> HIDE DEF A, B
<1>6. f \in Bijection(A, B)
  <2>1. f \in [A -> B]
    BY <1>3
  <2>2. \A i, j \in A : f[i] = f[j] => i = j
    BY <1>4
  <2>3. \A j \in B : \E i \in A : f[i] = j
    BY <1>5
  <2> HIDE DEF f
  <2> QED
    BY <2>1, <2>2, <2>3 DEF Bijection, Injection, Surjection, IsInjective
<1>7. ExistsBijection(A, B)
  BY <1>6 DEF ExistsBijection
<1>8. IsFiniteSet(A)
  BY CountType DEF A
<1> QED
  BY <1>7, <1>8, FS_Bijection DEF A, B, Count

(* A new entry at the front adds one to its context. *)
LEMMA CountPushFront ==
    ASSUME NEW s \in Seq(Entries), NEW e \in Entries, NEW c
    PROVE  Count(<<e>> \o s, c) = Count(s, c) + One(e.ctx = c)
<1> DEFINE t == <<e>> \o s
           A == Uses(s, c)
           T == Uses(t, c)
           B == T \ {1}
           f == [i \in A |-> i + 1]
<1>0. Len(s) \in Nat
  BY LenProperties
<1>1. t \in Seq(Entries) /\ Len(t) = Len(s) + 1 /\ t[1] = e
      /\ \A i \in 1..Len(s) : t[i + 1] = s[i]
  <2>1. <<e>> \in Seq(Entries) /\ Len(<<e>>) = 1 /\ <<e>>[1] = e
    OBVIOUS
  <2>2. t \in Seq(Entries) /\ Len(t) = 1 + Len(s)
    BY <2>1, ConcatProperties
  <2>3. \A i \in 1..(1 + Len(s)) : t[i] = IF i <= 1 THEN <<e>>[i] ELSE s[i - 1]
    BY <2>1, ConcatProperties
  <2>4. ASSUME NEW i \in 1..Len(s) PROVE t[i + 1] = s[i]
    <3>1. i + 1 \in 1..(1 + Len(s)) /\ ~(i + 1 <= 1) /\ (i + 1) - 1 = i
      BY <1>0
    <3> QED
      BY <2>3, <3>1
  <2> HIDE DEF t
  <2> QED
    BY <1>0, <2>1, <2>2, <2>3, <2>4
<1> HIDE DEF t
<1>2. \A i \in A : i \in Nat /\ i + 1 \in B
  BY <1>0, <1>1 DEF Uses
<1>3. \A j \in B : j - 1 \in A /\ (j - 1) + 1 = j
  <2> SUFFICES ASSUME NEW j \in B PROVE j - 1 \in A /\ (j - 1) + 1 = j
    OBVIOUS
  <2>1. j \in 1..(Len(s) + 1) /\ j # 1 /\ t[j].ctx = c
    BY <1>1 DEF Uses
  <2>2. j - 1 \in 1..Len(s) /\ (j - 1) + 1 = j
    BY <1>0, <2>1
  <2>3. t[j] = s[j - 1]
    BY <1>1, <2>2
  <2> QED
    BY <2>1, <2>2, <2>3 DEF Uses
<1>4. IsFiniteSet(A) /\ IsFiniteSet(T) /\ Cardinality(T) \in Nat /\ Cardinality(A) \in Nat
  BY <1>1, CountType DEF Count
<1>5. 1 \in T <=> e.ctx = c
  BY <1>0, <1>1 DEF Uses
<1> HIDE DEF A, T
<1>6. f \in Bijection(A, B)
  <2>1. f \in [A -> B]
    BY <1>2
  <2>2. \A i, j \in A : f[i] = f[j] => i = j
    BY <1>2
  <2>3. \A j \in B : \E i \in A : f[i] = j
    BY <1>3
  <2> HIDE DEF f
  <2> QED
    BY <2>1, <2>2, <2>3 DEF Bijection, Injection, Surjection, IsInjective
<1>7. ExistsBijection(A, B)
  BY <1>6 DEF ExistsBijection
<1>8. Cardinality(B) = Cardinality(A)
  BY <1>4, <1>7, FS_Bijection
<1>9. Cardinality(B) = IF 1 \in T THEN Cardinality(T) - 1 ELSE Cardinality(T)
  BY <1>4, FS_RemoveElement
<1>10. Cardinality(T) = Cardinality(A) + One(e.ctx = c)
  BY <1>4, <1>5, <1>8, <1>9 DEF One
<1> QED
  BY <1>10 DEF A, T, t, Count

(* A sequence without its last element. *)
LEMMA ButLast ==
    ASSUME NEW S, NEW s \in Seq(S), Len(s) > 0
    PROVE  /\ SubSeq(s, 1, Len(s) - 1) \in Seq(S)
           /\ Len(SubSeq(s, 1, Len(s) - 1)) = Len(s) - 1
           /\ \A i \in 1..(Len(s) - 1) : SubSeq(s, 1, Len(s) - 1)[i] = s[i]
<1>1. Len(s) \in Nat /\ Len(s) >= 1
  BY LenProperties
<1>2. 1 \in Int /\ Len(s) - 1 \in Int /\ \A i \in 1..(Len(s) - 1) : s[i] \in S
  BY <1>1, ElementOfSeq
<1>3. /\ SubSeq(s, 1, Len(s) - 1) \in Seq(S)
      /\ Len(SubSeq(s, 1, Len(s) - 1)) = IF 1 <= Len(s) - 1 THEN Len(s) - 1 - 1 + 1 ELSE 0
      /\ \A i \in 1..(Len(s) - 1 - 1 + 1) : SubSeq(s, 1, Len(s) - 1)[i] = s[1 + i - 1]
  BY <1>2, SubSeqProperties
<1>4. ASSUME NEW i \in 1..(Len(s) - 1)
      PROVE  i \in 1..(Len(s) - 1 - 1 + 1) /\ 1 + i - 1 = i
  BY <1>1
<1>5. Len(SubSeq(s, 1, Len(s) - 1)) = Len(s) - 1
  <2>1. CASE 1 <= Len(s) - 1
    <3>1. Len(s) - 1 - 1 + 1 = Len(s) - 1
      BY <1>1
    <3> QED
      BY <1>3, <2>1, <3>1
  <2>2. CASE ~(1 <= Len(s) - 1)
    <3>1. \A n \in Nat : n >= 1 /\ ~(1 <= n - 1) => n - 1 = 0
      OBVIOUS
    <3>2. Len(s) - 1 = 0
      BY <1>1, <2>2, <3>1
    <3> QED
      BY <1>3, <2>2, <3>2
  <2> QED
    BY <2>1, <2>2
<1>6. \A i \in 1..(Len(s) - 1) : SubSeq(s, 1, Len(s) - 1)[i] = s[i]
  BY <1>3, <1>4
<1> QED
  BY <1>3, <1>5, <1>6

(* The last entry, taken away, takes one from its context. *)
LEMMA CountPopBack ==
    ASSUME NEW s \in Seq(Entries), Len(s) > 0, NEW c
    PROVE  Count(SubSeq(s, 1, Len(s) - 1), c) = Count(s, c) - One(s[Len(s)].ctx = c)
<1> DEFINE t == SubSeq(s, 1, Len(s) - 1)
<1>0. Len(s) \in Nat /\ Len(s) >= 1
  BY LenProperties
<1>1. Len(t) = Len(s) - 1 /\ \A i \in 1..(Len(s) - 1) : t[i] = s[i]
  BY ButLast
<1> HIDE DEF t
<1>2. Uses(t, c) = Uses(s, c) \ {Len(s)}
  <2>1. ASSUME NEW i PROVE i \in Uses(t, c) <=> i \in Uses(s, c) \ {Len(s)}
    <3>1. i \in 1..(Len(s) - 1) <=> i \in 1..Len(s) /\ i # Len(s)
      BY <1>0
    <3> QED
      BY <1>1, <3>1 DEF Uses
  <2> QED
    BY <2>1
<1>3. IsFiniteSet(Uses(s, c)) /\ Cardinality(Uses(s, c)) \in Nat
  BY CountType DEF Count
<1>4. Len(s) \in Uses(s, c) <=> s[Len(s)].ctx = c
  BY <1>0 DEF Uses
<1>5. Cardinality(Uses(s, c) \ {Len(s)}) =
         IF Len(s) \in Uses(s, c) THEN Cardinality(Uses(s, c)) - 1
         ELSE Cardinality(Uses(s, c))
  BY <1>3, FS_RemoveElement
<1>6. Cardinality(Uses(t, c)) = Cardinality(Uses(s, c)) - One(s[Len(s)].ctx = c)
  BY <1>2, <1>3, <1>4, <1>5 DEF One
<1> QED
  BY <1>6 DEF Count, t

Replaced(s, p, d) == [s EXCEPT ![p].ctx = d]

(* A replaced context gives its place to the new one. *)
LEMMA CountReplace ==
    ASSUME NEW s \in Seq(Entries), NEW p \in 1..Len(s), NEW d \in Ctxs, NEW c
    PROVE  /\ Replaced(s, p, d) \in Seq(Entries)
           /\ Len(Replaced(s, p, d)) = Len(s)
           /\ \A i \in 1..Len(s) : Replaced(s, p, d)[i].host = s[i].host
           /\ Count(Replaced(s, p, d), c) =
                 Count(s, c) - One(s[p].ctx = c) + One(d = c)
<1> DEFINE t == Replaced(s, p, d)
           A == Uses(s, c)
           T == Uses(t, c)
<1>0. Len(s) \in Nat
  BY LenProperties
<1>1. \A i \in 1..Len(s) : s[i] \in Entries
  BY ElementOfSeq
<1>2. [s[p] EXCEPT !.ctx = d] \in Entries /\ [s[p] EXCEPT !.ctx = d].host = s[p].host
      /\ [s[p] EXCEPT !.ctx = d].ctx = d
  BY <1>1 DEF Entries
<1>3. t = [s EXCEPT ![p] = [s[p] EXCEPT !.ctx = d]]
  BY DEF Replaced
<1>4. t \in Seq(Entries) /\ Len(t) = Len(s)
  BY <1>2, <1>3, ExceptSeq
<1>5. \A i \in 1..Len(s) : i # p => t[i] = s[i]
  BY <1>3, ExceptSeq
<1>6. t[p].ctx = d /\ t[p].host = s[p].host
  <2>1. t[p] = [s[p] EXCEPT !.ctx = d]
    BY <1>3, ExceptSeq
  <2> QED
    BY <1>2, <2>1
<1> HIDE DEF t
<1>7. A \ {p} = T \ {p}
  BY <1>4, <1>5 DEF Uses
<1>8. (p \in A <=> s[p].ctx = c) /\ (p \in T <=> d = c)
  BY <1>4, <1>6 DEF Uses
<1>9. IsFiniteSet(A) /\ IsFiniteSet(T) /\ Cardinality(T) \in Nat /\ Cardinality(A) \in Nat
  BY <1>4, CountType DEF Count
<1> HIDE DEF A, T
<1>10. Cardinality(A \ {p}) = IF p \in A THEN Cardinality(A) - 1 ELSE Cardinality(A)
  BY <1>9, FS_RemoveElement
<1>11. Cardinality(T \ {p}) = IF p \in T THEN Cardinality(T) - 1 ELSE Cardinality(T)
  BY <1>9, FS_RemoveElement
<1>12. Cardinality(T) = Cardinality(A) - One(s[p].ctx = c) + One(d = c)
  <2>1. Cardinality(A \ {p}) = Cardinality(T \ {p})
    BY <1>7
  <2> QED
    BY <1>8, <1>9, <1>10, <1>11, <2>1 DEF One
<1>13. \A i \in 1..Len(s) : t[i].host = s[i].host
  BY <1>5, <1>6
<1> QED
  BY <1>4, <1>12, <1>13 DEF A, T, t, Count

(***************************************************************************)
(* Recency.                                                                *)
(***************************************************************************)
Distinct == \A i, j \in 1..Len(recency) : recency[i] = recency[j] => i = j

Data ==
    /\ order \in Seq(Entries) /\ recency \in Seq(Hosts)
    /\ map \in SUBSET Hosts /\ alive \in BOOLEAN

Kept == IF Len(recency) < MaxEntries THEN Len(recency) ELSE MaxEntries

Mapped == map = {order[i].host : i \in 1..Len(order)}

Ranked == \A i \in 1..Len(order) : order[i].host = recency[i]

(* The inductive invariant: while it lives, the cache holds the first Kept   *)
(* of the hostnames by recency, each named once, in their order.             *)
Lru ==
    /\ Data /\ Distinct /\ Mapped
    /\ alive => Len(order) = Kept /\ Ranked
    /\ ~alive => order = <<>>

(* The hostname a call uses leaves its place q, which is one past the end    *)
(* when it is new, and comes first.                                          *)
LEMMA Touched ==
    ASSUME Data, Distinct, NEW h \in Hosts
    PROVE  /\ Touch(h) \in Seq(Hosts)
           /\ \E q \in 1..(Len(recency) + 1) :
                 /\ q <= Len(recency) => recency[q] = h
                 /\ q = Len(recency) + 1 => \A i \in 1..Len(recency) : recency[i] # h
                 /\ Len(Touch(h)) = IF q <= Len(recency) THEN Len(recency) ELSE Len(recency) + 1
                 /\ \A j \in 1..Len(Touch(h)) : Touch(h)[j] =
                       IF j = 1 THEN h ELSE IF j <= q THEN recency[j - 1] ELSE recency[j]
<1>0. recency \in Seq(Hosts) /\ Len(recency) \in Nat
  BY LenProperties DEF Data
<1>1. CASE \E i \in 1..Len(recency) : recency[i] = h
  <2> DEFINE q == CHOOSE i \in 1..Len(recency) : recency[i] = h
  <2>1. q \in 1..Len(recency) /\ recency[q] = h
    BY <1>1
  <2>2. Touch(h) = ToFront(recency, q)
    BY <1>1 DEF Touch
  <2> HIDE DEF q
  <2>3. Touch(h) \in Seq(Hosts) /\ Len(Touch(h)) = Len(recency)
    BY <1>0, <2>1, <2>2, ToFrontType
  <2>4. \A j \in 1..Len(recency) : Touch(h)[j] =
           IF j = 1 THEN h ELSE IF j <= q THEN recency[j - 1] ELSE recency[j]
    BY <1>0, <2>1, <2>2, ToFrontType
  <2>5. q \in 1..(Len(recency) + 1) /\ q <= Len(recency) /\ q # Len(recency) + 1
    BY <1>0, <2>1
  <2> QED
    BY <2>1, <2>3, <2>4, <2>5
<1>2. CASE ~\E i \in 1..Len(recency) : recency[i] = h
  <2> DEFINE t == <<h>> \o recency
             q == Len(recency) + 1
  <2>1. Touch(h) = t
    BY <1>2 DEF Touch
  <2>2. <<h>> \in Seq(Hosts) /\ Len(<<h>>) = 1 /\ <<h>>[1] = h
    OBVIOUS
  <2>3. t \in Seq(Hosts) /\ Len(t) = 1 + Len(recency)
    BY <1>0, <2>2, ConcatProperties
  <2>4. \A j \in 1..(1 + Len(recency)) : t[j] = IF j <= 1 THEN <<h>>[j] ELSE recency[j - 1]
    BY <1>0, <2>2, ConcatProperties
  <2> HIDE DEF t
  <2>5. ASSUME NEW j \in 1..(1 + Len(recency))
        PROVE  t[j] = IF j = 1 THEN h ELSE IF j <= q THEN recency[j - 1] ELSE recency[j]
    <3>1. j <= q /\ (j <= 1 <=> j = 1)
      BY <1>0
    <3> QED
      BY <2>2, <2>4, <3>1
  <2>6. q \in 1..(Len(recency) + 1) /\ ~(q <= Len(recency)) /\ 1 + Len(recency) = Len(recency) + 1
    BY <1>0
  <2> HIDE DEF q
  <2>7. q = Len(recency) + 1
    BY DEF q
  <2> QED
    BY <1>2, <2>1, <2>3, <2>5, <2>6, <2>7
<1> QED
  BY <1>1, <1>2

(* A hostname that is used is still named once. *)
LEMMA TouchedOnce ==
    ASSUME Data, Distinct, NEW h \in Hosts, recency' = Touch(h)
    PROVE  Distinct'
<1> DEFINE t == Touch(h)
<1>0. Len(recency) \in Nat
  BY LenProperties DEF Data
<1>1. PICK q \in 1..(Len(recency) + 1) :
         /\ q <= Len(recency) => recency[q] = h
         /\ q = Len(recency) + 1 => \A i \in 1..Len(recency) : recency[i] # h
         /\ Len(t) = IF q <= Len(recency) THEN Len(recency) ELSE Len(recency) + 1
         /\ \A j \in 1..Len(t) : t[j] =
               IF j = 1 THEN h ELSE IF j <= q THEN recency[j - 1] ELSE recency[j]
  BY Touched
<1> HIDE DEF t
<1> DEFINE From(j) == IF j <= q THEN j - 1 ELSE j
<1>2. ASSUME NEW j \in 1..Len(t), j # 1
      PROVE  From(j) \in 1..Len(recency) /\ From(j) # q /\ t[j] = recency[From(j)]
  <2>1. From(j) \in 1..Len(recency)
    <3>1. CASE q <= Len(recency)
      BY <1>0, <1>1, <1>2, <3>1
    <3>2. CASE q = Len(recency) + 1
      BY <1>0, <1>1, <1>2, <3>2
    <3> QED
      BY <1>0, <3>1, <3>2
  <2>2. From(j) # q
    BY <1>0, <1>2
  <2>3. t[j] = recency[From(j)]
    BY <1>1, <1>2
  <2> QED
    BY <2>1, <2>2, <2>3
<1>3. ASSUME NEW j \in 1..Len(t), j # 1 PROVE t[j] # h
  <2>1. From(j) \in 1..Len(recency) /\ From(j) # q /\ t[j] = recency[From(j)]
    BY <1>2, <1>3
  <2> HIDE DEF From
  <2>2. CASE q <= Len(recency)
    <3>1. q \in 1..Len(recency) /\ recency[q] = h
      BY <1>0, <1>1, <2>2
    <3> QED
      BY <2>1, <3>1 DEF Distinct
  <2>3. CASE q = Len(recency) + 1
    BY <1>1, <2>1, <2>3
  <2> QED
    BY <1>0, <2>2, <2>3
<1>4. ASSUME NEW i \in 1..Len(t), NEW j \in 1..Len(t), t[i] = t[j] PROVE i = j
  <2>0. Len(t) \in Nat
    BY <1>0, <1>1
  <2>1. CASE i = 1 \/ j = 1
    <3>1. t[1] = h
      BY <1>1, <2>0
    <3> QED
      BY <1>3, <1>4, <2>1, <3>1
  <2>2. CASE i # 1 /\ j # 1
    <3>1. From(i) \in 1..Len(recency) /\ From(i) # q /\ t[i] = recency[From(i)]
      BY <1>2, <2>2
    <3>2. From(j) \in 1..Len(recency) /\ From(j) # q /\ t[j] = recency[From(j)]
      BY <1>2, <2>2
    <3>3. From(i) = From(j)
      <4> HIDE DEF From
      <4> QED
        BY <1>4, <3>1, <3>2 DEF Distinct
    <3>4. i \in Nat /\ j \in Nat /\ q \in Nat
      BY <1>0, <2>0
    <3> QED
      BY <3>3, <3>4
  <2> QED
    BY <2>1, <2>2
<1> QED
  BY <1>4 DEF Distinct, t

(* The place of a cached hostname. *)
LEMMA PosOf ==
    ASSUME Data, Mapped, NEW h \in map
    PROVE  Pos(h) \in 1..Len(order) /\ order[Pos(h)].host = h
BY DEF Pos, Mapped

(* A call that finds its hostname, whatever it does to the context.          *)
LEMMA Hit ==
    ASSUME Lru, alive, NEW h \in map,
           NEW s \in Seq(Entries), Len(s) = Len(order),
           \A i \in 1..Len(order) : s[i].host = order[i].host,
           order' = ToFront(s, Pos(h)), recency' = Touch(h), map' = map, alive' = alive
    PROVE  Lru'
<1> DEFINE p == Pos(h)
           t == Touch(h)
<1>0. /\ Data /\ Distinct /\ Mapped /\ Ranked /\ Len(order) = Kept
      /\ Len(order) \in Nat /\ Len(recency) \in Nat /\ h \in Hosts
  BY LenProperties DEF Lru, Data
<1>1. p \in 1..Len(order) /\ order[p].host = h
  BY <1>0, PosOf
<1>2. PICK q \in 1..(Len(recency) + 1) :
         /\ q <= Len(recency) => recency[q] = h
         /\ q = Len(recency) + 1 => \A i \in 1..Len(recency) : recency[i] # h
         /\ Len(t) = IF q <= Len(recency) THEN Len(recency) ELSE Len(recency) + 1
         /\ \A j \in 1..Len(t) : t[j] =
               IF j = 1 THEN h ELSE IF j <= q THEN recency[j - 1] ELSE recency[j]
  BY <1>0, Touched
<1>3. t \in Seq(Hosts)
  BY <1>0, Touched
<1>4. Distinct'
  BY <1>0, TouchedOnce
<1>5. ToFront(s, p) \in Seq(Entries) /\ Len(ToFront(s, p)) = Len(order)
      /\ \A j \in 1..Len(order) : ToFront(s, p)[j] =
            IF j = 1 THEN s[p] ELSE IF j <= p THEN s[j - 1] ELSE s[j]
  <2>1. p \in 1..Len(s)
    BY <1>1
  <2> HIDE DEF p
  <2>2. /\ ToFront(s, p) \in Seq(Entries)
        /\ Len(ToFront(s, p)) = Len(s)
        /\ \A j \in 1..Len(s) : ToFront(s, p)[j] =
              IF j = 1 THEN s[p] ELSE IF j <= p THEN s[j - 1] ELSE s[j]
    BY <2>1, ToFrontType
  <2> QED
    BY <2>2
<1> HIDE DEF p, t
<1>6. Len(order) <= Len(recency)
  BY <1>0, CertCacheAssumption DEF Kept
<1>7. p \in 1..Len(recency) /\ recency[p] = h
  BY <1>0, <1>1, <1>6 DEF Ranked
<1>8. q = p
  <2>1. q \in 1..Len(recency)
    <3>1. q # Len(recency) + 1
      BY <1>2, <1>7
    <3> QED
      BY <1>0, <3>1
  <2>2. recency[q] = h
    BY <1>0, <1>2, <2>1
  <2> QED
    BY <1>0, <1>7, <2>1, <2>2 DEF Distinct
<1>9. Len(t) = Len(recency)
  BY <1>0, <1>2, <1>7, <1>8
<1>10. ASSUME NEW j \in 1..Len(order) PROVE ToFront(s, p)[j].host = t[j]
  <2>1. j \in 1..Len(t)
    BY <1>0, <1>6, <1>9
  <2>2. CASE j = 1
    BY <1>1, <1>2, <1>5, <2>1, <2>2
  <2>3. CASE j # 1 /\ j <= p
    <3>1. j - 1 \in 1..Len(order)
      BY <1>0, <2>3
    <3>2. ToFront(s, p)[j] = s[j - 1] /\ t[j] = recency[j - 1]
      BY <1>2, <1>5, <1>8, <2>1, <2>3
    <3> QED
      BY <1>0, <3>1, <3>2 DEF Ranked
  <2>4. CASE j # 1 /\ ~(j <= p)
    <3>1. ToFront(s, p)[j] = s[j] /\ t[j] = recency[j]
      BY <1>2, <1>5, <1>8, <2>1, <2>4
    <3> QED
      BY <1>0, <3>1 DEF Ranked
  <2> QED
    BY <2>2, <2>3, <2>4
<1>11. Ranked'
  BY <1>5, <1>10 DEF Ranked, p, t
<1>12. Len(order') = Kept'
  BY <1>0, <1>5, <1>9 DEF Kept, p, t
<1>13. Mapped'
  <2> DEFINE o == ToFront(s, p)
  <2>1. ASSUME NEW i \in 1..Len(order)
        PROVE  \E j \in 1..Len(order) : o[j].host = order[i].host
    <3>1. Moved(p, i) \in 1..Len(order) /\ o[Moved(p, i)] = s[i]
      BY <1>1, ToFrontMoves
    <3> QED
      BY <3>1
  <2>2. ASSUME NEW j \in 1..Len(order)
        PROVE  \E i \in 1..Len(order) : order[i].host = o[j].host
    <3>1. PICK i \in 1..Len(order) : Moved(p, i) = j
      BY <1>1, ToFrontMoves
    <3>2. o[Moved(p, i)] = s[i]
      BY <1>1, ToFrontMoves
    <3> QED
      BY <3>1, <3>2
  <2>3. o = order' /\ Len(o) = Len(order)
    BY <1>5 DEF p
  <2> HIDE DEF o
  <2>4. ASSUME NEW x PROVE x \in map <=> \E j \in 1..Len(o) : o[j].host = x
    <3>1. x \in map <=> \E i \in 1..Len(order) : order[i].host = x
      BY <1>0 DEF Mapped
    <3>2. ASSUME NEW i \in 1..Len(order), order[i].host = x
          PROVE  \E j \in 1..Len(o) : o[j].host = x
      BY <2>1, <2>3, <3>2
    <3>3. ASSUME NEW j \in 1..Len(o), o[j].host = x
          PROVE  \E i \in 1..Len(order) : order[i].host = x
      BY <2>2, <2>3, <3>3
    <3> QED
      BY <3>1, <3>2, <3>3
  <2>5. map = {o[j].host : j \in 1..Len(o)}
    BY <2>4
  <2> QED
    BY <2>3, <2>5 DEF Mapped
<1>14. Data'
  BY <1>0, <1>3, <1>5 DEF Data, p, t
<1> QED
  BY <1>4, <1>11, <1>12, <1>13, <1>14 DEF Lru

(* A call that inserts its hostname, after the last entry if there is no     *)
(* room has gone.                                                            *)
LEMMA Miss ==
    ASSUME Lru, alive, NEW h \in Hosts, NEW c \in Ctxs, PutNew(h, c),
           recency' = Touch(h), alive' = alive
    PROVE  Lru'
<1> DEFINE n == Len(order)
           full == n >= MaxEntries
           kept == IF full THEN SubSeq(order, 1, n - 1) ELSE order
           e == [host |-> h, ctx |-> c]
           o == <<e>> \o kept
           m == IF full THEN n - 1 ELSE n
           t == Touch(h)
<1>0. /\ Data /\ Distinct /\ Mapped /\ Ranked /\ n = Kept
      /\ n \in Nat /\ Len(recency) \in Nat
      /\ order \in Seq(Entries) /\ MaxEntries \in Nat /\ MaxEntries >= 1
  BY LenProperties, CertCacheAssumption DEF Lru, Data
<1>1. h \notin map /\ order' = o
      /\ map' = (IF full THEN map \ {order[n].host} ELSE map) \cup {h}
  BY DEF PutNew
<1>2. e \in Entries /\ e.host = h
  BY DEF Entries
<1>3. m \in Nat /\ m <= n /\ kept \in Seq(Entries) /\ Len(kept) = m
      /\ \A i \in 1..m : kept[i] = order[i]
  <2>1. CASE full
    <3>1. n > 0
      BY <1>0, <2>1
    <3>2. /\ SubSeq(order, 1, n - 1) \in Seq(Entries)
          /\ Len(SubSeq(order, 1, n - 1)) = n - 1
          /\ \A i \in 1..(n - 1) : SubSeq(order, 1, n - 1)[i] = order[i]
      BY <1>0, <3>1, ButLast
    <3>3. m = n - 1 /\ kept = SubSeq(order, 1, n - 1) /\ n - 1 \in Nat /\ n - 1 <= n
      BY <1>0, <2>1, <3>1
    <3> HIDE DEF m, kept
    <3> QED
      BY <3>2, <3>3
  <2>2. CASE ~full
    BY <1>0, <2>2
  <2> QED
    BY <2>1, <2>2
<1>4. PICK q \in 1..(Len(recency) + 1) :
         /\ q <= Len(recency) => recency[q] = h
         /\ q = Len(recency) + 1 => \A i \in 1..Len(recency) : recency[i] # h
         /\ Len(t) = IF q <= Len(recency) THEN Len(recency) ELSE Len(recency) + 1
         /\ \A j \in 1..Len(t) : t[j] =
               IF j = 1 THEN h ELSE IF j <= q THEN recency[j - 1] ELSE recency[j]
  BY <1>0, Touched
<1>5. t \in Seq(Hosts)
  BY <1>0, Touched
<1>6. Distinct'
  BY <1>0, TouchedOnce
<1> HIDE DEF e, kept, t
<1>7. o \in Seq(Entries) /\ Len(o) = m + 1 /\ o[1] = e
      /\ \A j \in 2..(m + 1) : o[j] = kept[j - 1]
  <2>1. <<e>> \in Seq(Entries) /\ Len(<<e>>) = 1 /\ <<e>>[1] = e
    BY <1>2
  <2>2. o \in Seq(Entries) /\ Len(o) = 1 + m
    BY <1>2, <1>3, <2>1, ConcatProperties
  <2>3. \A i \in 1..(1 + m) : o[i] = IF i <= 1 THEN <<e>>[i] ELSE kept[i - 1]
    BY <1>2, <1>3, <2>1, ConcatProperties
  <2> HIDE DEF o, m
  <2>4. o[1] = e
    BY <1>3, <2>1, <2>3
  <2>5. ASSUME NEW j \in 2..(m + 1) PROVE o[j] = kept[j - 1]
    <3>1. j \in 1..(1 + m) /\ ~(j <= 1)
      BY <1>3
    <3> QED
      BY <2>3, <3>1
  <2>6. 1 + m = m + 1
    BY <1>3
  <2> QED
    BY <2>2, <2>4, <2>5, <2>6
<1> HIDE DEF o
(* The hostname is not among the first n by recency. *)
<1>8. q > n
  <2>1. CASE q <= n
    <3>1. n <= Len(recency)
      BY <1>0 DEF Kept
    <3>2. q \in 1..n /\ q <= Len(recency)
      BY <1>0, <2>1, <3>1
    <3>3. order[q].host = h
      BY <1>0, <1>4, <3>2 DEF Ranked
    <3>4. h \in map
      BY <1>0, <3>2, <3>3 DEF Mapped
    <3> QED
      BY <1>1, <3>4
  <2> QED
    BY <1>0, <2>1
<1>9. m + 1 = IF Len(t) < MaxEntries THEN Len(t) ELSE MaxEntries
  <2>1. CASE full
    <3>1. n = MaxEntries /\ Len(recency) >= MaxEntries
      BY <1>0, <2>1 DEF Kept
    <3>2. Len(t) >= MaxEntries /\ Len(t) \in Nat
      BY <1>0, <1>4, <3>1
    <3> QED
      BY <1>0, <2>1, <3>1, <3>2
  <2>2. CASE ~full
    <3>1. n = Len(recency) /\ n < MaxEntries
      BY <1>0, <2>2 DEF Kept
    <3>2. Len(t) = n + 1
      BY <1>0, <1>4, <1>8, <3>1
    <3> QED
      BY <1>0, <2>2, <3>1, <3>2
  <2> QED
    BY <2>1, <2>2
<1>10. Len(t) \in Nat /\ m + 1 <= Len(t)
  BY <1>0, <1>3, <1>4, <1>9
<1> HIDE DEF m
<1>11. ASSUME NEW j \in 1..(m + 1) PROVE o[j].host = t[j]
  <2>1. j \in 1..Len(t)
    BY <1>3, <1>10
  <2>2. CASE j = 1
    BY <1>2, <1>4, <1>7, <2>1, <2>2
  <2>3. CASE j # 1
    <3>1. j \in 2..(m + 1) /\ j - 1 \in 1..m /\ j - 1 \in 1..n
      BY <1>0, <1>3, <2>3
    <3>2. j <= q
      BY <1>0, <1>8, <3>1
    <3>3. o[j] = order[j - 1]
      BY <1>3, <1>7, <3>1
    <3>4. t[j] = recency[j - 1]
      BY <1>4, <2>1, <2>3, <3>2
    <3> QED
      BY <1>0, <3>1, <3>3, <3>4 DEF Ranked
  <2> QED
    BY <2>2, <2>3
<1>12. Ranked'
  BY <1>1, <1>7, <1>11 DEF Ranked, t
<1>13. Len(order') = Kept'
  BY <1>1, <1>7, <1>9 DEF Kept, t
<1>14. Mapped'
  <2>1. ASSUME NEW x PROVE x \in map' <=> \E j \in 1..Len(o) : o[j].host = x
    <3>1. x \in map <=> \E i \in 1..n : order[i].host = x
      BY <1>0 DEF Mapped
    <3>2. x \in (IF full THEN map \ {order[n].host} ELSE map) <=> \E i \in 1..m : order[i].host = x
      <4>1. CASE full
        <5>1. m = n - 1 /\ n >= 1
          BY <1>0, <4>1 DEF m
        <5>2. \A i \in 1..n : order[i].host = order[n].host => i = n
          <6>1. n <= Len(recency)
            BY <1>0 DEF Kept
          <6>2. \A i \in 1..n : i \in 1..Len(recency)
            BY <1>0, <6>1
          <6>3. n \in 1..n
            BY <1>0, <5>1
          <6> QED
            BY <1>0, <6>2, <6>3 DEF Ranked, Distinct
        <5>3. \A i : i \in 1..m <=> i \in 1..n /\ i # n
          BY <1>0, <5>1
        <5> QED
          BY <3>1, <4>1, <5>2, <5>3
      <4>2. CASE ~full
        <5>1. m = n
          BY <4>2 DEF m
        <5> QED
          BY <3>1, <4>2, <5>1
      <4> QED
        BY <4>1, <4>2
    <3>3. ASSUME NEW i \in 1..m PROVE i + 1 \in 1..Len(o) /\ o[i + 1].host = order[i].host
      <4>1. i + 1 \in 2..(m + 1) /\ (i + 1) - 1 = i /\ i + 1 \in 1..(m + 1)
        BY <1>3
      <4> QED
        BY <1>3, <1>7, <4>1
    <3>4. ASSUME NEW j \in 1..Len(o), j # 1
          PROVE  j - 1 \in 1..m /\ o[j].host = order[j - 1].host
      <4>1. j \in 2..(m + 1) /\ j - 1 \in 1..m
        BY <1>3, <1>7, <3>4
      <4> QED
        BY <1>3, <1>7, <4>1
    <3>5. 1 \in 1..Len(o) /\ o[1].host = h
      BY <1>2, <1>3, <1>7
    <3>6. ASSUME x \in map' PROVE \E j \in 1..Len(o) : o[j].host = x
      BY <1>1, <3>2, <3>3, <3>5, <3>6
    <3>7. ASSUME NEW j \in 1..Len(o), o[j].host = x PROVE x \in map'
      <4>1. CASE j = 1
        BY <1>1, <3>5, <3>7, <4>1
      <4>2. CASE j # 1
        <5>1. \E i \in 1..m : order[i].host = x
          BY <3>4, <3>7, <4>2
        <5> QED
          BY <1>1, <3>2, <5>1
      <4> QED
        BY <4>1, <4>2
    <3> QED
      BY <3>6, <3>7
  <2>2. map' = {o[j].host : j \in 1..Len(o)}
    BY <2>1
  <2> QED
    BY <1>1, <2>2 DEF Mapped
<1>15. Data'
  <2>1. map' \in SUBSET Hosts
    BY <1>0, <1>1 DEF Data
  <2> QED
    BY <1>0, <1>1, <1>5, <1>7, <2>1 DEF Data, t
<1> QED
  BY <1>6, <1>12, <1>13, <1>14, <1>15 DEF Lru

(* Lru implies what the run checks. *)
LEMMA LruSuffices ==
    ASSUME Lru
    PROVE  LeastRecentlyUsed
<1>0. Data /\ Distinct /\ Mapped /\ Len(order) \in Nat /\ Len(recency) \in Nat
  BY LenProperties DEF Lru, Data
<1>1. CASE alive
  <2>1. Ranked /\ Len(order) = Kept /\ Kept \in Nat /\ Kept <= Len(recency)
    BY <1>0, <1>1, CertCacheAssumption DEF Lru, Kept
  <2>2. \A i \in 1..Len(order) : i \in 1..Len(recency)
    BY <1>0, <2>1
  <2>3. \A i, j \in 1..Len(order) : order[i].host = order[j].host => i = j
    BY <1>0, <2>1, <2>2 DEF Ranked, Distinct
  <2>4. HostsOf(order) = SubSeq(recency, 1, Kept)
    <3>1. SubSeq(recency, 1, Kept) = [i \in 1..Kept |-> recency[i]]
      <4>1. SubSeq(recency, 1, Kept) = [i \in 1..(1 + Kept - 1) |-> recency[i + 1 - 1]]
        BY <1>0, <2>1 DEF SubSeq
      <4>2. 1 + Kept - 1 = Kept /\ \A i \in 1..Kept : i + 1 - 1 = i
        BY <2>1
      <4> QED
        BY <4>1, <4>2
    <3> QED
      BY <2>1, <3>1 DEF HostsOf, Ranked
  <2> QED
    BY <1>0, <2>3, <2>4 DEF LeastRecentlyUsed, MapMatchesOrder, Mapped, Kept
<1>2. CASE ~alive
  <2>1. order = <<>>
    BY <1>2 DEF Lru
  <2>2. 1..Len(order) = {}
    BY <2>1
  <2> QED
    BY <1>0, <1>2, <2>2 DEF LeastRecentlyUsed, MapMatchesOrder, Mapped
<1> QED
  BY <1>1, <1>2

(* Every step keeps it. *)
LEMMA LruStep ==
    ASSUME Lru, [Next]_vars
    PROVE  Lru'
<1>1. ASSUME NEW h \in Hosts, Get(h) PROVE Lru'
  <2>1. /\ alive /\ h \in map
        /\ order' = ToFront(order, Pos(h)) /\ recency' = Touch(h)
        /\ map' = map /\ alive' = alive
    BY <1>1 DEF Get
  <2>2. order \in Seq(Entries)
    BY DEF Lru, Data
  <2> QED
    BY <2>1, <2>2, Hit
<1>2. ASSUME NEW h \in Hosts, NEW c \in Ctxs, Put(h, c) PROVE Lru'
  <2>1. alive /\ recency' = Touch(h) /\ alive' = alive
    BY <1>2 DEF Put
  <2>2. CASE PutExisting(h, c)
    <3> DEFINE s == Replaced(order, Pos(h), c)
    <3>1. h \in map /\ map' = map /\ order' = ToFront(s, Pos(h))
      BY <2>2 DEF PutExisting, Replaced
    <3>2. order \in Seq(Entries) /\ Pos(h) \in 1..Len(order)
      BY <3>1, PosOf DEF Lru, Data
    <3>3. /\ s \in Seq(Entries) /\ Len(s) = Len(order)
          /\ \A i \in 1..Len(order) : s[i].host = order[i].host
      BY <3>2, CountReplace
    <3> HIDE DEF s
    <3> QED
      BY <2>1, <3>1, <3>3, Hit
  <2>3. CASE PutNew(h, c)
    BY <2>1, <2>3, Miss
  <2> QED
    BY <1>2, <2>2, <2>3 DEF Put
<1>3. CASE Destroy
  <2>1. order' = <<>> /\ map' = {} /\ alive' = FALSE /\ recency' = recency
    BY <1>3 DEF Destroy
  <2>2. Data'
    <3>1. recency \in Seq(Hosts)
      BY DEF Lru, Data
    <3>2. order' \in Seq(Entries) /\ recency' \in Seq(Hosts) /\ map' \in SUBSET Hosts
      BY <2>1, <3>1
    <3>3. alive' \in BOOLEAN
      BY <2>1
    <3> QED
      BY <3>2, <3>3 DEF Data
  <2>3. 1..Len(order') = {}
    BY <2>1
  <2>4. Mapped'
    BY <2>1, <2>3 DEF Mapped
  <2>5. Distinct'
    BY <2>1 DEF Lru, Distinct
  <2> QED
    BY <2>1, <2>2, <2>4, <2>5 DEF Lru
<1>4. ASSUME UNCHANGED <<order, map, alive, recency>> PROVE Lru'
  BY <1>4 DEF Lru, Data, Distinct, Mapped, Kept, Ranked
<1>5. ASSUME NEW c \in Ctxs, New(c) \/ Use(c) \/ Free(c) PROVE Lru'
  BY <1>4, <1>5 DEF New, Use, Free
<1>6. CASE UNCHANGED vars
  BY <1>4, <1>6 DEF vars
<1> QED
  BY <1>1, <1>2, <1>3, <1>5, <1>6 DEF Next

(* An empty cache has it. *)
LEMMA LruInit ==
    ASSUME Init
    PROVE  Lru
<1>1. order = <<>> /\ map = {} /\ alive = TRUE /\ recency = <<>>
  BY DEF Init
<1>2. Len(order) = 0 /\ Len(recency) = 0 /\ 1..Len(order) = {} /\ 1..Len(recency) = {}
  BY <1>1
<1>3. Len(order) = Kept
  BY <1>2, CertCacheAssumption DEF Kept
<1>4. Data
  BY <1>1 DEF Data
<1> QED
  BY <1>1, <1>2, <1>3, <1>4 DEF Lru, Distinct, Mapped, Ranked

(* CertCache evicts the least recently used entry and no other, whatever     *)
(* mixture of put() and get() came before, for every capacity; the list and  *)
(* the map agree throughout.                                                 *)
THEOREM EvictsTheOldest == Spec => []LeastRecentlyUsed
<1>1. Init => Lru
  BY LruInit
<1>2. Lru /\ [Next]_vars => Lru'
  BY LruStep
<1>3. Lru => LeastRecentlyUsed
  BY LruSuffices
<1> QED
  BY <1>1, <1>2, <1>3, PTL DEF Spec

(***************************************************************************)
(* References.                                                             *)
(***************************************************************************)

(* What a context's count is made of. *)
Balance(c) ==
    /\ refs[c] # -1 => refs[c] = held[c] + Count(order, c)
    /\ refs[c] = -1 => held[c] = 0 /\ Count(order, c) = 0

(* The inductive invariant: a context that is not made yet has no owner,     *)
(* so that put() never adds a reference to one.                              *)
Owned ==
    /\ refs \in [Ctxs -> Int] /\ held \in [Ctxs -> Nat]
    /\ \A c \in Ctxs : Balance(c)

(* Who owns a reference or is about to, has a context that is made. *)
LEMMA OwnedIsMade ==
    ASSUME Data, Owned, NEW c \in Ctxs
    PROVE  /\ held[c] \in Nat /\ refs[c] \in Int /\ Count(order, c) \in Nat
           /\ held[c] > 0 => refs[c] = held[c] + Count(order, c)
           /\ Count(order, c) > 0 => refs[c] = held[c] + Count(order, c)
<1>1. held[c] \in Nat /\ refs[c] \in Int /\ Count(order, c) \in Nat
  BY CountType DEF Owned, Data
<1>2. Balance(c)
  BY DEF Owned
<1> QED
  BY <1>1, <1>2 DEF Balance

(* Every step keeps the references owned. *)
LEMMA OwnedStep ==
    ASSUME Lru, Owned, [Next]_vars
    PROVE  Owned'
<1>0. Data /\ Mapped /\ order \in Seq(Entries) /\ Len(order) \in Nat
  BY LenProperties DEF Lru, Data
<1>t. refs \in [Ctxs -> Int] /\ held \in [Ctxs -> Nat]
  BY DEF Owned
<1>1. ASSUME NEW h \in Hosts, Get(h) PROVE Owned'
  <2>1. h \in map /\ order' = ToFront(order, Pos(h)) /\ refs' = refs /\ held' = held
    BY <1>1 DEF Get
  <2>2. Pos(h) \in 1..Len(order)
    BY <1>0, <2>1, PosOf
  <2>3. \A c \in Ctxs : Count(order', c) = Count(order, c)
    BY <1>0, <2>1, <2>2, CountToFront
  <2> QED
    BY <2>1, <2>3 DEF Owned, Balance
<1>2. ASSUME NEW h \in Hosts, NEW c \in Ctxs, Put(h, c), PutExisting(h, c) PROVE Owned'
  <2> DEFINE p == Pos(h)
             s == Replaced(order, p, c)
             b == order[p].ctx
             freed == [refs EXCEPT ![b] = @ - 1]
  <2>1. /\ h \in map /\ held[c] > 0 /\ held' = held
        /\ order' = ToFront(s, p)
        /\ refs' = [freed EXCEPT ![c] = @ + 1]
    BY <1>2 DEF Put, PutExisting, EntryOf, Replaced
  <2>2. p \in 1..Len(order)
    BY <1>0, <2>1, PosOf
  <2>3. b \in Ctxs
    <3>1. order[p] \in Entries
      BY <1>0, <2>2, ElementOfSeq
    <3> QED
      BY <3>1 DEF Entries
  <2> HIDE DEF p
  <2>4. ASSUME NEW d \in Ctxs
        PROVE  Count(order', d) = Count(order, d) - One(b = d) + One(c = d)
    <3>1. /\ s \in Seq(Entries) /\ Len(s) = Len(order)
          /\ Count(s, d) = Count(order, d) - One(b = d) + One(c = d)
      BY <1>0, <2>2, CountReplace
    <3>2. p \in 1..Len(s)
      BY <2>2, <3>1
    <3> HIDE DEF s, b
    <3>3. Count(ToFront(s, p), d) = Count(s, d)
      BY <3>1, <3>2, CountToFront
    <3> QED
      BY <2>1, <3>1, <3>3
  <2>5. Count(order, b) > 0
    <3>1. p \in Uses(order, b)
      BY <2>2 DEF Uses
    <3>2. Count(order, b) \in Nat /\ (Count(order, b) = 0 <=> Uses(order, b) = {})
      BY <1>0, CountType
    <3> HIDE DEF b
    <3> QED
      BY <3>1, <3>2
  <2> HIDE DEF s, b
  <2>6. refs' \in [Ctxs -> Int] /\ \A d \in Ctxs : refs'[d] = refs[d] - One(b = d) + One(c = d)
    BY <1>t, <2>1, <2>3 DEF One
  <2>7. ASSUME NEW d \in Ctxs PROVE Balance(d)'
    <3>1. /\ held[d] \in Nat /\ refs[d] \in Int /\ Count(order, d) \in Nat
          /\ held[d] > 0 => refs[d] = held[d] + Count(order, d)
          /\ Count(order, d) > 0 => refs[d] = held[d] + Count(order, d)
      BY <1>0, OwnedIsMade
    <3>2. Balance(d)
      BY DEF Owned
    <3>3. held'[d] = held[d]
      BY <2>1
    <3>4. b = d => Count(order, d) > 0
      BY <2>5
    <3>5. c = d => held[d] > 0
      BY <2>1
    <3>6. Count(order', d) = Count(order, d) - One(b = d) + One(c = d)
          /\ refs'[d] = refs[d] - One(b = d) + One(c = d)
      BY <2>4, <2>6
    <3>7. /\ refs'[d] # -1 => refs'[d] = held'[d] + Count(order', d)
          /\ refs'[d] = -1 => held'[d] = 0 /\ Count(order', d) = 0
      BY ONLY <3>1, <3>2, <3>3, <3>4, <3>5, <3>6 DEF Balance, One
    <3> QED
      BY <3>7 DEF Balance, Count, Uses
  <2> QED
    BY <1>t, <2>1, <2>6, <2>7 DEF Owned
<1>3. ASSUME NEW h \in Hosts, NEW c \in Ctxs, Put(h, c), PutNew(h, c) PROVE Owned'
  <2> DEFINE n == Len(order)
             full == n >= MaxEntries
             kept == IF full THEN SubSeq(order, 1, n - 1) ELSE order
             e == [host |-> h, ctx |-> c]
             b == order[n].ctx
             freed == IF full THEN [refs EXCEPT ![b] = @ - 1] ELSE refs
             Gone(d) == full /\ b = d
  <2>1. /\ held[c] > 0 /\ held' = held
        /\ order' = <<e>> \o kept
        /\ refs' = [freed EXCEPT ![c] = @ + 1]
    BY <1>3 DEF Put, PutNew
  <2>2. e \in Entries /\ e.ctx = c
    BY DEF Entries
  <2>3. full => n > 0 /\ n \in 1..n
    BY <1>0, CertCacheAssumption
  <2>4. full => b \in Ctxs
    <3> SUFFICES ASSUME full PROVE b \in Ctxs
      OBVIOUS
    <3>1. order[n] \in Entries
      BY <1>0, <2>3, ElementOfSeq
    <3> QED
      BY <3>1 DEF Entries
  <2>5. kept \in Seq(Entries) /\ \A d : Count(kept, d) = Count(order, d) - One(Gone(d))
    <3>1. CASE full
      <4>1. kept = SubSeq(order, 1, n - 1)
        BY <3>1
      <4>2. SubSeq(order, 1, n - 1) \in Seq(Entries)
        BY <1>0, <2>3, <3>1, ButLast
      <4>3. ASSUME NEW d PROVE Count(SubSeq(order, 1, n - 1), d) = Count(order, d) - One(b = d)
        BY <1>0, <2>3, <3>1, CountPopBack
      <4>4. ASSUME NEW d PROVE One(Gone(d)) = One(b = d)
        BY <3>1 DEF One
      <4> QED
        BY <4>1, <4>2, <4>3, <4>4
    <3>2. CASE ~full
      <4>1. ASSUME NEW d PROVE Count(order, d) = Count(order, d) - One(Gone(d))
        <5>1. One(Gone(d)) = 0
          BY <3>2 DEF One
        <5>2. Count(order, d) \in Nat
          BY <1>0, CountType
        <5> QED
          BY <5>1, <5>2
      <4> QED
        BY <1>0, <3>2, <4>1
    <3> QED
      BY <3>1, <3>2
  <2>6. ASSUME NEW d PROVE Count(order', d) = Count(order, d) - One(Gone(d)) + One(c = d)
    <3> HIDE DEF kept, e
    <3>1. Count(<<e>> \o kept, d) = Count(kept, d) + One(e.ctx = d)
      BY <2>2, <2>5, CountPushFront
    <3> QED
      BY <2>1, <2>2, <2>5, <3>1
  <2>7. full => Count(order, b) > 0
    <3> SUFFICES ASSUME full PROVE Count(order, b) > 0
      OBVIOUS
    <3>1. n \in Uses(order, b)
      BY <2>3 DEF Uses
    <3>2. Count(order, b) \in Nat /\ (Count(order, b) = 0 <=> Uses(order, b) = {})
      BY <1>0, CountType
    <3> HIDE DEF b
    <3> QED
      BY <3>1, <3>2
  <2> HIDE DEF e, kept, b, full
  <2>8. refs' \in [Ctxs -> Int]
        /\ \A d \in Ctxs : refs'[d] = refs[d] - One(Gone(d)) + One(c = d)
    BY <1>t, <2>1, <2>4 DEF One
  <2>9. ASSUME NEW d \in Ctxs PROVE Balance(d)'
    <3>1. /\ held[d] \in Nat /\ refs[d] \in Int /\ Count(order, d) \in Nat
          /\ held[d] > 0 => refs[d] = held[d] + Count(order, d)
          /\ Count(order, d) > 0 => refs[d] = held[d] + Count(order, d)
      BY <1>0, OwnedIsMade
    <3>2. Balance(d)
      BY DEF Owned
    <3>3. held'[d] = held[d]
      BY <2>1
    <3>4. Gone(d) => Count(order, d) > 0
      BY <2>7
    <3>5. c = d => held[d] > 0
      BY <2>1
    <3>6. Count(order', d) = Count(order, d) - One(Gone(d)) + One(c = d)
          /\ refs'[d] = refs[d] - One(Gone(d)) + One(c = d)
      BY <2>6, <2>8
    <3> HIDE DEF Gone
    <3>7. /\ refs'[d] # -1 => refs'[d] = held'[d] + Count(order', d)
          /\ refs'[d] = -1 => held'[d] = 0 /\ Count(order', d) = 0
      BY ONLY <3>1, <3>2, <3>3, <3>4, <3>5, <3>6 DEF Balance, One
    <3> QED
      BY <3>7 DEF Balance, Count, Uses
  <2> QED
    BY <1>t, <2>1, <2>8, <2>9 DEF Owned
<1>4. CASE Destroy
  <2>1. /\ held' = held /\ order' = <<>>
        /\ refs' = [c \in Ctxs |-> refs[c] - Count(order, c)]
    BY <1>4 DEF Destroy, Count, Uses
  <2>2. ASSUME NEW d \in Ctxs PROVE refs'[d] \in Int /\ Balance(d)'
    <3>1. /\ held[d] \in Nat /\ refs[d] \in Int /\ Count(order, d) \in Nat
      BY <1>0, OwnedIsMade
    <3>2. Balance(d)
      BY DEF Owned
    <3>3. Count(order', d) = 0
      <4>1. Uses(order', d) = {}
        BY <2>1 DEF Uses
      <4> QED
        BY <4>1, FS_EmptySet DEF Count
    <3>4. refs'[d] = refs[d] - Count(order, d) /\ held'[d] = held[d]
      BY <2>1
    <3>5. /\ refs'[d] # -1 => refs'[d] = held'[d] + Count(order', d)
          /\ refs'[d] = -1 => held'[d] = 0 /\ Count(order', d) = 0
      BY ONLY <3>1, <3>2, <3>3, <3>4 DEF Balance
    <3> QED
      BY <3>1, <3>4, <3>5 DEF Balance, Count, Uses
  <2>3. refs' \in [Ctxs -> Int]
    BY <2>1, <2>2
  <2> QED
    BY <1>t, <2>1, <2>2, <2>3 DEF Owned
<1>5. ASSUME NEW c \in Ctxs, New(c) \/ Use(c) \/ Free(c) PROVE Owned'
  <2> DEFINE Plus(f, k) == [f EXCEPT ![c] = @ + k]
  <2>1. order' = order
    BY <1>5 DEF New, Use, Free
  <2>2. ASSUME NEW k \in Int, refs' = Plus(refs, k), held' = Plus(held, k),
               held[c] + k >= 0, refs[c] # -1
        PROVE  Owned'
    <3>1. refs' \in [Ctxs -> Int] /\ held' \in [Ctxs -> Nat]
      BY <1>t, <2>2
    <3>2. ASSUME NEW d \in Ctxs PROVE Balance(d)'
      <4>1. held[d] \in Nat /\ refs[d] \in Int /\ Count(order, d) \in Nat
        BY <1>0, OwnedIsMade
      <4>2. Balance(d)
        BY DEF Owned
      <4>3. d = c => refs'[d] = refs[d] + k /\ held'[d] = held[d] + k
        BY <1>t, <2>2
      <4>4. d # c => refs'[d] = refs[d] /\ held'[d] = held[d]
        BY <1>t, <2>2
      <4>5. /\ refs'[d] # -1 => refs'[d] = held'[d] + Count(order, d)
            /\ refs'[d] = -1 => held'[d] = 0 /\ Count(order, d) = 0
        BY ONLY <2>2, <4>1, <4>2, <4>3, <4>4 DEF Balance
      <4> QED
        BY <2>1, <4>5 DEF Balance, Count, Uses
    <3> QED
      BY <3>1, <3>2 DEF Owned
  <2>3. CASE New(c)
    <3>1. /\ refs[c] = -1 /\ refs' = [refs EXCEPT ![c] = 1] /\ held' = [held EXCEPT ![c] = 1]
      BY <2>3 DEF New
    <3>2. refs' \in [Ctxs -> Int] /\ held' \in [Ctxs -> Nat]
      BY <1>t, <3>1
    <3>3. ASSUME NEW d \in Ctxs PROVE Balance(d)'
      <4>1. held[d] \in Nat /\ refs[d] \in Int /\ Count(order, d) \in Nat
        BY <1>0, OwnedIsMade
      <4>2. Balance(d)
        BY DEF Owned
      <4>3. d = c => refs[d] = -1 /\ refs'[d] = 1 /\ held'[d] = 1
        BY <1>t, <3>1
      <4>4. d # c => refs'[d] = refs[d] /\ held'[d] = held[d]
        BY <1>t, <3>1
      <4>5. /\ refs'[d] # -1 => refs'[d] = held'[d] + Count(order, d)
            /\ refs'[d] = -1 => held'[d] = 0 /\ Count(order, d) = 0
        BY ONLY <4>1, <4>2, <4>3, <4>4 DEF Balance
      <4> QED
        BY <2>1, <4>5 DEF Balance, Count, Uses
    <3> QED
      BY <3>2, <3>3 DEF Owned
  <2>4. CASE Use(c)
    <3>1. refs[c] > 0 /\ refs' = [refs EXCEPT ![c] = @ + 1] /\ held' = [held EXCEPT ![c] = @ + 1]
      BY <2>4 DEF Use
    <3>2. held[c] + 1 >= 0 /\ refs[c] # -1
      BY <1>t, <3>1
    <3>3. refs' = Plus(refs, 1) /\ held' = Plus(held, 1)
      BY <3>1
    <3> HIDE DEF Plus
    <3> QED
      BY <2>2, <3>2, <3>3
  <2>5. CASE Free(c)
    <3>1. held[c] > 0 /\ refs' = [refs EXCEPT ![c] = @ - 1] /\ held' = [held EXCEPT ![c] = @ - 1]
      BY <2>5 DEF Free
    <3>2. /\ held[c] \in Nat /\ refs[c] \in Int /\ Count(order, c) \in Nat
          /\ refs[c] = held[c] + Count(order, c)
      BY <1>0, <3>1, OwnedIsMade
    <3>3. held[c] + (-1) >= 0 /\ refs[c] # -1
      BY <3>1, <3>2
    <3>4. refs' = Plus(refs, -1) /\ held' = Plus(held, -1)
      <4>1. refs[c] - 1 = refs[c] + (-1) /\ held[c] - 1 = held[c] + (-1)
        BY <3>2
      <4> QED
        BY <3>1, <4>1
    <3> HIDE DEF Plus
    <3> QED
      BY <2>2, <3>3, <3>4
  <2> QED
    BY <1>5, <2>3, <2>4, <2>5
<1>6. CASE UNCHANGED vars
  <2>1. order' = order /\ refs' = refs /\ held' = held
    BY <1>6 DEF vars
  <2> QED
    BY <2>1 DEF Owned, Balance, Count, Uses
<1> QED
  BY <1>1, <1>2, <1>3, <1>4, <1>5, <1>6 DEF Next, Put

(* Before the first context is made. *)
LEMMA OwnedInit ==
    ASSUME Init
    PROVE  Owned
<1>1. order = <<>> /\ refs = [c \in Ctxs |-> -1] /\ held = [c \in Ctxs |-> 0]
  BY DEF Init
<1>2. ASSUME NEW c \in Ctxs PROVE Count(order, c) = 0
  <2>1. Uses(order, c) = {}
    BY <1>1 DEF Uses
  <2> QED
    BY <2>1, FS_EmptySet DEF Count
<1> QED
  BY <1>1, <1>2 DEF Owned, Balance

(* Every reference to a context is owned, by an entry of the cache or by a   *)
(* session or connection, through every replacement, eviction and the        *)
(* cache's end: no context that someone has is freed, and none is leaked.    *)
THEOREM ReferencesOwned == Spec => []RefsBalanced
<1>1. Init => Lru /\ Owned
  BY LruInit, OwnedInit
<1>2. Lru /\ Owned /\ [Next]_vars => (Lru /\ Owned)'
  BY LruStep, OwnedStep
<1>3. Lru /\ Owned => RefsBalanced
  BY DEF Owned, Balance, Count, Uses, RefsBalanced
<1> QED
  BY <1>1, <1>2, <1>3, PTL DEF Spec

(* The contexts get() has returned are contexts. *)
FoundType == found \in SUBSET Ctxs

(* What a hit adds to them is the context of an entry. *)
LEMMA FoundStep ==
    ASSUME Lru, FoundType, [Next]_vars
    PROVE  FoundType'
<1>1. ASSUME NEW h \in Hosts, Get(h) PROVE FoundType'
  <2>1. h \in map /\ found' = found \cup {order[Pos(h)].ctx}
    BY <1>1 DEF Get, EntryOf
  <2>2. Pos(h) \in 1..Len(order) /\ order \in Seq(Entries)
    BY <2>1, PosOf DEF Lru, Data
  <2>3. order[Pos(h)] \in Entries
    BY <2>2, ElementOfSeq
  <2> QED
    BY <2>1, <2>3 DEF Entries, FoundType
<1>2. ASSUME NEW c \in Ctxs, New(c) \/ Use(c) \/ Free(c) PROVE FoundType'
  BY <1>2 DEF New, Use, Free, FoundType
<1>3. ASSUME NEW h \in Hosts, NEW c \in Ctxs, Put(h, c) PROVE FoundType'
  BY <1>3 DEF Put, FoundType
<1>4. CASE Destroy
  BY <1>4 DEF Destroy, FoundType
<1>5. CASE UNCHANGED vars
  BY <1>5 DEF vars, FoundType
<1> QED
  BY <1>1, <1>2, <1>3, <1>4, <1>5 DEF Next

(* The variables keep their domains: order_ never exceeds maxEntries_, and   *)
(* no reference count falls below zero, which OpenSSL would not survive.     *)
THEOREM TypeCorrect == Spec => []TypeOK
<1>1. Init => Lru /\ Owned /\ FoundType
  <2>1. Init => FoundType
    BY DEF Init, FoundType
  <2> QED
    BY <2>1, LruInit, OwnedInit
<1>2. Lru /\ Owned /\ FoundType /\ [Next]_vars => (Lru /\ Owned /\ FoundType)'
  BY LruStep, OwnedStep, FoundStep
<1>3. Lru /\ Owned /\ FoundType => TypeOK
  <2> SUFFICES ASSUME Lru, Owned, FoundType PROVE TypeOK
    OBVIOUS
  <2>1. Data /\ Len(order) \in Nat /\ Len(recency) \in Nat
    BY LenProperties DEF Lru, Data
  <2>2. Len(order) <= MaxEntries
    <3>1. CASE alive
      BY <2>1, <3>1, CertCacheAssumption DEF Lru, Kept
    <3>2. CASE ~alive
      <4>1. Len(order) = 0
        BY <3>2 DEF Lru
      <4> QED
        BY <4>1, CertCacheAssumption
    <3> QED
      BY <3>1, <3>2
  <2>3. refs \in [Ctxs -> Nat \cup {-1}]
    <3>1. ASSUME NEW c \in Ctxs PROVE refs[c] \in Nat \cup {-1}
      <4>1. held[c] \in Nat /\ refs[c] \in Int /\ Count(order, c) \in Nat
        BY <2>1, OwnedIsMade
      <4>2. Balance(c)
        BY DEF Owned
      <4> QED
        BY <4>1, <4>2 DEF Balance
    <3>2. refs \in [Ctxs -> Int]
      BY DEF Owned
    <3> QED
      BY <3>1, <3>2
  <2> QED
    BY <2>1, <2>2, <2>3 DEF TypeOK, Data, Owned, FoundType
<1> QED
  BY <1>1, <1>2, <1>3, PTL DEF Spec
=============================================================================

---------------------------- MODULE CommonLemmas ----------------------------
(***************************************************************************)
(* Facts about numbers, sets and sequences that the proofs of several      *)
(* components need.                                                        *)
(***************************************************************************)
EXTENDS Integers, FiniteSets, Sequences, FiniteSetsExt, SequencesExt, TLAPS,
        WellFoundedInduction, SequenceTheorems

\* Every set of naturals that is not empty has a least element: what stands
\* for induction here, by the least number that would be an exception.
LEMMA LeastNatural ==
    ASSUME NEW S, S \subseteq Nat, S # {}
    PROVE  \E x \in S : \A y \in S : x <= y
<1>1. IsWellFoundedOn(OpToRel(<, Nat), Nat)
  BY NatLessThanWellFounded
<1>2. PICK x \in S : \A y \in S : ~(<<y, x>> \in OpToRel(<, Nat))
  BY <1>1, WFMin
<1>3. \A y \in S : ~(y < x)
  BY <1>2 DEF OpToRel
<1> QED
  BY <1>3

\* Min of such a set is one of its elements, and the least.
LEMMA MinIsLeast ==
    ASSUME NEW S, S \subseteq Nat, S # {}
    PROVE  Min(S) \in S /\ \A y \in S : Min(S) <= y
BY LeastNatural DEF Min

\* An interval from 1 tells its bound.
LEMMA SameBound ==
    ASSUME NEW m \in Nat, NEW n \in Nat, 1..m = 1..n
    PROVE  m = n
<1>1. m > 0 => m \in 1..n
  <2>1. m > 0 => m \in 1..m
    OBVIOUS
  <2> QED BY <2>1
<1>2. n > 0 => n \in 1..m
  <2>1. n > 0 => n \in 1..n
    OBVIOUS
  <2> QED BY <2>1
<1> QED BY <1>1, <1>2

\* Induction up to a number, over a set.
LEMMA UpTo ==
    ASSUME NEW n \in Nat, NEW W, 0 \in W, \A k \in 1..n : k - 1 \in W => k \in W
    PROVE  0..n \subseteq W
<1> DEFINE wrong == {k \in 0..n : k \notin W}
<1>1. wrong = {}
  <2> SUFFICES ASSUME wrong # {} PROVE FALSE
    OBVIOUS
  <2>0. wrong \subseteq Nat
    OBVIOUS
  <2>1. PICK k \in wrong : \A m \in wrong : k <= m
    BY <2>0, LeastNatural
  <2>2. k # 0 /\ k \in 1..n /\ k - 1 \in W
    BY <2>1
  <2> QED BY <2>2
<1> QED BY <1>1

\* A sequence, of whatever elements.
IsSequence(s) == s \in Seq({s[k] : k \in DOMAIN s})

\* The empty sequence.
LEMMA EmptyIsSequence == IsSequence(<<>>)
BY DEF IsSequence

\* Append adds one element at the end and nothing else.
LEMMA AppendIsSequence ==
    ASSUME NEW s, IsSequence(s), NEW e
    PROVE  /\ IsSequence(Append(s, e))
           /\ Len(Append(s, e)) = Len(s) + 1
           /\ Append(s, e)[Len(s) + 1] = e
           /\ \A k \in DOMAIN s : Append(s, e)[k] = s[k]
           /\ DOMAIN s = 1..Len(s) /\ DOMAIN Append(s, e) = 1..(Len(s) + 1)
           /\ Len(s) \in Nat
<1> DEFINE S == {s[k] : k \in DOMAIN s} \cup {e}
           a == Append(s, e)
<1>1. s \in Seq(S)
  BY DEF IsSequence
<1> HIDE DEF S
<1>2. e \in S
  BY DEF S
<1>3. a \in Seq(S) /\ Len(a) = Len(s) + 1 /\ Len(s) \in Nat
  BY <1>1, <1>2
<1>4. a[Len(s) + 1] = e /\ \A k \in 1..Len(s) : a[k] = s[k]
  BY <1>1, <1>2
<1>5. DOMAIN s = 1..Len(s) /\ DOMAIN a = 1..(Len(s) + 1)
  BY <1>1, <1>3
<1>6. a \in [1..Len(a) -> S]
  BY <1>3, LenProperties
<1> DEFINE T == {a[k] : k \in DOMAIN a}
<1>7. a \in [1..Len(a) -> T]
  BY <1>6
<1>8. IsSequence(a)
  <2> HIDE DEF T, a
  <2>1. Seq(T) = UNION {[1..n -> T] : n \in Nat}
    BY SeqDef
  <2>2. a \in UNION {[1..n -> T] : n \in Nat}
    BY <1>3, <1>7
  <2>3. a \in Seq(T)
    BY <2>1, <2>2
  <2> QED
    BY <2>3 DEF IsSequence, T
<1> QED
  BY <1>3, <1>4, <1>5, <1>8

\* The elements of a sequence, whatever larger set they are taken from.
LEMMA SequenceOver ==
    ASSUME NEW S, NEW s \in Seq(S)
    PROVE  IsSequence(s)
<1> DEFINE T == {s[k] : k \in DOMAIN s}
<1>1. s \in [1..Len(s) -> S] /\ Len(s) \in Nat
  BY LenProperties
<1>2. s \in [1..Len(s) -> T]
  BY <1>1
<1> HIDE DEF T
<1>3. s \in UNION {[1..n -> T] : n \in Nat}
  BY <1>1, <1>2
<1>4. s \in Seq(T)
  BY <1>3, SeqDef
<1> QED
  BY <1>4 DEF IsSequence, T

\* A sequence is one over every set that has its elements.
LEMMA WiderSequence ==
    ASSUME NEW s, IsSequence(s), NEW S, {s[k] : k \in DOMAIN s} \subseteq S
    PROVE  s \in Seq(S)
<1> DEFINE T == {s[k] : k \in DOMAIN s}
<1>1. s \in Seq(T)
  BY DEF IsSequence
<1> HIDE DEF T
<1>2. s \in [1..Len(s) -> T] /\ Len(s) \in Nat
  BY <1>1, LenProperties
<1>3. T \subseteq S
  BY DEF T
<1>4. s \in [1..Len(s) -> S]
  BY <1>2, <1>3
<1>5. s \in UNION {[1..n -> S] : n \in Nat}
  BY <1>2, <1>4
<1> QED
  BY <1>5, SeqDef

\* Concatenation, with one element more at the end or without any.
LEMMA ConcatIsSequence ==
    ASSUME NEW a, NEW b, IsSequence(a), IsSequence(b), NEW e
    PROVE  /\ IsSequence(a \o b) /\ a \o <<>> = a
           /\ IsSequence(b \o <<e>>)
           /\ a \o (b \o <<e>>) = Append(a \o b, e)
           /\ (<<>> \o <<e>>) = <<e>>
<1> DEFINE S == {a[k] : k \in DOMAIN a} \cup {b[k] : k \in DOMAIN b} \cup {e}
<1>1. {a[k] : k \in DOMAIN a} \subseteq S /\ {b[k] : k \in DOMAIN b} \subseteq S /\ e \in S
  OBVIOUS
<1> HIDE DEF S
<1>2. a \in Seq(S) /\ b \in Seq(S) /\ <<e>> \in Seq(S)
  BY <1>1, WiderSequence
<1>3. a \o b \in Seq(S) /\ b \o <<e>> \in Seq(S)
  BY <1>2
<1>4. a \o <<>> = a /\ (<<>> \o <<e>>) = <<e>>
  BY <1>2, ConcatEmptySeq
<1>5. a \o (b \o <<e>>) = (a \o b) \o <<e>>
  BY <1>2, ConcatAssociative
<1>6. (a \o b) \o <<e>> = Append(a \o b, e)
  BY <1>1, <1>3, AppendIsConcat
<1> QED
  BY <1>3, <1>4, <1>5, <1>6, SequenceOver

\* Concatenation, place by place.
LEMMA ConcatElements ==
    ASSUME NEW a, NEW b, IsSequence(a), IsSequence(b)
    PROVE  /\ IsSequence(a \o b) /\ Len(a) \in Nat /\ Len(b) \in Nat
           /\ DOMAIN a = 1..Len(a) /\ DOMAIN b = 1..Len(b)
           /\ DOMAIN (a \o b) = 1..(Len(a) + Len(b))
           /\ \A k \in 1..Len(a) : (a \o b)[k] = a[k]
           /\ \A k \in 1..Len(b) : (a \o b)[Len(a) + k] = b[k]
<1> DEFINE S == {a[k] : k \in DOMAIN a} \cup {b[k] : k \in DOMAIN b}
<1>1. {a[k] : k \in DOMAIN a} \subseteq S /\ {b[k] : k \in DOMAIN b} \subseteq S
  OBVIOUS
<1> HIDE DEF S
<1>2. a \in Seq(S) /\ b \in Seq(S)
  BY <1>1, WiderSequence
<1>3. a \o b \in Seq(S) /\ Len(a) \in Nat /\ Len(b) \in Nat
      /\ DOMAIN a = 1..Len(a) /\ DOMAIN b = 1..Len(b)
      /\ Len(a \o b) = Len(a) + Len(b)
  BY <1>2
<1>4. \A k \in 1..Len(a) + Len(b) :
        (a \o b)[k] = IF k <= Len(a) THEN a[k] ELSE b[k - Len(a)]
  BY <1>2
<1>5. DOMAIN (a \o b) = 1..(Len(a) + Len(b))
  BY <1>3
<1>6. IsSequence(a \o b)
  BY <1>3, SequenceOver
<1>7. \A k \in 1..Len(a) : (a \o b)[k] = a[k]
  BY <1>3, <1>4
<1>8. \A k \in 1..Len(b) : (a \o b)[Len(a) + k] = b[k]
  BY <1>3, <1>4
<1> QED BY <1>3, <1>5, <1>6, <1>7, <1>8

\* The sequence with a given element at each place up to n.
LEMMA ListIsSequence ==
    ASSUME NEW n \in Nat, NEW f, f = [k \in 1..n |-> f[k]]
    PROVE  IsSequence(f) /\ Len(f) = n /\ DOMAIN f = 1..n
<1> DEFINE S == {f[k] : k \in 1..n}
<1>1. f \in [1..n -> S] /\ DOMAIN f = 1..n
  OBVIOUS
<1> HIDE DEF S
<1>2. f \in UNION {[1..m -> S] : m \in Nat}
  BY <1>1
<1>3. f \in Seq(S)
  BY <1>2, SeqDef
<1>4. Len(f) \in Nat /\ 1..Len(f) = 1..n
  BY <1>1, <1>3, LenProperties
<1>5. Len(f) = n
  BY <1>4, SameBound
<1> QED BY <1>1, <1>3, <1>5, SequenceOver

\* A part of a sequence, place by place.
LEMMA PartOfSequence ==
    ASSUME NEW s, IsSequence(s), NEW m \in Nat, NEW n \in Nat, m <= n, n <= Len(s)
    PROVE  LET t == SubSeq(s, m + 1, n)
           IN  /\ IsSequence(t) /\ Len(t) = n - m /\ DOMAIN t = 1..(n - m)
               /\ \A k \in 1..(n - m) : t[k] = s[m + k]
<1> DEFINE S == {s[k] : k \in DOMAIN s}
           t == SubSeq(s, m + 1, n)
<1>1. s \in Seq(S)
  BY DEF IsSequence
<1>2. DOMAIN s = 1..Len(s) /\ Len(s) \in Nat
  BY <1>1
<1>3. \A k \in (m + 1)..n : s[k] \in S
  BY <1>2
<1> HIDE DEF S
<1>4. /\ t \in Seq(S) /\ Len(t) = IF m + 1 <= n THEN n - (m + 1) + 1 ELSE 0
      /\ \A k \in 1..(n - (m + 1) + 1) : t[k] = s[m + 1 + k - 1]
  BY <1>3, SubSeqProperties
<1> HIDE DEF t
<1>5. Len(t) = n - m
  BY <1>4
<1>6. \A k \in 1..(n - m) : t[k] = s[m + k]
  <2> SUFFICES ASSUME NEW k \in 1..(n - m) PROVE t[k] = s[m + k]
    OBVIOUS
  <2>1. k \in 1..(n - (m + 1) + 1) /\ m + 1 + k - 1 = m + k
    OBVIOUS
  <2> QED BY <1>4, <2>1
<1>7. DOMAIN t = 1..(n - m)
  BY <1>4, <1>5
<1> QED BY <1>4, <1>5, <1>6, <1>7, SequenceOver DEF t

\* FlattenSeq, as an equation of what it gives for the first elements.
FlatNext(f, s, i) == IF i = 1 THEN s[i] ELSE f[i - 1] \o s[i]

\* It has a solution.
LEMMA FlatteningExists ==
    ASSUME NEW s, NEW n \in Nat
    PROVE  \E f : f = [i \in 1..n |-> FlatNext(f, s, i)]
<1> DEFINE Upto(m) == \E f : f = [i \in 1..m |-> FlatNext(f, s, i)]
           W == {m \in 0..n : Upto(m)}
<1>1. 0 \in W
  <2> DEFINE f == [i \in 1..0 |-> 0]
  <2>1. \A i \in 1..0 : FALSE
    OBVIOUS
  <2>2. f = [i \in 1..0 |-> FlatNext(f, s, i)]
    BY <2>1, Zenon
  <2>3. Upto(0)
    BY <2>2
  <2>4. 0 \in 0..n
    OBVIOUS
  <2> HIDE DEF f, Upto
  <2> QED BY <2>3, <2>4
<1>2. ASSUME NEW k \in 1..n, k - 1 \in W PROVE k \in W
  <2>1. PICK g : g = [i \in 1..(k - 1) |-> FlatNext(g, s, i)]
    BY <1>2
  <2> DEFINE h == [i \in 1..k |-> IF i = k THEN FlatNext(g, s, k) ELSE g[i]]
  <2>2. \A i \in 1..(k - 1) : h[i] = g[i]
    OBVIOUS
  <2>3. h = [i \in 1..k |-> IF i = k THEN FlatNext(g, s, k) ELSE g[i]]
    OBVIOUS
  <2> HIDE DEF h
  <2>4. ASSUME NEW i \in 1..k PROVE FlatNext(h, s, i) = FlatNext(g, s, i)
    <3>1. CASE i = 1
      BY <3>1 DEF FlatNext
    <3>2. CASE i # 1
      <4>1. h[i - 1] = g[i - 1]
        BY <2>2, <3>2
      <4> QED BY <4>1 DEF FlatNext
    <3> QED BY <3>1, <3>2
  <2>5. \A i \in 1..(k - 1) : g[i] = FlatNext(g, s, i)
    BY <2>1
  <2>6. \A i \in 1..k : (IF i = k THEN FlatNext(g, s, k) ELSE g[i]) = FlatNext(h, s, i)
    BY <2>4, <2>5
  <2>7. h = [i \in 1..k |-> FlatNext(h, s, i)]
    BY <2>3, <2>6, Zenon
  <2>8. Upto(k)
    BY <2>7, Zenon
  <2> QED BY <2>8
<1> HIDE DEF W
<1>3. 0..n \subseteq W
  BY <1>1, <1>2, UpTo
<1> QED BY <1>3 DEF W

\* FlattenSeq adds one element of the sequence after the other.
LEMMA FlatteningSteps ==
    ASSUME NEW s, NEW n \in Nat, n > 0, Len(s) = n
    PROVE  \E f : f = [i \in 1..n |-> FlatNext(f, s, i)] /\ FlattenSeq(s) = f[n]
<1> DEFINE f == CHOOSE g : g = [i \in 1..n |-> FlatNext(g, s, i)]
<1>1. f = [i \in 1..n |-> FlatNext(f, s, i)]
  BY FlatteningExists, Zenon
<1>2. FlattenSeq(s) = f[n]
  <2>1. n # 0
    OBVIOUS
  <2> QED BY <2>1, Zenon DEF FlattenSeq, FlatNext
<1> QED BY <1>1, <1>2

\* FlattenSeq of one sequence.
LEMMA FlattenOne ==
    ASSUME NEW s, Len(s) = 1
    PROVE  FlattenSeq(s) = s[1]
<1>0. 1 \in Nat /\ 1 > 0
  OBVIOUS
<1>1. PICK f : f = [i \in 1..1 |-> FlatNext(f, s, i)] /\ FlattenSeq(s) = f[1]
  BY <1>0, FlatteningSteps
<1>2. f[1] = FlatNext(f, s, 1)
  BY <1>1
<1> QED BY <1>1, <1>2 DEF FlatNext

\* FlattenSeq of one sequence more.
LEMMA FlattenMore ==
    ASSUME NEW s, NEW t, NEW n \in Nat, n > 0, Len(s) = n, Len(t) = n + 1,
           \A k \in 1..n : t[k] = s[k]
    PROVE  FlattenSeq(t) = FlattenSeq(s) \o t[n + 1]
<1>1. PICK f : f = [i \in 1..n |-> FlatNext(f, s, i)] /\ FlattenSeq(s) = f[n]
  BY FlatteningSteps
<1>2. n + 1 \in Nat /\ n + 1 > 0
  OBVIOUS
<1>3. PICK g : g = [i \in 1..(n + 1) |-> FlatNext(g, t, i)] /\ FlattenSeq(t) = g[n + 1]
  BY <1>2, FlatteningSteps
<1> DEFINE W == {k \in 0..n : k > 0 => f[k] = g[k]}
<1>4. 0 \in W
  OBVIOUS
<1>5. ASSUME NEW k \in 1..n, k - 1 \in W PROVE k \in W
  <2>1. f[k] = FlatNext(f, s, k) /\ g[k] = FlatNext(g, t, k)
    BY <1>1, <1>3
  <2>2. CASE k = 1
    BY <2>1, <2>2 DEF FlatNext
  <2>3. CASE k # 1
    <3>1. f[k - 1] = g[k - 1]
      BY <1>5, <2>3
    <3>2. f[k] = f[k - 1] \o s[k] /\ g[k] = g[k - 1] \o t[k]
      BY <2>1, <2>3 DEF FlatNext
    <3>3. f[k] = g[k]
      BY <3>1, <3>2
    <3> QED BY <3>3
  <2> QED BY <2>2, <2>3
<1> HIDE DEF W
<1>6. n \in W
  <2>1. 0..n \subseteq W
    BY <1>4, <1>5, UpTo
  <2> QED BY <2>1
<1>7. f[n] = g[n]
  BY <1>6 DEF W
<1>8. g[n + 1] = g[n] \o t[n + 1]
  <2>1. g[n + 1] = FlatNext(g, t, n + 1) /\ n + 1 # 1 /\ (n + 1) - 1 = n
    BY <1>3
  <2>2. FlatNext(g, t, n + 1) = g[(n + 1) - 1] \o t[n + 1]
    BY <2>1, Zenon DEF FlatNext
  <2> QED BY <2>1, <2>2, Zenon
<1> QED BY <1>1, <1>3, <1>7, <1>8

\* Sequences with the same elements are the same.
LEMMA SamePlaces ==
    ASSUME NEW a, NEW b, IsSequence(a), IsSequence(b), Len(a) = Len(b),
           \A k \in 1..Len(a) : a[k] = b[k]
    PROVE  a = b
<1> DEFINE S == {a[k] : k \in DOMAIN a}
           T == {b[k] : k \in DOMAIN b}
<1>1. a \in Seq(S) /\ b \in Seq(T)
  BY DEF IsSequence
<1> HIDE DEF S, T
<1>2. a \in [1..Len(a) -> S] /\ b \in [1..Len(a) -> T]
  BY <1>1, LenProperties
<1> QED BY <1>2
=============================================================================

-------------------------- MODULE WorkerPoolProofs --------------------------
(***************************************************************************)
(* Proofs about the parse phase, for any files, batches, number of threads *)
(* and files per message, whatever the threads do.                         *)
(***************************************************************************)
EXTENDS WorkerPool, SequenceTheorems, WellFoundedInduction, TLAPS

-----------------------------------------------------------------------------
(* Natural numbers *)

LEMMA Least ==
  ASSUME NEW S \in SUBSET Nat, S # {}
  PROVE  \E n \in S : \A m \in S : n <= m
  <1> DEFINE R == OpToRel(<, Nat)
  <1>1. IsWellFoundedOn(R, Nat)
    BY NatLessThanWellFounded
  <1>2. R = {ss \in Nat \X Nat : ss[1] < ss[2]}
    BY DEF OpToRel
  <1> HIDE DEF R
  <1>3. PICK n \in S : \A m \in S : ~(<<m, n>> \in R)
    BY <1>1, WFMin
  <1>4. \A m \in S : ~(m < n)
    BY <1>2, <1>3
  <1> QED
    BY <1>4

\* Induction up to N: what holds at 0 and is handed on holds everywhere.
LEMMA InductionUpTo ==
  ASSUME NEW N \in Nat, NEW S, 0 \in S,
         \A n \in 0..(N - 1) : n \in S => n + 1 \in S
  PROVE  \A n \in 0..N : n \in S
  <1> SUFFICES ASSUME NEW k \in 0..N, k \notin S PROVE FALSE
    OBVIOUS
  <1> DEFINE T == {n \in 0..N : n \notin S}
  <1>1. T \in SUBSET Nat /\ k \in T
    OBVIOUS
  <1>2. PICK n \in T : \A m \in T : n <= m
    BY <1>1, Least
  <1>3. n # 0 /\ n - 1 \in 0..(N - 1) /\ ~(n <= n - 1) /\ (n - 1) + 1 = n
    BY <1>2
  <1>4. n - 1 \in S
    BY <1>2, <1>3
  <1> QED
    BY <1>2, <1>3, <1>4

\* What is left over after n parts of size d is nothing.
LEMMA CeilingIs ==
  ASSUME NEW n \in Nat, NEW d \in Nat \ {0}
  PROVE  Ceiling(n, d) \in Nat /\ n <= Ceiling(n, d) * d
  BY DEF Ceiling

LEMMA CeilingLeast ==
  ASSUME NEW n \in Nat, NEW d \in Nat \ {0}, NEW k \in Nat, k * d < n
  PROVE  k < Ceiling(n, d)
  BY DEF Ceiling

LEMMA CeilingBounded ==
  ASSUME NEW n \in Nat, NEW d \in Nat \ {0}
  PROVE  Ceiling(n, d) <= n
  BY DEF Ceiling

-----------------------------------------------------------------------------
(* Sequences *)

\* f holds the concatenations of the first sequences of s.
Joins(f, s, N) ==
  /\ f[0] = <<>>
  /\ \A k \in 1..N : f[k] = f[k - 1] \o s[k]

LEMMA JoinsExists ==
  ASSUME NEW A, NEW N \in Nat, NEW s \in [1..N -> Seq(A)]
  PROVE  \E f \in [0..N -> Seq(A)] : Joins(f, s, N)
  <1> DEFINE S == {n \in Nat : \E f \in [0..n -> Seq(A)] : Joins(f, s, n)}
  <1>1. 0 \in S
    <2> DEFINE g == [k \in 0..0 |-> <<>>]
    <2>1. g \in [0..0 -> Seq(A)]
      OBVIOUS
    <2>2. Joins(g, s, 0)
      BY DEF Joins
    <2> HIDE DEF g
    <2> QED
      BY <2>1, <2>2
  <1>2. ASSUME NEW n \in 0..(N - 1), n \in S
        PROVE  n + 1 \in S
    <2>1. PICK f \in [0..n -> Seq(A)] : Joins(f, s, n)
      BY <1>2
    <2> DEFINE g == [k \in 0..(n + 1) |-> IF k <= n THEN f[k] ELSE f[n] \o s[n + 1]]
    <2>2. n \in 0..n /\ f[n] \in Seq(A) /\ n + 1 \in 1..N /\ s[n + 1] \in Seq(A)
      OBVIOUS
    <2>3. f[n] \o s[n + 1] \in Seq(A)
      BY <2>2
    <2>4. g \in [0..(n + 1) -> Seq(A)]
      BY <2>3
    <2>5. g[0] = <<>>
      BY <2>1 DEF Joins
    <2>6. ASSUME NEW k \in 1..(n + 1)
          PROVE  g[k] = g[k - 1] \o s[k]
      <3>1. CASE k <= n
        <4>1. g[k] = f[k] /\ g[k - 1] = f[k - 1]
          BY <3>1
        <4>2. k \in 1..n
          BY <3>1
        <4>3. f[k] = f[k - 1] \o s[k]
          BY <2>1, <4>2 DEF Joins
        <4> QED
          BY <4>1, <4>3
      <3>2. CASE k = n + 1
        <4>1. g[k] = f[n] \o s[n + 1] /\ g[k - 1] = f[n]
          BY <3>2
        <4> QED
          BY <4>1, <3>2
      <3>3. k <= n \/ k = n + 1
        OBVIOUS
      <3> HIDE DEF g
      <3> QED
        BY <3>1, <3>2, <3>3
    <2>7. Joins(g, s, n + 1)
      BY <2>5, <2>6 DEF Joins
    <2>8. n + 1 \in Nat
      OBVIOUS
    <2> HIDE DEF g
    <2> QED
      BY <2>4, <2>7, <2>8
  <1> HIDE DEF S
  <1>3. \A n \in 0..N : n \in S
    BY <1>1, <1>2, InductionUpTo
  <1>4. N \in S
    BY <1>3
  <1> QED
    BY <1>4 DEF S

LEMMA FlattenIsJoin ==
  ASSUME NEW A, NEW s \in Seq(Seq(A)), NEW N \in Nat, N = Len(s),
         NEW f \in [0..N -> Seq(A)], Joins(f, s, N)
  PROVE  FlattenSeq(s) = f[N]
  <1>1. CASE N = 0
    <2>1. s = <<>>
      BY <1>1, EmptySeq
    <2> QED
      BY <1>1, <2>1 DEF FlattenSeq, Joins
  <1>2. CASE N # 0
    <2> DEFINE Step(g) == [i \in 1..N |-> IF i = 1 THEN s[i] ELSE g[i - 1] \o s[i]]
               flatten == CHOOSE g : g = Step(g)
               h == [i \in 1..N |-> f[i]]
    <2>1. FlattenSeq(s) = flatten[N]
      BY <1>2 DEF FlattenSeq
    <2>2. f[1] = f[0] \o s[1] /\ f[0] = <<>> /\ s[1] \in Seq(A)
      <3>1. 1 \in 1..N /\ 1 - 1 = 0
        BY <1>2
      <3> QED
        BY <3>1, ElementOfSeq DEF Joins
    <2>3. f[1] = s[1]
      BY <2>2, ConcatEmptySeq
    <2>4. h = Step(h)
      <3>1. ASSUME NEW i \in 1..N
            PROVE  f[i] = IF i = 1 THEN s[i] ELSE h[i - 1] \o s[i]
        <4>1. CASE i = 1
          BY <2>3, <4>1
        <4>2. CASE i # 1
          <5>1. i - 1 \in 1..N
            BY <4>2
          <5>2. h[i - 1] = f[i - 1]
            BY <5>1
          <5>3. f[i] = f[i - 1] \o s[i]
            BY DEF Joins
          <5> QED
            BY <4>2, <5>2, <5>3
        <4> QED
          BY <4>1, <4>2
      <3> QED
        BY <3>1
    <2>5. flatten = Step(flatten)
      BY <2>4
    <2> HIDE DEF flatten, h
    <2> DEFINE S == {k \in Nat : k \in 1..N => flatten[k] = f[k]}
    <2>6. 0 \in S
      OBVIOUS
    <2>7. ASSUME NEW k \in 0..(N - 1), k \in S
          PROVE  k + 1 \in S
      <3>1. k + 1 \in 1..N /\ k + 1 \in Nat /\ (k + 1) - 1 = k
        OBVIOUS
      <3>2. flatten[k + 1] = IF k + 1 = 1 THEN s[k + 1] ELSE flatten[(k + 1) - 1] \o s[k + 1]
        BY <2>5, <3>1
      <3>3. f[k + 1] = f[k] \o s[k + 1]
        BY <3>1 DEF Joins
      <3>4. CASE k = 0
        BY <2>3, <3>1, <3>2, <3>4
      <3>5. CASE k # 0
        <4>1. flatten[k] = f[k]
          BY <2>7, <3>5
        <4>2. k + 1 # 1
          BY <3>5
        <4>3. flatten[k + 1] = f[k] \o s[k + 1]
          BY <3>1, <3>2, <4>1, <4>2
        <4> QED
          BY <3>1, <3>3, <4>3
      <3> QED
        BY <3>4, <3>5
    <2> HIDE DEF S
    <2>8. \A k \in 0..N : k \in S
      BY <2>6, <2>7, InductionUpTo
    <2>9. N \in S /\ N \in 1..N
      BY <1>2, <2>8
    <2> QED
      BY <2>1, <2>9 DEF S
  <1> QED
    BY <1>1, <1>2

\* What FlattenSeq returns for nothing and for one sequence more.
LEMMA FlattenNothing == FlattenSeq(<<>>) = <<>>
  BY DEF FlattenSeq

LEMMA FlattenOneMore ==
  ASSUME NEW A, NEW s \in Seq(Seq(A)), NEW k \in 1..Len(s)
  PROVE  /\ FlattenSeq(SubSeq(s, 1, k)) = FlattenSeq(SubSeq(s, 1, k - 1)) \o s[k]
         /\ FlattenSeq(SubSeq(s, 1, k)) \in Seq(A)
         /\ FlattenSeq(SubSeq(s, 1, k - 1)) \in Seq(A)
  <1> DEFINE N == Len(s)
  <1>1. N \in Nat /\ s \in [1..N -> Seq(A)]
    BY LenProperties
  <1> HIDE DEF N
  <1>2. PICK f \in [0..N -> Seq(A)] : Joins(f, s, N)
    BY <1>1, JoinsExists
  <1>3. ASSUME NEW n \in 0..N
        PROVE  FlattenSeq(SubSeq(s, 1, n)) = f[n]
    <2> DEFINE t == SubSeq(s, 1, n)
               g == [i \in 0..n |-> f[i]]
    <2>1. t \in Seq(Seq(A)) /\ Len(t) = n /\ \A i \in 1..n : t[i] = s[i]
      <3>1. \A i \in 1..n : s[i] \in Seq(A)
        BY <1>1
      <3>2. n \in Int /\ n - 1 + 1 = n /\ \A i \in 1..n : 1 + i - 1 = i
        BY <1>1
      <3> HIDE DEF t
      <3>3. /\ t \in Seq(Seq(A))
            /\ Len(t) = IF 1 <= n THEN n - 1 + 1 ELSE 0
            /\ \A i \in 1..(n - 1 + 1) : t[i] = s[1 + i - 1]
        BY <3>1, <3>2, SubSeqProperties DEF t
      <3> QED
        BY <1>1, <3>2, <3>3
    <2>2. g \in [0..n -> Seq(A)]
      BY <1>1
    <2>3. Joins(g, t, n)
      <3>1. ASSUME NEW i \in 1..n
            PROVE  g[i] = g[i - 1] \o t[i]
        <4>1. i \in 1..N /\ i \in 0..n /\ i - 1 \in 0..n
          BY <1>1
        <4>2. f[i] = f[i - 1] \o s[i]
          BY <1>2, <4>1 DEF Joins
        <4>3. g[i] = f[i] /\ g[i - 1] = f[i - 1]
          BY <4>1
        <4> QED
          BY <2>1, <4>2, <4>3
      <3>2. g[0] = <<>>
        BY <1>1, <1>2 DEF Joins
      <3> QED
        BY <3>1, <3>2 DEF Joins
    <2>4. g[n] = f[n] /\ n \in Nat
      BY <1>1
    <2> HIDE DEF t, g
    <2>5. FlattenSeq(t) = g[n]
      BY <2>1, <2>2, <2>3, <2>4, FlattenIsJoin
    <2> QED
      BY <2>4, <2>5 DEF t
  <1>4. f[k] = f[k - 1] \o s[k] /\ k - 1 \in 0..N /\ k \in 0..N /\ f[k] \in Seq(A) /\ f[k - 1] \in Seq(A)
    <2>1. k \in 1..N
      BY DEF N
    <2>2. k - 1 \in 0..N /\ k \in 0..N
      BY <1>1, <2>1
    <2>3. f[k] = f[k - 1] \o s[k]
      BY <1>2, <2>1 DEF Joins
    <2> QED
      BY <2>2, <2>3
  <1> QED
    BY <1>3, <1>4

LEMMA FlattenIsSeq ==
  ASSUME NEW A, NEW s \in Seq(Seq(A))
  PROVE  FlattenSeq(s) \in Seq(A)
  <1>1. CASE s = <<>>
    BY <1>1, FlattenNothing, EmptySeq
  <1>2. CASE s # <<>>
    <2>1. Len(s) \in 1..Len(s) /\ SubSeq(s, 1, Len(s)) = s
      BY <1>2, EmptySeq, SubSeqFull
    <2> QED
      BY <2>1, FlattenOneMore
  <1> QED
    BY <1>1, <1>2

\* No part is longer than the whole.
LEMMA FlattenIsLonger ==
  ASSUME NEW A, NEW s \in Seq(Seq(A)), NEW k \in 1..Len(s)
  PROVE  Len(s[k]) <= Len(FlattenSeq(s))
  <1> DEFINE L(n) == Len(FlattenSeq(SubSeq(s, 1, n)))
             N == Len(s)
             S == {n \in Nat : n \in k..N => Len(s[k]) <= L(n)}
  <1>0. N \in Nat /\ \A n \in 1..N : s[n] \in Seq(A) /\ Len(s[n]) \in Nat
    BY LenProperties
  <1>1. \A n \in 1..N : L(n) = L(n - 1) + Len(s[n]) /\ L(n - 1) \in Nat /\ L(n) \in Nat
    <2> SUFFICES ASSUME NEW n \in 1..N
                 PROVE  L(n) = L(n - 1) + Len(s[n]) /\ L(n - 1) \in Nat /\ L(n) \in Nat
      OBVIOUS
    <2>1. /\ FlattenSeq(SubSeq(s, 1, n)) = FlattenSeq(SubSeq(s, 1, n - 1)) \o s[n]
          /\ FlattenSeq(SubSeq(s, 1, n)) \in Seq(A)
          /\ FlattenSeq(SubSeq(s, 1, n - 1)) \in Seq(A)
      BY FlattenOneMore
    <2>2. s[n] \in Seq(A)
      BY <1>0
    <2> QED
      BY <2>1, <2>2, ConcatProperties, LenProperties
  <1> HIDE DEF L
  <1>2. 0 \in S
    OBVIOUS
  <1>3. ASSUME NEW n \in 0..(N - 1), n \in S
        PROVE  n + 1 \in S
    <2>1. n + 1 \in 1..N /\ (n + 1) - 1 = n
      BY <1>0
    <2>2. L(n + 1) = L(n) + Len(s[n + 1]) /\ L(n) \in Nat
      BY <1>1, <2>1
    <2>3. Len(s[n + 1]) \in Nat
      BY <1>0, <2>1
    <2>4. CASE n + 1 = k
      BY <1>0, <2>2, <2>3, <2>4
    <2>5. CASE n + 1 > k
      <3>1. Len(s[k]) <= L(n)
        BY <1>0, <1>3, <2>5
      <3> QED
        BY <1>0, <2>2, <2>3, <3>1
    <2>6. CASE n + 1 < k
      BY <1>0, <2>6
    <2> HIDE DEF S
    <2> QED
      BY <1>0, <2>4, <2>5, <2>6
  <1>4. N \in S
    <2> HIDE DEF S
    <2>1. \A n \in 0..N : n \in S
      BY <1>0, <1>2, <1>3, InductionUpTo
    <2> QED
      BY <1>0, <2>1
  <1>5. Len(s[k]) <= L(N)
    BY <1>0, <1>4
  <1> QED
    BY <1>5, SubSeqFull DEF L

-----------------------------------------------------------------------------
(* Slices: a list that is cut into slices of one size is their concatenation. *)

\* What the first n slices hold.
Upto(s, size, n) == SubSeq(s, 1, IF n * size < Len(s) THEN n * size ELSE Len(s))

LEMMA UptoAll ==
  ASSUME NEW A, NEW s \in Seq(A), NEW size \in Nat, NEW n \in Nat, Len(s) <= n * size
  PROVE  Upto(s, size, n) = s
  <1>1. Len(s) \in Nat /\ n * size \in Nat
    OBVIOUS
  <1>2. ~(n * size < Len(s))
    BY <1>1
  <1> QED
    BY <1>2, SubSeqFull DEF Upto

LEMMA UptoNone ==
  ASSUME NEW A, NEW s \in Seq(A), NEW size \in Nat
  PROVE  Upto(s, size, 0) = <<>>
  <1>1. Len(s) \in Nat /\ 0 * size = 0
    OBVIOUS
  <1>2. (IF 0 * size < Len(s) THEN 0 * size ELSE Len(s)) = 0
    BY <1>1
  <1> QED
    BY <1>2, SubSeqEmpty DEF Upto

LEMMA SliceIs ==
  ASSUME NEW A, NEW s \in Seq(A), NEW size \in Nat, NEW i \in Nat \ {0},
         size # 0 \/ Len(s) = 0
  PROVE  /\ Slice(s, size, i) \in Seq(A)
         /\ Len(Slice(s, size, i)) <= Len(s)
         /\ Slice(s, size, i) = <<>> <=> Len(s) <= (i - 1) * size
         /\ Upto(s, size, i) = Upto(s, size, i - 1) \o Slice(s, size, i)
         /\ Upto(s, size, i) \in Seq(A)
  <1> DEFINE a == (i - 1) * size
             b == i * size
             N == Len(s)
             top == IF b < N THEN b ELSE N
             bottom == IF a < N THEN a ELSE N
  <1>1. a \in Nat /\ b \in Nat /\ N \in Nat /\ (N = 0 \/ a < b)
    OBVIOUS
  <1>2. Slice(s, size, i) = SubSeq(s, a + 1, top)
    BY DEF Slice
  <1>3. Upto(s, size, i) = SubSeq(s, 1, top) /\ Upto(s, size, i - 1) = SubSeq(s, 1, bottom)
    BY DEF Upto
  <1>4. \A k \in 1..N : s[k] \in A
    OBVIOUS
  <1>5. N = Len(s)
    OBVIOUS
  <1> HIDE DEF a, b, N
  <1>6. top \in 0..N /\ bottom \in 0..N
    BY <1>1
  <1>7. SubSeq(s, 1, top) \in Seq(A) /\ SubSeq(s, 1, bottom) \in Seq(A)
    BY <1>1, <1>4, <1>6, SubSeqProperties
  <1>8. CASE a < N
    <2>1. bottom = a /\ a + 1 <= top /\ a + 1 \in Int /\ top \in Int
      BY <1>1, <1>8
    <2>2. \A k \in (a + 1)..top : s[k] \in A
      BY <1>1, <1>4
    <2> HIDE DEF top, bottom
    <2>3. SubSeq(s, a + 1, top) \in Seq(A) /\ Len(SubSeq(s, a + 1, top)) = top - (a + 1) + 1
      BY <2>1, <2>2, SubSeqProperties
    <2>4. Len(SubSeq(s, a + 1, top)) > 0 /\ Len(SubSeq(s, a + 1, top)) <= N
      BY <1>1, <1>6, <2>1, <2>3
    <2>5. SubSeq(s, a + 1, top) # <<>>
      <3>1. Len(<<>>) = 0
        BY EmptySeq
      <3>2. Len(<<>>) > 0 => FALSE
        BY <3>1
      <3> QED
        BY <2>4, <3>2
    <2>6. SubSeq(s, 1, a) \o SubSeq(s, a + 1, top) = SubSeq(s, 1, top)
      <3>1. 1 \in 1..(Len(s) + 1) /\ a \in (1 - 1)..Len(s) /\ top \in a..Len(s)
        BY <1>1, <1>5, <1>6, <1>8, <2>1
      <3> QED
        BY <3>1, ConcatAdjacentSubSeq
    <2>7. ~(N <= a)
      BY <1>1, <1>8
    <2> QED
      BY <1>2, <1>3, <1>5, <1>7, <2>1, <2>3, <2>4, <2>5, <2>6, <2>7 DEF a
  <1>9. CASE N <= a
    <2>1. top = N /\ bottom = N /\ N < a + 1 /\ a + 1 \in Int
      BY <1>1, <1>9
    <2> HIDE DEF top, bottom
    <2>2. SubSeq(s, a + 1, top) = <<>>
      BY <1>1, <2>1, SubSeqEmpty
    <2>3. SubSeq(s, 1, top) \o <<>> = SubSeq(s, 1, top)
      BY <1>7, ConcatEmptySeq
    <2>4. Len(<<>>) <= N
      BY <1>1, EmptySeq
    <2>5. <<>> \in Seq(A)
      BY EmptySeq
    <2> QED
      BY <1>2, <1>3, <1>5, <1>7, <1>9, <2>1, <2>2, <2>3, <2>4, <2>5 DEF a
  <1> QED
    BY <1>1, <1>8, <1>9

LEMMA SlicesJoin ==
  ASSUME NEW A, NEW s \in Seq(A), NEW size \in Nat, NEW n \in Nat,
         Len(s) <= n * size, size # 0 \/ Len(s) = 0
  PROVE  FlattenSeq([i \in 1..n |-> Slice(s, size, i)]) = s
  <1> DEFINE c == [i \in 1..n |-> Slice(s, size, i)]
             S == {k \in Nat : FlattenSeq(SubSeq(c, 1, k)) = Upto(s, size, k)}
  <1>1. c \in Seq(Seq(A)) /\ Len(c) = n
    <2>1. \A i \in 1..n : Slice(s, size, i) \in Seq(A)
      BY SliceIs
    <2> QED
      BY <2>1
  <1>2. \A i \in 1..n : c[i] = Slice(s, size, i)
    OBVIOUS
  <1> HIDE DEF c
  <1>3. 0 \in S
    <2>1. SubSeq(c, 1, 0) = <<>>
      BY SubSeqEmpty
    <2>2. Upto(s, size, 0) = <<>>
      BY UptoNone
    <2> QED
      BY <2>1, <2>2, FlattenNothing
  <1>4. ASSUME NEW k \in 0..(n - 1), k \in S
        PROVE  k + 1 \in S
    <2>1. k + 1 \in 1..n /\ (k + 1) - 1 = k /\ k + 1 \in Nat \ {0}
      OBVIOUS
    <2>2. FlattenSeq(SubSeq(c, 1, k + 1)) = FlattenSeq(SubSeq(c, 1, k)) \o c[k + 1]
      BY <1>1, <2>1, FlattenOneMore
    <2>3. Upto(s, size, k + 1) = Upto(s, size, k) \o Slice(s, size, k + 1)
      BY <2>1, SliceIs
    <2> QED
      BY <1>2, <1>4, <2>1, <2>2, <2>3
  <1> HIDE DEF S
  <1>5. \A k \in 0..n : k \in S
    BY <1>3, <1>4, InductionUpTo
  <1>6. n \in S
    BY <1>5
  <1>7. SubSeq(c, 1, n) = c
    BY <1>1, SubSeqFull
  <1>8. FlattenSeq(c) = s
    BY <1>6, <1>7, UptoAll DEF S
  <1> QED
    BY <1>8 DEF c

-----------------------------------------------------------------------------
(* The inductive invariant *)

FileLists == Seq(Files)
States == {"none", "waiting", "resolved", "rejected", "timed out"}
ToThread == {Flush} \cup [type : {"sub-batch"}, files : FileLists]
FromThread ==
  [type : {"sub-batch-done", "error", "died", "exit"}] \cup [type : {"result"}, files : FileLists]

Types ==
  /\ main \in [pc : {"next", "wait", "terminate", "sequential", "done", "crashed"},
               batch : 1..(Len(Batches) + 1), pool : BOOLEAN]
  /\ graph \in FileLists
  /\ chunk \in [Workers -> [state : States, sent : Nat, files : FileLists]]
  /\ worker \in [Workers -> [up : BOOLEAN, inbox : Seq(ToThread), acc : FileLists,
                             out : Seq(FromThread)]]

\* The batches without a pool, and the end, come when every thread is gone.
Alone == main.pc \in {"sequential", "done"} \/ (main.pc = "next" /\ ~main.pool)

MainOK ==
  /\ main.pc \in {"wait", "terminate", "sequential"} => main.pool /\ main.batch <= Len(Batches)
  /\ main.pc = "next" /\ main.pool => chunk = [w \in Workers |-> NoChunk]
  /\ Alone => \A w \in Workers : ~worker[w].up

\* As long as nothing has failed, a chunk that is not waited for has its result.
ChunkOK(w) ==
  main.pc = "wait" =>
    /\ chunk[w].state \in {"none", "waiting", "resolved"}
    /\ HasChunk(w) <=> chunk[w].state # "none"
    /\ chunk[w].state # "waiting" => chunk[w].files = Chunk(w)

(* A thread whose promise waits and the main thread take turns: the thread has
   the message posted last, or it has answered it. *)
Busy(w) ==
  /\ worker[w].out = <<>>
  /\ worker[w].inbox = <<Message(w, chunk[w].sent - 1)>>
  /\ worker[w].acc = Upto(Chunk(w), SubBatch, chunk[w].sent - 1)
HasParsed(w) ==
  /\ worker[w].out = <<Says("sub-batch-done")>>
  /\ worker[w].inbox = <<>>
  /\ worker[w].acc = Upto(Chunk(w), SubBatch, chunk[w].sent)
  /\ (chunk[w].sent - 1) * SubBatch < Len(Chunk(w))
HasThrown(w) ==
  /\ worker[w].out = <<Says("error")>>
  /\ worker[w].inbox = <<>>
HasFlushed(w) ==
  /\ worker[w].out = <<Result(Chunk(w))>>
  /\ worker[w].inbox = <<>>
  /\ worker[w].acc = <<>>
TakesTurns(w) ==
  /\ main.batch <= Len(Batches)
  /\ chunk[w].sent >= 1
  /\ Busy(w) \/ HasParsed(w) \/ HasThrown(w) \/ HasFlushed(w)

AliveOK(w) ==
  /\ chunk[w].state = "waiting" => TakesTurns(w)
  /\ chunk[w].state \in {"none", "resolved", "rejected"} => worker[w].inbox = <<>> /\ worker[w].out = <<>>
  /\ chunk[w].state \in {"none", "resolved"} => worker[w].acc = <<>>
  /\ Len(worker[w].inbox) <= 1

\* What is left of a thread that is gone: at most one answer, and its end.
Most == Ceiling(Len(FlattenSeq(Batches)), SubBatch)
IsEnd(m) == m.type \in {"died", "exit"}
DeadOK(w) ==
  LET out == worker[w].out
  IN  /\ worker[w].inbox = <<>>
      /\ \A i \in DOMAIN out : i > 1 /\ chunk[w].state = "waiting" => IsEnd(out[i])
      /\ chunk[w].state \in {"none", "resolved"} => \A i \in DOMAIN out : IsEnd(out[i])
      /\ chunk[w].state = "waiting" /\ out # <<>> =>
           /\ out[1].type = "sub-batch-done" => chunk[w].sent <= Most
           /\ main.pc = "wait" /\ out[1].type = "result" => out[1].files = Chunk(w)

ThreadOK(w) ==
  /\ chunk[w].sent <= Most + 1
  /\ worker[w].up => AliveOK(w)
  /\ ~worker[w].up => DeadOK(w)

Inv ==
  /\ Types
  /\ MainOK
  /\ \A w \in Workers : ChunkOK(w)
  /\ \A w \in Workers : ThreadOK(w)
  /\ GraphExact

(* A thread dies while it works, and then somebody listens unless there was a
   timeout. *)
NoDeath(out) == \A i \in DOMAIN out : out[i].type # "died"
DeathHeard(w) ==
  \/ NoDeath(worker[w].out)
  \/ chunk[w].state = "timed out"
  \/ chunk[w].state = "waiting" /\ Len(worker[w].out) = 1
DeathsHeard == \A w \in Workers : DeathHeard(w)

-----------------------------------------------------------------------------
(* Batches, chunks and messages *)

LEMMA BatchIs ==
  ASSUME Types, main.batch <= Len(Batches)
  PROVE  Batch \in FileLists /\ Len(Batch) <= Len(FlattenSeq(Batches))
  <1>1. main.batch \in 1..Len(Batches) /\ Batches \in Seq(FileLists)
    BY PoolAssumption DEF Types, FileLists
  <1> QED
    BY <1>1, FlattenIsLonger, ElementOfSeq DEF Batch, FileLists

LEMMA ChunkIs ==
  ASSUME Types, main.batch <= Len(Batches), NEW w \in Workers
  PROVE  /\ Chunk(w) \in FileLists
         /\ Len(Chunk(w)) <= Len(FlattenSeq(Batches))
  <1>1. Batch \in FileLists /\ Len(Batch) <= Len(FlattenSeq(Batches))
    BY BatchIs
  <1>2. Len(Batch) \in Nat /\ Size \in Nat \ {0}
    BY <1>1, PoolAssumption DEF FileLists
  <1>3. ChunkSize \in Nat /\ Len(Batch) <= ChunkSize * Size
    BY <1>2, CeilingIs DEF ChunkSize
  <1>4. ChunkSize # 0 \/ Len(Batch) = 0
    BY <1>2, <1>3
  <1>5. w \in Nat \ {0}
    BY DEF Workers
  <1>6. Slice(Batch, ChunkSize, w) \in FileLists /\ Len(Slice(Batch, ChunkSize, w)) <= Len(Batch)
    BY <1>1, <1>3, <1>4, <1>5, SliceIs DEF FileLists
  <1>7. Len(Slice(Batch, ChunkSize, w)) \in Nat /\ Len(FlattenSeq(Batches)) \in Nat
    <2>1. FlattenSeq(Batches) \in FileLists
      BY PoolAssumption, FlattenIsSeq DEF FileLists
    <2> QED
      BY <1>6, <2>1 DEF FileLists
  <1> QED
    BY <1>1, <1>2, <1>6, <1>7 DEF Chunk

\* The chunks are the batch.
LEMMA ChunksJoin ==
  ASSUME Types, main.batch <= Len(Batches)
  PROVE  FlattenSeq([w \in Workers |-> Chunk(w)]) = Batch
  <1>1. Batch \in FileLists
    BY BatchIs
  <1>2. Len(Batch) \in Nat /\ Size \in Nat \ {0}
    BY <1>1, PoolAssumption DEF FileLists
  <1>3. ChunkSize \in Nat /\ Len(Batch) <= ChunkSize * Size
    BY <1>2, CeilingIs DEF ChunkSize
  <1>4. (ChunkSize # 0 \/ Len(Batch) = 0) /\ Len(Batch) <= Size * ChunkSize
    BY <1>2, <1>3
  <1>5. FlattenSeq([i \in 1..Size |-> Slice(Batch, ChunkSize, i)]) = Batch
    BY <1>1, <1>2, <1>3, <1>4, SlicesJoin DEF FileLists
  <1> QED
    BY <1>5 DEF Workers, Chunk

LEMMA MostIs == Most \in Nat
  <1>1. FlattenSeq(Batches) \in FileLists
    BY PoolAssumption, FlattenIsSeq DEF FileLists
  <1>2. Len(FlattenSeq(Batches)) \in Nat
    BY <1>1 DEF FileLists
  <1> QED
    BY <1>2, CeilingIs, PoolAssumption DEF Most

\* Sub-batches that are not yet all of a chunk are no more than Most.
LEMMA MostSuffices ==
  ASSUME Types, main.batch <= Len(Batches), NEW w \in Workers, NEW n \in Nat,
         n * SubBatch < Len(Chunk(w))
  PROVE  n + 1 <= Most
  <1>1. Chunk(w) \in FileLists /\ Len(Chunk(w)) <= Len(FlattenSeq(Batches))
    BY ChunkIs
  <1>2. FlattenSeq(Batches) \in FileLists
    BY PoolAssumption, FlattenIsSeq DEF FileLists
  <1>3. Len(Chunk(w)) \in Nat /\ Len(FlattenSeq(Batches)) \in Nat /\ n * SubBatch \in Nat
    BY <1>1, <1>2, PoolAssumption DEF FileLists
  <1>4. n * SubBatch < Len(FlattenSeq(Batches))
    BY <1>1, <1>3
  <1>5. n < Most
    BY <1>3, <1>4, CeilingLeast, PoolAssumption DEF Most
  <1> QED
    BY <1>5, MostIs

\* A message is the next slice of the chunk, or the flush after the last.
LEMMA MessageIs ==
  ASSUME Types, main.batch <= Len(Batches), NEW w \in Workers, NEW n \in Nat
  PROVE  /\ Message(w, n) \in ToThread
         /\ Message(w, n).type = "sub-batch" =>
              /\ n * SubBatch < Len(Chunk(w))
              /\ Message(w, n).files \in FileLists
              /\ Upto(Chunk(w), SubBatch, n + 1) =
                   Upto(Chunk(w), SubBatch, n) \o Message(w, n).files
         /\ Message(w, n).type = "flush" => Upto(Chunk(w), SubBatch, n) = Chunk(w)
  <1> DEFINE c == Chunk(w)
  <1>1. c \in FileLists /\ Len(c) \in Nat /\ SubBatch \in Nat \ {0} /\ n * SubBatch \in Nat
    BY ChunkIs, PoolAssumption DEF FileLists
  <1>2. CASE n * SubBatch >= Len(c)
    <2>1. Message(w, n) = Flush
      BY <1>2 DEF Message
    <2>2. Upto(c, SubBatch, n) = c
      BY <1>1, <1>2, UptoAll DEF FileLists
    <2> QED
      BY <2>1, <2>2 DEF Flush, ToThread
  <1>3. CASE n * SubBatch < Len(c)
    <2> DEFINE m == Slice(c, SubBatch, n + 1)
    <2>1. Message(w, n) = [type |-> "sub-batch", files |-> m]
      BY <1>1, <1>3 DEF Message
    <2>2. n + 1 \in Nat \ {0} /\ (n + 1) - 1 = n
      OBVIOUS
    <2>3. m \in FileLists /\ Upto(c, SubBatch, n + 1) = Upto(c, SubBatch, n) \o m
      BY <1>1, <2>2, SliceIs DEF FileLists
    <2> HIDE DEF m
    <2> QED
      BY <1>3, <2>1, <2>3 DEF ToThread
  <1> QED
    BY <1>1, <1>2, <1>3

-----------------------------------------------------------------------------
(* Types *)

ThreadType == [up : BOOLEAN, inbox : Seq(ToThread), acc : FileLists, out : Seq(FromThread)]
ChunkType == [state : States, sent : Nat, files : FileLists]

LEMMA TypesOf ==
  ASSUME Types, NEW w \in Workers
  PROVE  /\ worker \in [Workers -> ThreadType] /\ worker[w] \in ThreadType
         /\ chunk \in [Workers -> ChunkType] /\ chunk[w] \in ChunkType
  BY DEF Types, ThreadType, ChunkType

LEMMA TypesFrom ==
  ASSUME Types,
         main' \in [pc : {"next", "wait", "terminate", "sequential", "done", "crashed"},
                    batch : 1..(Len(Batches) + 1), pool : BOOLEAN],
         graph' \in FileLists,
         chunk' \in [Workers -> ChunkType],
         worker' \in [Workers -> ThreadType]
  PROVE  Types'
  BY DEF Types, ThreadType, ChunkType

LEMMA OneThread ==
  ASSUME Types, NEW w \in Workers, NEW x \in ThreadType, worker' = [worker EXCEPT ![w] = x]
  PROVE  worker' \in [Workers -> ThreadType]
  BY TypesOf

LEMMA PostTyped ==
  ASSUME NEW x \in ThreadType, NEW m \in ToThread
  PROVE  Post(x, m) \in ThreadType
  BY DEF Post, ThreadType

LEMMA DropTyped ==
  ASSUME Types, NEW w \in Workers, worker[w].out # <<>>
  PROVE  Drop(w) \in ThreadType /\ Head(worker[w].out) \in FromThread
  <1>1. worker[w] \in ThreadType
    BY TypesOf
  <1>2. worker[w].out \in Seq(FromThread)
    BY <1>1 DEF ThreadType
  <1>3. Head(worker[w].out) \in FromThread /\ Tail(worker[w].out) \in Seq(FromThread)
    BY <1>2, HeadTailProperties
  <1>4. Drop(w) \in ThreadType
    BY <1>1, <1>3 DEF Drop, ThreadType
  <1> QED
    BY <1>3, <1>4

LEMMA ChunksTyped == NoChunk \in ChunkType /\ [Waiting EXCEPT !.sent = 1] \in ChunkType
  <1>1. <<>> \in FileLists
    BY DEF FileLists
  <1> QED
    BY <1>1 DEF NoChunk, Waiting, ChunkType, States

LEMMA SaysTyped ==
  ASSUME NEW type \in {"sub-batch-done", "error", "died", "exit"}
  PROVE  Says(type) \in FromThread
  BY DEF Says, FromThread

LEMMA MainTyped ==
  ASSUME Types
  PROVE  /\ main.batch \in 1..(Len(Batches) + 1) /\ main.pool \in BOOLEAN
         /\ \A pc \in {"next", "wait", "terminate", "sequential", "done", "crashed"} :
              [main EXCEPT !.pc = pc] \in
                [pc : {"next", "wait", "terminate", "sequential", "done", "crashed"},
                 batch : 1..(Len(Batches) + 1), pool : BOOLEAN]
  BY DEF Types

LEMMA DispatchTyped ==
  ASSUME Types, Dispatch
  PROVE  Types'
  <1>1. \A w \in Workers : Message(w, 0) \in ToThread
    BY MessageIs DEF Dispatch
  <1>2. worker' \in [Workers -> ThreadType]
    <2>1. \A w \in Workers :
            (IF HasChunk(w) THEN Post(worker[w], Message(w, 0)) ELSE worker[w]) \in ThreadType
      BY <1>1, PostTyped, TypesOf
    <2> QED
      BY <2>1 DEF Dispatch
  <1>3. chunk' \in [Workers -> ChunkType]
    BY ChunksTyped DEF Dispatch
  <1>4. graph' \in FileLists
    BY DEF Dispatch, Types
  <1> QED
    BY <1>2, <1>3, <1>4, MainTyped, TypesFrom DEF Dispatch

LEMMA NextBatchTyped ==
  ASSUME Types, NEW rows \in FileLists, NEW pool \in BOOLEAN, main.batch <= Len(Batches),
         NextBatch(rows, pool), chunk' \in [Workers -> ChunkType], UNCHANGED worker
  PROVE  Types'
  <1>1. graph' \in FileLists
    BY DEF NextBatch, Types, FileLists
  <1>2. worker' \in [Workers -> ThreadType]
    BY DEF Types, ThreadType
  <1>3. main.batch + 1 \in 1..(Len(Batches) + 1)
    BY PoolAssumption DEF Types
  <1> QED
    BY <1>1, <1>2, <1>3, TypesFrom DEF NextBatch

\* The results of the chunks, in order.
LEMMA ResultsTyped ==
  ASSUME Types
  PROVE  FlattenSeq([w \in Workers |-> chunk[w].files]) \in FileLists
  <1>1. \A w \in Workers : chunk[w].files \in FileLists
    BY TypesOf DEF ChunkType
  <1>2. [w \in Workers |-> chunk[w].files] \in Seq(FileLists)
    BY <1>1, PoolAssumption DEF Workers
  <1> QED
    BY <1>2, FlattenIsSeq DEF FileLists

LEMMA RejectTyped ==
  ASSUME Types, NEW w \in Workers, NEW state \in {"rejected", "timed out"}, Reject(w, state)
  PROVE  /\ chunk' \in [Workers -> ChunkType]
         /\ main' \in [pc : {"next", "wait", "terminate", "sequential", "done", "crashed"},
                       batch : 1..(Len(Batches) + 1), pool : BOOLEAN]
  <1>1. chunk' \in [Workers -> ChunkType]
    BY TypesOf DEF Reject, ChunkType, States
  <1>2. main' = main \/ main' = [main EXCEPT !.pc = "terminate"]
    BY DEF Reject
  <1>3. main \in [pc : {"next", "wait", "terminate", "sequential", "done", "crashed"},
                  batch : 1..(Len(Batches) + 1), pool : BOOLEAN]
    BY DEF Types
  <1> QED
    BY <1>1, <1>2, <1>3, MainTyped

LEMMA MainThreadTyped ==
  ASSUME Inv, MainThread
  PROVE  Types'
  <1> USE DEF Inv
  <1>1. CASE Dispatch
    BY <1>1, DispatchTyped
  <1>2. CASE Merge
    <2>1. main.batch <= Len(Batches)
      BY <1>2 DEF Merge, MainOK
    <2>2. chunk' \in [Workers -> ChunkType]
      BY <1>2, ChunksTyped DEF Merge
    <2> QED
      BY <1>2, <2>1, <2>2, ResultsTyped, NextBatchTyped DEF Merge
  <1>3. CASE FallBack
    <2>1. main' \in [pc : {"next", "wait", "terminate", "sequential", "done", "crashed"},
                     batch : 1..(Len(Batches) + 1), pool : BOOLEAN]
      BY <1>3, MainTyped DEF FallBack
    <2> QED
      BY <1>3, <2>1, TypesFrom DEF FallBack, Types, ChunkType, ThreadType
  <1>4. CASE ParseSequentially \/ WithoutPool
    <2>1. main.batch <= Len(Batches) /\ NextBatch(Batch, FALSE)
      BY <1>4 DEF ParseSequentially, WithoutPool, MainOK
    <2>2. UNCHANGED <<chunk, worker>>
      BY <1>4 DEF ParseSequentially, WithoutPool
    <2>3. chunk' \in [Workers -> ChunkType]
      BY <2>2 DEF Types, ChunkType
    <2>4. Batch \in FileLists
      BY <2>1, BatchIs
    <2> QED
      BY <2>1, <2>2, <2>3, <2>4, NextBatchTyped
  <1>5. CASE End
    <2>1. ASSUME NEW w \in Workers
          PROVE  [worker[w] EXCEPT !.up = FALSE, !.inbox = <<>>, !.out = <<>>] \in ThreadType
      <3>1. worker[w] \in ThreadType
        BY TypesOf
      <3>2. <<>> \in Seq(ToThread) /\ <<>> \in Seq(FromThread)
        OBVIOUS
      <3> QED
        BY <3>1, <3>2 DEF ThreadType
    <2>2. worker' \in [Workers -> ThreadType]
      BY <1>5, <2>1 DEF End
    <2>3. main' \in [pc : {"next", "wait", "terminate", "sequential", "done", "crashed"},
                     batch : 1..(Len(Batches) + 1), pool : BOOLEAN]
      BY <1>5, MainTyped DEF End
    <2> QED
      BY <1>5, <2>2, <2>3, TypesFrom DEF End, Types, ChunkType
  <1> QED
    BY <1>1, <1>2, <1>3, <1>4, <1>5 DEF MainThread

LEMMA EventsTyped ==
  ASSUME Inv, NEW w \in Workers, Events(w)
  PROVE  Types'
  <1> USE DEF Inv
  <1>0. /\ main \in [pc : {"next", "wait", "terminate", "sequential", "done", "crashed"},
                     batch : 1..(Len(Batches) + 1), pool : BOOLEAN]
        /\ graph \in FileLists
    BY DEF Types
  <1>1. CASE SubBatchDone(w)
    <2>1. Drop(w) \in ThreadType
      BY <1>1, DropTyped DEF SubBatchDone, Event
    <2>2. chunk[w].sent \in Nat
      BY TypesOf DEF ChunkType
    <2>3. Post(Drop(w), Message(w, chunk[w].sent)) \in ThreadType
      <3>1. CASE worker[w].up
        <4>1. main.batch <= Len(Batches)
          BY <1>1, <3>1 DEF SubBatchDone, Heard, ThreadOK, AliveOK, TakesTurns
        <4>2. Message(w, chunk[w].sent) \in ToThread
          BY <2>2, <4>1, MessageIs
        <4> QED
          BY <2>1, <4>2, PostTyped
      <3>2. CASE ~worker[w].up
        <4>1. Drop(w).up = worker[w].up
          BY TypesOf DEF Drop, ThreadType
        <4> QED
          BY <2>1, <3>2, <4>1 DEF Post
      <3> QED
        BY <3>1, <3>2
    <2>4. worker' \in [Workers -> ThreadType]
      BY <1>1, <2>3, OneThread DEF SubBatchDone
    <2>5. chunk' \in [Workers -> ChunkType]
      BY <1>1, <2>2, TypesOf DEF SubBatchDone, ChunkType
    <2> QED
      BY <1>0, <1>1, <2>4, <2>5, TypesFrom DEF SubBatchDone
  <1>2. CASE GotResult(w)
    <2>1. Drop(w) \in ThreadType /\ Head(worker[w].out) \in FromThread
      BY <1>2, DropTyped DEF GotResult, Event
    <2>2. Head(worker[w].out).files \in FileLists
      BY <1>2, <2>1 DEF GotResult, Event, FromThread
    <2>3. worker' \in [Workers -> ThreadType]
      BY <1>2, <2>1, OneThread DEF GotResult
    <2>4. chunk' \in [Workers -> ChunkType]
      BY <1>2, <2>2, TypesOf DEF GotResult, ChunkType, States
    <2> QED
      BY <1>0, <1>2, <2>3, <2>4, TypesFrom DEF GotResult
  <1>3. CASE GotFailure(w)
    <2>1. Drop(w) \in ThreadType
      BY <1>3, DropTyped DEF GotFailure, Event
    <2>2. worker' \in [Workers -> ThreadType]
      BY <1>3, <2>1, OneThread DEF GotFailure
    <2> QED
      BY <1>0, <1>3, <2>2, RejectTyped, TypesFrom DEF GotFailure
  <1>4. CASE IdleTimeout(w)
    <2>1. worker' \in [Workers -> ThreadType]
      BY <1>4, TypesOf DEF IdleTimeout
    <2> QED
      BY <1>0, <1>4, <2>1, RejectTyped, TypesFrom DEF IdleTimeout
  <1>5. CASE Unheard(w)
    <2>1. Drop(w) \in ThreadType
      BY <1>5, DropTyped DEF Unheard, Event
    <2>2. worker' \in [Workers -> ThreadType]
      BY <1>5, <2>1, OneThread DEF Unheard
    <2>3. chunk' \in [Workers -> ChunkType]
      BY <1>5, TypesOf DEF Unheard
    <2> QED
      BY <1>0, <1>5, <2>2, <2>3, TypesFrom DEF Unheard
  <1>6. CASE Uncaught(w)
    <2>1. main' \in [pc : {"next", "wait", "terminate", "sequential", "done", "crashed"},
                     batch : 1..(Len(Batches) + 1), pool : BOOLEAN]
      BY <1>6, MainTyped DEF Uncaught
    <2>2. worker' \in [Workers -> ThreadType] /\ chunk' \in [Workers -> ChunkType]
      BY <1>6, TypesOf DEF Uncaught
    <2> QED
      BY <1>0, <1>6, <2>1, <2>2, TypesFrom DEF Uncaught
  <1> QED
    BY <1>1, <1>2, <1>3, <1>4, <1>5, <1>6 DEF Events

LEMMA AnswerTyped ==
  ASSUME Types, NEW w \in Workers, worker[w].inbox # <<>>,
         NEW acc \in FileLists, NEW m \in FromThread, Answer(w, acc, m)
  PROVE  worker' \in [Workers -> ThreadType]
  <1> DEFINE x == worker[w]
  <1>1. x \in ThreadType
    BY TypesOf
  <1>2. x.inbox \in Seq(ToThread) /\ x.out \in Seq(FromThread)
    BY <1>1 DEF ThreadType
  <1>3. Tail(x.inbox) \in Seq(ToThread)
    BY <1>2, HeadTailProperties
  <1>4. Append(x.out, m) \in Seq(FromThread)
    BY <1>2, AppendProperties
  <1> DEFINE y == [x EXCEPT !.inbox = Tail(@), !.acc = acc, !.out = Append(@, m)]
  <1>5. y \in ThreadType
    BY <1>1, <1>3, <1>4 DEF ThreadType
  <1>6. worker' = [worker EXCEPT ![w] = y]
    BY DEF Answer
  <1> HIDE DEF y
  <1> QED
    BY <1>5, <1>6, OneThread

\* A thread that is gone leaves what it said, or a part of it, and its end.
LEMMA GoneTyped ==
  ASSUME Types, NEW w \in Workers, NEW out \in Seq(FromThread)
  PROVE  [worker[w] EXCEPT !.up = FALSE, !.inbox = <<>>, !.out = out] \in ThreadType
  <1>1. worker[w] \in ThreadType
    BY TypesOf
  <1>2. <<>> \in Seq(ToThread)
    OBVIOUS
  <1> QED
    BY <1>1, <1>2 DEF ThreadType

LEMMA PartTyped ==
  ASSUME NEW out \in Seq(FromThread), NEW kept \in 0..Len(out), NEW m \in FromThread
  PROVE  /\ Append(SubSeq(out, 1, kept), m) \in Seq(FromThread)
         /\ Len(Append(SubSeq(out, 1, kept), m)) = kept + 1
         /\ Append(SubSeq(out, 1, kept), m)[kept + 1] = m
         /\ \A i \in 1..kept : Append(SubSeq(out, 1, kept), m)[i] = out[i]
  <1> DEFINE t == SubSeq(out, 1, kept)
  <1>1. t \in Seq(FromThread) /\ Len(t) = kept /\ \A i \in 1..kept : t[i] = out[i]
    OBVIOUS
  <1> HIDE DEF t
  <1>2. /\ Append(t, m) \in Seq(FromThread)
        /\ Len(Append(t, m)) = kept + 1
        /\ \A i \in 1..kept : Append(t, m)[i] = t[i]
        /\ Append(t, m)[kept + 1] = m
    BY <1>1, AppendProperties
  <1> QED
    BY <1>1, <1>2 DEF t

LEMMA ThinksTyped ==
  ASSUME Types, NEW w \in Workers, Thinks(w) \/ Terminated(w)
  PROVE  Types'
  <1> DEFINE x == worker[w]
  <1>0. x \in ThreadType /\ x.inbox \in Seq(ToThread) /\ x.out \in Seq(FromThread) /\ x.acc \in FileLists
    BY TypesOf DEF ThreadType
  <1>1. CASE WorkSubBatch(w) \/ WorkThrows(w) \/ WorkFlush(w)
    <2>0. UNCHANGED <<main, graph, chunk>> /\ x.inbox # <<>>
      BY <1>1 DEF WorkSubBatch, WorkThrows, WorkFlush, Works
    <2>1. Head(x.inbox) \in ToThread
      BY <1>0, <2>0, HeadTailProperties
    <2>2. worker' \in [Workers -> ThreadType]
      <3>1. CASE WorkSubBatch(w)
        <4>1. Head(x.inbox).files \in FileLists
          BY <2>1, <3>1 DEF WorkSubBatch, Works, ToThread, Flush
        <4>2. x.acc \o Head(x.inbox).files \in FileLists
          BY <1>0, <4>1 DEF FileLists
        <4> QED
          BY <2>0, <3>1, <4>2, SaysTyped, AnswerTyped DEF WorkSubBatch
      <3>2. CASE WorkThrows(w)
        BY <1>0, <2>0, <3>2, SaysTyped, AnswerTyped DEF WorkThrows
      <3>3. CASE WorkFlush(w)
        <4>1. Result(x.acc) \in FromThread /\ <<>> \in FileLists
          BY <1>0 DEF Result, FromThread, FileLists
        <4> QED
          BY <2>0, <3>3, <4>1, AnswerTyped DEF WorkFlush
      <3> QED
        BY <1>1, <3>1, <3>2, <3>3
    <2> QED
      BY <2>0, <2>2, TypesFrom DEF Types, ChunkType
  <1>2. CASE WorkerDies(w) \/ Terminated(w)
    <2>0. UNCHANGED <<main, graph, chunk>>
      BY <1>2 DEF WorkerDies, Terminated
    <2>1. \E out \in Seq(FromThread) :
            worker' = [worker EXCEPT ![w] = [worker[w] EXCEPT !.up = FALSE, !.inbox = <<>>, !.out = out]]
      <3>1. CASE WorkerDies(w)
        <4>1. PICK type \in {"died", "exit"}, kept \in 0..Len(x.out) :
                worker' = [worker EXCEPT ![w] =
                  [worker[w] EXCEPT !.up = FALSE, !.inbox = <<>>,
                                    !.out = Append(SubSeq(x.out, 1, kept), Says(type))]]
          BY <3>1 DEF WorkerDies
        <4>2. Append(SubSeq(x.out, 1, kept), Says(type)) \in Seq(FromThread)
          BY <1>0, SaysTyped, PartTyped
        <4> QED
          BY <4>1, <4>2
      <3>2. CASE Terminated(w)
        <4>1. worker' = [worker EXCEPT ![w] =
                [worker[w] EXCEPT !.up = FALSE, !.inbox = <<>>, !.out = Append(x.out, Says("exit"))]]
          BY <3>2 DEF Terminated
        <4>2. Append(x.out, Says("exit")) \in Seq(FromThread)
          BY <1>0, SaysTyped, AppendProperties
        <4> QED
          BY <4>1, <4>2
      <3> QED
        BY <1>2, <3>1, <3>2
    <2>2. worker' \in [Workers -> ThreadType]
      BY <2>1, GoneTyped, OneThread
    <2> QED
      BY <2>0, <2>2, TypesFrom DEF Types, ChunkType
  <1> QED
    BY <1>1, <1>2 DEF Thinks

-----------------------------------------------------------------------------
(* What a step leaves of the invariant of a thread *)

\* A thread to which nothing happens, while the batch stays.
LEMMA Untouched ==
  ASSUME NEW v \in Workers, ChunkOK(v), ThreadOK(v),
         chunk'[v] = chunk[v], worker'[v] = worker[v], main'.batch = main.batch,
         main'.pc = main.pc \/ main'.pc # "wait"
  PROVE  ChunkOK(v)' /\ ThreadOK(v)'
  <1>1. Chunk(v)' = Chunk(v)
    BY DEF Chunk, Batch, ChunkSize
  <1>2. ChunkOK(v)'
    BY <1>1 DEF ChunkOK, HasChunk
  <1>3. TakesTurns(v) => TakesTurns(v)'
    BY <1>1 DEF TakesTurns, Busy, HasParsed, HasThrown, HasFlushed, Message
  <1>4. AliveOK(v) => AliveOK(v)'
    BY <1>3 DEF AliveOK
  <1>5. DeadOK(v) => DeadOK(v)'
    BY <1>1 DEF DeadOK
  <1> QED
    BY <1>2, <1>4, <1>5 DEF ThreadOK

LEMMA OnlyEnds ==
  ASSUME NEW w \in Workers, worker'[w].inbox = <<>>,
         \A i \in DOMAIN worker'[w].out : IsEnd(worker'[w].out[i]),
         worker'[w].out \in Seq(FromThread)
  PROVE  DeadOK(w)'
  <1>1. worker'[w].out # <<>> => IsEnd(worker'[w].out[1])
    OBVIOUS
  <1> QED
    BY <1>1 DEF DeadOK, IsEnd

LEMMA TailIs ==
  ASSUME NEW A, NEW s \in Seq(A), s # <<>>
  PROVE  \E n \in Nat :
           /\ n = Len(s) /\ DOMAIN s = 1..n /\ DOMAIN Tail(s) = 1..(n - 1)
           /\ \A i \in 1..(n - 1) :
                n # 1 /\ i + 1 \in 1..n /\ i + 1 > 1 /\ Tail(s)[i] = s[i + 1]
  <1>1. PICK n \in Nat : n = Len(s)
    OBVIOUS
  <1>2. Tail(s) \in Seq(A) /\ Len(Tail(s)) = n - 1 /\ \A i \in 1..Len(Tail(s)) : Tail(s)[i] = s[i + 1]
    BY <1>1, HeadTailProperties
  <1>3. DOMAIN s = 1..n /\ DOMAIN Tail(s) = 1..(n - 1)
    BY <1>1, <1>2
  <1>4. \A i \in 1..(n - 1) : n # 1 /\ i + 1 \in 1..n /\ i + 1 > 1
    OBVIOUS
  <1> QED
    BY <1>1, <1>2, <1>3, <1>4

\* When a thread that is gone has been heard once, its end is all that is left.
LEMMA RestEnds ==
  ASSUME Types, NEW w \in Workers, DeadOK(w), worker[w].out # <<>>, chunk[w].state # "rejected",
         chunk[w].state # "timed out"
  PROVE  \A i \in DOMAIN Tail(worker[w].out) : IsEnd(Tail(worker[w].out)[i])
  <1>1. worker[w].out \in Seq(FromThread)
    BY TypesOf DEF ThreadType
  <1>2. chunk[w].state \in {"none", "waiting", "resolved"}
    BY TypesOf DEF ChunkType, States
  <1>3. \A i \in DOMAIN worker[w].out : i > 1 => IsEnd(worker[w].out[i])
    BY <1>2 DEF DeadOK
  <1> QED
    BY <1>1, <1>3, TailIs

\* Drop takes the first message away and changes nothing else.
LEMMA DropIs ==
  ASSUME Types, NEW w \in Workers, worker[w].out # <<>>
  PROVE  /\ Drop(w).up = worker[w].up /\ Drop(w).inbox = worker[w].inbox
         /\ Drop(w).acc = worker[w].acc /\ Drop(w).out = Tail(worker[w].out)
         /\ Head(worker[w].out) = worker[w].out[1]
         /\ Drop(w).out \in Seq(FromThread)
  <1>1. worker[w] \in ThreadType /\ worker[w].out \in Seq(FromThread)
    BY TypesOf DEF ThreadType
  <1>2. Tail(worker[w].out) \in Seq(FromThread)
    BY <1>1, HeadTailProperties
  <1> QED
    BY <1>1, <1>2 DEF Drop, ThreadType

\* The batch that is parsed is the next part of what the graph has to hold.
LEMMA GraphGrows ==
  ASSUME Types, GraphExact, main.batch <= Len(Batches),
         graph' = graph \o Batch, main'.batch = main.batch + 1
  PROVE  GraphExact'
  <1>1. main.batch \in 1..Len(Batches) /\ (main.batch + 1) - 1 = main.batch
    BY PoolAssumption DEF Types
  <1>2. FlattenSeq(SubSeq(Batches, 1, main.batch)) =
          FlattenSeq(SubSeq(Batches, 1, main.batch - 1)) \o Batches[main.batch]
    BY <1>1, FlattenOneMore, PoolAssumption
  <1> QED
    BY <1>1, <1>2 DEF GraphExact, Batch

-----------------------------------------------------------------------------
(* The main thread *)

LEMMA DispatchKeeps ==
  ASSUME Inv, Dispatch
  PROVE  MainOK' /\ (\A w \in Workers : ChunkOK(w)' /\ ThreadOK(w)') /\ GraphExact'
  <1> USE DEF Inv
  <1>0. /\ main' = [main EXCEPT !.pc = "wait"] /\ main.pc = "next" /\ main.pool
        /\ main.batch <= Len(Batches) /\ UNCHANGED graph
    BY DEF Dispatch
  <1>1. main'.pc = "wait" /\ main'.pool /\ main'.batch = main.batch
    BY <1>0 DEF Types
  <1>2. MainOK'
    BY <1>0, <1>1 DEF MainOK, Alone
  <1>3. GraphExact'
    BY <1>0, <1>1 DEF GraphExact
  <1>4. ASSUME NEW w \in Workers
        PROVE  ChunkOK(w)' /\ ThreadOK(w)'
    <2>1. chunk[w] = NoChunk
      BY <1>0 DEF MainOK
    <2>2. Chunk(w)' = Chunk(w) /\ Chunk(w) \in FileLists
      BY <1>0, <1>1, ChunkIs DEF Chunk, Batch, ChunkSize
    <2>3. chunk[w].state = "none"
      BY <2>1 DEF NoChunk
    <2>4. worker[w] \in ThreadType
      BY TypesOf
    <2>5. /\ worker[w].up => worker[w].inbox = <<>> /\ worker[w].out = <<>> /\ worker[w].acc = <<>>
          /\ ~worker[w].up => /\ worker[w].inbox = <<>>
                              /\ \A i \in DOMAIN worker[w].out : IsEnd(worker[w].out[i])
      BY <2>3 DEF ThreadOK, AliveOK, DeadOK
    <2>6. CASE ~HasChunk(w)
      <3>1. chunk'[w] = NoChunk /\ worker'[w] = worker[w]
        BY <2>6 DEF Dispatch
      <3>2. ChunkOK(w)'
        BY <1>1, <2>2, <2>6, <3>1 DEF ChunkOK, HasChunk, NoChunk
      <3>3. AliveOK(w) => AliveOK(w)'
        BY <2>3, <2>1, <3>1 DEF AliveOK
      <3>4. ~worker[w].up => DeadOK(w)'
        BY <2>4, <2>5, <3>1, OnlyEnds DEF ThreadType
      <3>5. chunk'[w].sent <= Most + 1
        BY <2>1, <3>1 DEF ThreadOK
      <3> QED
        BY <3>1, <3>2, <3>3, <3>4, <3>5 DEF ThreadOK
    <2>7. CASE HasChunk(w)
      <3>1. chunk'[w] = [Waiting EXCEPT !.sent = 1] /\ worker'[w] = Post(worker[w], Message(w, 0))
        BY <2>7 DEF Dispatch
      <3>2. chunk'[w].state = "waiting" /\ chunk'[w].sent = 1
        BY <3>1 DEF Waiting, NoChunk
      <3>3. ChunkOK(w)'
        BY <1>1, <2>2, <2>7, <3>2 DEF ChunkOK, HasChunk
      <3>4. chunk'[w].sent <= Most + 1
        BY <3>2, MostIs
      <3>5. CASE worker[w].up
        <4>1. Message(w, 0) \in ToThread
          BY <1>0, MessageIs
        <4>2. worker'[w] = [worker[w] EXCEPT !.inbox = Append(@, Message(w, 0))]
          BY <3>1, <3>5 DEF Post
        <4>3. /\ worker'[w].up /\ worker'[w].inbox = Append(<<>>, Message(w, 0))
              /\ worker'[w].out = <<>> /\ worker'[w].acc = <<>>
          BY <2>4, <2>5, <3>5, <4>2 DEF ThreadType
        <4>4. worker'[w].inbox = <<Message(w, 0)>> /\ Len(worker'[w].inbox) = 1
          BY <4>1, <4>3
        <4>5. Upto(Chunk(w), SubBatch, 0) = <<>>
          BY <2>2, UptoNone, PoolAssumption DEF FileLists
        <4>6. Message(w, 0)' = Message(w, 0)
          BY <2>2 DEF Message
        <4>7. Busy(w)'
          BY <2>2, <3>2, <4>3, <4>4, <4>5, <4>6 DEF Busy, Message
        <4>8. TakesTurns(w)'
          BY <1>0, <1>1, <3>2, <4>7 DEF TakesTurns
        <4>9. AliveOK(w)'
          BY <3>2, <4>4, <4>8 DEF AliveOK
        <4> QED
          BY <3>3, <3>4, <4>3, <4>9 DEF ThreadOK
      <3>6. CASE ~worker[w].up
        <4>1. worker'[w] = worker[w]
          BY <3>1, <3>6 DEF Post
        <4>2. DeadOK(w)'
          BY <2>4, <2>5, <3>6, <4>1, OnlyEnds DEF ThreadType
        <4> QED
          BY <3>3, <3>4, <3>6, <4>1, <4>2 DEF ThreadOK
      <3> QED
        BY <3>5, <3>6
    <2> QED
      BY <2>6, <2>7
  <1> QED
    BY <1>2, <1>3, <1>4

LEMMA MergeKeeps ==
  ASSUME Inv, Merge
  PROVE  MainOK' /\ (\A w \in Workers : ChunkOK(w)' /\ ThreadOK(w)') /\ GraphExact'
  <1> USE DEF Inv
  <1>0. /\ main.pc = "wait" /\ Resolved /\ UNCHANGED worker
        /\ main' = [pc |-> "next", batch |-> main.batch + 1, pool |-> TRUE]
        /\ graph' = graph \o FlattenSeq([w \in Workers |-> chunk[w].files])
        /\ chunk' = [w \in Workers |-> NoChunk]
    BY DEF Merge, NextBatch
  <1>1. main.batch <= Len(Batches) /\ main'.pc = "next" /\ main'.pool
    BY <1>0 DEF MainOK
  <1>2. MainOK'
    BY <1>0, <1>1 DEF MainOK, Alone
  <1>3. GraphExact'
    <2>1. \A w \in Workers : chunk[w].state \in {"none", "resolved"}
      BY <1>0 DEF Resolved
    <2>2. \A w \in Workers : chunk[w].files = Chunk(w)
      BY <1>0, <2>1 DEF ChunkOK
    <2>3. [w \in Workers |-> chunk[w].files] = [w \in Workers |-> Chunk(w)]
      BY <2>2
    <2>4. FlattenSeq([w \in Workers |-> chunk[w].files]) = Batch
      BY <1>1, <2>3, ChunksJoin
    <2> QED
      BY <1>0, <1>1, <2>4, GraphGrows
  <1>4. ASSUME NEW w \in Workers
        PROVE  ChunkOK(w)' /\ ThreadOK(w)'
    <2>1. chunk[w].state \in {"none", "resolved"}
      BY <1>0 DEF Resolved
    <2>2. chunk'[w] = NoChunk /\ worker'[w] = worker[w]
      BY <1>0
    <2>3. chunk'[w].state = "none" /\ chunk'[w].sent = 0
      BY <2>2 DEF NoChunk
    <2>4. worker[w] \in ThreadType
      BY TypesOf
    <2>5. worker[w].up => AliveOK(w)'
      BY <2>1, <2>2, <2>3 DEF ThreadOK, AliveOK
    <2>6. ~worker[w].up => DeadOK(w)'
      <3> SUFFICES ASSUME ~worker[w].up PROVE DeadOK(w)'
        OBVIOUS
      <3>1. worker[w].inbox = <<>> /\ \A i \in DOMAIN worker[w].out : IsEnd(worker[w].out[i])
        BY <2>1 DEF ThreadOK, DeadOK
      <3> QED
        BY <2>2, <2>4, <3>1, OnlyEnds DEF ThreadType
    <2>7. ChunkOK(w)'
      BY <1>1 DEF ChunkOK
    <2>8. chunk'[w].sent <= Most + 1
      BY <2>3, MostIs
    <2> QED
      BY <2>2, <2>5, <2>6, <2>7, <2>8 DEF ThreadOK
  <1> QED
    BY <1>2, <1>3, <1>4

LEMMA WithoutPoolKeeps ==
  ASSUME Inv, ParseSequentially \/ WithoutPool
  PROVE  MainOK' /\ (\A w \in Workers : ChunkOK(w)' /\ ThreadOK(w)') /\ GraphExact'
  <1> USE DEF Inv
  <1>0. /\ Alone /\ UNCHANGED <<chunk, worker>> /\ main.batch <= Len(Batches)
        /\ main' = [pc |-> "next", batch |-> main.batch + 1, pool |-> FALSE]
        /\ graph' = graph \o Batch
    BY DEF ParseSequentially, WithoutPool, NextBatch, Alone, MainOK
  <1>1. main'.pc = "next" /\ ~main'.pool /\ main'.batch = main.batch + 1
    BY <1>0
  <1>2. \A w \in Workers : ~worker[w].up
    BY <1>0 DEF MainOK
  <1>3. MainOK'
    BY <1>0, <1>1, <1>2 DEF MainOK, Alone
  <1>4. GraphExact'
    BY <1>0, <1>1, GraphGrows
  <1>5. ASSUME NEW w \in Workers
        PROVE  ChunkOK(w)' /\ ThreadOK(w)'
    <2>1. DeadOK(w)'
      BY <1>0, <1>1, <1>2 DEF ThreadOK, DeadOK
    <2> QED
      BY <1>0, <1>1, <1>2, <2>1 DEF ThreadOK, ChunkOK
  <1> QED
    BY <1>3, <1>4, <1>5

LEMMA StopKeeps ==
  ASSUME Inv, FallBack \/ End
  PROVE  MainOK' /\ (\A w \in Workers : ChunkOK(w)' /\ ThreadOK(w)') /\ GraphExact'
  <1> USE DEF Inv
  <1>0. /\ UNCHANGED <<graph, chunk>>
        /\ main' = [main EXCEPT !.pc = "sequential"] \/ main' = [main EXCEPT !.pc = "done"]
    BY DEF FallBack, End
  <1>1. main'.pc \in {"sequential", "done"} /\ main'.batch = main.batch /\ main'.pool = main.pool
    BY <1>0 DEF Types
  <1>2. GraphExact'
    BY <1>0, <1>1 DEF GraphExact
  <1>3. CASE FallBack
    <2>1. UNCHANGED worker /\ \A w \in Workers : ~worker[w].up
      BY <1>3 DEF FallBack
    <2>2. main'.pc = "sequential" /\ main.pc = "terminate"
      BY <1>3 DEF FallBack, Types
    <2>3. MainOK'
      BY <1>1, <2>1, <2>2 DEF MainOK
    <2>4. ASSUME NEW w \in Workers
          PROVE  ChunkOK(w)' /\ ThreadOK(w)'
      BY <1>0, <1>1, <2>1, Untouched
    <2> QED
      BY <1>2, <2>3, <2>4
  <1>4. CASE End
    <2>1. ASSUME NEW w \in Workers
          PROVE  ~worker'[w].up /\ worker'[w].inbox = <<>> /\ worker'[w].out = <<>>
      <3>1. worker'[w] = [worker[w] EXCEPT !.up = FALSE, !.inbox = <<>>, !.out = <<>>]
        BY <1>4 DEF End
      <3>2. worker[w] \in ThreadType
        BY TypesOf
      <3> QED
        BY <3>1, <3>2 DEF ThreadType
    <2>2. main'.pc = "done"
      BY <1>4 DEF End, Types
    <2>3. MainOK'
      BY <1>1, <2>1, <2>2 DEF MainOK
    <2>4. ASSUME NEW w \in Workers
          PROVE  ChunkOK(w)' /\ ThreadOK(w)'
      <3>1. <<>> \in Seq(FromThread) /\ DOMAIN worker'[w].out = {}
        BY <2>1
      <3>2. DeadOK(w)'
        BY <2>1, <3>1, OnlyEnds
      <3> QED
        BY <1>0, <2>1, <2>2, <3>2 DEF ThreadOK, ChunkOK
    <2> QED
      BY <1>2, <2>3, <2>4
  <1> QED
    BY <1>3, <1>4

-----------------------------------------------------------------------------
(* The main thread hears of a thread *)

\* Each of these steps touches one thread and one chunk.
LEMMA OneTouched ==
  ASSUME Inv, NEW w \in Workers,
         \A v \in Workers \ {w} : chunk'[v] = chunk[v] /\ worker'[v] = worker[v],
         main'.batch = main.batch, main'.pc = main.pc \/ main'.pc # "wait",
         ChunkOK(w)', ThreadOK(w)'
  PROVE  \A v \in Workers : ChunkOK(v)' /\ ThreadOK(v)'
  BY Untouched DEF Inv

LEMMA MainStays ==
  ASSUME Inv, NEW w \in Workers, UNCHANGED <<main, graph>>, chunk[w].state = "waiting" \/ UNCHANGED chunk,
         \A v \in Workers : worker'[v].up => worker[v].up
  PROVE  MainOK' /\ GraphExact'
  <1>1. GraphExact'
    BY DEF Inv, GraphExact
  <1>2. ~(main.pc = "next" /\ main.pool) \/ UNCHANGED chunk
    BY DEF Inv, MainOK, NoChunk
  <1> QED
    BY <1>1, <1>2 DEF Inv, MainOK, Alone

\* What the head of a thread's messages says of where the thread is.
LEMMA HeadSays ==
  ASSUME Inv, NEW w \in Workers, Heard(w), worker[w].up, worker[w].out # <<>>
  PROVE  /\ main.batch <= Len(Batches) /\ chunk[w].sent >= 1
         /\ worker[w].inbox = <<>> /\ Tail(worker[w].out) = <<>>
         /\ Head(worker[w].out).type = "sub-batch-done" => HasParsed(w)
         /\ Head(worker[w].out).type = "result" =>
              HasFlushed(w) /\ Head(worker[w].out).files = Chunk(w)
         /\ Head(worker[w].out).type \notin {"died", "exit"}
  <1>1. TakesTurns(w) /\ ~Busy(w)
    BY DEF Inv, ThreadOK, AliveOK, Heard, Busy
  <1>2. CASE HasParsed(w)
    BY <1>1, <1>2 DEF HasParsed, Says, TakesTurns
  <1>3. CASE HasThrown(w)
    BY <1>1, <1>3 DEF HasThrown, Says, TakesTurns
  <1>4. CASE HasFlushed(w)
    BY <1>1, <1>4 DEF HasFlushed, Result, TakesTurns
  <1> QED
    BY <1>1, <1>2, <1>3, <1>4 DEF TakesTurns

LEMMA SubBatchDoneKeeps ==
  ASSUME Inv, NEW w \in Workers, SubBatchDone(w)
  PROVE  MainOK' /\ (\A v \in Workers : ChunkOK(v)' /\ ThreadOK(v)') /\ GraphExact'
  <1>n. PICK n : n = chunk[w].sent
    OBVIOUS
  <1> DEFINE x == Post(Drop(w), Message(w, n))
  <1>0. /\ Types /\ ThreadOK(w) /\ ChunkOK(w)
        /\ worker[w].out # <<>> /\ Head(worker[w].out).type = "sub-batch-done"
        /\ chunk[w].state = "waiting" /\ UNCHANGED <<main, graph>>
        /\ worker' = [worker EXCEPT ![w] = x]
        /\ chunk' = [chunk EXCEPT ![w].sent = @ + 1]
    BY <1>n DEF SubBatchDone, Event, Heard, Inv
  <1>1. /\ worker'[w] = x /\ chunk'[w] = [chunk[w] EXCEPT !.sent = @ + 1] /\ chunk[w] \in ChunkType
        /\ \A v \in Workers \ {w} : chunk'[v] = chunk[v] /\ worker'[v] = worker[v]
    BY <1>0, TypesOf
  <1>2. n \in Nat /\ chunk'[w].sent = n + 1 /\ chunk'[w].state = "waiting" /\ chunk'[w].files = chunk[w].files
    BY <1>n, <1>0, <1>1 DEF ChunkType
  <1>3. Drop(w) \in ThreadType /\ x.up = worker[w].up /\ x.acc = worker[w].acc /\ x.out = Tail(worker[w].out)
    BY <1>0, DropIs, DropTyped DEF Post, ThreadType
  <1>4. ChunkOK(w)'
    BY <1>0, <1>2 DEF ChunkOK, HasChunk, Chunk, Batch, ChunkSize
  <1>5. ThreadOK(w)'
    <2>1. CASE worker[w].up
      <3>1. /\ main.batch <= Len(Batches) /\ n >= 1 /\ HasParsed(w)
            /\ worker[w].inbox = <<>> /\ Tail(worker[w].out) = <<>>
        BY <1>n, <1>0, <2>1, HeadSays DEF Heard
      <3>2. n <= Most
        <4>1. n - 1 \in Nat /\ (n - 1) + 1 = n
          BY <1>2, <3>1
        <4>2. (n - 1) * SubBatch < Len(Chunk(w))
          BY <1>n, <3>1 DEF HasParsed
        <4> QED
          BY <1>0, <3>1, <4>1, <4>2, MostSuffices
      <3>3. Message(w, n) \in ToThread
        BY <1>0, <1>2, <3>1, MessageIs
      <3>4. x.inbox = Append(<<>>, Message(w, n))
        BY <1>0, <1>3, <2>1, <3>1, DropIs DEF Post, ThreadType
      <3>5. x.inbox = <<Message(w, n)>> /\ Len(x.inbox) = 1
        BY <3>3, <3>4
      <3>6. (n + 1) - 1 = n
        BY <1>2
      <3>7. Chunk(w)' = Chunk(w) /\ Message(w, n)' = Message(w, n)
        BY <1>0, <1>2 DEF Chunk, Batch, ChunkSize, Message
      <3> HIDE DEF x
      <3>8. worker'[w].acc = Upto(Chunk(w), SubBatch, n)
        BY <1>n, <1>1, <1>3, <3>1 DEF HasParsed
      <3>9. Message(w, chunk[w].sent - 1)' = Message(w, n)
        BY <1>2, <3>6, <3>7 DEF Message
      <3>10. Busy(w)'
        BY <1>1, <1>2, <1>3, <3>1, <3>5, <3>6, <3>7, <3>8, <3>9 DEF Busy
      <3>11. TakesTurns(w)'
        BY <1>0, <1>2, <3>1, <3>10 DEF TakesTurns
      <3>12. AliveOK(w)'
        BY <1>1, <1>2, <3>5, <3>11 DEF AliveOK
      <3>13. chunk'[w].sent <= Most + 1
        BY <1>2, <3>2, MostIs
      <3> QED
        BY <1>1, <1>3, <2>1, <3>12, <3>13 DEF ThreadOK
    <2>2. CASE ~worker[w].up
      <3>1. DeadOK(w) /\ worker[w].inbox = <<>>
        BY <1>0, <2>2 DEF ThreadOK, DeadOK
      <3>2. worker[w].out[1].type = "sub-batch-done"
        BY <1>0, DropIs
      <3>3. n <= Most
        BY <1>n, <1>0, <3>1, <3>2 DEF DeadOK
      <3>4. x = Drop(w)
        BY <1>0, <2>2, DropIs DEF Post
      <3>5. \A i \in DOMAIN x.out : IsEnd(x.out[i])
        BY <1>0, <1>3, <3>1, RestEnds
      <3>6. x.inbox = <<>> /\ x.out \in Seq(FromThread)
        BY <1>0, <3>1, <3>4, DropIs
      <3> HIDE DEF x
      <3>7. DeadOK(w)'
        BY <1>1, <3>5, <3>6, OnlyEnds
      <3>8. chunk'[w].sent <= Most + 1
        BY <1>2, <3>3, MostIs
      <3> QED
        BY <1>1, <1>3, <2>2, <3>7, <3>8 DEF ThreadOK
    <2> QED
      BY <2>1, <2>2
  <1>6. MainOK' /\ GraphExact'
    <2>1. \A v \in Workers : worker'[v].up => worker[v].up
      BY <1>1, <1>3
    <2> QED
      BY <1>0, <2>1, MainStays
  <1>7. main'.batch = main.batch /\ main'.pc = main.pc
    BY <1>0
  <1>8. \A v \in Workers : ChunkOK(v)' /\ ThreadOK(v)'
    BY <1>1, <1>4, <1>5, <1>7, OneTouched
  <1> QED
    BY <1>6, <1>8

LEMMA GotResultKeeps ==
  ASSUME Inv, NEW w \in Workers, GotResult(w)
  PROVE  MainOK' /\ (\A v \in Workers : ChunkOK(v)' /\ ThreadOK(v)') /\ GraphExact'
  <1>0. /\ Types /\ ThreadOK(w) /\ ChunkOK(w)
        /\ worker[w].out # <<>> /\ Head(worker[w].out).type = "result"
        /\ chunk[w].state = "waiting" /\ UNCHANGED <<main, graph>>
        /\ worker' = [worker EXCEPT ![w] = Drop(w)]
        /\ chunk' = [chunk EXCEPT ![w].state = "resolved", ![w].files = Head(worker[w].out).files]
    BY DEF GotResult, Event, Heard, Inv
  <1>1. /\ worker'[w] = Drop(w)
        /\ chunk'[w] = [chunk[w] EXCEPT !.state = "resolved", !.files = Head(worker[w].out).files]
        /\ chunk[w] \in ChunkType
        /\ \A v \in Workers \ {w} : chunk'[v] = chunk[v] /\ worker'[v] = worker[v]
    BY <1>0, TypesOf
  <1>2. /\ chunk'[w].sent = chunk[w].sent /\ chunk'[w].state = "resolved"
        /\ chunk'[w].files = Head(worker[w].out).files
    BY <1>1 DEF ChunkType
  <1>3. /\ worker'[w].up = worker[w].up /\ worker'[w].inbox = worker[w].inbox
        /\ worker'[w].acc = worker[w].acc /\ worker'[w].out = Tail(worker[w].out)
        /\ worker'[w].out \in Seq(FromThread) /\ Head(worker[w].out) = worker[w].out[1]
    BY <1>0, <1>1, DropIs
  <1>4. Chunk(w)' = Chunk(w)
    BY <1>0 DEF Chunk, Batch, ChunkSize
  <1>5. ASSUME worker[w].up
        PROVE  ChunkOK(w)' /\ ThreadOK(w)'
    <2>1. HasFlushed(w) /\ Head(worker[w].out).files = Chunk(w) /\ Tail(worker[w].out) = <<>>
      BY <1>0, <1>5, HeadSays DEF Heard
    <2>2. ChunkOK(w)'
      BY <1>0, <1>2, <1>4, <2>1 DEF ChunkOK, HasChunk
    <2>3. worker'[w].inbox = <<>> /\ worker'[w].acc = <<>> /\ worker'[w].out = <<>>
      BY <1>3, <2>1 DEF HasFlushed
    <2>4. AliveOK(w)'
      BY <1>2, <2>3 DEF AliveOK
    <2> QED
      BY <1>0, <1>2, <1>3, <1>5, <2>2, <2>4 DEF ThreadOK
  <1>6. ASSUME ~worker[w].up
        PROVE  ChunkOK(w)' /\ ThreadOK(w)'
    <2>1. DeadOK(w)
      BY <1>0, <1>6 DEF ThreadOK
    <2>2. main.pc = "wait" => Head(worker[w].out).files = Chunk(w)
      BY <1>0, <1>3, <2>1 DEF DeadOK
    <2>3. ChunkOK(w)'
      BY <1>0, <1>2, <1>4, <2>2 DEF ChunkOK, HasChunk
    <2>4. \A i \in DOMAIN worker'[w].out : IsEnd(worker'[w].out[i])
      BY <1>0, <1>3, <2>1, RestEnds
    <2>5. worker'[w].inbox = <<>>
      BY <1>3, <2>1 DEF DeadOK
    <2>6. DeadOK(w)'
      BY <1>3, <2>4, <2>5, OnlyEnds
    <2> QED
      BY <1>0, <1>2, <1>3, <1>6, <2>3, <2>6 DEF ThreadOK
  <1>7. MainOK' /\ GraphExact'
    <2>1. \A v \in Workers : worker'[v].up => worker[v].up
      BY <1>1, <1>3
    <2> QED
      BY <1>0, <2>1, MainStays
  <1>8. main'.batch = main.batch /\ main'.pc = main.pc
    BY <1>0
  <1>9. \A v \in Workers : ChunkOK(v)' /\ ThreadOK(v)'
    BY <1>1, <1>5, <1>6, <1>8, OneTouched
  <1> QED
    BY <1>7, <1>9

\* A rejection ends the wait of the main thread.
LEMMA RejectIs ==
  ASSUME Inv, NEW w \in Workers, Heard(w), NEW state \in {"rejected", "timed out"}, Reject(w, state)
  PROVE  /\ main'.pc # "wait" /\ main'.batch = main.batch
         /\ chunk'[w].state = state /\ chunk'[w].sent = chunk[w].sent
         /\ \A v \in Workers \ {w} : chunk'[v] = chunk[v]
         /\ UNCHANGED graph => GraphExact'
         /\ (\A v \in Workers : worker'[v].up => worker[v].up) => MainOK'
  <1>1. /\ main' = IF main.pc = "wait" THEN [main EXCEPT !.pc = "terminate"] ELSE main
        /\ chunk' = [chunk EXCEPT ![w].state = state]
    BY DEF Reject
  <1>2. main'.pc # "wait" /\ main'.batch = main.batch /\ main'.pool = main.pool
    BY <1>1 DEF Inv, Types
  <1>3. chunk[w] \in ChunkType /\ chunk \in [Workers -> ChunkType]
    BY TypesOf DEF Inv
  <1>4. /\ chunk'[w].state = state /\ chunk'[w].sent = chunk[w].sent
        /\ \A v \in Workers \ {w} : chunk'[v] = chunk[v]
    BY <1>1, <1>3 DEF ChunkType
  <1>5. UNCHANGED graph => GraphExact'
    BY <1>2 DEF Inv, GraphExact
  <1>6. ASSUME \A v \in Workers : worker'[v].up => worker[v].up
        PROVE  MainOK'
    <2>1. ~(main.pc = "next" /\ main.pool)
      <3>1. [v \in Workers |-> NoChunk][w].state = "none"
        BY DEF NoChunk
      <3>2. chunk[w].state = "waiting"
        BY DEF Heard
      <3> QED
        BY <3>1, <3>2 DEF Inv, MainOK
    <2>2. CASE main.pc = "wait"
      <3>1. main'.pc = "terminate"
        BY <1>1, <2>2 DEF Inv, Types
      <3> QED
        BY <1>2, <2>2, <3>1 DEF Inv, MainOK, Alone
    <2>3. CASE main.pc # "wait"
      <3>1. main' = main
        BY <1>1, <2>3
      <3> QED
        BY <1>6, <2>1, <3>1 DEF Inv, MainOK, Alone
    <2> QED
      BY <2>2, <2>3
  <1> QED
    BY <1>2, <1>4, <1>5, <1>6

LEMMA GotFailureKeeps ==
  ASSUME Inv, NEW w \in Workers, GotFailure(w)
  PROVE  MainOK' /\ (\A v \in Workers : ChunkOK(v)' /\ ThreadOK(v)') /\ GraphExact'
  <1>0. /\ Types /\ ThreadOK(w) /\ Heard(w) /\ UNCHANGED graph /\ Reject(w, "rejected")
        /\ worker[w].out # <<>>
        /\ worker' = [worker EXCEPT ![w] = Drop(w)]
    BY DEF GotFailure, Event, Inv
  <1>1. /\ worker'[w] = Drop(w)
        /\ \A v \in Workers \ {w} : worker'[v] = worker[v]
    BY <1>0, TypesOf
  <1>2. /\ worker'[w].up = worker[w].up /\ worker'[w].inbox = worker[w].inbox
        /\ worker'[w].acc = worker[w].acc /\ worker'[w].out = Tail(worker[w].out)
    BY <1>0, <1>1, DropIs
  <1>3. \A v \in Workers : worker'[v].up => worker[v].up
    BY <1>1, <1>2
  <1>4. /\ main'.pc # "wait" /\ main'.batch = main.batch /\ GraphExact' /\ MainOK'
        /\ chunk'[w].state = "rejected" /\ chunk'[w].sent = chunk[w].sent
        /\ \A v \in Workers \ {w} : chunk'[v] = chunk[v]
    BY <1>0, <1>3, RejectIs
  <1>5. ChunkOK(w)'
    BY <1>4 DEF ChunkOK
  <1>6. ThreadOK(w)'
    <2>1. CASE worker[w].up
      <3>1. worker[w].inbox = <<>> /\ Tail(worker[w].out) = <<>>
        BY <1>0, <2>1, HeadSays
      <3>2. AliveOK(w)'
        BY <1>2, <1>4, <3>1 DEF AliveOK
      <3> QED
        BY <1>0, <1>2, <1>4, <2>1, <3>2 DEF ThreadOK
    <2>2. CASE ~worker[w].up
      <3>1. worker[w].inbox = <<>>
        BY <1>0, <2>2 DEF ThreadOK, DeadOK
      <3>2. DeadOK(w)'
        BY <1>2, <1>4, <3>1 DEF DeadOK
      <3> QED
        BY <1>0, <1>2, <1>4, <2>2, <3>2 DEF ThreadOK
    <2> QED
      BY <2>1, <2>2
  <1>7. \A v \in Workers : ChunkOK(v)' /\ ThreadOK(v)'
    BY <1>1, <1>4, <1>5, <1>6, OneTouched
  <1> QED
    BY <1>4, <1>7

LEMMA IdleTimeoutKeeps ==
  ASSUME Inv, NEW w \in Workers, IdleTimeout(w)
  PROVE  MainOK' /\ (\A v \in Workers : ChunkOK(v)' /\ ThreadOK(v)') /\ GraphExact'
  <1>0. Types /\ ThreadOK(w) /\ Heard(w) /\ UNCHANGED <<graph, worker>> /\ Reject(w, "timed out")
    BY DEF IdleTimeout, Inv
  <1>1. /\ main'.pc # "wait" /\ main'.batch = main.batch /\ GraphExact' /\ MainOK'
        /\ chunk'[w].state = "timed out" /\ chunk'[w].sent = chunk[w].sent
        /\ \A v \in Workers \ {w} : chunk'[v] = chunk[v]
    BY <1>0, RejectIs
  <1>2. ChunkOK(w)'
    BY <1>1 DEF ChunkOK
  <1>3. AliveOK(w) => AliveOK(w)'
    BY <1>0, <1>1 DEF AliveOK
  <1>4. DeadOK(w) => DeadOK(w)'
    BY <1>0, <1>1 DEF DeadOK
  <1>5. ThreadOK(w)'
    BY <1>0, <1>1, <1>3, <1>4 DEF ThreadOK
  <1>6. \A v \in Workers : ChunkOK(v)' /\ ThreadOK(v)'
    BY <1>0, <1>1, <1>2, <1>5, OneTouched
  <1> QED
    BY <1>1, <1>6

LEMMA UnheardKeeps ==
  ASSUME Inv, NEW w \in Workers, Unheard(w)
  PROVE  MainOK' /\ (\A v \in Workers : ChunkOK(v)' /\ ThreadOK(v)') /\ GraphExact'
  <1>0. /\ Types /\ ThreadOK(w) /\ ChunkOK(w) /\ chunk[w].state # "waiting"
        /\ UNCHANGED <<main, graph, chunk>> /\ worker[w].out # <<>>
        /\ worker' = [worker EXCEPT ![w] = Drop(w)]
    BY DEF Unheard, Event, Heard, Inv
  <1>1. /\ worker'[w] = Drop(w)
        /\ \A v \in Workers \ {w} : worker'[v] = worker[v]
    BY <1>0, TypesOf
  <1>2. /\ worker'[w].up = worker[w].up /\ worker'[w].inbox = worker[w].inbox
        /\ worker'[w].acc = worker[w].acc /\ worker'[w].out = Tail(worker[w].out)
        /\ worker'[w].out \in Seq(FromThread)
    BY <1>0, <1>1, DropIs
  <1>3. MainOK' /\ GraphExact'
    <2>1. \A v \in Workers : worker'[v].up => worker[v].up
      BY <1>1, <1>2
    <2> QED
      BY <1>0, <2>1, MainStays
  <1>4. ChunkOK(w)'
    BY <1>0 DEF ChunkOK, HasChunk, Chunk, Batch, ChunkSize
  <1>5. chunk[w].state \in {"none", "resolved", "rejected", "timed out"}
    BY <1>0, TypesOf DEF ChunkType, States
  <1>6. ThreadOK(w)'
    <2>1. CASE worker[w].up
      <3>1. chunk[w].state = "timed out" /\ Len(worker[w].inbox) <= 1
        BY <1>0, <1>5, <2>1 DEF ThreadOK, AliveOK
      <3>2. AliveOK(w)'
        BY <1>0, <1>2, <3>1 DEF AliveOK
      <3> QED
        BY <1>0, <1>2, <2>1, <3>2 DEF ThreadOK
    <2>2. CASE ~worker[w].up
      <3>1. DeadOK(w) /\ worker[w].inbox = <<>>
        BY <1>0, <2>2 DEF ThreadOK, DeadOK
      <3>2. CASE chunk[w].state \in {"none", "resolved"}
        <4>1. \A i \in DOMAIN worker'[w].out : IsEnd(worker'[w].out[i])
          BY <1>0, <1>2, <3>1, <3>2, RestEnds
        <4>2. DeadOK(w)'
          BY <1>2, <3>1, <4>1, OnlyEnds
        <4> QED
          BY <1>0, <1>2, <2>2, <4>2 DEF ThreadOK
      <3>3. CASE chunk[w].state \in {"rejected", "timed out"}
        <4>1. DeadOK(w)'
          BY <1>0, <1>2, <3>1, <3>3 DEF DeadOK
        <4> QED
          BY <1>0, <1>2, <2>2, <4>1 DEF ThreadOK
      <3> QED
        BY <1>5, <3>2, <3>3
    <2> QED
      BY <2>1, <2>2
  <1>7. \A v \in Workers : ChunkOK(v)' /\ ThreadOK(v)'
    BY <1>0, <1>1, <1>4, <1>6, OneTouched
  <1> QED
    BY <1>3, <1>7

LEMMA UncaughtKeeps ==
  ASSUME Inv, NEW w \in Workers, Uncaught(w)
  PROVE  MainOK' /\ (\A v \in Workers : ChunkOK(v)' /\ ThreadOK(v)') /\ GraphExact'
  <1>0. UNCHANGED <<graph, chunk, worker>> /\ main' = [main EXCEPT !.pc = "crashed"]
    BY DEF Uncaught
  <1>1. main'.pc = "crashed" /\ main'.batch = main.batch
    BY <1>0 DEF Inv, Types
  <1>2. MainOK' /\ GraphExact'
    BY <1>0, <1>1 DEF Inv, MainOK, Alone, GraphExact
  <1>3. \A v \in Workers : ChunkOK(v)' /\ ThreadOK(v)'
    BY <1>0, <1>1, Untouched DEF Inv
  <1> QED
    BY <1>2, <1>3

-----------------------------------------------------------------------------
(* The threads *)

\* A thread that works is one that a promise waits for, or did until a timeout.
LEMMA WorkingIs ==
  ASSUME Inv, NEW w \in Workers, worker[w].up, worker[w].inbox # <<>>
  PROVE  \/ chunk[w].state = "timed out" /\ Len(worker[w].inbox) <= 1
         \/ chunk[w].state = "waiting" /\ TakesTurns(w) /\ Busy(w)
  <1>1. AliveOK(w)
    BY DEF Inv, ThreadOK
  <1>2. chunk[w].state \in {"none", "waiting", "resolved", "rejected", "timed out"}
    BY TypesOf DEF Inv, ChunkType, States
  <1> QED
    BY <1>1, <1>2 DEF AliveOK, TakesTurns, HasParsed, HasThrown, HasFlushed

\* What a step of one thread leaves alone.
LEMMA ThreadSteps ==
  ASSUME Inv, NEW w \in Workers, UNCHANGED <<main, graph, chunk>>,
         NEW x \in ThreadType, worker' = [worker EXCEPT ![w] = x], x.up => worker[w].up,
         x.up => AliveOK(w)', ~x.up => DeadOK(w)'
  PROVE  MainOK' /\ (\A v \in Workers : ChunkOK(v)' /\ ThreadOK(v)') /\ GraphExact'
  <1>1. worker'[w] = x /\ \A v \in Workers \ {w} : worker'[v] = worker[v]
    BY TypesOf DEF Inv
  <1>2. \A v \in Workers : worker'[v].up => worker[v].up
    BY <1>1
  <1>3. MainOK' /\ GraphExact'
    BY <1>2, MainStays
  <1>4. ChunkOK(w)'
    BY DEF Inv, ChunkOK, HasChunk, Chunk, Batch, ChunkSize
  <1>5. ThreadOK(w)'
    BY <1>1 DEF Inv, ThreadOK
  <1>6. \A v \in Workers : ChunkOK(v)' /\ ThreadOK(v)'
    BY <1>1, <1>4, <1>5, OneTouched
  <1> QED
    BY <1>3, <1>6

\* What a thread is after an answer.
Answered(x, w, acc, m) ==
  /\ worker' = [worker EXCEPT ![w] = x]
  /\ worker'[w] = x
  /\ x.up = worker[w].up /\ x.acc = acc
  /\ x.inbox = Tail(worker[w].inbox) /\ x.out = Append(worker[w].out, m)
  /\ Len(worker[w].inbox) <= 1 => x.inbox = <<>> /\ Len(x.inbox) <= 1

LEMMA AnswerIs ==
  ASSUME Types, NEW w \in Workers, worker[w].inbox # <<>>,
         NEW acc \in FileLists, NEW m \in FromThread, Answer(w, acc, m)
  PROVE  \E x \in ThreadType : Answered(x, w, acc, m)
  <1> DEFINE x == [worker[w] EXCEPT !.inbox = Tail(@), !.acc = acc, !.out = Append(@, m)]
  <1>1. worker' = [worker EXCEPT ![w] = x] /\ worker[w] \in ThreadType
    BY TypesOf DEF Answer
  <1>2. worker' \in [Workers -> ThreadType]
    BY AnswerTyped
  <1>3. worker'[w] = x
    BY <1>1, TypesOf
  <1>4. x \in ThreadType
    BY <1>2, <1>3
  <1>5. /\ x.up = worker[w].up /\ x.acc = acc
        /\ x.inbox = Tail(worker[w].inbox) /\ x.out = Append(worker[w].out, m)
    BY <1>1 DEF ThreadType
  <1> HIDE DEF x
  <1>6. Len(worker[w].inbox) <= 1 => x.inbox = <<>> /\ Len(x.inbox) <= 1
    <2>1. worker[w].inbox \in Seq(ToThread)
      BY <1>1 DEF ThreadType
    <2>2. x.inbox \in Seq(ToThread) /\ Len(x.inbox) = Len(worker[w].inbox) - 1
      BY <1>5, <2>1, HeadTailProperties
    <2>3. Len(worker[w].inbox) \in Nat /\ Len(x.inbox) \in Nat
      BY <2>1, <2>2, LenProperties
    <2>4. Len(worker[w].inbox) <= 1 => Len(x.inbox) = 0
      <3>1. PICK a, b \in Nat : a = Len(x.inbox) /\ b = Len(worker[w].inbox)
        BY <2>3
      <3>2. a = b - 1
        BY <2>2, <3>1
      <3>3. b <= 1 => a = 0
        BY <3>2
      <3> QED
        BY <3>1, <3>3
    <2> QED
      BY <2>2, <2>4, EmptySeq
  <1> QED
    BY <1>1, <1>3, <1>4, <1>5, <1>6 DEF Answered

\* One answer to the message posted last.
LEMMA AnswerKeeps ==
  ASSUME Inv, NEW w \in Workers, worker[w].up, worker[w].inbox # <<>>, UNCHANGED <<main, graph, chunk>>,
         NEW acc \in FileLists, NEW m \in FromThread, Answer(w, acc, m),
         TakesTurns(w) /\ Busy(w) =>
           \/ m.type = "sub-batch-done" /\ m = Says("sub-batch-done")
                /\ acc = Upto(Chunk(w), SubBatch, chunk[w].sent)
                /\ (chunk[w].sent - 1) * SubBatch < Len(Chunk(w))
           \/ m = Says("error")
           \/ m = Result(Chunk(w)) /\ acc = <<>>
  PROVE  MainOK' /\ (\A v \in Workers : ChunkOK(v)' /\ ThreadOK(v)') /\ GraphExact'
  <1>1. PICK x \in ThreadType : Answered(x, w, acc, m)
    <2>1. Types
      BY DEF Inv
    <2> QED
      BY <2>1, AnswerIs
  <1>2. Len(worker[w].inbox) <= 1
    BY DEF Inv, ThreadOK, AliveOK
  <1>3. AliveOK(w)'
    <2>1. CASE chunk[w].state = "timed out"
      BY <1>1, <1>2, <2>1 DEF AliveOK, Answered
    <2>2. CASE chunk[w].state = "waiting" /\ TakesTurns(w) /\ Busy(w)
      <3>1. x.out = <<m>>
        BY <1>1, <2>2 DEF Busy, Answered
      <3>2. Chunk(w)' = Chunk(w)
        BY DEF Chunk, Batch, ChunkSize
      <3>3. HasParsed(w)' \/ HasThrown(w)' \/ HasFlushed(w)'
        BY <1>1, <1>2, <2>2, <3>1, <3>2 DEF HasParsed, HasThrown, HasFlushed, Says, Result, Answered
      <3>4. TakesTurns(w)'
        BY <2>2, <3>3 DEF TakesTurns
      <3> QED
        BY <1>1, <1>2, <2>2, <3>4 DEF AliveOK, Answered
    <2> QED
      BY <2>1, <2>2, WorkingIs
  <1> QED
    BY <1>1, <1>3, ThreadSteps DEF Answered

LEMMA WorkKeeps ==
  ASSUME Inv, NEW w \in Workers, WorkSubBatch(w) \/ WorkThrows(w) \/ WorkFlush(w)
  PROVE  MainOK' /\ (\A v \in Workers : ChunkOK(v)' /\ ThreadOK(v)') /\ GraphExact'
  <1> DEFINE m == Head(worker[w].inbox)
  <1>0. /\ worker[w].up /\ worker[w].inbox # <<>> /\ UNCHANGED <<main, graph, chunk>>
        /\ worker[w].acc \in FileLists /\ worker[w].inbox \in Seq(ToThread)
    BY TypesOf DEF Inv, WorkSubBatch, WorkThrows, WorkFlush, Works, ThreadType
  <1>1. m \in ToThread
    BY <1>0, HeadTailProperties
  <1>2. ASSUME TakesTurns(w) /\ Busy(w)
        PROVE  /\ chunk[w].sent - 1 \in Nat /\ (chunk[w].sent - 1) + 1 = chunk[w].sent
               /\ main.batch <= Len(Batches)
               /\ m = Message(w, chunk[w].sent - 1)
               /\ worker[w].acc = Upto(Chunk(w), SubBatch, chunk[w].sent - 1)
    <2>1. chunk[w].sent \in Nat /\ chunk[w].sent >= 1
      BY <1>2, TypesOf DEF Inv, ChunkType, TakesTurns
    <2> QED
      BY <1>2, <2>1 DEF TakesTurns, Busy
  <1> HIDE DEF m
  <1>3. CASE WorkSubBatch(w)
    <2>1. m.type = "sub-batch" /\ Answer(w, worker[w].acc \o m.files, Says("sub-batch-done"))
      BY <1>3 DEF WorkSubBatch, Works, m
    <2>2. m.files \in FileLists
      BY <1>1, <2>1 DEF ToThread, Flush
    <2>3. worker[w].acc \o m.files \in FileLists
      BY <1>0, <2>2 DEF FileLists
    <2>4. ASSUME TakesTurns(w) /\ Busy(w)
          PROVE  /\ worker[w].acc \o m.files = Upto(Chunk(w), SubBatch, chunk[w].sent)
                 /\ (chunk[w].sent - 1) * SubBatch < Len(Chunk(w))
      <3>1. PICK n \in Nat : n = chunk[w].sent - 1
        BY <1>2, <2>4
      <3>2. m = Message(w, n) /\ n + 1 = chunk[w].sent /\ worker[w].acc = Upto(Chunk(w), SubBatch, n)
            /\ main.batch <= Len(Batches)
        BY <1>2, <2>4, <3>1
      <3>3. n * SubBatch < Len(Chunk(w)) /\ Upto(Chunk(w), SubBatch, n + 1) = Upto(Chunk(w), SubBatch, n) \o m.files
        BY <2>1, <3>2, MessageIs DEF Inv
      <3> QED
        BY <3>1, <3>2, <3>3
    <2>5. Says("sub-batch-done") \in FromThread /\ Says("sub-batch-done").type = "sub-batch-done"
      BY SaysTyped DEF Says
    <2> QED
      BY <1>0, <2>1, <2>3, <2>4, <2>5, AnswerKeeps
  <1>4. CASE WorkThrows(w)
    <2>1. Answer(w, worker[w].acc, Says("error")) /\ Says("error") \in FromThread
      BY <1>4, SaysTyped DEF WorkThrows
    <2> QED
      BY <1>0, <2>1, AnswerKeeps
  <1>5. CASE WorkFlush(w)
    <2>1. m.type = "flush" /\ Answer(w, <<>>, Result(worker[w].acc))
      BY <1>5 DEF WorkFlush, Works, m
    <2>2. Result(worker[w].acc) \in FromThread /\ <<>> \in FileLists
      BY <1>0 DEF Result, FromThread, FileLists
    <2>3. ASSUME TakesTurns(w) /\ Busy(w)
          PROVE  worker[w].acc = Chunk(w)
      <3>1. PICK n \in Nat : n = chunk[w].sent - 1
        BY <1>2, <2>3
      <3>2. m = Message(w, n) /\ worker[w].acc = Upto(Chunk(w), SubBatch, n) /\ main.batch <= Len(Batches)
        BY <1>2, <2>3, <3>1
      <3> QED
        BY <2>1, <3>2, MessageIs DEF Inv
    <2> QED
      BY <1>0, <2>1, <2>2, <2>3, AnswerKeeps
  <1> QED
    BY <1>3, <1>4, <1>5

\* A thread that dies or is terminated says no more than it did, and its end.
LEMMA GoneIs ==
  ASSUME Types, NEW w \in Workers, WorkerDies(w) \/ Terminated(w)
  PROVE  \E type \in {"died", "exit"}, kept \in 0..Len(worker[w].out) :
           worker' = [worker EXCEPT ![w] =
             [worker[w] EXCEPT !.up = FALSE, !.inbox = <<>>,
                               !.out = Append(SubSeq(worker[w].out, 1, kept), Says(type))]]
  <1>1. CASE WorkerDies(w)
    BY <1>1 DEF WorkerDies
  <1>2. CASE Terminated(w)
    <2>1. worker' = [worker EXCEPT ![w] =
            [worker[w] EXCEPT !.up = FALSE, !.inbox = <<>>, !.out = Append(worker[w].out, Says("exit"))]]
      BY <1>2 DEF Terminated
    <2>2. worker[w].out \in Seq(FromThread)
      BY TypesOf DEF ThreadType
    <2>3. SubSeq(worker[w].out, 1, Len(worker[w].out)) = worker[w].out
      BY <2>2, SubSeqFull
    <2>4. Len(worker[w].out) \in 0..Len(worker[w].out)
      BY <2>2
    <2> QED
      BY <2>1, <2>3, <2>4
  <1> QED
    BY <1>1, <1>2

LEMMA GoneKeeps ==
  ASSUME Inv, NEW w \in Workers, WorkerDies(w) \/ Terminated(w)
  PROVE  MainOK' /\ (\A v \in Workers : ChunkOK(v)' /\ ThreadOK(v)') /\ GraphExact'
  <1>0. Types /\ ThreadOK(w) /\ worker[w].up /\ UNCHANGED <<main, graph, chunk>>
    BY DEF Inv, WorkerDies, Terminated
  <1>1. PICK type \in {"died", "exit"}, kept \in 0..Len(worker[w].out) :
          worker' = [worker EXCEPT ![w] =
            [worker[w] EXCEPT !.up = FALSE, !.inbox = <<>>,
                              !.out = Append(SubSeq(worker[w].out, 1, kept), Says(type))]]
    BY <1>0, GoneIs
  <1>2. worker[w] \in ThreadType /\ worker[w].out \in Seq(FromThread)
    BY <1>0, TypesOf DEF ThreadType
  <1> DEFINE old == worker[w].out
             out == Append(SubSeq(old, 1, kept), Says(type))
             x == [worker[w] EXCEPT !.up = FALSE, !.inbox = <<>>, !.out = out]
  <1>3. Says(type) \in FromThread /\ IsEnd(Says(type))
    BY SaysTyped DEF IsEnd, Says
  <1>4. /\ out \in Seq(FromThread) /\ Len(out) = kept + 1 /\ out[kept + 1] = Says(type)
        /\ \A i \in 1..kept : out[i] = old[i]
    BY <1>2, <1>3, PartTyped
  <1>5. x \in ThreadType /\ ~x.up /\ x.inbox = <<>> /\ x.out = out
    <2> HIDE DEF out
    <2>1. x \in ThreadType
      BY <1>0, <1>4, GoneTyped
    <2> QED
      BY <1>2, <2>1 DEF ThreadType
  <1>6. worker' = [worker EXCEPT ![w] = x] /\ worker'[w] = x
    BY <1>0, <1>1, TypesOf
  <1> HIDE DEF out, x
  <1>7. Len(old) \in Nat /\ kept \in Nat /\ DOMAIN out = 1..(kept + 1)
    BY <1>2, <1>4
  <1>8. AliveOK(w)
    BY <1>0 DEF ThreadOK
  <1>9. chunk[w].state \in {"none", "waiting", "resolved", "rejected", "timed out"}
    BY <1>0, TypesOf DEF ChunkType, States
  <1>10. CASE chunk[w].state \in {"none", "resolved"}
    <2>1. Len(old) = 0
      BY <1>8, <1>10 DEF AliveOK
    <2>2. kept = 0
      BY <1>7, <2>1
    <2>3. \A i \in DOMAIN out : IsEnd(out[i])
      BY <1>3, <1>4, <1>7, <2>2
    <2>4. DeadOK(w)'
      BY <1>4, <1>5, <1>6, <2>3, OnlyEnds
    <2> QED
      BY <1>0, <1>5, <1>6, <2>4, ThreadSteps
  <1>11. CASE chunk[w].state = "waiting"
    <2>1. TakesTurns(w)
      BY <1>8, <1>11 DEF AliveOK
    <2>2. Len(old) \in {0, 1}
      <3>1. old = <<>> \/ \E m \in {Says("sub-batch-done"), Says("error"), Result(Chunk(w))} : old = <<m>>
        BY <2>1 DEF TakesTurns, Busy, HasParsed, HasThrown, HasFlushed
      <3>2. CASE old = <<>>
        BY <3>2
      <3>3. CASE \E m \in {Says("sub-batch-done"), Says("error"), Result(Chunk(w))} : old = <<m>>
        <4>1. PICK m : old = <<m>>
          BY <3>3
        <4> QED
          BY <4>1
      <3> QED
        BY <3>1, <3>2, <3>3
    <2>3. kept \in {0, 1} /\ (kept = 1 => Len(old) = 1)
      <3>1. PICK n \in {0, 1} : n = Len(old)
        BY <2>2
      <3>2. kept \in 0..n
        BY <3>1
      <3>3. kept \in {0, 1} /\ (kept = 1 => n = 1)
        BY <3>2
      <3> QED
        BY <3>1, <3>3
    <2>4. \A i \in DOMAIN out : i > 1 => IsEnd(out[i])
      BY <1>3, <1>4, <1>7, <2>3
    <2>5. out[1] = Says(type) \/ (Len(old) = 1 /\ out[1] = old[1])
      <3>1. CASE kept = 0
        BY <1>4, <3>1
      <3>2. CASE kept = 1
        <4>1. 1 \in 1..kept /\ Len(old) = 1
          BY <2>3, <3>2
        <4> QED
          BY <1>4, <4>1
      <3> QED
        BY <2>3, <3>1, <3>2
    <2>6. old[1].type = "sub-batch-done" /\ Len(old) = 1 => chunk[w].sent <= Most
      <3> SUFFICES ASSUME old[1].type = "sub-batch-done", Len(old) = 1
                   PROVE  chunk[w].sent <= Most
        OBVIOUS
      <3>1. HasParsed(w) /\ main.batch <= Len(Batches)
        BY <2>1 DEF TakesTurns, Busy, HasParsed, HasThrown, HasFlushed, Says, Result
      <3>2. chunk[w].sent \in Nat /\ chunk[w].sent >= 1
        BY <1>0, <2>1, TypesOf DEF ChunkType, TakesTurns
      <3>3. chunk[w].sent - 1 \in Nat /\ (chunk[w].sent - 1) + 1 = chunk[w].sent
        BY <3>2
      <3> QED
        BY <1>0, <3>1, <3>3, MostSuffices DEF HasParsed
    <2>7. old[1].type = "result" /\ Len(old) = 1 => old[1].files = Chunk(w)
      BY <2>1 DEF TakesTurns, Busy, HasParsed, HasThrown, HasFlushed, Says, Result
    <2>8. Chunk(w)' = Chunk(w)
      BY <1>0 DEF Chunk, Batch, ChunkSize
    <2>9. out[1].type = "sub-batch-done" => chunk[w].sent <= Most
      BY <1>3, <2>5, <2>6 DEF IsEnd
    <2>10. out[1].type = "result" => out[1].files = Chunk(w)
      BY <1>3, <2>5, <2>7 DEF IsEnd
    <2>11. DeadOK(w)'
      BY <1>0, <1>5, <1>6, <1>11, <2>4, <2>8, <2>9, <2>10 DEF DeadOK
    <2> QED
      BY <1>0, <1>5, <1>6, <2>11, ThreadSteps
  <1>12. CASE chunk[w].state \in {"rejected", "timed out"}
    <2>1. DeadOK(w)'
      BY <1>0, <1>5, <1>6, <1>12 DEF DeadOK
    <2> QED
      BY <1>0, <1>5, <1>6, <2>1, ThreadSteps
  <1> QED
    BY <1>9, <1>10, <1>11, <1>12

-----------------------------------------------------------------------------
(* The theorems *)

LEMMA InvNext ==
  ASSUME Inv, [Next]_vars
  PROVE  Inv'
  <1>1. CASE MainThread
    <2>1. Types'
      BY <1>1, MainThreadTyped
    <2>2. MainOK' /\ (\A w \in Workers : ChunkOK(w)' /\ ThreadOK(w)') /\ GraphExact'
      BY <1>1, DispatchKeeps, MergeKeeps, WithoutPoolKeeps, StopKeeps DEF MainThread
    <2> QED
      BY <2>1, <2>2 DEF Inv
  <1>2. ASSUME NEW w \in Workers, Events(w)
        PROVE  Inv'
    <2>1. Types'
      BY <1>2, EventsTyped
    <2>2. MainOK' /\ (\A v \in Workers : ChunkOK(v)' /\ ThreadOK(v)') /\ GraphExact'
      BY <1>2, SubBatchDoneKeeps, GotResultKeeps, GotFailureKeeps, IdleTimeoutKeeps,
         UnheardKeeps, UncaughtKeeps DEF Events
    <2> QED
      BY <2>1, <2>2 DEF Inv
  <1>3. ASSUME NEW w \in Workers, Thinks(w) \/ Terminated(w)
        PROVE  Inv'
    <2>1. Types'
      BY <1>3, ThinksTyped DEF Inv
    <2>2. MainOK' /\ (\A v \in Workers : ChunkOK(v)' /\ ThreadOK(v)') /\ GraphExact'
      BY <1>3, WorkKeeps, GoneKeeps DEF Thinks
    <2> QED
      BY <2>1, <2>2 DEF Inv
  <1>4. CASE UNCHANGED vars
    <2>1. Types'
      BY <1>4 DEF vars, Inv, Types
    <2>2. MainOK' /\ GraphExact'
      BY <1>4 DEF vars, Inv, MainOK, Alone, GraphExact
    <2>3. \A w \in Workers : ChunkOK(w)' /\ ThreadOK(w)'
      BY <1>4, Untouched DEF vars, Inv
    <2> QED
      BY <2>1, <2>2, <2>3 DEF Inv
  <1> QED
    BY <1>1, <1>2, <1>3, <1>4 DEF Next

LEMMA InvInit == Init => Inv
  <1> SUFFICES ASSUME Init PROVE Inv
    OBVIOUS
  <1>0. /\ main = [pc |-> "next", batch |-> 1, pool |-> TRUE] /\ graph = <<>>
        /\ chunk = [w \in Workers |-> NoChunk] /\ worker = [w \in Workers |-> Thread]
    BY DEF Init
  <1>1. Types
    <2>1. Thread \in [up : BOOLEAN, inbox : Seq(ToThread), acc : FileLists, out : Seq(FromThread)]
      BY DEF Thread, FileLists
    <2>2. NoChunk \in [state : States, sent : Nat, files : FileLists]
      BY ChunksTyped DEF ChunkType
    <2>3. 1 \in 1..(Len(Batches) + 1) /\ <<>> \in FileLists
      BY PoolAssumption DEF FileLists
    <2> QED
      BY <1>0, <2>1, <2>2, <2>3 DEF Types
  <1>2. MainOK
    BY <1>0 DEF MainOK, Alone
  <1>3. \A w \in Workers : ChunkOK(w)
    BY <1>0 DEF ChunkOK
  <1>4. ASSUME NEW w \in Workers
        PROVE  ThreadOK(w)
    BY <1>0, MostIs DEF ThreadOK, AliveOK, NoChunk, Thread
  <1>5. GraphExact
    <2>1. SubSeq(Batches, 1, 0) = <<>>
      BY SubSeqEmpty
    <2>2. main.batch - 1 = 0
      BY <1>0
    <2> QED
      BY <1>0, <2>1, <2>2, FlattenNothing DEF GraphExact
  <1> QED
    BY <1>1, <1>2, <1>3, <1>4, <1>5 DEF Inv

LEMMA InvIsInvariant == Spec => []Inv
  BY InvInit, InvNext, PTL DEF Spec

LEMMA InvTyped ==
  ASSUME Inv
  PROVE  TypeOK
  <1>1. /\ main.pc \in {"next", "wait", "terminate", "sequential", "done", "crashed"}
        /\ main.batch \in 1..(Len(Batches) + 1) /\ main.pool \in BOOLEAN /\ graph \in Seq(Files)
    BY DEF Inv, Types, FileLists
  <1>2. ASSUME NEW w \in Workers
        PROVE  /\ chunk[w].state \in {"none", "waiting", "resolved", "rejected", "timed out"}
               /\ chunk[w].sent \in 0..(Most + 1)
               /\ chunk[w].files \in Seq(Files)
               /\ worker[w].up \in BOOLEAN
               /\ worker[w].acc \in Seq(Files)
               /\ Len(worker[w].inbox) <= 1
    <2>1. chunk[w] \in ChunkType /\ worker[w] \in ThreadType /\ ThreadOK(w)
      BY TypesOf DEF Inv
    <2>2. chunk[w].sent \in 0..(Most + 1)
      BY <2>1, MostIs DEF ChunkType, ThreadOK
    <2>3. Len(<<>>) <= 1
      OBVIOUS
    <2>4. Len(worker[w].inbox) <= 1
      BY <2>1, <2>3 DEF ThreadOK, AliveOK, DeadOK
    <2> QED
      BY <2>1, <2>2, <2>4 DEF ChunkType, ThreadType, States, FileLists
  <1> QED
    BY <1>1, <1>2 DEF TypeOK, Most

(* The variables have their types, a thread is sent one message at a time, and
   no chunk takes more messages than its files and the flush. *)
THEOREM WorkerPoolTypes == Spec => []TypeOK
  BY InvIsInvariant, InvTyped, PTL

(* The graph holds the files of the batches so far, each once and in order,
   whatever threads throw, die, lose, or say late, and whether or not a batch
   was parsed again without them. *)
THEOREM FilesOnceInOrder == Spec => []GraphExact
  <1>1. Inv => GraphExact
    BY DEF Inv
  <1> QED
    BY <1>1, InvIsInvariant, PTL

-----------------------------------------------------------------------------
(* Deaths *)

\* A thread that dies while it works leaves its death alone to be heard.
LEMMA DyingIs ==
  ASSUME Inv, ~StartFails, NEW w \in Workers, WorkerDies(w), DeathsHeard
  PROVE  DeathHeard(w)'
  <1>0. Types /\ worker[w].up /\ worker[w].inbox # <<>> /\ UNCHANGED <<main, graph, chunk>>
    BY DEF Inv, WorkerDies
  <1>1. CASE chunk[w].state = "timed out"
    BY <1>0, <1>1 DEF DeathHeard
  <1>2. CASE chunk[w].state = "waiting" /\ TakesTurns(w) /\ Busy(w)
    <2>1. PICK type \in {"died", "exit"}, kept \in 0..Len(worker[w].out) :
            worker' = [worker EXCEPT ![w] =
              [worker[w] EXCEPT !.up = FALSE, !.inbox = <<>>,
                                !.out = Append(SubSeq(worker[w].out, 1, kept), Says(type))]]
      BY <1>0, GoneIs
    <2>2. worker[w].out = <<>>
      BY <1>2 DEF Busy
    <2>3. kept = 0
      BY <2>2
    <2>4. worker'[w].out = Append(SubSeq(worker[w].out, 1, kept), Says(type))
      BY <1>0, <2>1, TypesOf DEF ThreadType
    <2>5. SubSeq(worker[w].out, 1, kept) = <<>>
      BY <2>2, <2>3, SubSeqEmpty
    <2>6. Append(<<>>, Says(type)) = <<Says(type)>>
      OBVIOUS
    <2>7. Len(worker'[w].out) = 1
      BY <2>4, <2>5, <2>6
    <2> QED
      BY <1>0, <1>2, <2>7 DEF DeathHeard
  <1> QED
    BY <1>0, <1>1, <1>2, WorkingIs

LEMMA NoDeathInOne == NoDeath(<<>>) /\ \A m : m.type # "died" => NoDeath(<<m>>)
  BY DEF NoDeath

\* Taking the first message away leaves no death if a death is alone.
LEMMA NoDeathInTail ==
  ASSUME NEW A, NEW s \in Seq(A), s # <<>>, NoDeath(s) \/ Len(s) = 1
  PROVE  NoDeath(Tail(s))
  <1>1. PICK n \in Nat :
          /\ n = Len(s) /\ DOMAIN s = 1..n /\ DOMAIN Tail(s) = 1..(n - 1)
          /\ \A i \in 1..(n - 1) :
               n # 1 /\ i + 1 \in 1..n /\ i + 1 > 1 /\ Tail(s)[i] = s[i + 1]
    BY TailIs
  <1>2. ASSUME NEW i \in DOMAIN Tail(s)
        PROVE  Tail(s)[i].type # "died"
    <2>1. Tail(s)[i] = s[i + 1] /\ i + 1 \in DOMAIN s /\ Len(s) # 1
      BY <1>1
    <2> QED
      BY <2>1 DEF NoDeath
  <1> QED
    BY <1>2 DEF NoDeath

\* A thread that still works has not said that it died.
LEMMA NoDeathYet ==
  ASSUME Inv, NEW w \in Workers, worker[w].up, chunk[w].state # "timed out"
  PROVE  NoDeath(worker[w].out)
  <1>1. chunk[w].state \in {"none", "waiting", "resolved", "rejected"}
    BY TypesOf DEF Inv, ChunkType, States
  <1>2. \/ worker[w].out = <<>>
        \/ \E m \in {Says("sub-batch-done"), Says("error"), Result(Chunk(w))} : worker[w].out = <<m>>
    <2>1. chunk[w].state # "waiting" => worker[w].out = <<>>
      BY <1>1 DEF Inv, ThreadOK, AliveOK
    <2>2. chunk[w].state = "waiting" => TakesTurns(w)
      BY DEF Inv, ThreadOK, AliveOK
    <2> QED
      BY <2>1, <2>2 DEF TakesTurns, Busy, HasParsed, HasThrown, HasFlushed
  <1>3. /\ Says("sub-batch-done").type # "died" /\ Says("error").type # "died"
        /\ Result(Chunk(w)).type # "died"
    BY DEF Says, Result
  <1> QED
    BY <1>2, <1>3, NoDeathInOne

\* A death that has not been heard is alone, and gone with the next message.
LEMMA DroppedDeath ==
  ASSUME Inv, DeathsHeard, NEW w \in Workers, worker[w].out # <<>>, chunk[w].state # "timed out",
         worker' = [worker EXCEPT ![w] = Drop(w)] \/ \E m : worker' = [worker EXCEPT ![w] = Post(Drop(w), m)]
  PROVE  NoDeath(worker'[w].out)
  <1>1. worker[w].out \in Seq(FromThread) /\ Drop(w).out = Tail(worker[w].out) /\ Types
    BY TypesOf, DropIs DEF Inv, ThreadType
  <1>2. worker'[w].out = Tail(worker[w].out)
    <2>1. Drop(w) \in ThreadType
      BY <1>1, DropTyped
    <2>2. \A m : Post(Drop(w), m).out = Tail(worker[w].out)
      BY <1>1, <2>1 DEF Post, ThreadType
    <2> QED
      BY <1>1, <2>2, TypesOf
  <1>3. NoDeath(worker[w].out) \/ Len(worker[w].out) = 1
    BY DEF DeathsHeard, DeathHeard
  <1> QED
    BY <1>1, <1>2, <1>3, NoDeathInTail

LEMMA NoDeathAppended ==
  ASSUME NEW A, NEW s \in Seq(A), NEW m \in A, NoDeath(s), m.type # "died"
  PROVE  NoDeath(Append(s, m))
  <1>1. Append(s, m) \in Seq(A) /\ Len(Append(s, m)) = Len(s) + 1
    BY AppendProperties
  <1>2. ASSUME NEW i \in DOMAIN Append(s, m)
        PROVE  Append(s, m)[i].type # "died"
    BY <1>1 DEF NoDeath
  <1> QED
    BY <1>2 DEF NoDeath

\* A step of one thread, or of the main thread with it.
LEMMA DeathOfOne ==
  ASSUME DeathsHeard, NEW w \in Workers, DeathHeard(w)',
         \A v \in Workers \ {w} : chunk'[v] = chunk[v] /\ worker'[v] = worker[v]
  PROVE  DeathsHeard'
  <1>1. ASSUME NEW v \in Workers, v # w
        PROVE  DeathHeard(v)'
    <2>1. chunk'[v] = chunk[v] /\ worker'[v] = worker[v] /\ DeathHeard(v)
      BY <1>1 DEF DeathsHeard
    <2> QED
      BY <2>1, Zenon DEF DeathHeard
  <1> QED
    BY <1>1 DEF DeathsHeard

LEMMA MainThreadDeaths ==
  ASSUME Inv, DeathsHeard, MainThread
  PROVE  DeathsHeard'
  <1>1. CASE Dispatch
    <2> SUFFICES ASSUME NEW w \in Workers PROVE NoDeath(worker'[w].out)
      BY DEF DeathsHeard, DeathHeard
    <2>1. chunk[w].state = "none"
      BY <1>1 DEF Inv, MainOK, Dispatch, NoChunk
    <2>2. NoDeath(worker[w].out)
      BY <2>1 DEF DeathsHeard, DeathHeard
    <2>3. worker[w] \in ThreadType
      BY TypesOf DEF Inv
    <2>4. worker'[w] \in {worker[w], Post(worker[w], Message(w, 0))}
      BY <1>1 DEF Dispatch
    <2>5. worker'[w].out = worker[w].out
      BY <2>3, <2>4 DEF Post, ThreadType
    <2> QED
      BY <2>2, <2>5
  <1>2. CASE Merge
    <2> SUFFICES ASSUME NEW w \in Workers PROVE NoDeath(worker'[w].out)
      BY DEF DeathsHeard, DeathHeard
    <2>1. chunk[w].state \in {"none", "resolved"} /\ worker' = worker
      BY <1>2 DEF Merge, Resolved
    <2> QED
      BY <2>1 DEF DeathsHeard, DeathHeard
  <1>3. CASE FallBack \/ ParseSequentially \/ WithoutPool
    <2>1. UNCHANGED <<chunk, worker>>
      BY <1>3 DEF FallBack, ParseSequentially, WithoutPool
    <2> QED
      BY <2>1 DEF DeathsHeard, DeathHeard
  <1>4. CASE End
    <2> SUFFICES ASSUME NEW w \in Workers PROVE NoDeath(worker'[w].out)
      BY DEF DeathsHeard, DeathHeard
    <2>1. worker[w] \in ThreadType
      BY TypesOf DEF Inv
    <2>2. worker'[w].out = <<>>
      BY <1>4, <2>1 DEF End, ThreadType
    <2> QED
      BY <2>2, NoDeathInOne
  <1> QED
    BY <1>1, <1>2, <1>3, <1>4 DEF MainThread

LEMMA EventsDeaths ==
  ASSUME Inv, DeathsHeard, NEW w \in Workers, Events(w)
  PROVE  DeathsHeard'
  <1>0. Types /\ chunk \in [Workers -> ChunkType] /\ worker \in [Workers -> ThreadType]
    BY TypesOf DEF Inv
  <1>1. CASE SubBatchDone(w) \/ GotResult(w) \/ GotFailure(w)
    <2>1. /\ worker[w].out # <<>> /\ chunk[w].state = "waiting"
          /\ \/ worker' = [worker EXCEPT ![w] = Drop(w)]
             \/ \E m : worker' = [worker EXCEPT ![w] = Post(Drop(w), m)]
      BY <1>1 DEF SubBatchDone, GotResult, GotFailure, Event, Heard
    <2>2. NoDeath(worker'[w].out)
      BY <2>1, DroppedDeath
    <2>3. \A v \in Workers \ {w} : worker'[v] = worker[v]
      BY <1>0, <2>1
    <2>4. \A v \in Workers \ {w} : chunk'[v] = chunk[v]
      BY <1>0, <1>1 DEF SubBatchDone, GotResult, GotFailure, Reject
    <2> QED
      BY <2>2, <2>3, <2>4, DeathOfOne DEF DeathHeard
  <1>2. CASE IdleTimeout(w)
    <2>1. worker' = worker /\ chunk' = [chunk EXCEPT ![w].state = "timed out"]
      BY <1>2 DEF IdleTimeout, Reject
    <2>2. chunk'[w].state = "timed out" /\ \A v \in Workers \ {w} : chunk'[v] = chunk[v]
      BY <1>0, <2>1 DEF ChunkType
    <2> QED
      BY <2>1, <2>2, DeathOfOne DEF DeathHeard
  <1>3. CASE Unheard(w)
    <2>1. worker[w].out # <<>> /\ chunk' = chunk /\ worker' = [worker EXCEPT ![w] = Drop(w)]
      BY <1>3 DEF Unheard, Event
    <2>2. chunk'[w].state = "timed out" \/ NoDeath(worker'[w].out)
      BY <2>1, DroppedDeath
    <2>3. \A v \in Workers \ {w} : worker'[v] = worker[v]
      BY <1>0, <2>1
    <2> QED
      BY <2>1, <2>2, <2>3, DeathOfOne DEF DeathHeard
  <1>4. CASE Uncaught(w)
    BY <1>4 DEF Uncaught, DeathsHeard, DeathHeard
  <1> QED
    BY <1>1, <1>2, <1>3, <1>4 DEF Events

\* What a thread says while it lives is no death.
LEMMA AnswersDeaths ==
  ASSUME Inv, DeathsHeard, NEW w \in Workers, worker[w].up, worker[w].inbox # <<>>,
         UNCHANGED chunk, NEW acc \in FileLists, NEW m \in FromThread, Answer(w, acc, m),
         m.type # "died"
  PROVE  DeathsHeard'
  <1>0. Types /\ worker[w].out \in Seq(FromThread)
    BY TypesOf DEF Inv, ThreadType
  <1>1. PICK x \in ThreadType : Answered(x, w, acc, m)
    BY <1>0, AnswerIs
  <1>2. /\ worker'[w].out = Append(worker[w].out, m)
        /\ \A v \in Workers \ {w} : worker'[v] = worker[v]
    BY <1>0, <1>1, TypesOf DEF Answered
  <1>3. chunk'[w].state = "timed out" \/ NoDeath(worker'[w].out)
    <2>1. chunk[w].state # "timed out" => NoDeath(worker[w].out)
      BY NoDeathYet
    <2>2. NoDeath(worker[w].out) => NoDeath(Append(worker[w].out, m))
      BY <1>0, NoDeathAppended
    <2> QED
      BY <1>2, <2>1, <2>2
  <1> QED
    BY <1>2, <1>3, DeathOfOne DEF DeathHeard

LEMMA WorkDeaths ==
  ASSUME Inv, DeathsHeard, NEW w \in Workers,
         WorkSubBatch(w) \/ WorkThrows(w) \/ WorkFlush(w)
  PROVE  DeathsHeard'
  <1>0. worker[w] \in ThreadType /\ worker[w].up /\ worker[w].inbox # <<>> /\ UNCHANGED chunk
    BY TypesOf DEF Inv, WorkSubBatch, WorkThrows, WorkFlush, Works
  <1>1. worker[w].acc \in FileLists /\ <<>> \in FileLists
    BY <1>0 DEF ThreadType, FileLists
  <1>2. /\ Says("sub-batch-done") \in FromThread /\ Says("sub-batch-done").type # "died"
        /\ Says("error") \in FromThread /\ Says("error").type # "died"
        /\ Result(worker[w].acc) \in FromThread /\ Result(worker[w].acc).type # "died"
    BY <1>1 DEF Says, Result, FromThread
  <1>3. CASE WorkSubBatch(w)
    <2>1. worker[w].inbox \in Seq(ToThread) /\ Head(worker[w].inbox).type = "sub-batch"
      BY <1>0, <1>3 DEF ThreadType, WorkSubBatch, Works
    <2>2. Head(worker[w].inbox) \in ToThread
      BY <1>0, <2>1, HeadTailProperties
    <2>3. Head(worker[w].inbox).files \in FileLists
      BY <2>1, <2>2 DEF ToThread, Flush
    <2>4. worker[w].acc \o Head(worker[w].inbox).files \in FileLists
      BY <1>1, <2>3 DEF FileLists
    <2>5. Answer(w, worker[w].acc \o Head(worker[w].inbox).files, Says("sub-batch-done"))
      BY <1>3 DEF WorkSubBatch
    <2> QED
      BY <1>0, <1>2, <2>4, <2>5, AnswersDeaths
  <1>4. CASE WorkThrows(w)
    <2>1. Answer(w, worker[w].acc, Says("error"))
      BY <1>4 DEF WorkThrows
    <2> QED
      BY <1>0, <1>1, <1>2, <2>1, AnswersDeaths
  <1>5. CASE WorkFlush(w)
    <2>1. Answer(w, <<>>, Result(worker[w].acc))
      BY <1>5 DEF WorkFlush
    <2> QED
      BY <1>0, <1>1, <1>2, <2>1, AnswersDeaths
  <1> QED
    BY <1>3, <1>4, <1>5

LEMMA GoneDeaths ==
  ASSUME Inv, DeathsHeard, ~StartFails, NEW w \in Workers, WorkerDies(w) \/ Terminated(w)
  PROVE  DeathsHeard'
  <1>0. Types /\ worker[w].up /\ UNCHANGED chunk
    BY DEF Inv, WorkerDies, Terminated
  <1>1. \A v \in Workers \ {w} : worker'[v] = worker[v]
    BY <1>0, GoneIs, TypesOf
  <1>2. CASE WorkerDies(w)
    BY <1>0, <1>1, <1>2, DyingIs, DeathOfOne
  <1>3. CASE Terminated(w)
    <2>1. worker[w] \in ThreadType /\ worker[w].out \in Seq(FromThread)
      BY <1>0, TypesOf DEF ThreadType
    <2>2. worker' = [worker EXCEPT ![w] = [worker[w] EXCEPT !.up = FALSE, !.inbox = <<>>,
                                              !.out = Append(@, Says("exit"))]]
      BY <1>3 DEF Terminated
    <2>3. worker'[w].out = Append(worker[w].out, Says("exit"))
      BY <1>0, <2>1, <2>2, TypesOf DEF ThreadType
    <2>4. Says("exit") \in FromThread /\ Says("exit").type # "died"
      BY DEF Says, FromThread
    <2>5. chunk[w].state # "timed out" => NoDeath(worker[w].out)
      BY <1>0, NoDeathYet
    <2>6. NoDeath(worker[w].out) => NoDeath(Append(worker[w].out, Says("exit")))
      BY <2>1, <2>4, NoDeathAppended
    <2>7. DeathHeard(w)'
      BY <1>0, <2>3, <2>5, <2>6 DEF DeathHeard
    <2> QED
      BY <1>0, <1>1, <2>7, DeathOfOne
  <1> QED
    BY <1>2, <1>3

\* The process goes down when a death finds nobody, and then nothing happens.
LEMMA CrashStays ==
  ASSUME Inv, DeathsHeard, CrashNeedsTimeout, [Next]_vars
  PROVE  CrashNeedsTimeout'
  <1>1. CASE main.pc = "crashed"
    <2>1. ~MainThread
      BY <1>1 DEF MainThread, Dispatch, Merge, FallBack, ParseSequentially, WithoutPool, End
    <2>2. \A w \in Workers : ~Events(w) /\ ~Thinks(w) /\ ~Terminated(w)
      BY <1>1 DEF Events, Thinks, Terminated, SubBatchDone, GotResult, GotFailure, IdleTimeout,
                  Unheard, Uncaught, Event, Running, WorkSubBatch, WorkThrows, WorkFlush,
                  WorkerDies, Works
    <2>3. UNCHANGED vars
      BY <2>1, <2>2 DEF Next
    <2> QED
      BY <2>3 DEF vars, CrashNeedsTimeout
  <1>2. CASE main.pc # "crashed"
    <2>0. main \in [pc : {"next", "wait", "terminate", "sequential", "done", "crashed"},
                    batch : 1..(Len(Batches) + 1), pool : BOOLEAN]
      BY DEF Inv, Types
    <2>1. ASSUME NEW w \in Workers, Uncaught(w)
          PROVE  chunk'[w].state = "timed out"
      <3>1. /\ worker[w].out # <<>> /\ Head(worker[w].out).type = "died"
            /\ chunk[w].state # "waiting" /\ chunk' = chunk
        BY <2>1 DEF Uncaught, Event, Heard
      <3>2. worker[w].out \in Seq(FromThread)
        BY TypesOf DEF Inv, ThreadType
      <3>3. Head(worker[w].out) = worker[w].out[1] /\ 1 \in DOMAIN worker[w].out
        BY <3>1, <3>2
      <3>4. ~NoDeath(worker[w].out)
        BY <3>1, <3>3 DEF NoDeath
      <3> QED
        BY <3>1, <3>4 DEF DeathsHeard, DeathHeard
    <2>2. CASE \E w \in Workers : Uncaught(w)
      BY <2>1, <2>2 DEF CrashNeedsTimeout
    <2>3. CASE MainThread
      <3>1. CASE Dispatch \/ FallBack \/ End
        <4>1. \E pc \in {"wait", "sequential", "done"} : main' = [main EXCEPT !.pc = pc]
          BY <3>1 DEF Dispatch, FallBack, End
        <4> QED
          BY <2>0, <4>1 DEF CrashNeedsTimeout
      <3>2. CASE Merge \/ ParseSequentially \/ WithoutPool
        <4>1. main'.pc = "next"
          BY <3>2 DEF Merge, ParseSequentially, WithoutPool, NextBatch
        <4> QED
          BY <4>1 DEF CrashNeedsTimeout
      <3> QED
        BY <2>3, <3>1, <3>2 DEF MainThread
    <2>4. ASSUME NEW w \in Workers, SubBatchDone(w) \/ GotResult(w) \/ Unheard(w) \/ Thinks(w) \/ Terminated(w)
          PROVE  main' = main
      BY <2>4 DEF SubBatchDone, GotResult, Unheard, Thinks, Terminated, WorkSubBatch, WorkThrows,
                  WorkFlush, WorkerDies
    <2>5. ASSUME NEW w \in Workers, GotFailure(w) \/ IdleTimeout(w)
          PROVE  main'.pc # "crashed"
      BY <1>2, <2>0, <2>5 DEF GotFailure, IdleTimeout, Reject
    <2>6. CASE \E w \in Workers : SubBatchDone(w) \/ GotResult(w) \/ Unheard(w) \/ Thinks(w) \/ Terminated(w)
      BY <1>2, <2>4, <2>6 DEF CrashNeedsTimeout
    <2>7. CASE \E w \in Workers : GotFailure(w) \/ IdleTimeout(w)
      BY <2>5, <2>7 DEF CrashNeedsTimeout
    <2>8. CASE UNCHANGED vars
      BY <1>2, <2>8 DEF vars, CrashNeedsTimeout
    <2> QED
      BY <2>2, <2>3, <2>6, <2>7, <2>8 DEF Next, Events
  <1> QED
    BY <1>1, <1>2

LEMMA DeathsNext ==
  ASSUME Inv, DeathsHeard, ~StartFails, [Next]_vars
  PROVE  DeathsHeard'
  <1>1. CASE MainThread
    BY <1>1, MainThreadDeaths
  <1>2. ASSUME NEW w \in Workers, Events(w) \/ Thinks(w) \/ Terminated(w)
        PROVE  DeathsHeard'
    BY <1>2, EventsDeaths, WorkDeaths, GoneDeaths DEF Thinks
  <1>3. CASE UNCHANGED vars
    BY <1>3 DEF vars, DeathsHeard, DeathHeard
  <1> QED
    BY <1>1, <1>2, <1>3 DEF Next

(* Threads that fail together do not take the process down: when no thread
   dies before it has work, an error event finds no listener only after some
   chunk has timed out. *)
THEOREM DeathsAreHeard ==
  ASSUME ~StartFails
  PROVE  Spec => []CrashNeedsTimeout
  <1>1. Init => Inv /\ DeathsHeard /\ CrashNeedsTimeout
    <2> SUFFICES ASSUME Init PROVE DeathsHeard /\ CrashNeedsTimeout
      BY InvInit
    <2>1. main.pc # "crashed"
      BY DEF Init
    <2>2. ASSUME NEW w \in Workers PROVE NoDeath(worker[w].out)
      BY NoDeathInOne DEF Init, Thread
    <2> QED
      BY <2>1, <2>2 DEF DeathsHeard, DeathHeard, CrashNeedsTimeout
  <1>2. Inv /\ DeathsHeard /\ CrashNeedsTimeout /\ [Next]_vars
          => (Inv /\ DeathsHeard /\ CrashNeedsTimeout)'
    BY InvNext, DeathsNext, CrashStays
  <1> QED
    BY <1>1, <1>2, PTL DEF Spec
=============================================================================

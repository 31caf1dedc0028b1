------------------------ MODULE CommitHistoryProofs ------------------------
(***************************************************************************)
(* What the commit walk, the common ancestor and the three-way merge       *)
(* compute, for every commit graph: the lemmas of CommitHistory.           *)
(***************************************************************************)
EXTENDS CommitHistory, FiniteSetTheorems, WellFoundedInduction, TLAPS

-----------------------------------------------------------------------------
(* Natural numbers *)

LEMMA Least ==
  ASSUME NEW S \in SUBSET Nat, S # {}
  PROVE  \E n \in S : \A m \in S : n <= m
  <1> DEFINE R == OpToRel(<, Nat)
  <1>1. IsWellFoundedOn(R, Nat)
    BY NatLessThanWellFounded
  <1>2. R = {ss \in Nat \X Nat : ss[1] < ss[2]}
    BY DEF OpToRel
  <1> HIDE DEF R
  <1>3. PICK n \in S : \A m \in S : ~(<<m, n>> \in R)
    BY <1>1, WFMin
  <1>4. \A m \in S : ~(m < n)
    BY <1>2, <1>3
  <1> QED
    BY <1>4

LEMMA Induction ==
  ASSUME NEW S \in SUBSET Nat, 0 \in S, \A n \in S : n + 1 \in S
  PROVE  S = Nat
  <1> SUFFICES ASSUME Nat \ S # {} PROVE FALSE
    OBVIOUS
  <1>1. PICK n \in Nat \ S : \A m \in Nat \ S : n <= m
    BY Least
  <1>2. n # 0
    OBVIOUS
  <1>3. n - 1 \in Nat /\ ~(n <= n - 1)
    BY <1>2
  <1>4. n - 1 \in S
    BY <1>1, <1>3
  <1>5. (n - 1) + 1 = n
    OBVIOUS
  <1> QED
    BY <1>4, <1>5

\* The same up to N: what holds at 0 and is handed on holds everywhere.
LEMMA InductionUpTo ==
  ASSUME NEW N \in Nat, NEW S, 0 \in S,
         \A n \in 0..(N - 1) : n \in S => n + 1 \in S
  PROVE  \A n \in 0..N : n \in S
  <1> DEFINE T == {n \in Nat : n <= N => n \in S}
  <1>1. T \in SUBSET Nat /\ 0 \in T
    OBVIOUS
  <1>2. \A n \in T : n + 1 \in T
    OBVIOUS
  <1> HIDE DEF T
  <1>3. T = Nat
    BY <1>1, <1>2, Induction
  <1> QED
    BY <1>3 DEF T

\* Functions may be defined by recursion: step[n] takes the value before n to the
\* value at n.
Follows(f, a, step, N) ==
  /\ f[0] = a
  /\ \A n \in 1..N : f[n] = step[n][f[n - 1]]

LEMMA Recursion ==
  ASSUME NEW N \in Nat, NEW T, NEW a \in T, NEW step \in [1..N -> [T -> T]]
  PROVE  \E f \in [0..N -> T] : Follows(f, a, step, N)
  <1> DEFINE S == {n \in Nat : \E f \in [0..n -> T] : Follows(f, a, step, n)}
  <1>1. 0 \in S
    <2>1. [n \in 0..0 |-> a] \in [0..0 -> T]
      OBVIOUS
    <2>2. Follows([n \in 0..0 |-> a], a, step, 0)
      BY DEF Follows
    <2> QED
      BY <2>1, <2>2
  <1>2. ASSUME NEW n \in 0..(N - 1), n \in S
        PROVE  n + 1 \in S
    <2>1. PICK f \in [0..n -> T] : Follows(f, a, step, n)
      BY <1>2
    <2>2. n + 1 \in 1..N /\ f[n] \in T /\ n + 1 \in Nat
      OBVIOUS
    <2>3. step[n + 1][f[n]] \in T
      BY <2>2
    <2> DEFINE g == [k \in 0..(n + 1) |-> IF k <= n THEN f[k] ELSE step[n + 1][f[n]]]
    <2>4. g \in [0..(n + 1) -> T]
      BY <2>3
    <2>5. g[0] = a
      BY <2>1 DEF Follows
    <2>6. ASSUME NEW k \in 1..(n + 1)
          PROVE  g[k] = step[k][g[k - 1]]
      <3>1. CASE k <= n
        <4>1. g[k] = f[k] /\ g[k - 1] = f[k - 1]
          BY <3>1
        <4>2. f[k] = step[k][f[k - 1]]
          BY <2>1, <3>1 DEF Follows
        <4> QED
          BY <4>1, <4>2
      <3>2. CASE k = n + 1
        <4>1. g[k] = step[n + 1][f[n]] /\ g[k - 1] = f[n]
          BY <3>2
        <4> QED
          BY <4>1, <3>2
      <3> QED
        BY <3>1, <3>2
    <2>7. Follows(g, a, step, n + 1)
      BY <2>5, <2>6 DEF Follows
    <2> HIDE DEF g
    <2> QED
      BY <2>2, <2>4, <2>7
  <1> HIDE DEF S
  <1>3. \A n \in 0..N : n \in S
    BY <1>1, <1>2, InductionUpTo
  <1>4. N \in S
    BY <1>3
  <1> QED
    BY <1>4 DEF S

-----------------------------------------------------------------------------
(* Sequences as lists *)

Members(s) == {s[k] : k \in DOMAIN s}

LEMMA MembersOfSeq ==
  ASSUME NEW D, NEW s \in Seq(D)
  PROVE  Members(s) \subseteq D
  BY DEF Members

LEMMA MembersOfAppend ==
  ASSUME NEW D, NEW s \in Seq(D), NEW e \in D
  PROVE  Members(Append(s, e)) = Members(s) \cup {e}
  <1>1. Append(s, e) \in Seq(D) /\ DOMAIN Append(s, e) = 1..(Len(s) + 1)
    OBVIOUS
  <1>2. DOMAIN s = 1..Len(s) /\ Len(s) \in Nat
    OBVIOUS
  <1>3. \A k \in 1..Len(s) : Append(s, e)[k] = s[k]
    OBVIOUS
  <1>4. Append(s, e)[Len(s) + 1] = e
    OBVIOUS
  <1> QED
    BY <1>1, <1>2, <1>3, <1>4 DEF Members

LEMMA MembersOfConcat ==
  ASSUME NEW D, NEW s \in Seq(D), NEW t \in Seq(D)
  PROVE  Members(s \o t) = Members(s) \cup Members(t)
  <1>1. DOMAIN (s \o t) = 1..(Len(s) + Len(t))
    OBVIOUS
  <1>2. DOMAIN s = 1..Len(s) /\ Len(s) \in Nat
    OBVIOUS
  <1>3. DOMAIN t = 1..Len(t) /\ Len(t) \in Nat
    OBVIOUS
  <1>4. \A k \in 1..Len(s) : (s \o t)[k] = s[k]
    OBVIOUS
  <1>5. \A k \in 1..Len(t) : (s \o t)[Len(s) + k] = t[k]
    OBVIOUS
  <1>6. \A k \in 1..(Len(s) + Len(t)) :
          k \in 1..Len(s) \/ \E j \in 1..Len(t) : k = Len(s) + j
    <2> SUFFICES ASSUME NEW k \in 1..(Len(s) + Len(t)), ~(k \in 1..Len(s))
                 PROVE  \E j \in 1..Len(t) : k = Len(s) + j
      OBVIOUS
    <2>1. k - Len(s) \in 1..Len(t) /\ k = Len(s) + (k - Len(s))
      BY <1>2, <1>3
    <2> QED
      BY <2>1
  <1>7. Members(s \o t) \subseteq Members(s) \cup Members(t)
    BY <1>1, <1>2, <1>3, <1>4, <1>5, <1>6 DEF Members
  <1>8. Members(s) \subseteq Members(s \o t)
    BY <1>1, <1>2, <1>3, <1>4 DEF Members
  <1>9. \A j \in 1..Len(t) : Len(s) + j \in 1..(Len(s) + Len(t))
    BY <1>2, <1>3
  <1>10. Members(t) \subseteq Members(s \o t)
    BY <1>1, <1>3, <1>5, <1>9 DEF Members
  <1> QED
    BY <1>7, <1>8, <1>10

LEMMA MembersOfTail ==
  ASSUME NEW D, NEW s \in Seq(D), s # <<>>
  PROVE  /\ Head(s) \in D /\ Tail(s) \in Seq(D)
         /\ Len(Tail(s)) = Len(s) - 1
         /\ Members(s) = {Head(s)} \cup Members(Tail(s))
  <1>1. Len(s) \in Nat \ {0} /\ DOMAIN s = 1..Len(s)
    <2>1. Len(s) \in Nat /\ DOMAIN s = 1..Len(s)
      OBVIOUS
    <2>2. Len(s) # 0
      OBVIOUS
    <2> QED
      BY <2>1, <2>2
  <1>2. Head(s) \in D /\ Tail(s) \in Seq(D) /\ Len(Tail(s)) = Len(s) - 1
    OBVIOUS
  <1>3. DOMAIN Tail(s) = 1..(Len(s) - 1)
    BY <1>2
  <1>4. \A k \in 1..(Len(s) - 1) : Tail(s)[k] = s[k + 1]
    BY <1>1
  <1>5. Head(s) = s[1]
    BY <1>1
  <1>6. \A k \in 1..Len(s) : k = 1 \/ \E j \in 1..(Len(s) - 1) : k = j + 1
    <2> SUFFICES ASSUME NEW k \in 1..Len(s), k # 1
                 PROVE  \E j \in 1..(Len(s) - 1) : k = j + 1
      OBVIOUS
    <2>1. k - 1 \in 1..(Len(s) - 1) /\ k = (k - 1) + 1
      BY <1>1
    <2> QED
      BY <2>1
  <1>7. Members(s) \subseteq {Head(s)} \cup Members(Tail(s))
    <2>1. \A k \in 1..(Len(s) - 1) : s[k + 1] \in Members(Tail(s))
      BY <1>3, <1>4 DEF Members
    <2>2. \A k \in 1..Len(s) : s[k] \in {Head(s)} \cup Members(Tail(s))
      BY <1>5, <1>6, <2>1
    <2> QED
      BY <1>1, <2>2 DEF Members
  <1>8. \A k \in 1..(Len(s) - 1) : k + 1 \in 1..Len(s)
    BY <1>1
  <1>9. Members(Tail(s)) \subseteq Members(s)
    BY <1>1, <1>3, <1>4, <1>8 DEF Members
  <1>10. Head(s) \in Members(s)
    BY <1>1, <1>5 DEF Members
  <1> QED
    BY <1>2, <1>7, <1>9, <1>10

LEMMA AppendFacts ==
  ASSUME NEW D, NEW s \in Seq(D), NEW e \in D
  PROVE  /\ Append(s, e) \in Seq(D)
         /\ DOMAIN Append(s, e) = 1..(Len(s) + 1)
         /\ \A k \in 1..Len(s) : Append(s, e)[k] = s[k]
         /\ Append(s, e)[Len(s) + 1] = e
  OBVIOUS

LEMMA ConcatFacts ==
  ASSUME NEW D, NEW s \in Seq(D), NEW t \in Seq(D)
  PROVE  /\ s \o t \in Seq(D) /\ Len(s \o t) = Len(s) + Len(t)
         /\ \A k \in 1..Len(s) : (s \o t)[k] = s[k]
  OBVIOUS

LEMMA HeadIsFirst ==
  ASSUME NEW D, NEW s \in Seq(D), Len(s) # 0
  PROVE  s # <<>> /\ Head(s) = s[1]
  OBVIOUS

LEMMA HeadOfConcat ==
  ASSUME NEW D, NEW s \in Seq(D), NEW t \in Seq(D), Len(s) # 0
  PROVE  s \o t # <<>> /\ Head(s \o t) = s[1]
  <1>1. Len(s) \in Nat /\ Len(t) \in Nat
    OBVIOUS
  <1>2. Len(s \o t) = Len(s) + Len(t)
    BY ConcatFacts
  <1>3. s \o t \in Seq(D)
    BY ConcatFacts
  <1>4. Len(s \o t) # 0
    BY <1>1, <1>2
  <1>5. 1 \in 1..Len(s)
    BY <1>1
  <1>6. (s \o t)[1] = s[1]
    BY <1>5, ConcatFacts
  <1> QED
    BY <1>3, <1>4, <1>6, HeadIsFirst

-----------------------------------------------------------------------------
(* The parents that are queued *)

UnseenRecursion(f, parents, out) ==
  f = [k \in 0..Len(parents) |->
         IF k = 0 THEN <<>>
         ELSE IF \E j \in DOMAIN out : out[j] = parents[k] THEN f[k - 1]
         ELSE Append(f[k - 1], parents[k])]

LEMMA UnseenUnfolds ==
  ASSUME NEW D, NEW parents \in Seq(D), NEW out \in Seq(D)
  PROVE  \E f : UnseenRecursion(f, parents, out)
                /\ Unseen(parents, out) = f[Len(parents)]
  <1> DEFINE N == Len(parents)
             step == [k \in 1..N |-> [s \in Seq(D) |->
                        IF \E j \in DOMAIN out : out[j] = parents[k] THEN s
                        ELSE Append(s, parents[k])]]
             next(f, k) == IF \E j \in DOMAIN out : out[j] = parents[k] THEN f[k - 1]
                           ELSE Append(f[k - 1], parents[k])
  <1>1. N \in Nat /\ \A k \in 1..N : parents[k] \in D
    OBVIOUS
  <1>2. step \in [1..N -> [Seq(D) -> Seq(D)]]
    BY <1>1
  <1>3. \A k \in 1..N, s \in Seq(D) :
          step[k][s] = IF \E j \in DOMAIN out : out[j] = parents[k] THEN s
                       ELSE Append(s, parents[k])
    OBVIOUS
  <1> HIDE DEF step, N
  <1>4. <<>> \in Seq(D)
    OBVIOUS
  <1>5. PICK f \in [0..N -> Seq(D)] : Follows(f, <<>>, step, N)
    BY <1>1, <1>2, <1>4, Recursion
  <1>6. ASSUME NEW k \in 1..N
        PROVE  f[k] = next(f, k)
    <2>1. k - 1 \in 0..N
      BY <1>1
    <2>2. f[k - 1] \in Seq(D)
      BY <2>1
    <2> QED
      BY <1>3, <1>5, <2>2 DEF Follows
  <1>7. f = [k \in 0..N |-> f[k]]
    OBVIOUS
  <1>8. \A k \in 0..N : f[k] = IF k = 0 THEN <<>> ELSE next(f, k)
    <2>1. f[0] = <<>>
      BY <1>5 DEF Follows
    <2>2. \A k \in 0..N : k = 0 \/ k \in 1..N
      BY <1>1
    <2> HIDE DEF next
    <2> QED
      BY <1>6, <2>1, <2>2
  <1>9. f = [k \in 0..N |-> IF k = 0 THEN <<>> ELSE next(f, k)]
    BY <1>7, <1>8
  <1>10. UnseenRecursion(f, parents, out)
    BY <1>9 DEF UnseenRecursion, N
  <1> DEFINE h == CHOOSE g : UnseenRecursion(g, parents, out)
  <1>11. UnseenRecursion(h, parents, out)
    BY <1>10
  <1>12. h = CHOOSE g : g = [k \in 0..Len(parents) |->
                IF k = 0 THEN <<>>
                ELSE IF \E j \in DOMAIN out : out[j] = parents[k] THEN g[k - 1]
                ELSE Append(g[k - 1], parents[k])]
    BY DEF UnseenRecursion
  <1>13. Unseen(parents, out) = h[Len(parents)]
    BY <1>12 DEF Unseen
  <1> HIDE DEF h
  <1> QED
    BY <1>11, <1>13

LEMMA UnseenSelects ==
  ASSUME NEW D, NEW parents \in Seq(D), NEW out \in Seq(D)
  PROVE  /\ Unseen(parents, out) \in Seq(D)
         /\ Len(Unseen(parents, out)) <= Len(parents)
         /\ Members(Unseen(parents, out)) = Members(parents) \ Members(out)
  <1> DEFINE N == Len(parents)
             Upto(k) == {parents[i] : i \in 1..k}
  <1>1. PICK f : UnseenRecursion(f, parents, out) /\ Unseen(parents, out) = f[N]
    BY UnseenUnfolds
  <1>2. N \in Nat /\ DOMAIN parents = 1..N /\ \A k \in 1..N : parents[k] \in D
    OBVIOUS
  <1> DEFINE S == {k \in 0..N : /\ f[k] \in Seq(D) /\ Len(f[k]) <= k
                                /\ Members(f[k]) = Upto(k) \ Members(out)}
  <1>3. 0 \in S
    <2>1. f[0] = <<>>
      BY <1>1, <1>2 DEF UnseenRecursion
    <2>2. Upto(0) = {} /\ Members(<<>>) = {}
      BY DEF Members
    <2>3. f[0] \in Seq(D) /\ Len(f[0]) <= 0
      BY <2>1
    <2>4. Members(f[0]) = Upto(0) \ Members(out)
      BY <2>1, <2>2
    <2>5. 0 \in 0..N
      BY <1>2
    <2> HIDE DEF Upto, N
    <2> QED
      BY <2>3, <2>4, <2>5
  <1>4. ASSUME NEW k \in 0..(N - 1), k \in S
        PROVE  k + 1 \in S
    <2>1. k + 1 \in 0..N /\ k + 1 \in 1..N /\ k \in Nat /\ (k + 1) - 1 = k /\ k + 1 # 0
      BY <1>2
    <2>2. f[k] \in Seq(D) /\ Len(f[k]) <= k /\ Members(f[k]) = Upto(k) \ Members(out)
      BY <1>4
    <2>3. f[k + 1] = IF \E j \in DOMAIN out : out[j] = parents[k + 1] THEN f[k]
                     ELSE Append(f[k], parents[k + 1])
      BY <1>1, <2>1 DEF UnseenRecursion
    <2>4. Upto(k + 1) = Upto(k) \cup {parents[k + 1]}
      <3>1. \A i \in 1..(k + 1) : i = k + 1 \/ i \in 1..k
        BY <2>1
      <3>2. \A i \in 1..k : i \in 1..(k + 1)
        BY <2>1
      <3>3. k + 1 \in 1..(k + 1)
        BY <2>1
      <3> QED
        BY <3>1, <3>2, <3>3
    <2>5. parents[k + 1] \in D
      BY <1>2, <2>1
    <2> HIDE DEF Upto, N
    <2>6. CASE parents[k + 1] \in Members(out)
      <3>1. f[k + 1] = f[k]
        BY <2>3, <2>6 DEF Members
      <3>2. Len(f[k]) <= k + 1
        BY <2>1, <2>2
      <3>3. Members(f[k]) = Upto(k + 1) \ Members(out)
        BY <2>2, <2>4, <2>6
      <3> QED
        BY <2>1, <2>2, <3>1, <3>2, <3>3
    <2>7. CASE parents[k + 1] \notin Members(out)
      <3>1. f[k + 1] = Append(f[k], parents[k + 1])
        BY <2>3, <2>7 DEF Members
      <3>2. Append(f[k], parents[k + 1]) \in Seq(D)
        BY <2>2, <2>5
      <3>3. Len(Append(f[k], parents[k + 1])) = Len(f[k]) + 1
        BY <2>2, <2>5
      <3>4. Len(f[k]) \in Nat
        BY <2>2
      <3>5. Len(f[k]) + 1 <= k + 1
        BY <2>1, <2>2, <3>4
      <3>6. Members(Append(f[k], parents[k + 1])) = Members(f[k]) \cup {parents[k + 1]}
        BY <2>2, <2>5, MembersOfAppend
      <3>7. Members(f[k + 1]) = Upto(k + 1) \ Members(out)
        BY <2>2, <2>4, <2>7, <3>1, <3>6
      <3> QED
        BY <2>1, <3>1, <3>2, <3>3, <3>5, <3>7
    <2> QED
      BY <2>6, <2>7
  <1> HIDE DEF S
  <1>5. \A k \in 0..N : k \in S
    BY <1>2, <1>3, <1>4, InductionUpTo
  <1>6. N \in 0..N
    BY <1>2
  <1>7. N \in S
    BY <1>5, <1>6
  <1>8. /\ f[N] \in Seq(D) /\ Len(f[N]) <= N
        /\ Members(f[N]) = Upto(N) \ Members(out)
    BY <1>7 DEF S
  <1>9. Members(parents) = Upto(N)
    BY <1>2 DEF Members
  <1> QED
    BY <1>1, <1>8, <1>9

-----------------------------------------------------------------------------
(* Commit graphs *)

\* Commits are numbered in the order they are written, after their parents; an
\* analysis has at most one parent and a merge has two.
IsDag(dag) ==
  /\ Len(dag) \in Nat
  /\ DOMAIN dag = 1..Len(dag)
  /\ \A c \in 1..Len(dag) : /\ dag[c].parents \in Seq(1..(c - 1))
                            /\ Len(dag[c].parents) <= 2

LEMMA ParentsAreMembers ==
  ASSUME NEW dag, NEW c
  PROVE  ParentsOf(dag, c) = Members(dag[c].parents)
  BY DEF ParentsOf, Members

LEMMA ParentTypes ==
  ASSUME NEW dag, IsDag(dag), NEW c \in 1..Len(dag)
  PROVE  /\ dag[c].parents \in Seq(1..Len(dag))
         /\ Len(dag[c].parents) \in 0..2
         /\ ParentsOf(dag, c) \subseteq 1..Len(dag)
         /\ \A p \in ParentsOf(dag, c) : p < c
  <1> DEFINE ps == dag[c].parents
  <1>1. ps \in Seq(1..(c - 1)) /\ Len(ps) <= 2
    BY DEF IsDag
  <1>2. Len(dag) \in Nat
    BY DEF IsDag
  <1>3. 1..(c - 1) \subseteq 1..Len(dag)
    BY <1>2
  <1> HIDE DEF ps
  <1>4. ps \in Seq(1..Len(dag)) /\ Len(ps) \in Nat
    BY <1>1, <1>3
  <1>5. Members(ps) \subseteq 1..(c - 1)
    BY <1>1, MembersOfSeq
  <1>6. ParentsOf(dag, c) = Members(ps)
    BY ParentsAreMembers DEF ps
  <1>7. \A p \in 1..(c - 1) : p < c
    BY <1>2
  <1>8. Len(ps) \in 0..2
    <2>1. Len(ps) \in Nat
      BY <1>4
    <2>2. Len(ps) <= 2
      BY <1>1
    <2>3. \A n \in Nat : n <= 2 => n \in 0..2
      OBVIOUS
    <2> QED
      BY <2>1, <2>2, <2>3, Zenon
  <1>9. ParentsOf(dag, c) \subseteq 1..Len(dag)
    BY <1>3, <1>5, <1>6
  <1>10. \A p \in ParentsOf(dag, c) : p < c
    BY <1>5, <1>6, <1>7
  <1>11. dag[c].parents \in Seq(1..Len(dag)) /\ Len(dag[c].parents) \in 0..2
    BY <1>4, <1>8 DEF ps
  <1> QED
    BY <1>9, <1>10, <1>11

LEMMA ReachableContains ==
  ASSUME NEW dag, IsDag(dag), NEW S, S \subseteq 1..Len(dag)
  PROVE  /\ S \subseteq Reachable(dag, S)
         /\ Reachable(dag, S) \subseteq 1..Len(dag)
         /\ ParentClosed(dag, Reachable(dag, S))
  <1> DEFINE R == Reachable(dag, S)
             closed == {T \in SUBSET DOMAIN dag : S \subseteq T /\ ParentClosed(dag, T)}
  <1>1. R = {c \in DOMAIN dag : \A T \in closed : c \in T}
    BY DEF Reachable
  <1>2. DOMAIN dag = 1..Len(dag)
    BY DEF IsDag
  <1>3. S \subseteq R /\ R \subseteq 1..Len(dag)
    BY <1>1, <1>2
  <1>4. ASSUME NEW c \in R, NEW p \in ParentsOf(dag, c)
        PROVE  p \in R
    <2>1. p \in DOMAIN dag
      BY <1>2, <1>3, ParentTypes
    <2>2. ASSUME NEW T \in closed PROVE p \in T
      <3>1. c \in T /\ c \in DOMAIN dag /\ ParentClosed(dag, T)
        BY <1>1
      <3> QED
        BY <3>1 DEF ParentClosed
    <2> QED
      BY <1>1, <2>1, <2>2
  <1> HIDE DEF R
  <1>5. ParentClosed(dag, R)
    BY <1>4 DEF ParentClosed
  <1> QED
    BY <1>3, <1>5 DEF R

LEMMA ReachableLeast ==
  ASSUME NEW dag, IsDag(dag), NEW S, NEW T, T \subseteq 1..Len(dag), S \subseteq T,
         ParentClosed(dag, T)
  PROVE  Reachable(dag, S) \subseteq T
  <1>1. DOMAIN dag = 1..Len(dag)
    BY DEF IsDag
  <1> QED
    BY <1>1 DEF Reachable

LEMMA AncestorsContain ==
  ASSUME NEW dag, IsDag(dag), NEW c \in 1..Len(dag)
  PROVE  /\ c \in Ancestors(dag, c)
         /\ Ancestors(dag, c) \subseteq 1..Len(dag)
         /\ ParentClosed(dag, Ancestors(dag, c))
         /\ ParentsOf(dag, c) \subseteq Ancestors(dag, c)
  <1>1. {c} \subseteq 1..Len(dag)
    OBVIOUS
  <1>2. DOMAIN dag = 1..Len(dag)
    BY DEF IsDag
  <1>3. /\ {c} \subseteq Ancestors(dag, c)
        /\ Ancestors(dag, c) \subseteq 1..Len(dag)
        /\ ParentClosed(dag, Ancestors(dag, c))
    BY <1>1, ReachableContains DEF Ancestors
  <1> QED
    BY <1>2, <1>3 DEF ParentClosed

\* The ancestors of an ancestor are ancestors.
LEMMA AncestorsNested ==
  ASSUME NEW dag, IsDag(dag), NEW c \in 1..Len(dag), NEW a \in Ancestors(dag, c)
  PROVE  Ancestors(dag, a) \subseteq Ancestors(dag, c)
  <1>1. /\ Ancestors(dag, c) \subseteq 1..Len(dag)
        /\ ParentClosed(dag, Ancestors(dag, c))
    BY AncestorsContain
  <1>2. {a} \subseteq Ancestors(dag, c)
    OBVIOUS
  <1> HIDE DEF Ancestors
  <1>3. Reachable(dag, {a}) \subseteq Ancestors(dag, c)
    BY <1>1, <1>2, ReachableLeast
  <1> QED
    BY <1>3 DEF Ancestors

\* Ancestors are older.
LEMMA AncestorsOlder ==
  ASSUME NEW dag, IsDag(dag), NEW c \in 1..Len(dag)
  PROVE  \A a \in Ancestors(dag, c) : a <= c
  <1> DEFINE T == 1..c
  <1>1. Len(dag) \in Nat /\ DOMAIN dag = 1..Len(dag)
    BY DEF IsDag
  <1>2. T \subseteq 1..Len(dag) /\ {c} \subseteq T
    BY <1>1
  <1>3. ASSUME NEW d \in T, NEW p \in ParentsOf(dag, d)
        PROVE  p \in T
    <2>1. p \in 1..Len(dag) /\ p < d
      BY <1>2, ParentTypes
    <2> QED
      BY <1>1, <2>1
  <1>4. ParentClosed(dag, T)
    BY <1>3 DEF ParentClosed
  <1> HIDE DEF T
  <1>5. Reachable(dag, {c}) \subseteq T
    BY <1>2, <1>4, ReachableLeast
  <1>6. \A a \in T : a <= c
    BY DEF T
  <1> QED
    BY <1>5, <1>6 DEF Ancestors

\* A new commit leaves the ancestors of the others as they are.
LEMMA AncestorsOfOlder ==
  ASSUME NEW dag, IsDag(dag), NEW more, IsDag(more), Len(dag) <= Len(more),
         \A c \in 1..Len(dag) : more[c].parents = dag[c].parents,
         NEW c \in 1..Len(dag)
  PROVE  Ancestors(more, c) = Ancestors(dag, c)
  <1>1. /\ Len(dag) \in Nat /\ Len(more) \in Nat
        /\ DOMAIN dag = 1..Len(dag) /\ DOMAIN more = 1..Len(more)
    BY DEF IsDag
  <1>2. 1..Len(dag) \subseteq 1..Len(more)
    BY <1>1
  <1>3. \A d \in 1..Len(dag) : ParentsOf(more, d) = ParentsOf(dag, d)
    BY DEF ParentsOf
  <1>4. /\ c \in Ancestors(dag, c) /\ Ancestors(dag, c) \subseteq 1..Len(dag)
        /\ ParentClosed(dag, Ancestors(dag, c))
    BY AncestorsContain
  <1>5. /\ c \in Ancestors(more, c) /\ Ancestors(more, c) \subseteq 1..Len(more)
        /\ ParentClosed(more, Ancestors(more, c))
    BY <1>2, AncestorsContain
  <1>6. Ancestors(more, c) \subseteq 1..Len(dag)
    <2>1. \A a \in Ancestors(more, c) : a <= c
      BY <1>2, AncestorsOlder
    <2> QED
      BY <1>1, <1>5, <2>1
  <1>7. ParentClosed(more, Ancestors(dag, c))
    BY <1>1, <1>3, <1>4 DEF ParentClosed
  <1>8. ParentClosed(dag, Ancestors(more, c))
    BY <1>1, <1>2, <1>3, <1>5, <1>6 DEF ParentClosed
  <1>9. Ancestors(more, c) \subseteq Ancestors(dag, c)
    <2>1. PICK T : T = Ancestors(dag, c)
      OBVIOUS
    <2>2. T \subseteq 1..Len(more) /\ {c} \subseteq T /\ ParentClosed(more, T)
      BY <1>2, <1>4, <1>7, <2>1
    <2>3. Reachable(more, {c}) \subseteq T
      BY <2>2, ReachableLeast
    <2> QED
      BY <2>1, <2>3 DEF Ancestors
  <1>10. Ancestors(dag, c) \subseteq Ancestors(more, c)
    <2>1. PICK T : T = Ancestors(more, c)
      OBVIOUS
    <2>2. T \subseteq 1..Len(dag) /\ {c} \subseteq T /\ ParentClosed(dag, T)
      BY <1>5, <1>6, <1>8, <2>1
    <2>3. Reachable(dag, {c}) \subseteq T
      BY <2>2, ReachableLeast
    <2> QED
      BY <2>1, <2>3 DEF Ancestors
  <1> QED
    BY <1>9, <1>10

-----------------------------------------------------------------------------
(* The walk *)

\* The walk has as many steps as any walk needs.
WalkSteps(dag) == 2 * Len(dag) + 1

WalkStates(dag) == [queue : Seq(1..Len(dag)), out : Seq(1..Len(dag))]

WalkRecursion(f, dag, from) ==
  f = [n \in 0..(2 * Len(dag) + 1) |->
         IF n = 0 THEN [queue |-> <<from>>, out |-> <<>>] ELSE WalkStep(dag, f[n - 1])]

\* The two things a step of the walk does with the commit c at the head of the
\* queue: it drops it when it has been yielded, else it yields it and queues its
\* parents.
LEMMA WalkStepCases ==
  ASSUME NEW dag, NEW w \in WalkStates(dag), w.queue # <<>>
  PROVE  LET c == Head(w.queue) IN
         \/ /\ c \in Members(w.out)
            /\ WalkStep(dag, w) = [queue |-> Tail(w.queue), out |-> w.out]
         \/ /\ c \notin Members(w.out)
            /\ WalkStep(dag, w) =
                 [queue |-> Tail(w.queue) \o Unseen(dag[c].parents, Append(w.out, c)),
                  out   |-> Append(w.out, c)]
  <1> DEFINE c == Head(w.queue)
  <1>1. \A x : [w EXCEPT !.queue = x] = [queue |-> x, out |-> w.out]
    BY DEF WalkStates
  <1>2. CASE c \in Members(w.out)
    <2>1. \E k \in DOMAIN w.out : w.out[k] = c
      BY <1>2 DEF Members
    <2>2. WalkStep(dag, w) = [w EXCEPT !.queue = Tail(w.queue)]
      BY <2>1 DEF WalkStep
    <2> QED
      BY <1>1, <1>2, <2>2
  <1>3. CASE c \notin Members(w.out)
    <2>1. ~ \E k \in DOMAIN w.out : w.out[k] = c
      BY <1>3 DEF Members
    <2> QED
      BY <1>3, <2>1 DEF WalkStep
  <1> HIDE DEF c
  <1> QED
    BY <1>2, <1>3 DEF c

LEMMA WalkStepType ==
  ASSUME NEW dag, IsDag(dag), NEW w \in WalkStates(dag)
  PROVE  WalkStep(dag, w) \in WalkStates(dag)
  <1> DEFINE D == 1..Len(dag)
             c == Head(w.queue)
             out == Append(w.out, c)
  <1>1. CASE w.queue = <<>>
    BY <1>1 DEF WalkStep
  <1>2. CASE w.queue # <<>>
    <2>1. w.queue \in Seq(D) /\ w.out \in Seq(D)
      BY DEF WalkStates
    <2>2. c \in D /\ Tail(w.queue) \in Seq(D)
      <3> HIDE DEF D
      <3> QED
        BY <1>2, <2>1, MembersOfTail
    <2>3. dag[c].parents \in Seq(D)
      BY <2>2, ParentTypes
    <2>4. out \in Seq(D)
      BY <2>1, <2>2
    <2>5. Unseen(dag[c].parents, out) \in Seq(D)
      <3> HIDE DEF out, D
      <3> QED
        BY <2>3, <2>4, UnseenSelects
    <2>6. Tail(w.queue) \o Unseen(dag[c].parents, out) \in Seq(D)
      BY <2>2, <2>5
    <2>7. \/ WalkStep(dag, w) = [queue |-> Tail(w.queue), out |-> w.out]
          \/ WalkStep(dag, w) =
               [queue |-> Tail(w.queue) \o Unseen(dag[c].parents, out), out |-> out]
      BY <1>2, WalkStepCases
    <2> HIDE DEF out, c, D
    <2>8. \A q, o \in Seq(D) : [queue |-> q, out |-> o] \in [queue : Seq(D), out : Seq(D)]
      OBVIOUS
    <2>9. WalkStep(dag, w) \in [queue : Seq(D), out : Seq(D)]
      BY <2>1, <2>2, <2>4, <2>6, <2>7, <2>8, Zenon
    <2> QED
      BY <2>9 DEF WalkStates, D
  <1> QED
    BY <1>1, <1>2

LEMMA WalkUnfolds ==
  ASSUME NEW dag, IsDag(dag), NEW from \in 1..Len(dag)
  PROVE  \E f : WalkRecursion(f, dag, from)
                /\ Walk(dag, from) = f[2 * Len(dag) + 1].out
  <1> DEFINE N == 2 * Len(dag) + 1
             W == WalkStates(dag)
             first == [queue |-> <<from>>, out |-> <<>>]
             step == [n \in 1..N |-> [w \in W |-> WalkStep(dag, w)]]
  <1>1. N \in Nat
    BY DEF IsDag
  <1>2. first \in W
    BY DEF WalkStates
  <1>3. \A w \in W : WalkStep(dag, w) \in W
    BY WalkStepType
  <1>4. step \in [1..N -> [W -> W]]
    BY <1>3
  <1>5. \A n \in 1..N, w \in W : step[n][w] = WalkStep(dag, w)
    OBVIOUS
  <1> HIDE DEF step, N, W, first
  <1>6. PICK f \in [0..N -> W] : Follows(f, first, step, N)
    BY <1>1, <1>2, <1>4, Recursion
  <1>7. \A n \in 0..N : f[n] = IF n = 0 THEN first ELSE WalkStep(dag, f[n - 1])
    <2>1. f[0] = first
      BY <1>6 DEF Follows
    <2>2. \A n \in 1..N : n - 1 \in 0..N
      BY <1>1
    <2>3. \A n \in 1..N : f[n] = WalkStep(dag, f[n - 1])
      BY <1>5, <1>6, <2>2 DEF Follows
    <2>4. \A n \in 0..N : n = 0 \/ n \in 1..N
      BY <1>1
    <2> QED
      BY <2>1, <2>3, <2>4
  <1>8. f = [n \in 0..N |-> f[n]]
    OBVIOUS
  <1>9. f = [n \in 0..N |-> IF n = 0 THEN first ELSE WalkStep(dag, f[n - 1])]
    BY <1>7, <1>8
  <1>10. WalkRecursion(f, dag, from)
    BY <1>9 DEF WalkRecursion, N, first
  <1> DEFINE h == CHOOSE g : WalkRecursion(g, dag, from)
  <1>11. WalkRecursion(h, dag, from)
    BY <1>10
  <1>12. h = CHOOSE g : g = [n \in 0..(2 * Len(dag) + 1) |->
                IF n = 0 THEN [queue |-> <<from>>, out |-> <<>>]
                ELSE WalkStep(dag, g[n - 1])]
    BY DEF WalkRecursion
  <1>13. Walk(dag, from) = h[2 * Len(dag) + 1].out
    BY <1>12 DEF Walk
  <1> HIDE DEF h
  <1> QED
    BY <1>11, <1>13

\* What holds after n steps of the walk from a commit: only ancestors have been
\* met, every one is yielded once, its parents are not forgotten, and the steps
\* that are left suffice for the queue and for the parents of the commits that
\* have not been yielded.
WalkInvariant(dag, from, w, n) ==
  /\ w \in WalkStates(dag)
  /\ Members(w.queue) \subseteq Ancestors(dag, from)
  /\ Members(w.out) \subseteq Ancestors(dag, from)
  /\ from \in Members(w.queue) \cup Members(w.out)
  /\ \A c \in Members(w.out) :
       ParentsOf(dag, c) \subseteq Members(w.queue) \cup Members(w.out)
  /\ \A i, j \in DOMAIN w.out : w.out[i] = w.out[j] => i = j
  /\ w.queue # <<>> =>
       Len(w.queue) + 2 * (Len(dag) - Len(w.out)) + n <= 2 * Len(dag) + 1

LEMMA WalkStart ==
  ASSUME NEW dag, IsDag(dag), NEW from \in 1..Len(dag)
  PROVE  WalkInvariant(dag, from, [queue |-> <<from>>, out |-> <<>>], 0)
  <1> DEFINE w == [queue |-> <<from>>, out |-> <<>>]
  <1>1. w.queue = <<from>> /\ w.out = <<>>
    OBVIOUS
  <1>2. w \in WalkStates(dag)
    BY DEF WalkStates
  <1>3. Members(<<from>>) = {from} /\ Members(<<>>) = {}
    BY DEF Members
  <1>4. from \in Ancestors(dag, from)
    BY AncestorsContain
  <1>5. Len(w.queue) + 2 * (Len(dag) - Len(w.out)) + 0 <= 2 * Len(dag) + 1
    BY <1>1 DEF IsDag
  <1>6. DOMAIN w.out = {}
    BY <1>1
  <1> HIDE DEF w
  <1>7. WalkInvariant(dag, from, w, 0)
    BY <1>1, <1>2, <1>3, <1>4, <1>5, <1>6 DEF WalkInvariant
  <1> QED
    BY <1>7 DEF w

LEMMA IntervalSize ==
  ASSUME NEW n \in Nat
  PROVE  IsFiniteSet(1..n) /\ Cardinality(1..n) = n
  BY FS_Interval

\* A sequence of commits without repetitions is no longer than the graph.
LEMMA DistinctBound ==
  ASSUME NEW dag, IsDag(dag), NEW s \in Seq(1..Len(dag)),
         \A i, j \in DOMAIN s : s[i] = s[j] => i = j
  PROVE  Len(s) <= Len(dag)
  <1>1. Len(dag) \in Nat /\ Len(s) \in Nat /\ DOMAIN s = 1..Len(s)
    BY DEF IsDag
  <1>2. s \in Injection(1..Len(s), 1..Len(dag))
    BY <1>1 DEF Injection, IsInjective
  <1>3. IsFiniteSet(1..Len(dag)) /\ Cardinality(1..Len(dag)) = Len(dag)
    BY <1>1, IntervalSize
  <1>4. IsFiniteSet(1..Len(s)) /\ Cardinality(1..Len(s)) = Len(s)
    BY <1>1, IntervalSize
  <1>5. Cardinality(1..Len(s)) <= Cardinality(1..Len(dag))
    BY <1>2, <1>3, FS_Injection
  <1> QED
    BY <1>3, <1>4, <1>5

LEMMA WalkDropKeeps ==
  ASSUME NEW dag, IsDag(dag), NEW from \in 1..Len(dag), NEW w, NEW n \in Nat,
         WalkInvariant(dag, from, w, n), w.queue # <<>>,
         Head(w.queue) \in Members(w.out)
  PROVE  WalkInvariant(dag, from, [queue |-> Tail(w.queue), out |-> w.out], n + 1)
  <1> DEFINE D == 1..Len(dag)
             v == [queue |-> Tail(w.queue), out |-> w.out]
  <1>1. w.queue \in Seq(D) /\ w.out \in Seq(D)
    BY DEF WalkInvariant, WalkStates
  <1>2. v.queue = Tail(w.queue) /\ v.out = w.out
    OBVIOUS
  <1>3. /\ Tail(w.queue) \in Seq(D)
        /\ Len(Tail(w.queue)) = Len(w.queue) - 1
        /\ Members(w.queue) = {Head(w.queue)} \cup Members(Tail(w.queue))
    <2> HIDE DEF D
    <2> QED
      BY <1>1, MembersOfTail
  <1>4. v \in WalkStates(dag)
    BY <1>1, <1>3 DEF WalkStates
  <1>5. Members(w.queue) \cup Members(w.out) = Members(v.queue) \cup Members(v.out)
    BY <1>2, <1>3
  <1>6. Len(v.queue) + 2 * (Len(dag) - Len(v.out)) + (n + 1) <= 2 * Len(dag) + 1
    <2>1. Len(w.queue) \in Nat /\ Len(w.out) \in Nat /\ Len(dag) \in Nat
      BY <1>1 DEF IsDag
    <2>2. Len(w.queue) + 2 * (Len(dag) - Len(w.out)) + n <= 2 * Len(dag) + 1
      BY DEF WalkInvariant
    <2>3. Len(v.queue) = Len(w.queue) - 1 /\ Len(v.out) = Len(w.out)
      BY <1>2, <1>3
    <2>4. \A q, o, d \in Nat : q + 2 * (d - o) + n <= 2 * d + 1
                               => (q - 1) + 2 * (d - o) + (n + 1) <= 2 * d + 1
      OBVIOUS
    <2> HIDE DEF v
    <2> QED
      BY <2>1, <2>2, <2>3, <2>4
  <1> HIDE DEF v
  <1>7. WalkInvariant(dag, from, v, n + 1)
    BY <1>2, <1>3, <1>4, <1>5, <1>6 DEF WalkInvariant
  <1> QED
    BY <1>7 DEF v

LEMMA WalkYieldKeeps ==
  ASSUME NEW dag, IsDag(dag), NEW from \in 1..Len(dag), NEW w, NEW n \in Nat,
         WalkInvariant(dag, from, w, n), w.queue # <<>>,
         NEW c, c = Head(w.queue), c \notin Members(w.out)
  PROVE  WalkInvariant(dag, from,
           [queue |-> Tail(w.queue) \o Unseen(dag[c].parents, Append(w.out, c)),
            out   |-> Append(w.out, c)], n + 1)
  <1> DEFINE D == 1..Len(dag)
             out == Append(w.out, c)
             ps == dag[c].parents
             new == Unseen(ps, out)
             v == [queue |-> Tail(w.queue) \o new, out |-> out]
  <1>1. w.queue \in Seq(D) /\ w.out \in Seq(D)
    BY DEF WalkInvariant, WalkStates
  <1>2. /\ c \in D /\ Tail(w.queue) \in Seq(D)
        /\ Len(Tail(w.queue)) = Len(w.queue) - 1
        /\ Members(w.queue) = {c} \cup Members(Tail(w.queue))
    <2> HIDE DEF D
    <2> QED
      BY <1>1, MembersOfTail
  <1>3. /\ out \in Seq(D)
        /\ Len(out) = Len(w.out) + 1
        /\ Members(out) = Members(w.out) \cup {c}
    <2> HIDE DEF D
    <2>1. out \in Seq(D) /\ Len(out) = Len(w.out) + 1
      BY <1>1, <1>2
    <2> QED
      BY <1>1, <1>2, <2>1, MembersOfAppend
  <1>4. /\ ps \in Seq(D) /\ Len(ps) \in 0..2
        /\ ParentsOf(dag, c) = Members(ps)
    BY <1>2, ParentTypes, ParentsAreMembers
  <1>5. /\ new \in Seq(D) /\ Len(new) <= Len(ps)
        /\ Members(new) = Members(ps) \ Members(out)
    <2> HIDE DEF D, ps, out
    <2> QED
      BY <1>3, <1>4, UnseenSelects
  <1>6. v.queue = Tail(w.queue) \o new /\ v.out = out
    OBVIOUS
  <1>7. /\ v.queue \in Seq(D)
        /\ Len(v.queue) = Len(w.queue) - 1 + Len(new)
        /\ Members(v.queue) = Members(Tail(w.queue)) \cup Members(new)
    <2> HIDE DEF D, new, out, v
    <2>1. Tail(w.queue) \o new \in Seq(D)
      BY <1>2, <1>5
    <2>2. Len(Tail(w.queue) \o new) = Len(Tail(w.queue)) + Len(new)
      BY <1>2, <1>5
    <2>3. Len(Tail(w.queue)) + Len(new) = Len(w.queue) - 1 + Len(new)
      BY <1>2
    <2>4. v.queue \in Seq(D)
      BY <1>6, <2>1
    <2>5. Len(v.queue) = Len(w.queue) - 1 + Len(new)
      BY <1>6, <2>2, <2>3, Zenon
    <2>6. Members(Tail(w.queue) \o new) = Members(Tail(w.queue)) \cup Members(new)
      <3>1. Tail(w.queue) \in Seq(D) /\ new \in Seq(D)
        BY <1>2, <1>5
      <3>2. \A q, r \in Seq(D) : Members(q \o r) = Members(q) \cup Members(r)
        BY MembersOfConcat
      <3> QED
        BY <3>1, <3>2, Zenon
    <2>7. Members(v.queue) = Members(Tail(w.queue)) \cup Members(new)
      BY <1>6, <2>6, Zenon
    <2> QED
      BY <2>4, <2>5, <2>7
  <1> HIDE DEF v, out, new, ps
  <1>8. v \in WalkStates(dag)
    <2>1. [queue |-> Tail(w.queue) \o new, out |-> out] \in [queue : Seq(D), out : Seq(D)]
      <3>1. Tail(w.queue) \o new \in Seq(D)
        BY <1>6, <1>7
      <3> QED
        BY <1>3, <3>1
    <2> QED
      BY <2>1 DEF WalkStates, v
  <1>9. Members(v.queue) \subseteq Ancestors(dag, from)
    <2>1. c \in Ancestors(dag, from) /\ Members(Tail(w.queue)) \subseteq Ancestors(dag, from)
      BY <1>2 DEF WalkInvariant
    <2>2. ParentClosed(dag, Ancestors(dag, from)) /\ DOMAIN dag = 1..Len(dag)
      BY AncestorsContain DEF IsDag
    <2>3. ParentsOf(dag, c) \subseteq Ancestors(dag, from)
      BY <1>2, <2>1, <2>2 DEF ParentClosed
    <2> QED
      BY <1>4, <1>5, <1>7, <2>1, <2>3
  <1>10. Members(v.out) \subseteq Ancestors(dag, from)
    BY <1>2, <1>3, <1>6 DEF WalkInvariant
  <1>11. Members(w.queue) \cup Members(w.out) \subseteq Members(v.queue) \cup Members(v.out)
    BY <1>2, <1>3, <1>6, <1>7
  <1>12. ASSUME NEW d \in Members(v.out)
         PROVE  ParentsOf(dag, d) \subseteq Members(v.queue) \cup Members(v.out)
    <2>1. CASE d = c
      BY <1>4, <1>5, <1>6, <1>7, <2>1
    <2>2. CASE d \in Members(w.out)
      BY <1>11, <2>2 DEF WalkInvariant
    <2> QED
      BY <1>3, <1>6, <2>1, <2>2
  <1>13. ASSUME NEW i \in DOMAIN v.out, NEW j \in DOMAIN v.out, v.out[i] = v.out[j]
         PROVE  i = j
    <2>1. Len(w.out) \in Nat /\ DOMAIN w.out = 1..Len(w.out)
      BY <1>1
    <2>2. DOMAIN v.out = 1..(Len(w.out) + 1)
      BY <1>1, <1>2, <1>3, <1>6
    <2>3. /\ \A k \in 1..Len(w.out) : v.out[k] = w.out[k]
          /\ v.out[Len(w.out) + 1] = c
      BY <1>1, <1>2, <1>6 DEF out
    <2>4. \A k \in 1..Len(w.out) : w.out[k] # c
      BY <2>1 DEF Members
    <2>5. CASE i \in 1..Len(w.out) /\ j \in 1..Len(w.out)
      BY <1>13, <2>1, <2>3, <2>5 DEF WalkInvariant
    <2>6. CASE i = Len(w.out) + 1 /\ j = Len(w.out) + 1
      BY <2>6
    <2>7. CASE i \in 1..Len(w.out) /\ j = Len(w.out) + 1
      BY <1>13, <2>3, <2>4, <2>7
    <2>8. CASE i = Len(w.out) + 1 /\ j \in 1..Len(w.out)
      BY <1>13, <2>3, <2>4, <2>8
    <2>9. \A k \in 1..(Len(w.out) + 1) : k \in 1..Len(w.out) \/ k = Len(w.out) + 1
      BY <2>1
    <2> QED
      BY <2>2, <2>5, <2>6, <2>7, <2>8, <2>9
  <1>14. Len(v.queue) + 2 * (Len(dag) - Len(v.out)) + (n + 1) <= 2 * Len(dag) + 1
    <2>1. Len(w.queue) \in Nat /\ Len(w.out) \in Nat /\ Len(dag) \in Nat
      BY <1>1 DEF IsDag
    <2>2. Len(w.queue) + 2 * (Len(dag) - Len(w.out)) + n <= 2 * Len(dag) + 1
      BY DEF WalkInvariant
    <2>3. Len(new) \in Nat
      BY <1>5
    <2>4. Len(new) <= 2
      <3>1. \A i \in Nat, j \in 0..2 : i <= j => i <= 2
        OBVIOUS
      <3>2. Len(ps) \in 0..2 /\ Len(new) <= Len(ps)
        BY <1>4, <1>5
      <3> QED
        BY <2>3, <3>1, <3>2
    <2>5. Len(v.queue) = Len(w.queue) - 1 + Len(new) /\ Len(v.out) = Len(w.out) + 1
      BY <1>3, <1>6, <1>7
    <2>6. \A q, o, d, k \in Nat :
            q + 2 * (d - o) + n <= 2 * d + 1 /\ k <= 2
              => (q - 1 + k) + 2 * (d - (o + 1)) + (n + 1) <= 2 * d + 1
      OBVIOUS
    <2> QED
      BY <2>1, <2>2, <2>3, <2>4, <2>5, <2>6
  <1>15. from \in Members(v.queue) \cup Members(v.out)
    BY <1>11 DEF WalkInvariant
  <1>16. WalkInvariant(dag, from, v, n + 1)
    BY <1>8, <1>9, <1>10, <1>12, <1>13, <1>14, <1>15 DEF WalkInvariant
  <1> QED
    BY <1>16 DEF v, out, new, ps

LEMMA WalkStepKeeps ==
  ASSUME NEW dag, IsDag(dag), NEW from \in 1..Len(dag), NEW w, NEW n \in Nat,
         WalkInvariant(dag, from, w, n)
  PROVE  WalkInvariant(dag, from, WalkStep(dag, w), n + 1)
  <1>1. w \in WalkStates(dag)
    BY DEF WalkInvariant
  <1>2. CASE w.queue = <<>>
    <2>1. WalkStep(dag, w) = w
      BY <1>2 DEF WalkStep
    <2> QED
      BY <1>2, <2>1 DEF WalkInvariant
  <1>3. CASE w.queue # <<>>
    <2> DEFINE c == Head(w.queue)
    <2>1. CASE c \in Members(w.out)
      <3>1. WalkStep(dag, w) = [queue |-> Tail(w.queue), out |-> w.out]
        BY <1>1, <1>3, <2>1, WalkStepCases
      <3> QED
        BY <1>3, <2>1, <3>1, WalkDropKeeps
    <2>2. CASE c \notin Members(w.out)
      <3>1. WalkStep(dag, w) =
              [queue |-> Tail(w.queue) \o Unseen(dag[c].parents, Append(w.out, c)),
               out   |-> Append(w.out, c)]
        BY <1>1, <1>3, <2>2, WalkStepCases
      <3> HIDE DEF c
      <3>2. c = Head(w.queue)
        BY DEF c
      <3> QED
        BY <1>3, <2>2, <3>1, <3>2, WalkYieldKeeps
    <2> QED
      BY <2>1, <2>2
  <1> QED
    BY <1>2, <1>3

LEMMA WalkInvariantHolds ==
  ASSUME NEW dag, IsDag(dag), NEW from \in 1..Len(dag), NEW f,
         WalkRecursion(f, dag, from)
  PROVE  \A n \in 0..(2 * Len(dag) + 1) : WalkInvariant(dag, from, f[n], n)
  <1> DEFINE N == 2 * Len(dag) + 1
             S == {n \in 0..N : WalkInvariant(dag, from, f[n], n)}
  <1>1. N \in Nat
    BY DEF IsDag
  <1>2. 0 \in S
    <2>1. f[0] = [queue |-> <<from>>, out |-> <<>>]
      BY <1>1 DEF WalkRecursion
    <2> QED
      BY <1>1, <2>1, WalkStart
  <1>3. ASSUME NEW n \in 0..(N - 1), n \in S
        PROVE  n + 1 \in S
    <2>1. n \in Nat /\ n + 1 \in 0..N /\ n + 1 # 0 /\ (n + 1) - 1 = n
      BY <1>1
    <2>2. f[n + 1] = WalkStep(dag, f[n])
      BY <2>1 DEF WalkRecursion
    <2>3. WalkInvariant(dag, from, f[n], n)
      BY <1>3
    <2>4. WalkInvariant(dag, from, f[n + 1], n + 1)
      BY <2>1, <2>2, <2>3, WalkStepKeeps
    <2> QED
      BY <2>1, <2>4
  <1> HIDE DEF N, S
  <1>4. \A n \in 0..N : n \in S
    BY <1>1, <1>2, <1>3, InductionUpTo
  <1> QED
    BY <1>4 DEF N, S

\* After that many steps the queue is empty.
LEMMA WalkIsOver ==
  ASSUME NEW dag, IsDag(dag), NEW from \in 1..Len(dag), NEW w,
         WalkInvariant(dag, from, w, 2 * Len(dag) + 1)
  PROVE  w.queue = <<>>
  <1> SUFFICES ASSUME w.queue # <<>> PROVE FALSE
    OBVIOUS
  <1> DEFINE N == 2 * Len(dag) + 1
  <1>1. w.out \in Seq(1..Len(dag)) /\ w.queue \in Seq(1..Len(dag))
    BY DEF WalkInvariant, WalkStates
  <1>2. Len(w.out) <= Len(dag)
    BY <1>1, DistinctBound DEF WalkInvariant
  <1>3. Len(w.queue) + 2 * (Len(dag) - Len(w.out)) + N <= N
    BY DEF WalkInvariant
  <1>4. Len(w.queue) \in Nat /\ Len(w.out) \in Nat /\ Len(dag) \in Nat /\ N \in Nat
    BY <1>1 DEF IsDag
  <1>5. Len(w.queue) = Len(Tail(w.queue)) + 1 /\ Len(Tail(w.queue)) \in Nat
    <2>1. Tail(w.queue) \in Seq(1..Len(dag)) /\ Len(Tail(w.queue)) = Len(w.queue) - 1
      BY <1>1, MembersOfTail
    <2> QED
      BY <1>4, <2>1
  <1>6. \A q, o, d, k \in Nat : ~(o <= d /\ (q + 1) + 2 * (d - o) + k <= k)
    OBVIOUS
  <1> HIDE DEF N
  <1> QED
    BY <1>2, <1>3, <1>4, <1>5, <1>6

\* The walk from a commit yields its ancestors, each once.
LEMMA WalkYieldsAncestors ==
  ASSUME NEW dag, IsDag(dag), NEW from \in 1..Len(dag)
  PROVE  /\ Walk(dag, from) \in Seq(1..Len(dag))
         /\ Members(Walk(dag, from)) = Ancestors(dag, from)
         /\ \A i, j \in DOMAIN Walk(dag, from) :
              Walk(dag, from)[i] = Walk(dag, from)[j] => i = j
  <1> DEFINE N == 2 * Len(dag) + 1
  <1>1. PICK f : WalkRecursion(f, dag, from) /\ Walk(dag, from) = f[N].out
    BY WalkUnfolds
  <1>2. N \in Nat /\ N \in 0..N
    BY DEF IsDag
  <1>3. PICK w : w = f[N]
    OBVIOUS
  <1>4. WalkInvariant(dag, from, w, N)
    BY <1>1, <1>2, <1>3, WalkInvariantHolds
  <1>5. w.out \in Seq(1..Len(dag)) /\ w.queue \in Seq(1..Len(dag))
    BY <1>4 DEF WalkInvariant, WalkStates
  <1>6. w.queue = <<>>
    BY <1>4, WalkIsOver
  <1>7. Members(w.queue) = {}
    BY <1>6 DEF Members
  <1>8. Ancestors(dag, from) \subseteq Members(w.out)
    <2>1. Members(w.out) \subseteq 1..Len(dag)
      BY <1>5, MembersOfSeq
    <2>2. {from} \subseteq Members(w.out)
      BY <1>4, <1>7 DEF WalkInvariant
    <2>3. ParentClosed(dag, Members(w.out))
      BY <1>4, <1>7 DEF WalkInvariant, ParentClosed
    <2>4. Reachable(dag, {from}) \subseteq Members(w.out)
      BY <2>1, <2>2, <2>3, ReachableLeast
    <2> QED
      BY <2>4 DEF Ancestors
  <1>9. Members(w.out) \subseteq Ancestors(dag, from)
    BY <1>4 DEF WalkInvariant
  <1>10. \A i, j \in DOMAIN w.out : w.out[i] = w.out[j] => i = j
    BY <1>4 DEF WalkInvariant
  <1> HIDE DEF N
  <1>11. Walk(dag, from) = w.out
    BY <1>1, <1>3
  <1>12. Members(w.out) = Ancestors(dag, from)
    BY <1>8, <1>9
  <1> QED
    BY <1>5, <1>10, <1>11, <1>12

LEMMA WalkLength ==
  ASSUME NEW dag, IsDag(dag), NEW from \in 1..Len(dag)
  PROVE  /\ IsFiniteSet(Ancestors(dag, from))
         /\ Len(Walk(dag, from)) = Cardinality(Ancestors(dag, from))
  <1> DEFINE w == Walk(dag, from)
  <1>1. /\ w \in Seq(1..Len(dag)) /\ Members(w) = Ancestors(dag, from)
        /\ \A i, j \in DOMAIN w : w[i] = w[j] => i = j
    BY WalkYieldsAncestors
  <1> HIDE DEF w
  <1>2. Len(w) \in Nat /\ DOMAIN w = 1..Len(w)
    BY <1>1
  <1>3. w \in Bijection(1..Len(w), Members(w))
    <2>1. w \in [1..Len(w) -> Members(w)]
      BY <1>1, <1>2 DEF Members
    <2>2. \A x \in Members(w) : \E k \in 1..Len(w) : w[k] = x
      BY <1>2 DEF Members
    <2> QED
      BY <1>1, <1>2, <2>1, <2>2 DEF Bijection, Injection, Surjection, IsInjective
  <1>4. ExistsBijection(1..Len(w), Members(w))
    BY <1>3 DEF ExistsBijection
  <1>5. IsFiniteSet(1..Len(w)) /\ Cardinality(1..Len(w)) = Len(w)
    BY <1>2, IntervalSize
  <1>6. IsFiniteSet(Members(w)) /\ Cardinality(Members(w)) = Len(w)
    BY <1>4, <1>5, FS_Bijection
  <1> QED
    BY <1>1, <1>6 DEF w

-----------------------------------------------------------------------------
(* The order of the walk *)

\* Sequence t goes on where s ends.
Extends(s, t) ==
  /\ DOMAIN s \subseteq DOMAIN t
  /\ \A k \in DOMAIN s : t[k] = s[k]

LEMMA WalkStepExtends ==
  ASSUME NEW dag, NEW w \in WalkStates(dag)
  PROVE  Extends(w.out, WalkStep(dag, w).out)
  <1>1. w.out \in Seq(1..Len(dag)) /\ w.queue \in Seq(1..Len(dag))
    BY DEF WalkStates
  <1>2. CASE w.queue = <<>>
    BY <1>2 DEF WalkStep, Extends
  <1>3. CASE w.queue # <<>>
    <2> DEFINE c == Head(w.queue)
    <2>1. c \in 1..Len(dag)
      BY <1>1, <1>3, MembersOfTail
    <2>2. WalkStep(dag, w).out = w.out \/ WalkStep(dag, w).out = Append(w.out, c)
      <3>1. CASE c \in Members(w.out)
        <4>1. WalkStep(dag, w) = [queue |-> Tail(w.queue), out |-> w.out]
          BY <1>3, <3>1, WalkStepCases
        <4> QED
          BY <4>1
      <3>2. CASE c \notin Members(w.out)
        <4>1. WalkStep(dag, w) =
                [queue |-> Tail(w.queue) \o Unseen(dag[c].parents, Append(w.out, c)),
                 out   |-> Append(w.out, c)]
          BY <1>3, <3>2, WalkStepCases
        <4> QED
          BY <4>1
      <3> QED
        BY <3>1, <3>2
    <2> HIDE DEF c
    <2>3. \A s \in Seq(1..Len(dag)) : Extends(s, Append(s, c))
      <3> SUFFICES ASSUME NEW s \in Seq(1..Len(dag))
                   PROVE  Extends(s, Append(s, c))
        OBVIOUS
      <3>1. DOMAIN s = 1..Len(s) /\ Len(s) \in Nat
        OBVIOUS
      <3>2. DOMAIN Append(s, c) = 1..(Len(s) + 1)
        BY <2>1
      <3>3. \A k \in 1..Len(s) : Append(s, c)[k] = s[k]
        BY <2>1
      <3>4. 1..Len(s) \subseteq 1..(Len(s) + 1)
        BY <3>1
      <3> QED
        BY <3>1, <3>2, <3>3, <3>4 DEF Extends
    <2>4. Extends(w.out, w.out)
      BY DEF Extends
    <2> QED
      BY <1>1, <2>2, <2>3, <2>4
  <1> QED
    BY <1>2, <1>3

\* What has been yielded after m steps stays in its place.
LEMMA WalkExtends ==
  ASSUME NEW dag, IsDag(dag), NEW from \in 1..Len(dag), NEW f,
         WalkRecursion(f, dag, from), NEW m \in 0..(2 * Len(dag) + 1)
  PROVE  Extends(f[m].out, f[2 * Len(dag) + 1].out)
  <1> DEFINE N == 2 * Len(dag) + 1
             S == {n \in 0..N : m <= n => Extends(f[m].out, f[n].out)}
  <1>1. N \in Nat /\ N \in 0..N /\ m \in Nat /\ m <= N
    BY DEF IsDag
  <1>2. Extends(f[m].out, f[m].out)
    BY DEF Extends
  <1>3. 0 \in S
    <2>1. m <= 0 => m = 0
      BY <1>1
    <2>2. 0 \in 0..N
      BY <1>1
    <2> QED
      BY <1>2, <2>1, <2>2
  <1>4. ASSUME NEW n \in 0..(N - 1), n \in S
        PROVE  n + 1 \in S
    <2>1. n \in 0..N /\ n + 1 \in 0..N /\ n + 1 # 0 /\ (n + 1) - 1 = n
      BY <1>1
    <2>2. f[n + 1] = WalkStep(dag, f[n])
      BY <2>1 DEF WalkRecursion
    <2>3. f[n] \in WalkStates(dag)
      BY <2>1, WalkInvariantHolds DEF WalkInvariant
    <2>4. Extends(f[n].out, f[n + 1].out)
      BY <2>2, <2>3, WalkStepExtends
    <2>5. CASE m <= n
      <3>1. Extends(f[m].out, f[n].out)
        BY <1>4, <2>5
      <3>2. Extends(f[m].out, f[n + 1].out)
        BY <2>4, <3>1 DEF Extends
      <3> QED
        BY <2>1, <3>2
    <2>6. CASE m = n + 1
      BY <1>2, <2>1, <2>6
    <2>7. m <= n + 1 => m <= n \/ m = n + 1
      BY <1>1, <2>1
    <2> QED
      BY <2>1, <2>5, <2>6, <2>7
  <1> HIDE DEF N, S
  <1>5. \A n \in 0..N : n \in S
    BY <1>1, <1>3, <1>4, InductionUpTo
  <1>6. N \in S
    BY <1>1, <1>5
  <1> QED
    BY <1>1, <1>6 DEF N, S

\* The first step yields the commit the walk starts from and queues its parents.
LEMMA WalkFirstStep ==
  ASSUME NEW dag, IsDag(dag), NEW from \in 1..Len(dag), NEW f,
         WalkRecursion(f, dag, from)
  PROVE  /\ f[1].out = <<from>>
         /\ f[1].queue = <<>> \o Unseen(dag[from].parents, <<from>>)
  <1>1. 0 \in 0..(2 * Len(dag) + 1) /\ 1 \in 0..(2 * Len(dag) + 1)
    BY DEF IsDag
  <1>2. f[0] = [queue |-> <<from>>, out |-> <<>>]
    BY <1>1 DEF WalkRecursion
  <1>3. f[1] = WalkStep(dag, f[0])
    BY <1>1 DEF WalkRecursion
  <1>4. f[0] \in WalkStates(dag)
    BY <1>2 DEF WalkStates
  <1>5. f[0].queue = <<from>> /\ f[0].out = <<>>
    BY <1>2
  <1>6. <<from>> # <<>> /\ Head(<<from>>) = from /\ Tail(<<from>>) = <<>>
    OBVIOUS
  <1>7. Append(<<>>, from) = <<from>>
    OBVIOUS
  <1>8. Members(<<>>) = {}
    BY DEF Members
  <1>9. f[1] = [queue |-> <<>> \o Unseen(dag[from].parents, <<from>>), out |-> <<from>>]
    <2>1. PICK w : w = f[0]
      OBVIOUS
    <2>2. w \in WalkStates(dag) /\ w.queue # <<>> /\ Head(w.queue) \notin Members(w.out)
      BY <1>4, <1>5, <1>6, <1>8, <2>1
    <2>3. WalkStep(dag, w) =
            [queue |-> Tail(w.queue) \o Unseen(dag[Head(w.queue)].parents,
                                               Append(w.out, Head(w.queue))),
             out   |-> Append(w.out, Head(w.queue))]
      BY <2>2, WalkStepCases
    <2>4. Head(w.queue) = from /\ Tail(w.queue) = <<>> /\ Append(w.out, from) = <<from>>
      BY <1>5, <1>6, <1>7, <2>1
    <2> QED
      BY <1>3, <2>1, <2>3, <2>4
  <1> QED
    BY <1>9

LEMMA WalkStartsAt ==
  ASSUME NEW dag, IsDag(dag), NEW from \in 1..Len(dag)
  PROVE  1 \in DOMAIN Walk(dag, from) /\ Walk(dag, from)[1] = from
  <1>1. PICK f : /\ WalkRecursion(f, dag, from)
                 /\ Walk(dag, from) = f[2 * Len(dag) + 1].out
    BY WalkUnfolds
  <1>2. 1 \in 0..(2 * Len(dag) + 1)
    BY DEF IsDag
  <1>3. f[1].out = <<from>>
    BY <1>1, WalkFirstStep
  <1>4. Extends(f[1].out, f[2 * Len(dag) + 1].out)
    BY <1>1, <1>2, WalkExtends
  <1> QED
    BY <1>1, <1>3, <1>4 DEF Extends

-----------------------------------------------------------------------------
(* The common ancestor *)

\* It is the first ancestor of a on the walk from b.
LEMMA LCAIsFirstHit ==
  ASSUME NEW dag, IsDag(dag), NEW a \in 1..Len(dag), NEW b \in 1..Len(dag), a # b
  PROVE  LET w == Walk(dag, b) IN
         \/ /\ FindLCA(dag, a, b) = 0
            /\ \A k \in DOMAIN w : w[k] \notin Ancestors(dag, a)
         \/ \E k \in DOMAIN w :
              /\ FindLCA(dag, a, b) = w[k]
              /\ w[k] \in Ancestors(dag, a)
              /\ \A j \in DOMAIN w : w[j] \in Ancestors(dag, a) => k <= j
  <1> DEFINE w == Walk(dag, b)
             hits == {k \in DOMAIN w : w[k] \in Ancestors(dag, a)}
             first == CHOOSE k \in hits : \A j \in hits : k <= j
  <1>1. FindLCA(dag, a, b) = IF hits = {} THEN 0 ELSE w[first]
    BY DEF FindLCA
  <1>2. DOMAIN w \subseteq Nat
    <2>1. w \in Seq(1..Len(dag))
      BY WalkYieldsAncestors
    <2> HIDE DEF w
    <2> QED
      BY <2>1
  <1>3. CASE hits = {}
    BY <1>1, <1>3
  <1>4. CASE hits # {}
    <2>1. hits \in SUBSET Nat
      BY <1>2
    <2>2. \E k \in hits : \A j \in hits : k <= j
      <3> HIDE DEF hits
      <3> QED
        BY <1>4, <2>1, Least
    <2>3. first \in hits /\ \A j \in hits : first <= j
      BY <2>2
    <2>4. FindLCA(dag, a, b) = w[first]
      BY <1>1, <1>4
    <2> HIDE DEF first
    <2> QED
      BY <2>3, <2>4
  <1> QED
    BY <1>3, <1>4

LEMMA LCAIsSound ==
  ASSUME NEW dag, IsDag(dag), NEW a \in 1..Len(dag), NEW b \in 1..Len(dag)
  PROVE  LET lca    == FindLCA(dag, a, b)
             common == Ancestors(dag, a) \cap Ancestors(dag, b)
         IN /\ lca = 0 <=> common = {}
            /\ lca # 0 => lca \in common
            /\ lca = b <=> b \in Ancestors(dag, a)
  <1> DEFINE lca == FindLCA(dag, a, b)
             w == Walk(dag, b)
             common == Ancestors(dag, a) \cap Ancestors(dag, b)
  <1>1. /\ Ancestors(dag, a) \subseteq 1..Len(dag) /\ a \in Ancestors(dag, a)
        /\ Ancestors(dag, b) \subseteq 1..Len(dag) /\ b \in Ancestors(dag, b)
    BY AncestorsContain
  <1>2. 0 \notin 1..Len(dag) /\ a # 0 /\ b # 0
    BY DEF IsDag
  <1>3. CASE a = b
    <2>1. lca = a
      BY <1>3 DEF FindLCA
    <2> QED
      BY <1>1, <1>2, <1>3, <2>1
  <1>4. CASE a # b
    <2>1. w \in Seq(1..Len(dag)) /\ Members(w) = Ancestors(dag, b)
      BY WalkYieldsAncestors
    <2>2. 1 \in DOMAIN w /\ w[1] = b
      BY WalkStartsAt
    <2>3. \/ /\ lca = 0
             /\ \A k \in DOMAIN w : w[k] \notin Ancestors(dag, a)
          \/ \E k \in DOMAIN w :
               /\ lca = w[k]
               /\ w[k] \in Ancestors(dag, a)
               /\ \A j \in DOMAIN w : w[j] \in Ancestors(dag, a) => k <= j
      BY <1>4, LCAIsFirstHit
    <2>4. DOMAIN w = 1..Len(w) /\ Len(w) \in Nat
      <3> HIDE DEF w
      <3> QED
        BY <2>1
    <2> HIDE DEF w, lca
    <2>5. ASSUME lca = 0, \A k \in DOMAIN w : w[k] \notin Ancestors(dag, a)
          PROVE  common = {} /\ lca # b /\ b \notin Ancestors(dag, a)
      <3>1. \A x \in Ancestors(dag, b) : x \notin Ancestors(dag, a)
        BY <2>1, <2>5 DEF Members
      <3> QED
        BY <1>1, <1>2, <2>5, <3>1
    <2>6. ASSUME NEW k \in DOMAIN w, lca = w[k], w[k] \in Ancestors(dag, a),
                 \A j \in DOMAIN w : w[j] \in Ancestors(dag, a) => k <= j
          PROVE  /\ lca # 0 /\ lca \in common
                 /\ lca = b <=> b \in Ancestors(dag, a)
      <3>1. lca \in common
        BY <2>1, <2>6 DEF Members
      <3>2. lca # 0
        BY <1>1, <1>2, <3>1
      <3>3. b \in Ancestors(dag, a) => k = 1
        <4>1. \A i \in 1..Len(w) : i <= 1 => i = 1
          BY <2>4
        <4> QED
          BY <2>2, <2>4, <2>6, <4>1
      <3>4. b \in Ancestors(dag, a) => lca = b
        BY <2>2, <2>6, <3>3
      <3>5. lca = b => b \in Ancestors(dag, a)
        BY <3>1
      <3> QED
        BY <3>1, <3>2, <3>4, <3>5
    <2>7. /\ lca = 0 <=> common = {}
          /\ lca # 0 => lca \in common
          /\ lca = b <=> b \in Ancestors(dag, a)
      BY <2>3, <2>5, <2>6
    <2> QED
      BY <2>7 DEF lca
  <1> QED
    BY <1>3, <1>4

\* Without merges the walk goes from a commit to its parent: each commit it meets
\* is an ancestor of those before it.
LinearInvariant(dag, w) ==
  /\ Len(w.queue) <= 1
  /\ \A i \in DOMAIN w.out, q \in Members(w.queue) : q \in Ancestors(dag, w.out[i])
  /\ \A i, j \in DOMAIN w.out : i <= j => w.out[j] \in Ancestors(dag, w.out[i])

IsLinear(dag) == \A c \in 1..Len(dag) : Len(dag[c].parents) < 2

LEMMA LinearYieldKeeps ==
  ASSUME NEW dag, IsDag(dag), IsLinear(dag), NEW w \in WalkStates(dag),
         LinearInvariant(dag, w), w.queue # <<>>, NEW c, c = Head(w.queue)
  PROVE  LinearInvariant(dag,
           [queue |-> Tail(w.queue) \o Unseen(dag[c].parents, Append(w.out, c)),
            out   |-> Append(w.out, c)])
  <1> DEFINE D == 1..Len(dag)
             out == Append(w.out, c)
             ps == dag[c].parents
             new == Unseen(ps, out)
             v == [queue |-> Tail(w.queue) \o new, out |-> out]
  <1>1. w.queue \in Seq(D) /\ w.out \in Seq(D)
    BY DEF WalkStates
  <1>2. /\ c \in D /\ Tail(w.queue) \in Seq(D)
        /\ Len(Tail(w.queue)) = Len(w.queue) - 1
        /\ Members(w.queue) = {c} \cup Members(Tail(w.queue))
    <2> HIDE DEF D
    <2> QED
      BY <1>1, MembersOfTail
  <1>3. Len(Tail(w.queue)) = 0 /\ Members(Tail(w.queue)) = {}
    <2>1. Len(Tail(w.queue)) \in Nat /\ Len(w.queue) \in Nat
      BY <1>1, <1>2
    <2>2. Len(w.queue) <= 1
      BY DEF LinearInvariant
    <2>3. Len(Tail(w.queue)) = 0
      <3>1. \A q, t \in Nat : t = q - 1 /\ q <= 1 => t = 0
        OBVIOUS
      <3>2. Len(Tail(w.queue)) = Len(w.queue) - 1
        BY <1>2
      <3> QED
        BY <2>1, <2>2, <3>1, <3>2, Zenon
    <2>4. \A s \in Seq(D) : Len(s) = 0 => Members(s) = {}
      <3> SUFFICES ASSUME NEW s \in Seq(D), Len(s) = 0 PROVE Members(s) = {}
        OBVIOUS
      <3>1. DOMAIN s = 1..0
        OBVIOUS
      <3> QED
        BY <3>1 DEF Members
    <2> QED
      BY <1>2, <2>3, <2>4
  <1>4. out \in Seq(D)
    BY <1>1, <1>2
  <1>5. ps \in Seq(D) /\ Len(ps) <= 1 /\ ParentsOf(dag, c) = Members(ps)
    <2>1. ps \in Seq(D) /\ Len(ps) \in 0..2 /\ ParentsOf(dag, c) = Members(ps)
      BY <1>2, ParentTypes, ParentsAreMembers
    <2>2. Len(ps) < 2
      BY <1>2 DEF IsLinear
    <2>3. \A n \in 0..2 : n < 2 => n <= 1
      OBVIOUS
    <2> QED
      BY <2>1, <2>2, <2>3
  <1>6. /\ new \in Seq(D) /\ Len(new) <= 1
        /\ Members(new) \subseteq ParentsOf(dag, c)
    <2> HIDE DEF D, ps, out
    <2>1. /\ new \in Seq(D) /\ Len(new) <= Len(ps)
          /\ Members(new) = Members(ps) \ Members(out)
      BY <1>4, <1>5, UnseenSelects
    <2>2. Len(new) \in Nat /\ Len(ps) \in Nat
      BY <1>5, <2>1
    <2>3. \A i, j \in Nat : i <= j /\ j <= 1 => i <= 1
      OBVIOUS
    <2>4. Len(new) <= 1
      BY <1>5, <2>1, <2>2, <2>3
    <2> QED
      BY <1>5, <2>1, <2>4
  <1>7. v.queue = Tail(w.queue) \o new /\ v.out = out
    OBVIOUS
  <1>8. Len(v.queue) <= 1 /\ Members(v.queue) \subseteq ParentsOf(dag, c)
    <2> HIDE DEF D, new, v
    <2>1. Len(Tail(w.queue) \o new) = Len(Tail(w.queue)) + Len(new) /\ Len(new) \in Nat
      BY <1>2, <1>6
    <2>2. Len(v.queue) <= 1
      <3>1. \A i \in Nat : i <= 1 => 0 + i <= 1
        OBVIOUS
      <3>2. Len(v.queue) = 0 + Len(new)
        BY <1>3, <1>7, <2>1, Zenon
      <3>3. Len(new) <= 1
        BY <1>6
      <3> QED
        BY <2>1, <3>1, <3>2, <3>3, Zenon
    <2>3. \A q, r \in Seq(D) : Members(q \o r) = Members(q) \cup Members(r)
      BY MembersOfConcat
    <2>4. Members(Tail(w.queue) \o new) = Members(Tail(w.queue)) \cup Members(new)
      BY <1>2, <1>6, <2>3
    <2> QED
      BY <1>3, <1>6, <1>7, <2>2, <2>4
  <1> HIDE DEF v, new, ps
  <1>9. c \in Ancestors(dag, c) /\ ParentsOf(dag, c) \subseteq Ancestors(dag, c)
    BY <1>2, AncestorsContain
  <1>10. ASSUME NEW i \in DOMAIN w.out
         PROVE  /\ c \in Ancestors(dag, w.out[i])
                /\ ParentsOf(dag, c) \subseteq Ancestors(dag, w.out[i])
    <2>1. w.out[i] \in D
      BY <1>1
    <2>2. c \in Ancestors(dag, w.out[i])
      BY <1>2 DEF LinearInvariant
    <2>3. Ancestors(dag, c) \subseteq Ancestors(dag, w.out[i])
      BY <2>1, <2>2, AncestorsNested
    <2> QED
      BY <1>9, <2>2, <2>3
  <1>11. /\ Len(w.out) \in Nat /\ DOMAIN w.out = 1..Len(w.out)
         /\ DOMAIN v.out = 1..(Len(w.out) + 1)
         /\ \A k \in 1..Len(w.out) : v.out[k] = w.out[k]
         /\ v.out[Len(w.out) + 1] = c
    BY <1>1, <1>2, <1>7
  <1> HIDE DEF out
  <1>12. \A k \in DOMAIN v.out : k \in DOMAIN w.out \/ k = Len(w.out) + 1
    BY <1>11
  <1>13. ASSUME NEW i \in DOMAIN v.out, NEW q \in Members(v.queue)
         PROVE  q \in Ancestors(dag, v.out[i])
    BY <1>8, <1>9, <1>10, <1>11, <1>12
  <1>14. ASSUME NEW i \in DOMAIN v.out, NEW j \in DOMAIN v.out, i <= j
         PROVE  v.out[j] \in Ancestors(dag, v.out[i])
    <2>1. CASE j \in DOMAIN w.out
      <3>1. i \in DOMAIN w.out
        BY <1>11, <1>14, <2>1
      <3> QED
        BY <1>11, <1>14, <2>1, <3>1 DEF LinearInvariant
    <2>2. CASE j = Len(w.out) + 1 /\ i \in DOMAIN w.out
      BY <1>10, <1>11, <2>2
    <2>3. CASE j = Len(w.out) + 1 /\ i = Len(w.out) + 1
      BY <1>9, <1>11, <2>3
    <2> QED
      BY <1>12, <2>1, <2>2, <2>3
  <1>15. LinearInvariant(dag, v)
    BY <1>8, <1>13, <1>14 DEF LinearInvariant
  <1> QED
    BY <1>15 DEF v, new, ps, out

LEMMA LinearStepKeeps ==
  ASSUME NEW dag, IsDag(dag), IsLinear(dag), NEW w \in WalkStates(dag),
         LinearInvariant(dag, w)
  PROVE  LinearInvariant(dag, WalkStep(dag, w))
  <1>1. CASE w.queue = <<>>
    BY <1>1 DEF WalkStep
  <1>2. CASE w.queue # <<>>
    <2> DEFINE c == Head(w.queue)
    <2>1. CASE c \in Members(w.out)
      <3>1. WalkStep(dag, w) = [queue |-> Tail(w.queue), out |-> w.out]
        BY <1>2, <2>1, WalkStepCases
      <3>2. w.queue \in Seq(1..Len(dag))
        BY DEF WalkStates
      <3>3. /\ Tail(w.queue) \in Seq(1..Len(dag))
            /\ Len(Tail(w.queue)) = Len(w.queue) - 1
            /\ Members(Tail(w.queue)) \subseteq Members(w.queue)
        BY <1>2, <3>2, MembersOfTail
      <3>4. Len(Tail(w.queue)) <= 1
        BY <3>2, <3>3 DEF LinearInvariant
      <3>5. PICK v : v = [queue |-> Tail(w.queue), out |-> w.out]
        OBVIOUS
      <3>6. v.queue = Tail(w.queue) /\ v.out = w.out
        BY <3>5
      <3>7. LinearInvariant(dag, v)
        BY <3>3, <3>4, <3>6 DEF LinearInvariant
      <3> QED
        BY <3>1, <3>5, <3>7
    <2>2. CASE c \notin Members(w.out)
      <3>1. WalkStep(dag, w) =
              [queue |-> Tail(w.queue) \o Unseen(dag[c].parents, Append(w.out, c)),
               out   |-> Append(w.out, c)]
        BY <1>2, <2>2, WalkStepCases
      <3> HIDE DEF c
      <3>2. c = Head(w.queue)
        BY DEF c
      <3> QED
        BY <1>2, <3>1, <3>2, LinearYieldKeeps
    <2> QED
      BY <2>1, <2>2
  <1> QED
    BY <1>1, <1>2

\* Each commit but the last is followed by its only parent, which is next in line
\* while the walk goes on.
ChainInvariant(dag, w) ==
  /\ \A k \in 1..(Len(w.out) - 1) : ParentsOf(dag, w.out[k]) = {w.out[k + 1]}
  /\ Len(w.out) # 0 => ParentsOf(dag, w.out[Len(w.out)]) = Members(w.queue)

\* Commits that are still to come are older than those that have been yielded.
LEMMA LinearOlder ==
  ASSUME NEW dag, IsDag(dag), NEW w \in WalkStates(dag), LinearInvariant(dag, w),
         NEW q \in Members(w.queue), NEW i \in DOMAIN w.out
  PROVE  q <= w.out[i]
  <1>1. w.out \in Seq(1..Len(dag))
    BY DEF WalkStates
  <1>2. w.out[i] \in 1..Len(dag)
    BY <1>1
  <1>3. q \in Ancestors(dag, w.out[i])
    BY DEF LinearInvariant
  <1> QED
    BY <1>2, <1>3, AncestorsOlder

LEMMA ChainStepKeeps ==
  ASSUME NEW dag, IsDag(dag), IsLinear(dag), NEW w \in WalkStates(dag),
         LinearInvariant(dag, w), ChainInvariant(dag, w)
  PROVE  ChainInvariant(dag, WalkStep(dag, w))
  <1> DEFINE D == 1..Len(dag)
             c == Head(w.queue)
             ps == dag[c].parents
             out == Append(w.out, c)
             new == Unseen(ps, out)
             n == Len(w.out)
  <1>1. w.queue \in Seq(D) /\ w.out \in Seq(D)
    BY DEF WalkStates
  <1>2. n \in Nat /\ DOMAIN w.out = 1..n
    BY <1>1
  <1>3. CASE w.queue = <<>>
    BY <1>3 DEF WalkStep
  <1>4. CASE w.queue # <<>>
    <2>1. /\ c \in D /\ Tail(w.queue) \in Seq(D)
          /\ Len(Tail(w.queue)) = Len(w.queue) - 1
          /\ Members(w.queue) = {c} \cup Members(Tail(w.queue))
      <3> HIDE DEF D
      <3> QED
        BY <1>1, <1>4, MembersOfTail
    <2>2. Members(Tail(w.queue)) = {}
      <3>1. Len(w.queue) \in Nat /\ Len(Tail(w.queue)) \in Nat
        BY <1>1, <2>1
      <3>2. Len(w.queue) <= 1
        BY DEF LinearInvariant
      <3>3. \A i, j \in Nat : j = i - 1 /\ i <= 1 => j = 0
        OBVIOUS
      <3>4. Len(Tail(w.queue)) = 0
        BY <2>1, <3>1, <3>2, <3>3, Zenon
      <3>5. \A s \in Seq(D) : Len(s) = 0 => Members(s) = {}
        <4> SUFFICES ASSUME NEW s \in Seq(D), Len(s) = 0 PROVE Members(s) = {}
          OBVIOUS
        <4>1. DOMAIN s = 1..0
          OBVIOUS
        <4> QED
          BY <4>1 DEF Members
      <3> QED
        BY <2>1, <3>4, <3>5
    <2>3. \A i \in 1..n : c <= w.out[i]
      BY <1>2, <2>1, LinearOlder
    <2>4. c \notin Members(w.out)
      <3> SUFFICES ASSUME NEW i \in 1..n, w.out[i] = c PROVE FALSE
        BY <1>2 DEF Members
      <3>1. n # 0 /\ n \in 1..n
        BY <1>2
      <3>2. c \in ParentsOf(dag, w.out[n])
        BY <2>1, <3>1 DEF ChainInvariant
      <3>3. w.out[n] \in D
        BY <1>1, <3>1
      <3>4. c < w.out[n]
        BY <3>2, <3>3, ParentTypes
      <3>5. w.out[n] \in Ancestors(dag, w.out[i])
        BY <1>2, <3>1 DEF LinearInvariant
      <3>6. w.out[n] <= w.out[i]
        BY <2>1, <3>5, AncestorsOlder
      <3> HIDE DEF c
      <3> QED
        BY <2>1, <3>3, <3>4, <3>6
    <2>5. WalkStep(dag, w) = [queue |-> Tail(w.queue) \o new, out |-> out]
      BY <1>4, <2>4, WalkStepCases
    <2>6. /\ out \in Seq(D) /\ DOMAIN out = 1..(n + 1)
          /\ \A k \in 1..n : out[k] = w.out[k]
          /\ out[n + 1] = c
          /\ Members(out) = Members(w.out) \cup {c}
      <3> HIDE DEF D, c
      <3> QED
        BY <1>1, <2>1, AppendFacts, MembersOfAppend
    <2>7. ps \in Seq(D) /\ ParentsOf(dag, c) = Members(ps)
      BY <2>1, ParentTypes, ParentsAreMembers
    <2>8. Members(ps) \cap Members(out) = {}
      <3> SUFFICES ASSUME NEW x \in ParentsOf(dag, c), x \in Members(out) PROVE FALSE
        BY <2>7
      <3>1. x < c /\ x \in D
        BY <2>1, ParentTypes
      <3>2. x \in Members(w.out) \/ x = c
        BY <2>6
      <3>3. x \in Members(w.out) => c <= x
        BY <1>2, <2>3 DEF Members
      <3> HIDE DEF c
      <3> QED
        BY <2>1, <3>1, <3>2, <3>3
    <2> HIDE DEF out, ps
    <2>9. new \in Seq(D) /\ Members(new) = Members(ps)
      <3> HIDE DEF D
      <3>1. new \in Seq(D) /\ Members(new) = Members(ps) \ Members(out)
        BY <2>6, <2>7, UnseenSelects
      <3> QED
        BY <2>8, <3>1
    <2> HIDE DEF new
    <2>10. Members(Tail(w.queue) \o new) = ParentsOf(dag, c)
      <3>1. \A s, t \in Seq(D) : Members(s \o t) = Members(s) \cup Members(t)
        BY MembersOfConcat
      <3>2. Members(Tail(w.queue) \o new) = Members(Tail(w.queue)) \cup Members(new)
        BY <2>1, <2>9, <3>1
      <3> QED
        BY <2>2, <2>7, <2>9, <3>2
    <2>11. Len(out) = n + 1
      BY <1>2, <2>6
    <2>12. ASSUME NEW k \in 1..n
           PROVE  ParentsOf(dag, out[k]) = {out[k + 1]}
      <3>1. CASE k = n
        <4>1. ParentsOf(dag, w.out[n]) = Members(w.queue)
          BY <1>2, <3>1 DEF ChainInvariant
        <4>2. Members(w.queue) = {c}
          BY <2>1, <2>2
        <4> QED
          BY <2>6, <3>1, <4>1, <4>2
      <3>2. CASE k \in 1..(n - 1)
        <4>1. ParentsOf(dag, w.out[k]) = {w.out[k + 1]}
          BY <3>2 DEF ChainInvariant
        <4>2. k + 1 \in 1..n
          BY <1>2, <3>2
        <4> QED
          BY <2>6, <4>1, <4>2
      <3>3. k = n \/ k \in 1..(n - 1)
        BY <1>2
      <3> QED
        BY <3>1, <3>2, <3>3
    <2>13. PICK v : v = [queue |-> Tail(w.queue) \o new, out |-> out]
      OBVIOUS
    <2>14. v.queue = Tail(w.queue) \o new /\ v.out = out
      BY <2>13
    <2>15. Len(out) - 1 = n /\ out[Len(out)] = c
      BY <1>2, <2>6, <2>11
    <2>16. ChainInvariant(dag, v)
      BY <2>10, <2>12, <2>14, <2>15 DEF ChainInvariant
    <2> QED
      BY <2>5, <2>13, <2>16
  <1> QED
    BY <1>3, <1>4

LEMMA LinearWalk ==
  ASSUME NEW dag, IsDag(dag), IsLinear(dag), NEW from \in 1..Len(dag)
  PROVE  LET w == Walk(dag, from) IN
         /\ \A i, j \in DOMAIN w : i <= j => w[j] \in Ancestors(dag, w[i])
         /\ \A k \in 1..(Len(w) - 1) : ParentsOf(dag, w[k]) = {w[k + 1]}
         /\ ParentsOf(dag, w[Len(w)]) = {}
  <1> DEFINE N == 2 * Len(dag) + 1
  <1>1. PICK f : WalkRecursion(f, dag, from) /\ Walk(dag, from) = f[N].out
    BY WalkUnfolds
  <1> DEFINE S == {n \in 0..N : LinearInvariant(dag, f[n]) /\ ChainInvariant(dag, f[n])}
  <1>2. N \in Nat /\ N \in 0..N
    BY DEF IsDag
  <1>3. 0 \in S
    <2>1. f[0] = [queue |-> <<from>>, out |-> <<>>]
      BY <1>1, <1>2 DEF WalkRecursion
    <2>2. f[0].queue = <<from>> /\ f[0].out = <<>>
      BY <2>1
    <2>3. LinearInvariant(dag, f[0])
      BY <2>2 DEF LinearInvariant
    <2>4. ChainInvariant(dag, f[0])
      BY <2>2 DEF ChainInvariant
    <2> QED
      BY <1>2, <2>3, <2>4
  <1>4. ASSUME NEW n \in 0..(N - 1), n \in S
        PROVE  n + 1 \in S
    <2>1. n \in 0..N /\ n + 1 \in 0..N /\ n + 1 # 0 /\ (n + 1) - 1 = n
      BY <1>2
    <2>2. f[n + 1] = WalkStep(dag, f[n])
      BY <1>1, <2>1 DEF WalkRecursion
    <2>3. f[n] \in WalkStates(dag)
      BY <1>1, <2>1, WalkInvariantHolds DEF WalkInvariant
    <2>4. LinearInvariant(dag, f[n]) /\ ChainInvariant(dag, f[n])
      BY <1>4
    <2>5. LinearInvariant(dag, f[n + 1])
      BY <2>2, <2>3, <2>4, LinearStepKeeps
    <2>6. ChainInvariant(dag, f[n + 1])
      BY <2>2, <2>3, <2>4, ChainStepKeeps
    <2> QED
      BY <2>1, <2>5, <2>6
  <1> HIDE DEF N, S
  <1>5. \A n \in 0..N : n \in S
    BY <1>2, <1>3, <1>4, InductionUpTo
  <1>6. LinearInvariant(dag, f[N]) /\ ChainInvariant(dag, f[N])
    BY <1>2, <1>5 DEF S
  <1> DEFINE w == Walk(dag, from)
  <1>7. \A i, j \in DOMAIN w : i <= j => w[j] \in Ancestors(dag, w[i])
    BY <1>1, <1>6 DEF LinearInvariant
  <1>8. \A k \in 1..(Len(w) - 1) : ParentsOf(dag, w[k]) = {w[k + 1]}
    BY <1>1, <1>6 DEF ChainInvariant
  <1>9. Len(w) # 0
    <2>1. w \in Seq(1..Len(dag)) /\ 1 \in DOMAIN w
      BY WalkYieldsAncestors, WalkStartsAt
    <2> HIDE DEF w
    <2> QED
      BY <2>1
  <1>10. ParentsOf(dag, w[Len(w)]) = {}
    <2>1. PICK g : g = f[N]
      OBVIOUS
    <2>2. ParentsOf(dag, w[Len(w)]) = Members(g.queue)
      BY <1>1, <1>6, <1>9, <2>1 DEF ChainInvariant
    <2>3. WalkInvariant(dag, from, g, N)
      BY <1>1, <1>2, <2>1, WalkInvariantHolds DEF N
    <2>4. g.queue = <<>>
      BY <1>1, <2>3, WalkIsOver DEF N
    <2> QED
      BY <2>2, <2>4 DEF Members
  <1> HIDE DEF w
  <1> QED
    BY <1>7, <1>8, <1>10 DEF w

LEMMA LinearWalkOrder ==
  ASSUME NEW dag, IsDag(dag), IsLinear(dag), NEW from \in 1..Len(dag)
  PROVE  \A i, j \in DOMAIN Walk(dag, from) :
           i <= j => Walk(dag, from)[j] \in Ancestors(dag, Walk(dag, from)[i])
  BY LinearWalk

\* Without merges every common ancestor is an ancestor of the one that is found.
LEMMA LCAIsLowestInLinearDag ==
  ASSUME NEW dag, IsDag(dag), IsLinear(dag), NEW a \in 1..Len(dag),
         NEW b \in 1..Len(dag), FindLCA(dag, a, b) # 0
  PROVE  Ancestors(dag, a) \cap Ancestors(dag, b) = Ancestors(dag, FindLCA(dag, a, b))
  <1> DEFINE lca == FindLCA(dag, a, b)
             w == Walk(dag, b)
  <1>1. lca \in Ancestors(dag, a) \cap Ancestors(dag, b)
    BY LCAIsSound
  <1>2. Ancestors(dag, lca) \subseteq Ancestors(dag, a) \cap Ancestors(dag, b)
    <2> HIDE DEF lca
    <2> QED
      BY <1>1, AncestorsNested
  <1>3. CASE a = b
    <2>1. lca = a
      BY <1>3 DEF FindLCA
    <2> QED
      BY <1>3, <2>1
  <1>4. CASE a # b
    <2>1. Members(w) = Ancestors(dag, b)
      BY WalkYieldsAncestors
    <2>2. PICK k \in DOMAIN w : /\ lca = w[k]
                                /\ \A j \in DOMAIN w : w[j] \in Ancestors(dag, a) => k <= j
      BY <1>4, LCAIsFirstHit
    <2>3. \A i, j \in DOMAIN w : i <= j => w[j] \in Ancestors(dag, w[i])
      BY LinearWalkOrder
    <2> HIDE DEF w, lca
    <2>4. ASSUME NEW x \in Ancestors(dag, a) \cap Ancestors(dag, b)
          PROVE  x \in Ancestors(dag, lca)
      <3>1. PICK j \in DOMAIN w : x = w[j]
        BY <2>1 DEF Members
      <3> QED
        BY <2>2, <2>3, <3>1
    <2>5. Ancestors(dag, a) \cap Ancestors(dag, b) = Ancestors(dag, lca)
      BY <1>2, <2>4
    <2> QED
      BY <2>5 DEF lca
  <1> QED
    BY <1>3, <1>4

-----------------------------------------------------------------------------
(* Merge *)

\* Where there is no conflict the merged row is the row of each side that changed it.
LEMMA MergeRowKeepsChanges ==
  ASSUME NEW b, NEW o, NEW t, ~RowConflicts(b, o, t)
  PROVE  /\ o # b => MergeRow(b, o, t) = o
         /\ t # b => MergeRow(b, o, t) = t
         /\ MergeRow(b, o, t) \in {o, t}
  BY DEF RowConflicts, MergeRow

LEMMA MergeType ==
  ASSUME NEW base, NEW ours \in Manifests, NEW theirs \in Manifests
  PROVE  MergeManifests(base, ours, theirs) \in Manifests
  <1>1. \A i \in Ids : MergeRow(base[i], ours[i], theirs[i]) \in Values \cup {Null}
    BY DEF MergeRow, Manifests
  <1> QED
    BY <1>1 DEF MergeManifests, Manifests

\* Two distinct commits in two places.
LEMMA TwoInOrder ==
  ASSUME NEW D, NEW s \in Seq(D), Len(s) <= 2, NEW a, NEW b, a # b,
         Members(s) = {a, b}
  PROVE  /\ Len(s) = 2
         /\ (s[1] = a /\ s[2] = b) \/ (s[1] = b /\ s[2] = a)
  <1>1. Len(s) \in Nat /\ DOMAIN s = 1..Len(s)
    OBVIOUS
  <1>2. PICK i \in 1..Len(s) : s[i] = a
    BY <1>1 DEF Members
  <1>3. PICK j \in 1..Len(s) : s[j] = b
    BY <1>1 DEF Members
  <1>4. i # j
    BY <1>2, <1>3
  <1>5. \A n \in Nat : n <= 2 =>
          \A k, m \in 1..n : k # m => n = 2 /\ ((k = 1 /\ m = 2) \/ (k = 2 /\ m = 1))
    OBVIOUS
  <1>6. Len(s) = 2 /\ ((i = 1 /\ j = 2) \/ (i = 2 /\ j = 1))
    BY <1>1, <1>4, <1>5
  <1> QED
    BY <1>2, <1>3, <1>6

\* The walk from a merge commit meets its parents next.
LEMMA WalkFromMerge ==
  ASSUME NEW dag, IsDag(dag), NEW new \in 1..Len(dag), NEW a, NEW b, a # b,
         dag[new].parents = <<a, b>>
  PROVE  LET w == Walk(dag, new) IN
         \/ 2 \in DOMAIN w /\ w[2] = b
         \/ 2 \in DOMAIN w /\ w[2] = a /\ 3 \in DOMAIN w /\ w[3] = b
  <1> DEFINE D == 1..Len(dag)
             N == 2 * Len(dag) + 1
             w == Walk(dag, new)
  <1>1. PICK f : WalkRecursion(f, dag, new) /\ w = f[N].out
    BY WalkUnfolds
  <1>2. {1, 2, 3} \subseteq 0..N
    <2>1. Len(dag) \in Nat /\ Len(dag) # 0
      BY DEF IsDag
    <2> QED
      BY <2>1
  <1>3. <<a, b>> \in Seq(D) /\ Len(<<a, b>>) = 2 /\ Members(<<a, b>>) = {a, b}
    <2>1. <<a, b>> \in Seq(D)
      BY ParentTypes
    <2>2. DOMAIN <<a, b>> = {1, 2} /\ <<a, b>>[1] = a /\ <<a, b>>[2] = b
      OBVIOUS
    <2> QED
      BY <2>1, <2>2 DEF Members
  <1>4. a # new /\ b # new /\ a \in D /\ b \in D
    <2>1. ParentsOf(dag, new) = {a, b}
      BY <1>3, ParentsAreMembers
    <2>2. \A p \in {a, b} : p \in D /\ p < new
      BY <2>1, ParentTypes
    <2> QED
      BY <2>2
  <1> DEFINE first == Unseen(<<a, b>>, <<new>>)
             q == f[1].queue
  <1>5. f[1].out = <<new>> /\ q = <<>> \o first
    BY <1>1, WalkFirstStep
  <1>6. q \in Seq(D) /\ Len(q) <= 2 /\ Members(q) = {a, b}
    <2>1. <<new>> \in Seq(D) /\ Members(<<new>>) = {new}
      BY DEF Members
    <2>2. first \in Seq(D) /\ Len(first) <= 2 /\ Members(first) = {a, b}
      <3>1. \A s, t \in Seq(D) : /\ Unseen(s, t) \in Seq(D)
                                 /\ Len(Unseen(s, t)) <= Len(s)
                                 /\ Members(Unseen(s, t)) = Members(s) \ Members(t)
        BY UnseenSelects
      <3>2. /\ first \in Seq(D) /\ Len(first) <= Len(<<a, b>>)
            /\ Members(first) = Members(<<a, b>>) \ Members(<<new>>)
        BY <1>3, <2>1, <3>1
      <3> HIDE DEF first, D
      <3>3. Members(first) = {a, b}
        BY <1>3, <1>4, <2>1, <3>2
      <3> QED
        BY <1>3, <3>2, <3>3
    <2> HIDE DEF first, D
    <2>3. <<>> \o first = first
      BY <2>2
    <2>4. q = first
      BY <1>5, <2>3
    <2> HIDE DEF q
    <2> QED
      BY <2>2, <2>4
  <1> HIDE DEF q, first, w, D, N
  <1>7. Len(q) = 2 /\ ((q[1] = a /\ q[2] = b) \/ (q[1] = b /\ q[2] = a))
    <2>1. \A s \in Seq(D) : Len(s) <= 2 /\ Members(s) = {a, b} =>
            Len(s) = 2 /\ ((s[1] = a /\ s[2] = b) \/ (s[1] = b /\ s[2] = a))
      BY TwoInOrder
    <2> QED
      BY <1>6, <2>1
  <1>8. /\ q # <<>> /\ Head(q) = q[1]
        /\ Tail(q) \in Seq(D) /\ Len(Tail(q)) # 0 /\ Tail(q)[1] = q[2]
    <2>1. q # <<>> /\ Head(q) = q[1]
      <3>1. \A s \in Seq(D) : Len(s) # 0 => s # <<>> /\ Head(s) = s[1]
        BY HeadIsFirst
      <3>2. q \in Seq(D) /\ Len(q) # 0
        BY <1>6, <1>7
      <3> QED
        BY <3>1, <3>2, Zenon
    <2>2. Tail(q) \in Seq(D) /\ Len(Tail(q)) = Len(q) - 1
      BY <1>6, <2>1, MembersOfTail
    <2>3. Len(Tail(q)) # 0
      BY <1>7, <2>2
    <2>4. \A k \in 1..(Len(q) - 1) : Tail(q)[k] = q[k + 1]
      BY <1>6, <2>1
    <2>5. 1 \in 1..(Len(q) - 1) /\ 1 + 1 = 2
      BY <1>7
    <2>6. Tail(q)[1] = q[2]
      BY <2>4, <2>5
    <2> QED
      BY <2>1, <2>2, <2>3, <2>6
  <1> DEFINE out == Append(<<new>>, q[1])
  <1>9. /\ out \in Seq(D) /\ Len(out) = 2 /\ out[1] = new /\ out[2] = q[1]
        /\ Members(out) = {new, q[1]}
    <2>1. <<new>> \in Seq(D) /\ q[1] \in D /\ Len(<<new>>) = 1
      BY <1>4, <1>7 DEF D
    <2>2. Members(<<new>>) = {new} /\ <<new>>[1] = new
      BY DEF Members
    <2>3. /\ out \in Seq(D) /\ DOMAIN out = 1..(Len(<<new>>) + 1)
          /\ \A k \in 1..Len(<<new>>) : out[k] = <<new>>[k]
          /\ out[Len(<<new>>) + 1] = q[1]
      BY <2>1, AppendFacts
    <2>4. Members(out) = {new, q[1]}
      <3>1. \A s \in Seq(D), e \in D : Members(Append(s, e)) = Members(s) \cup {e}
        BY MembersOfAppend
      <3>2. Members(out) = Members(<<new>>) \cup {q[1]}
        BY <2>1, <3>1, Zenon
      <3> HIDE DEF out
      <3> QED
        BY <2>2, <3>2
    <2> HIDE DEF out
    <2>5. out[1] = new /\ out[2] = q[1]
      BY <2>1, <2>2, <2>3
    <2>6. Len(out) = 2
      BY <2>1, <2>3
    <2> QED
      BY <2>3, <2>4, <2>5, <2>6
  <1> HIDE DEF out
  <1>10. f[2].out = out /\ \E r \in Seq(D) : f[2].queue = Tail(q) \o r
    <2>1. f[2] = WalkStep(dag, f[1])
      BY <1>1, <1>2 DEF WalkRecursion, N
    <2>2. f[1] \in WalkStates(dag)
      BY <1>1, <1>2, WalkInvariantHolds DEF WalkInvariant, N
    <2>3. PICK v : v = f[1]
      OBVIOUS
    <2>4. v.queue = q /\ v.out = <<new>> /\ v \in WalkStates(dag)
      BY <1>5, <2>2, <2>3 DEF q
    <2>5. v.queue # <<>> /\ Head(v.queue) = q[1]
      BY <1>8, <2>4
    <2>6. q[1] \notin Members(<<new>>)
      BY <1>4, <1>7 DEF Members
    <2>7. WalkStep(dag, v) =
            [queue |-> Tail(v.queue) \o Unseen(dag[Head(v.queue)].parents,
                                               Append(v.out, Head(v.queue))),
             out   |-> Append(v.out, Head(v.queue))]
      BY <2>4, <2>5, <2>6, WalkStepCases
    <2>8. Append(v.out, Head(v.queue)) = out
      BY <2>4, <2>5 DEF out
    <2>9. f[2] = [queue |-> Tail(q) \o Unseen(dag[q[1]].parents, out), out |-> out]
      BY <2>1, <2>3, <2>4, <2>5, <2>7, <2>8
    <2>10. Unseen(dag[q[1]].parents, out) \in Seq(D)
      <3>1. q[1] \in 1..Len(dag)
        BY <1>4, <1>7 DEF D
      <3>2. dag[q[1]].parents \in Seq(D)
        BY <3>1, ParentTypes DEF D
      <3> QED
        BY <1>9, <3>2, UnseenSelects
    <2>11. PICK r : r = Unseen(dag[q[1]].parents, out)
      OBVIOUS
    <2>12. f[2] = [queue |-> Tail(q) \o r, out |-> out]
      BY <2>9, <2>11
    <2>13. f[2].out = out /\ f[2].queue = Tail(q) \o r
      BY <2>12
    <2>14. r \in Seq(D)
      BY <2>10, <2>11
    <2> QED
      BY <2>13, <2>14
  <1>11. Extends(f[2].out, w) /\ Extends(f[3].out, w)
    BY <1>1, <1>2, WalkExtends DEF N
  <1>12. 2 \in DOMAIN w /\ w[2] = q[1]
    <2>1. 2 \in DOMAIN out
      BY <1>9
    <2> QED
      BY <1>9, <1>10, <1>11, <2>1 DEF Extends
  <1>13. CASE q[1] = b
    BY <1>12, <1>13 DEF w
  <1>14. CASE q[1] = a /\ q[2] = b
    <2>1. f[3] = WalkStep(dag, f[2])
      BY <1>1, <1>2 DEF WalkRecursion, N
    <2>2. f[2] \in WalkStates(dag)
      BY <1>1, <1>2, WalkInvariantHolds DEF WalkInvariant, N
    <2>3. PICK r \in Seq(D) : f[2].queue = Tail(q) \o r
      BY <1>10
    <2>4. Tail(q) \o r # <<>> /\ Head(Tail(q) \o r) = b
      BY <1>8, <1>14, HeadOfConcat
    <2>5. b \notin Members(out)
      BY <1>4, <1>9, <1>14
    <2>6. PICK v : v = f[2]
      OBVIOUS
    <2>7. /\ v \in WalkStates(dag) /\ v.queue # <<>> /\ Head(v.queue) = b
          /\ v.out = out
      BY <1>10, <2>2, <2>3, <2>4, <2>6
    <2>8. WalkStep(dag, v) =
            [queue |-> Tail(v.queue) \o Unseen(dag[Head(v.queue)].parents,
                                               Append(v.out, Head(v.queue))),
             out   |-> Append(v.out, Head(v.queue))]
      BY <2>5, <2>7, WalkStepCases
    <2>9. f[3].out = Append(out, b)
      BY <2>1, <2>6, <2>7, <2>8
    <2>10. 3 \in DOMAIN Append(out, b) /\ Append(out, b)[3] = b
      <3>1. b \in D
        BY <1>4
      <3>2. \A s \in Seq(D) : /\ DOMAIN Append(s, b) = 1..(Len(s) + 1)
                              /\ Append(s, b)[Len(s) + 1] = b
        BY <3>1, AppendFacts
      <3>3. out \in Seq(D) /\ Len(out) + 1 = 3
        BY <1>9
      <3>4. DOMAIN Append(out, b) = 1..3 /\ Append(out, b)[3] = b
        BY <3>2, <3>3
      <3> QED
        BY <3>4
    <2>11. 3 \in DOMAIN w /\ w[3] = b
      BY <1>11, <2>9, <2>10 DEF Extends
    <2> QED
      BY <1>12, <1>14, <2>11 DEF w
  <1> QED
    BY <1>7, <1>13, <1>14

\* Once b has been merged into a the merge commit holds b; and unless b held a
\* before, b is the common ancestor of b and the merge commit.
LEMMA MergeCommitSettles ==
  ASSUME NEW dag, IsDag(dag), NEW new \in 1..Len(dag), NEW a, NEW b, a # b,
         dag[new].parents = <<a, b>>
  PROVE  /\ b \in 1..Len(dag) /\ b # new
         /\ FindLCA(dag, new, b) = b
         /\ a \notin Ancestors(dag, b) => FindLCA(dag, b, new) = b
  <1> DEFINE w == Walk(dag, new)
  <1>1. b \in ParentsOf(dag, new)
    <2>1. DOMAIN <<a, b>> = {1, 2} /\ <<a, b>>[2] = b
      OBVIOUS
    <2> QED
      BY <2>1 DEF ParentsOf
  <1>2. b \in 1..Len(dag) /\ b < new
    BY <1>1, ParentTypes
  <1>3. b # new
    BY <1>2
  <1>4. FindLCA(dag, new, b) = b
    <2>1. b \in Ancestors(dag, new)
      BY <1>1, AncestorsContain
    <2> QED
      BY <1>2, <2>1, LCAIsSound
  <1>5. ASSUME a \notin Ancestors(dag, b) PROVE FindLCA(dag, b, new) = b
    <2>1. new \notin Ancestors(dag, b)
      <3>1. \A x \in Ancestors(dag, b) : x <= b
        BY <1>2, AncestorsOlder
      <3>2. ~(new <= b)
        BY <1>2
      <3> QED
        BY <3>1, <3>2
    <2>2. b \in Ancestors(dag, b)
      BY <1>2, AncestorsContain
    <2>3. w[1] = new
      BY WalkStartsAt
    <2>4. \/ 2 \in DOMAIN w /\ w[2] = b
          \/ 2 \in DOMAIN w /\ w[2] = a /\ 3 \in DOMAIN w /\ w[3] = b
      BY WalkFromMerge
    <2>5. \/ /\ FindLCA(dag, b, new) = 0
             /\ \A k \in DOMAIN w : w[k] \notin Ancestors(dag, b)
          \/ \E k \in DOMAIN w :
               /\ FindLCA(dag, b, new) = w[k]
               /\ w[k] \in Ancestors(dag, b)
               /\ \A j \in DOMAIN w : w[j] \in Ancestors(dag, b) => k <= j
      BY <1>2, <1>3, LCAIsFirstHit
    <2>6. DOMAIN w = 1..Len(w) /\ Len(w) \in Nat
      <3>1. w \in Seq(1..Len(dag))
        BY WalkYieldsAncestors
      <3> HIDE DEF w
      <3> QED
        BY <3>1
    <2> HIDE DEF w
    <2>7. PICK k \in DOMAIN w :
               /\ FindLCA(dag, b, new) = w[k]
               /\ w[k] \in Ancestors(dag, b)
               /\ \A j \in DOMAIN w : w[j] \in Ancestors(dag, b) => k <= j
      BY <2>2, <2>4, <2>5
    <2>8. k # 1
      BY <2>1, <2>3, <2>7
    <2>9. CASE w[2] = b /\ 2 \in DOMAIN w
      <3>1. k <= 2
        BY <2>2, <2>7, <2>9
      <3>2. k = 2
        BY <2>6, <2>8, <3>1
      <3> QED
        BY <2>7, <2>9, <3>2
    <2>10. CASE w[2] = a /\ 3 \in DOMAIN w /\ w[3] = b
      <3>1. k <= 3 /\ k # 2
        BY <1>5, <2>2, <2>7, <2>10
      <3>2. k = 3
        BY <2>6, <2>8, <3>1
      <3> QED
        BY <2>7, <2>10, <3>2
    <2> QED
      BY <2>4, <2>9, <2>10
  <1> QED
    BY <1>2, <1>3, <1>4, <1>5

=============================================================================

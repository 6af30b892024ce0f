-------------------------- MODULE RetentionProofs --------------------------
(***************************************************************************)
(* Proofs about Retention, for every set of store paths, all capacities    *)
(* and any number of deployments.                                          *)
(*                                                                         *)
(* The lists of the store are subsequences of subsequences.  What a        *)
(* subsequence is for every list is shown by induction: the library's      *)
(* least-number principle for well-founded relations, which is about sets, *)
(* takes the place of the induction theorems, which are about operators.   *)
(***************************************************************************)
EXTENDS Retention, SequenceTheorems, WellFoundedInduction, FiniteSetTheorems, TLAPS

-----------------------------------------------------------------------------
(* Induction, and what a subsequence is.                                   *)

\* A set of natural numbers that is not empty has a least element.
LEMMA LeastNatural ==
    ASSUME NEW T \in SUBSET Nat, T # {}
    PROVE  \E m \in T : \A n \in T : m <= n
<1> DEFINE R == OpToRel(<, Nat)
<1>1. IsWellFoundedOn(R, Nat)
  BY NatLessThanWellFounded, Zenon
<1>2. PICK m \in T : \A n \in T : <<n, m>> \notin R
  BY <1>1, WFMin, Zenon
<1>3. \A n \in T : <<n, m>> \notin R => m <= n
  BY DEF OpToRel
<1> QED BY <1>2, <1>3, Zenon

\* Induction: a set with 0 and the successors of its elements has all natural numbers.
LEMMA SetInduction ==
    ASSUME NEW T, 0 \in T, \A n \in Nat : n \in T => n + 1 \in T
    PROVE  Nat \subseteq T
<1> SUFFICES ASSUME Nat \ T # {} PROVE FALSE
  OBVIOUS
<1>1. PICK m \in Nat \ T : \A n \in Nat \ T : m <= n
  BY LeastNatural
<1>2. m - 1 \in Nat /\ m - 1 \in T
  BY <1>1
<1> QED BY <1>1, <1>2

\* g is what Subsequence computes for the prefixes of the list up to n.
Unfolds(g, n, list, I) ==
    g = [i \in 0..n |-> IF i = 0 THEN <<>>
                        ELSE IF i \in I THEN Append(g[i - 1], list[i]) ELSE g[i - 1]]

\* There is such a function, and so the recursive definition of Subsequence has a value.
LEMMA SubsequenceUnfolds ==
    ASSUME NEW list, NEW I, Len(list) \in Nat
    PROVE  \E g : Unfolds(g, Len(list), list, I) /\ Subsequence(list, I) = g[Len(list)]
<1> DEFINE T == {n \in Nat : \E g : Unfolds(g, n, list, I)}
<1>1. 0 \in T
  <2>1. Unfolds([i \in 0..0 |-> <<>>], 0, list, I)
    BY DEF Unfolds
  <2> QED BY <2>1
<1>2. ASSUME NEW n \in Nat, n \in T PROVE n + 1 \in T
  <2>1. PICK g : Unfolds(g, n, list, I)
    BY <1>2
  <2> DEFINE h == [i \in 0..(n + 1) |->
                     IF i # n + 1 THEN g[i]
                     ELSE IF i \in I THEN Append(g[n], list[n + 1]) ELSE g[n]]
  <2>2. \A i \in 0..n : h[i] = g[i]
    OBVIOUS
  <2>3. \A i \in 0..(n + 1) : h[i] =
          IF i = 0 THEN <<>> ELSE IF i \in I THEN Append(h[i - 1], list[i]) ELSE h[i - 1]
    <3>1. \A i \in 0..n : g[i] =
            IF i = 0 THEN <<>> ELSE IF i \in I THEN Append(g[i - 1], list[i]) ELSE g[i - 1]
      BY <2>1 DEF Unfolds
    <3>2. h[n + 1] = IF n + 1 \in I THEN Append(h[n], list[n + 1]) ELSE h[n]
      OBVIOUS
    <3> HIDE DEF h
    <3>3. ASSUME NEW i \in 0..n
          PROVE  h[i] = IF i = 0 THEN <<>>
                        ELSE IF i \in I THEN Append(h[i - 1], list[i]) ELSE h[i - 1]
      <4>1. CASE i = 0
        BY <3>1, <2>2, <4>1
      <4>2. CASE i # 0
        <5>1. i - 1 \in 0..n
          BY <4>2
        <5> QED BY <5>1, <3>1, <2>2, <4>2
      <4> QED BY <4>1, <4>2
    <3>4. \A i \in 0..(n + 1) : i \in 0..n \/ (i = n + 1 /\ i # 0 /\ i - 1 = n)
      OBVIOUS
    <3> QED BY <3>2, <3>3, <3>4
  <2>4. h = [i \in 0..(n + 1) |-> h[i]]
    OBVIOUS
  <2>5. Unfolds(h, n + 1, list, I)
    <3> HIDE DEF h
    <3> QED BY <2>3, <2>4 DEF Unfolds
  <2> QED BY <2>5
<1>3. \E g : Unfolds(g, Len(list), list, I)
  BY <1>1, <1>2, SetInduction
<1>4. Subsequence(list, I) = (CHOOSE g : Unfolds(g, Len(list), list, I))[Len(list)]
  BY DEF Subsequence, Unfolds
<1> QED BY <1>3, <1>4

\* f lists, in increasing order, the indices of I up to n, and t the elements there.
Selects(f, t, n, list, I) ==
    /\ f \in [1..Len(t) -> 1..n]
    /\ \A j, k \in 1..Len(t) : j < k => f[j] < f[k]
    /\ \A k \in 1..Len(t) : f[k] \in I /\ t[k] = list[f[k]]
    /\ \A i \in 1..n : i \in I => \E k \in 1..Len(t) : f[k] = i

\* Subsequence has the elements at the indices of I, in their order.
LEMMA SubsequenceSelects ==
    ASSUME NEW D, NEW list \in Seq(D), NEW I
    PROVE  /\ Subsequence(list, I) \in Seq(D)
           /\ \E f : Selects(f, Subsequence(list, I), Len(list), list, I)
<1>0. Len(list) \in Nat /\ \A i \in 1..Len(list) : list[i] \in D
  BY LenProperties, ElementOfSeq
<1>1. PICK g : Unfolds(g, Len(list), list, I) /\ Subsequence(list, I) = g[Len(list)]
  BY <1>0, SubsequenceUnfolds
<1>2. \A i \in 0..Len(list) : g[i] =
        IF i = 0 THEN <<>> ELSE IF i \in I THEN Append(g[i - 1], list[i]) ELSE g[i - 1]
  BY <1>1 DEF Unfolds
<1> DEFINE T == {n \in Nat : n <= Len(list) =>
                    g[n] \in Seq(D) /\ \E f : Selects(f, g[n], n, list, I)}
<1>3. 0 \in T
  <2>1. g[0] = <<>>
    BY <1>0, <1>2
  <2>2. <<>> \in Seq(D) /\ Len(<<>>) = 0
    BY EmptySeq
  <2>3. Selects([i \in 1..0 |-> i], <<>>, 0, list, I)
    BY <2>2 DEF Selects
  <2> QED BY <2>1, <2>2, <2>3
<1>4. ASSUME NEW n \in Nat, n \in T PROVE n + 1 \in T
  <2> SUFFICES ASSUME n + 1 <= Len(list)
               PROVE  g[n + 1] \in Seq(D) /\ \E f : Selects(f, g[n + 1], n + 1, list, I)
    OBVIOUS
  <2>1. PICK f : g[n] \in Seq(D) /\ Selects(f, g[n], n, list, I)
    BY <1>0, <1>4
  <2>2. list[n + 1] \in D /\ n + 1 \in 0..Len(list) /\ n + 1 # 0 /\ (n + 1) - 1 = n
    BY <1>0
  <2>3. CASE n + 1 \notin I
    <3>1. g[n + 1] = g[n]
      BY <1>2, <2>2, <2>3
    <3>2. Selects(f, g[n], n + 1, list, I)
      BY <2>1, <2>3 DEF Selects
    <3> QED BY <2>1, <3>1, <3>2
  <2>4. CASE n + 1 \in I
    <3> DEFINE t == g[n]
               u == Append(t, list[n + 1])
               m == Len(t)
    <3>1. g[n + 1] = u
      BY <1>2, <2>2, <2>4
    <3>2. /\ u \in Seq(D) /\ Len(u) = m + 1 /\ m \in Nat
          /\ \A k \in 1..m : u[k] = t[k]
          /\ u[m + 1] = list[n + 1]
      BY <2>1, <2>2, AppendProperties, LenProperties
    <3>10. \A k \in 1..m : f[k] \in 1..n
      BY <2>1 DEF Selects
    <3>4. m + 1 \in 1..(m + 1) /\ \A k \in 1..(m + 1) : k \in 1..m \/ k = m + 1
      BY <3>2
    <3>11. \A k \in 1..m : k \in 1..(m + 1) /\ k # m + 1
      BY <3>2
    <3> HIDE DEF u, t, m
    <3> DEFINE h == [k \in 1..(m + 1) |-> IF k = m + 1 THEN n + 1 ELSE f[k]]
    <3>3. h[m + 1] = n + 1 /\ \A k \in 1..m : h[k] = f[k] /\ f[k] \in 1..n
      BY <3>4, <3>10, <3>11
    <3>12. \A k \in 1..(m + 1) : h[k] \in 1..(n + 1)
      <4>1. n + 1 \in 1..(n + 1) /\ 1..n \subseteq 1..(n + 1)
        OBVIOUS
      <4> HIDE DEF h
      <4> QED BY <3>3, <3>4, <4>1
    <3>5. h \in [1..Len(u) -> 1..(n + 1)]
      <4>1. h \in [1..(m + 1) -> 1..(n + 1)]
        BY <3>12
      <4> QED BY <4>1, <3>2
    <3> HIDE DEF h
    <3> USE DEF t, m
    <3>6. \A j, k \in 1..Len(u) : j < k => h[j] < h[k]
      BY <2>1, <3>2, <3>3, <3>4 DEF Selects
    <3>7. \A k \in 1..Len(u) : h[k] \in I /\ u[k] = list[h[k]]
      BY <2>1, <2>4, <3>2, <3>3, <3>4 DEF Selects
    <3>8. \A i \in 1..(n + 1) : i \in I => \E k \in 1..Len(u) : h[k] = i
      <4>1. ASSUME NEW i \in 1..(n + 1), i \in I PROVE \E k \in 1..Len(u) : h[k] = i
        <5>1. CASE i = n + 1
          BY <3>2, <3>3, <5>1
        <5>2. CASE i \in 1..n
          <6>1. PICK k \in 1..m : f[k] = i
            BY <2>1, <4>1, <5>2 DEF Selects
          <6>2. k \in 1..Len(u) /\ h[k] = i
            BY <3>2, <3>3, <3>11, <6>1
          <6> QED BY <6>2
        <5> QED BY <5>1, <5>2
      <4> QED BY <4>1
    <3>9. Selects(h, u, n + 1, list, I)
      BY <3>5, <3>6, <3>7, <3>8 DEF Selects
    <3> QED BY <3>1, <3>2, <3>9
  <2> QED BY <2>3, <2>4
<1>5. Len(list) \in T
  <2> HIDE DEF T
  <2> QED BY <1>0, <1>3, <1>4, SetInduction
<1> QED BY <1>0, <1>1, <1>5
-----------------------------------------------------------------------------
(* Lists.                                                                  *)

\* The elements of a list.
LEMMA InList ==
    ASSUME NEW D, NEW s \in Seq(D)
    PROVE  /\ \A x : x \in ToSet(s) <=> \E i \in 1..Len(s) : s[i] = x
           /\ ToSet(s) \subseteq D /\ Len(s) \in Nat
           /\ ToSet(s) = {} <=> Len(s) = 0
<1>1. DOMAIN s = 1..Len(s) /\ Len(s) \in Nat /\ \A i \in 1..Len(s) : s[i] \in D
  BY LenProperties, ElementOfSeq
<1>2. \A x : x \in ToSet(s) <=> \E i \in 1..Len(s) : s[i] = x
  BY <1>1 DEF ToSet
<1>3. Len(s) # 0 => s[1] \in ToSet(s)
  BY <1>1, <1>2
<1> QED BY <1>1, <1>2, <1>3

\* The elements of two lists.
LEMMA InConcat ==
    ASSUME NEW D, NEW s \in Seq(D), NEW t \in Seq(D)
    PROVE  s \o t \in Seq(D) /\ ToSet(s \o t) = ToSet(s) \union ToSet(t)
<1>1. /\ s \o t \in Seq(D) /\ Len(s \o t) = Len(s) + Len(t)
      /\ \A i \in 1..(Len(s) + Len(t)) :
            (s \o t)[i] = IF i <= Len(s) THEN s[i] ELSE t[i - Len(s)]
  BY ConcatProperties
<1>2. Len(s) \in Nat /\ Len(t) \in Nat
  BY LenProperties
<1>3. \A x \in ToSet(s \o t) : x \in ToSet(s) \union ToSet(t)
  <2> TAKE x \in ToSet(s \o t)
  <2>1. PICK i \in 1..(Len(s) + Len(t)) : (s \o t)[i] = x
    BY <1>1, InList
  <2>2. CASE i <= Len(s)
    <3>1. i \in 1..Len(s) /\ s[i] = x
      BY <1>1, <1>2, <2>1, <2>2
    <3> QED BY <3>1, InList
  <2>3. CASE i > Len(s)
    <3>1. i - Len(s) \in 1..Len(t) /\ t[i - Len(s)] = x
      BY <1>1, <1>2, <2>1, <2>3
    <3> QED BY <3>1, InList
  <2> QED BY <1>2, <2>2, <2>3
<1>4. \A x \in ToSet(s) : x \in ToSet(s \o t)
  <2> TAKE x \in ToSet(s)
  <2>1. PICK i \in 1..Len(s) : s[i] = x
    BY InList
  <2>2. i \in 1..(Len(s) + Len(t)) /\ (s \o t)[i] = x
    BY <1>1, <1>2, <2>1
  <2> QED BY <1>1, <2>2, InList
<1>5. \A x \in ToSet(t) : x \in ToSet(s \o t)
  <2> TAKE x \in ToSet(t)
  <2>1. PICK i \in 1..Len(t) : t[i] = x
    BY InList
  <2>2. Len(s) + i \in 1..(Len(s) + Len(t)) /\ (s \o t)[Len(s) + i] = t[(Len(s) + i) - Len(s)]
    BY <1>1, <1>2
  <2>3. (Len(s) + i) - Len(s) = i
    BY <1>2
  <2>4. \E k \in 1..Len(s \o t) : (s \o t)[k] = x
    BY <1>1, <2>1, <2>2, <2>3
  <2> QED BY <1>1, <2>4, InList
<1> QED BY <1>1, <1>3, <1>4, <1>5

\* A list of one element.
LEMMA InSingle ==
    ASSUME NEW D, NEW d \in D
    PROVE  <<d>> \in Seq(D) /\ ToSet(<<d>>) = {d} /\ Len(<<d>>) = 1 /\ <<d>>[1] = d
<1>1. <<d>> \in Seq(D) /\ Len(<<d>>) = 1 /\ <<d>>[1] = d
  OBVIOUS
<1> DEFINE s == <<d>>
<1> HIDE DEF s
<1>2. s \in Seq(D) /\ Len(s) = 1 /\ s[1] = d
  BY <1>1 DEF s
<1>3. \A x : x \in ToSet(s) <=> \E i \in 1..1 : s[i] = x
  BY <1>2, InList
<1>4. \A x : x \in ToSet(s) <=> x = d
  BY <1>2, <1>3
<1>5. ToSet(s) = {d}
  BY <1>4
<1> QED BY <1>1, <1>5 DEF s

\* The elements of a subsequence.
LEMMA InSubsequence ==
    ASSUME NEW D, NEW list \in Seq(D), NEW I
    PROVE  /\ Subsequence(list, I) \in Seq(D)
           /\ \A x : x \in ToSet(Subsequence(list, I)) <=>
                     \E i \in 1..Len(list) : i \in I /\ list[i] = x
<1> DEFINE t == Subsequence(list, I)
<1>1. PICK f : t \in Seq(D) /\ Selects(f, t, Len(list), list, I)
  BY SubsequenceSelects
<1> HIDE DEF t
<1>2. ASSUME NEW x \in ToSet(t) PROVE \E i \in 1..Len(list) : i \in I /\ list[i] = x
  <2>1. PICK k \in 1..Len(t) : t[k] = x
    BY <1>1, InList
  <2> QED BY <1>1, <2>1 DEF Selects
<1>3. ASSUME NEW i \in 1..Len(list), i \in I PROVE list[i] \in ToSet(t)
  <2>1. PICK k \in 1..Len(t) : f[k] = i
    BY <1>1, <1>3 DEF Selects
  <2>2. t[k] = list[i]
    BY <1>1, <2>1 DEF Selects
  <2> QED BY <1>1, <2>2, InList
<1>4. \A x : x \in ToSet(t) <=> \E i \in 1..Len(list) : i \in I /\ list[i] = x
  BY <1>2, <1>3
<1> QED BY <1>1, <1>4 DEF t

\* The first element of a subsequence with the first index is the first of the list.
LEMMA HeadOfSubsequence ==
    ASSUME NEW D, NEW list \in Seq(D), NEW I, 1 \in I, Len(list) # 0
    PROVE  Len(Subsequence(list, I)) # 0 /\ Subsequence(list, I)[1] = list[1]
<1> DEFINE t == Subsequence(list, I)
<1>1. PICK f : t \in Seq(D) /\ Selects(f, t, Len(list), list, I)
  BY SubsequenceSelects
<1> HIDE DEF t
<1>2. Len(list) \in Nat /\ Len(t) \in Nat
  BY <1>1, LenProperties
<1>3. PICK k \in 1..Len(t) : f[k] = 1
  BY <1>1, <1>2 DEF Selects
<1>4. 1 \in 1..Len(t) /\ f[1] \in 1..Len(list) /\ f[k] \in 1..Len(list)
  BY <1>1, <1>2, <1>3 DEF Selects
<1>5. k = 1
  <2>1. 1 < k => f[1] < f[k]
    BY <1>1, <1>4 DEF Selects
  <2> QED BY <1>2, <1>3, <1>4, <2>1
<1>6. Len(t) # 0 /\ t[1] = list[1]
  BY <1>1, <1>2, <1>3, <1>4, <1>5 DEF Selects
<1> QED BY <1>6 DEF t

\* The least index of a set.
LEMMA MinIs ==
    ASSUME NEW I \in SUBSET Nat, I # {}
    PROVE  Min(I) \in I /\ \A i \in I : Min(I) <= i
<1>1. \E m \in I : \A i \in I : m <= i
  BY LeastNatural
<1> QED BY <1>1 DEF Min

-----------------------------------------------------------------------------
(* What retention keeps.                                                   *)

\* A prefix.
LEMMA InTake ==
    ASSUME NEW D, NEW list \in Seq(D), NEW n \in Nat
    PROVE  /\ Take(list, n) \in Seq(D)
           /\ \A x : x \in ToSet(Take(list, n)) <=> \E i \in 1..Len(list) : i <= n /\ list[i] = x
           /\ ToSet(Take(list, n)) \subseteq ToSet(list)
<1> DEFINE m == IF n < Len(list) THEN n ELSE Len(list)
           t == SubSeq(list, 1, m)
<1>1. Len(list) \in Nat /\ \A i \in 1..Len(list) : list[i] \in D
  BY LenProperties, ElementOfSeq
<1>2. m \in Nat /\ m <= n /\ m <= Len(list) /\ \A i \in 1..Len(list) : i <= n => i \in 1..m
  BY <1>1
<1> HIDE DEF m
<1>3. \A i \in 1..m : list[i] \in D
  BY <1>1, <1>2
<1>4. t \in Seq(D) /\ Len(t) = m /\ \A i \in 1..m : t[i] = list[i]
  <2>1. 1 \in Int /\ m \in Int /\ (m - 1) + 1 = m /\ \A i \in 1..m : (1 + i) - 1 = i
    BY <1>2
  <2>2. /\ t \in Seq(D)
        /\ Len(t) = IF 1 <= m THEN (m - 1) + 1 ELSE 0
        /\ \A i \in 1..((m - 1) + 1) : t[i] = list[(1 + i) - 1]
    BY <1>3, <2>1, SubSeqProperties
  <2> QED BY <1>2, <2>1, <2>2
<1> HIDE DEF t
<1>5. \A x : x \in ToSet(t) <=> \E i \in 1..m : list[i] = x
  BY <1>4, InList
<1>6. \A i \in 1..m : i \in 1..Len(list) /\ i <= n
  BY <1>1, <1>2
<1>7. Take(list, n) = t
  BY DEF Take, t, m
<1>8. ToSet(t) \subseteq ToSet(list)
  BY <1>5, <1>6, InList
<1> QED BY <1>2, <1>4, <1>5, <1>6, <1>7, <1>8

\* The distinct elements of a list are its elements.
LEMMA InDistinct ==
    ASSUME NEW D, NEW list \in Seq(D)
    PROVE  /\ Distinct(list) \in Seq(D) /\ ToSet(Distinct(list)) = ToSet(list)
           /\ Len(list) # 0 => Len(Distinct(list)) # 0 /\ Distinct(list)[1] = list[1]
<1> DEFINE I == {i \in DOMAIN list : \A j \in 1..(i - 1) : list[j] # list[i]}
<1>1. DOMAIN list = 1..Len(list) /\ Len(list) \in Nat /\ Distinct(list) = Subsequence(list, I)
  BY LenProperties DEF Distinct
<1>2. Distinct(list) \in Seq(D) /\ \A x \in ToSet(Distinct(list)) : x \in ToSet(list)
  BY <1>1, InSubsequence, InList
<1>3. ASSUME NEW x \in ToSet(list) PROVE x \in ToSet(Distinct(list))
  <2> DEFINE J == {i \in 1..Len(list) : list[i] = x}
  <2>1. J # {} /\ J \in SUBSET Nat
    BY <1>1, InList
  <2>2. PICK m \in J : \A i \in J : m <= i
    BY <2>1, LeastNatural
  <2>3. m \in 1..Len(list) /\ list[m] = x /\ \A j \in 1..(m - 1) : j \in 1..Len(list) /\ ~(m <= j)
    BY <1>1, <2>2
  <2>4. m \in I
    BY <1>1, <2>2, <2>3
  <2> QED BY <1>1, <2>3, <2>4, InSubsequence
<1>4. Len(list) # 0 => 1 \in I
  BY <1>1
<1> HIDE DEF I
<1>5. Len(list) # 0 => Len(Distinct(list)) # 0 /\ Distinct(list)[1] = list[1]
  BY <1>1, <1>4, HeadOfSubsequence
<1> QED BY <1>2, <1>3, <1>5

\* A dummy is a deployment of its system, for the next boot too.
LEMMA DummyType ==
    ASSUME NEW p \in OutPaths, NEW op \in {"boot", "switch"}
    PROVE  /\ Dummy(p, op) \in Deployment
           /\ IsBooted(Dummy(p, op), p) /\ IsCurrent(Dummy(p, op), p)
           /\ Dummy(p, op).at = 0 /\ Dummy(p, op).outPath = p
BY RetentionAssumption DEF Dummy, Deployment, IsBooted, IsCurrent, isBootEntry, Done

\* The completed list is the list, with dummies for the systems that it lacks.
LEMMA CompletedIs ==
    ASSUME NEW list \in Seq(Deployment), NEW boot \in OutPaths, NEW cur \in OutPaths
    PROVE  LET all == Completed(list, boot, cur)
           IN  /\ all \in Seq(Deployment) /\ ToSet(list) \subseteq ToSet(all)
               /\ ToSet(all) \subseteq
                    ToSet(list) \union {Dummy(boot, "boot"), Dummy(cur, "switch")}
               /\ \E d \in ToSet(all) : IsBooted(d, boot)
               /\ \E d \in ToSet(all) : IsCurrent(d, cur)
               /\ Len(list) # 0 => Len(all) # 0 /\ all[1] = list[1]
<1> DEFINE b == Dummy(boot, "boot")
           c == Dummy(cur, "switch")
<1>1. b \in Deployment /\ IsBooted(b, boot) /\ c \in Deployment /\ IsCurrent(c, cur)
  BY DummyType
<1> HIDE DEF b, c
<1>2. ASSUME NEW s \in Seq(Deployment), NEW e \in Deployment
      PROVE  /\ Append(s, e) \in Seq(Deployment) /\ ToSet(Append(s, e)) = ToSet(s) \union {e}
             /\ Len(s) # 0 => Len(Append(s, e)) # 0 /\ Append(s, e)[1] = s[1]
  <2> DEFINE t == <<e>>
  <2>1. Append(s, e) = s \o t /\ t \in Seq(Deployment) /\ ToSet(t) = {e}
    BY AppendIsConcat, InSingle
  <2> HIDE DEF t
  <2>2. Append(s, e) \in Seq(Deployment) /\ ToSet(Append(s, e)) = ToSet(s) \union {e}
    BY <2>1, InConcat
  <2>3. /\ Len(Append(s, e)) = Len(s) + 1 /\ Len(s) \in Nat
        /\ \A i \in 1..Len(s) : Append(s, e)[i] = s[i]
    BY AppendProperties, LenProperties
  <2> QED BY <2>2, <2>3
<1> DEFINE l == IF \E d \in ToSet(list) : IsBooted(d, boot) THEN list ELSE Append(list, b)
           all == IF \E d \in ToSet(l) : IsCurrent(d, cur) THEN l ELSE Append(l, c)
<1>3. /\ l \in Seq(Deployment) /\ ToSet(list) \subseteq ToSet(l)
      /\ ToSet(l) \subseteq ToSet(list) \union {b}
      /\ \E d \in ToSet(l) : IsBooted(d, boot)
      /\ Len(list) # 0 => Len(l) # 0 /\ l[1] = list[1]
  BY <1>1, <1>2
<1> HIDE DEF l
<1>4. /\ all \in Seq(Deployment) /\ ToSet(l) \subseteq ToSet(all)
      /\ ToSet(all) \subseteq ToSet(l) \union {c}
      /\ \E d \in ToSet(all) : IsCurrent(d, cur)
      /\ Len(l) # 0 => Len(all) # 0 /\ all[1] = l[1]
  BY <1>1, <1>2, <1>3
<1>5. Completed(list, boot, cur) = all
  BY DEF Completed, Ensure, l, b, c
<1> QED BY <1>3, <1>4, <1>5 DEF b, c

\* The first element that passes a test.
LEMMA FirstBooted ==
    ASSUME NEW all \in Seq(Deployment), NEW boot, \E d \in ToSet(all) : IsBooted(d, boot)
    PROVE  LET d == First(all, LAMBDA e : IsBooted(e, boot))
           IN  d \in ToSet(all) /\ IsBooted(d, boot)
<1> DEFINE I == {i \in 1..Len(all) : IsBooted(all[i], boot)}
<1>1. I # {} /\ I \in SUBSET Nat
  BY InList
<1>2. Min(I) \in I
  BY <1>1, MinIs
<1>3. First(all, LAMBDA e : IsBooted(e, boot)) = all[Min(I)]
  BY <1>1 DEF First, SelectInSeq
<1> QED BY <1>2, <1>3, InList

\* The same, for the test of the second step.
LEMMA FirstCurrent ==
    ASSUME NEW all \in Seq(Deployment), NEW cur, \E d \in ToSet(all) : IsCurrent(d, cur)
    PROVE  LET d == First(all, LAMBDA e : IsCurrent(e, cur))
           IN  d \in ToSet(all) /\ IsCurrent(d, cur)
<1> DEFINE I == {i \in 1..Len(all) : IsCurrent(all[i], cur)}
<1>1. I # {} /\ I \in SUBSET Nat
  BY InList
<1>2. Min(I) \in I
  BY <1>1, MinIs
<1>3. First(all, LAMBDA e : IsCurrent(e, cur)) = all[Min(I)]
  BY <1>1 DEF First, SelectInSeq
<1> QED BY <1>2, <1>3, InList

\* What the five steps keep is in the list: a deployment of the booted and one of the
\* current system, the boot entries, the successful ones and the most recent ones.
LEMMA KeptIs ==
    ASSUME NEW all \in Seq(Deployment), NEW boot \in OutPaths, NEW cur \in OutPaths,
           \E d \in ToSet(all) : IsBooted(d, boot), \E d \in ToSet(all) : IsCurrent(d, cur)
    PROVE  LET kept == Kept(all, boot, cur)
           IN  /\ kept \in Seq(Deployment) /\ ToSet(kept) \subseteq ToSet(all)
               /\ \E d \in ToSet(kept) : IsBooted(d, boot)
               /\ \E d \in ToSet(kept) : IsCurrent(d, cur)
               /\ ToSet(all) \intersect deploymentsBootEntry(all) \subseteq ToSet(kept)
               /\ ToSet(deploymentsSuccessful(all)) \subseteq ToSet(kept)
               /\ ToSet(deploymentsAny(all)) \subseteq ToSet(kept)
<1> DEFINE b == First(all, LAMBDA e : IsBooted(e, boot))
           c == First(all, LAMBDA e : IsCurrent(e, cur))
           s1 == <<b, c>>
           s2 == Select(all, LAMBDA d : d \in deploymentsBootEntry(all))
           s3 == deploymentsSuccessful(all)
           s4 == deploymentsAny(all)
<1>0. ToSet(all) \subseteq Deployment /\ DOMAIN all = 1..Len(all)
  BY InList, LenProperties
<1>1. b \in ToSet(all) /\ IsBooted(b, boot)
  BY FirstBooted
<1>2. c \in ToSet(all) /\ IsCurrent(c, cur)
  BY FirstCurrent
<1> HIDE DEF b, c
<1>3. s1 \in Seq(Deployment) /\ ToSet(s1) = {b, c}
  <2>1. b \in Deployment /\ c \in Deployment
    BY <1>0, <1>1, <1>2
  <2>2. s1 \in Seq(Deployment) /\ Len(s1) = 2 /\ s1[1] = b /\ s1[2] = c
    BY <2>1
  <2> HIDE DEF s1
  <2>3. \A x : x \in ToSet(s1) <=> \E i \in 1..2 : s1[i] = x
    BY <2>2, InList
  <2>4. \A i : i \in 1..2 <=> i = 1 \/ i = 2
    OBVIOUS
  <2>5. \A x : x \in ToSet(s1) <=> x = b \/ x = c
    BY <2>2, <2>3, <2>4
  <2> QED BY <2>2, <2>5
<1>4. /\ s2 \in Seq(Deployment)
      /\ \A x : x \in ToSet(s2) <=> x \in ToSet(all) /\ x \in deploymentsBootEntry(all)
  <2> DEFINE I == {i \in DOMAIN all : all[i] \in deploymentsBootEntry(all)}
  <2>1. s2 = Subsequence(all, I)
    BY DEF Select
  <2>2. \A i \in 1..Len(all) : i \in I <=> all[i] \in deploymentsBootEntry(all)
    BY <1>0
  <2> HIDE DEF I, s2
  <2> QED BY <2>1, <2>2, InSubsequence, InList
<1>5. s3 \in Seq(Deployment) /\ ToSet(s3) \subseteq ToSet(all)
  <2> DEFINE I == {i \in DOMAIN all : Done(all[i])}
             l == Subsequence(all, I)
  <2>1. l \in Seq(Deployment) /\ ToSet(l) \subseteq ToSet(all)
    BY InSubsequence, InList
  <2>2. s3 = Take(l, SuccessfulCapacity) /\ SuccessfulCapacity \in Nat
    BY RetentionAssumption DEF deploymentsSuccessful, Select
  <2> HIDE DEF l, s3
  <2>3. s3 \in Seq(Deployment) /\ ToSet(s3) \subseteq ToSet(l)
    BY <2>1, <2>2, InTake
  <2> QED BY <2>1, <2>3
<1>6. s4 \in Seq(Deployment) /\ ToSet(s4) \subseteq ToSet(all)
  BY RetentionAssumption, InTake, InList DEF deploymentsAny
<1> HIDE DEF s1, s2, s3, s4
<1> DEFINE s5 == s1 \o s2
           s6 == s5 \o s3
<1>7. Kept(all, boot, cur) = s6 \o s4
  BY DEF Kept, s1, s2, s3, s4, b, c
<1>8. s5 \in Seq(Deployment) /\ ToSet(s5) = ToSet(s1) \union ToSet(s2)
  BY <1>3, <1>4, InConcat
<1> HIDE DEF s5
<1>9. s6 \in Seq(Deployment) /\ ToSet(s6) = ToSet(s5) \union ToSet(s3)
  BY <1>5, <1>8, InConcat
<1> HIDE DEF s6
<1>10. /\ Kept(all, boot, cur) \in Seq(Deployment)
       /\ ToSet(Kept(all, boot, cur)) = ToSet(s6) \union ToSet(s4)
  BY <1>6, <1>7, <1>9, InConcat
<1>11. ToSet(Kept(all, boot, cur)) = {b, c} \union ToSet(s2) \union ToSet(s3) \union ToSet(s4)
  BY <1>3, <1>8, <1>9, <1>10
<1>12. /\ ToSet(s2) \subseteq ToSet(all)
       /\ ToSet(all) \intersect deploymentsBootEntry(all) \subseteq ToSet(s2)
  BY <1>4
<1> QED BY <1>1, <1>2, <1>5, <1>6, <1>10, <1>11, <1>12 DEF s3, s4

\* The result has what the five steps keep; its first element is that of the list, if
\* that has a date.
LEMMA RetentionIs ==
    ASSUME NEW list \in Seq(Deployment), NEW boot \in OutPaths, NEW cur \in OutPaths
    PROVE  LET all == Completed(list, boot, cur)
               out == retention(list, boot, cur)
           IN  /\ out \in Seq(Deployment) /\ ToSet(out) = ToSet(Kept(all, boot, cur))
               /\ Len(list) # 0 /\ list[1].at > 0 => Len(out) # 0 /\ out[1] = list[1]
<1> DEFINE all == Completed(list, boot, cur)
           kept == Kept(all, boot, cur)
           da == Distinct(all)
           dk == Distinct(kept)
           I == {i \in DOMAIN da : da[i].at > 0 /\ Contains(kept, da[i])}
           J == {i \in DOMAIN dk : dk[i].at = 0}
           s == Subsequence(da, I)
           t == Subsequence(dk, J)
<1>1. retention(list, boot, cur) = s \o t
  BY DEF retention, Select
<1>2. /\ all \in Seq(Deployment) /\ \E d \in ToSet(all) : IsBooted(d, boot)
      /\ \E d \in ToSet(all) : IsCurrent(d, cur)
      /\ Len(list) # 0 => Len(all) # 0 /\ all[1] = list[1]
  BY CompletedIs
<1> HIDE DEF all
<1>3. /\ kept \in Seq(Deployment) /\ ToSet(kept) \subseteq ToSet(all)
      /\ ToSet(deploymentsAny(all)) \subseteq ToSet(kept)
  BY <1>2, KeptIs
<1> HIDE DEF kept
<1>4. /\ da \in Seq(Deployment) /\ ToSet(da) = ToSet(all)
      /\ Len(all) # 0 => Len(da) # 0 /\ da[1] = all[1]
      /\ dk \in Seq(Deployment) /\ ToSet(dk) = ToSet(kept)
  BY <1>2, <1>3, InDistinct
<1> HIDE DEF da, dk
<1>5. \A d : Contains(kept, d) <=> d \in ToSet(kept)
  BY <1>3, InList DEF Contains
<1>6. DOMAIN da = 1..Len(da) /\ DOMAIN dk = 1..Len(dk) /\ Len(da) \in Nat /\ Len(all) \in Nat
  BY <1>2, <1>4, LenProperties
<1>7. /\ s \in Seq(Deployment)
      /\ \A d : d \in ToSet(s) <=> d \in ToSet(all) /\ d.at > 0 /\ d \in ToSet(kept)
  <2>1. \A i \in 1..Len(da) : i \in I <=> da[i].at > 0 /\ da[i] \in ToSet(kept)
    BY <1>5, <1>6
  <2> HIDE DEF I
  <2>2. \A d : d \in ToSet(s) <=> \E i \in 1..Len(da) : i \in I /\ da[i] = d
    BY <1>4, InSubsequence
  <2>3. \A d : d \in ToSet(all) <=> \E i \in 1..Len(da) : da[i] = d
    BY <1>4, InList
  <2>4. s \in Seq(Deployment)
    BY <1>4, InSubsequence
  <2> HIDE DEF s
  <2> QED BY <2>1, <2>2, <2>3, <2>4
<1>8. t \in Seq(Deployment) /\ \A d : d \in ToSet(t) <=> d \in ToSet(kept) /\ d.at = 0
  <2>1. \A i \in 1..Len(dk) : i \in J <=> dk[i].at = 0
    BY <1>6
  <2> HIDE DEF J
  <2>2. \A d : d \in ToSet(t) <=> \E i \in 1..Len(dk) : i \in J /\ dk[i] = d
    BY <1>4, InSubsequence
  <2>3. \A d : d \in ToSet(kept) <=> \E i \in 1..Len(dk) : dk[i] = d
    BY <1>4, InList
  <2>4. t \in Seq(Deployment)
    BY <1>4, InSubsequence
  <2> HIDE DEF t
  <2> QED BY <2>1, <2>2, <2>3, <2>4
<1>9. \A d \in ToSet(kept) : d.at > 0 \/ d.at = 0
  <2>1. ToSet(kept) \subseteq Deployment
    BY <1>3, InList
  <2> QED BY <2>1, RetentionAssumption DEF Deployment
<1> HIDE DEF s, t
<1>10. s \o t \in Seq(Deployment) /\ ToSet(s \o t) = ToSet(s) \union ToSet(t)
  BY <1>7, <1>8, InConcat
<1>11. ToSet(s \o t) = ToSet(kept)
  BY <1>3, <1>7, <1>8, <1>9, <1>10
<1>12. ASSUME Len(list) # 0, list[1].at > 0 PROVE Len(s \o t) # 0 /\ (s \o t)[1] = list[1]
  <2>1. Len(da) # 0 /\ da[1] = list[1] /\ all[1] = list[1] /\ Len(all) # 0
    BY <1>2, <1>4, <1>12
  <2>2. all[1] \in ToSet(deploymentsAny(all))
    <3>1. AnyCapacity \in Nat /\ 1 <= AnyCapacity
      BY RetentionAssumption
    <3>2. 1 \in 1..Len(all)
      BY <1>6, <2>1
    <3> QED BY <1>2, <3>1, <3>2, InTake DEF deploymentsAny
  <2>3. 1 \in I
    BY <1>3, <1>5, <1>6, <1>12, <2>1, <2>2
  <2> HIDE DEF I
  <2>4. Len(s) # 0 /\ s[1] = list[1]
    BY <1>4, <2>1, <2>3, HeadOfSubsequence DEF s
  <2>5. Len(s) \in Nat /\ Len(t) \in Nat
    BY <1>7, <1>8, LenProperties
  <2>6. Len(s \o t) = Len(s) + Len(t) /\ \A i \in 1..(Len(s) + Len(t)) :
            (s \o t)[i] = IF i <= Len(s) THEN s[i] ELSE t[i - Len(s)]
    BY <1>7, <1>8, ConcatProperties
  <2> QED BY <2>4, <2>5, <2>6
<1> QED BY <1>1, <1>10, <1>11, <1>12 DEF all, kept, s, t

\* A deployment that is at least as recent as all others is inserted in front.
LEMMA InsertIs ==
    ASSUME NEW list \in Seq(Deployment), NEW d \in Deployment,
           \A e \in ToSet(list) : e.at >= d.at => e = d
    PROVE  /\ Insert(list, d) \in Seq(Deployment)
           /\ ToSet(Insert(list, d)) = ToSet(list) \union {d}
           /\ Len(Insert(list, d)) # 0 /\ Insert(list, d)[1] = d
<1> DEFINE I == {i \in DOMAIN list : list[i].at >= d.at}
           J == {i \in DOMAIN list : list[i].at < d.at}
           s == Subsequence(list, I)
           m == <<d>>
           t == Subsequence(list, J)
           u == s \o m
<1>1. Insert(list, d) = u \o t
  BY DEF Insert, Select
<1>2. DOMAIN list = 1..Len(list) /\ \A i \in 1..Len(list) : list[i] \in Deployment
  BY LenProperties, ElementOfSeq
<1>3. \A i \in 1..Len(list) : (i \in I \/ i \in J) /\ (i \in I => list[i] = d)
  <2>1. \A e, f \in Deployment : e.at >= f.at \/ e.at < f.at
    BY RetentionAssumption DEF Deployment
  <2> QED BY <1>2, <2>1, InList
<1> HIDE DEF I, J
<1>4. s \in Seq(Deployment) /\ \A x \in ToSet(s) : x = d
  BY <1>3, InSubsequence
<1>5. t \in Seq(Deployment) /\ ToSet(t) \subseteq ToSet(list)
  BY InSubsequence, InList
<1>6. \A x \in ToSet(list) : x = d \/ x \in ToSet(t)
  BY <1>3, InSubsequence, InList
<1>7. m \in Seq(Deployment) /\ ToSet(m) = {d} /\ Len(m) = 1 /\ m[1] = d
  BY InSingle
<1> HIDE DEF s, t, m
<1>8. u \in Seq(Deployment) /\ ToSet(u) = {d} /\ Len(u) \in Nat /\ Len(u) # 0
  <2>1. u \in Seq(Deployment) /\ ToSet(u) = ToSet(s) \union ToSet(m)
    BY <1>4, <1>7, InConcat
  <2>2. ToSet(u) = {d}
    BY <1>4, <1>7, <2>1
  <2> HIDE DEF u
  <2> QED BY <2>1, <2>2, InList
<1> HIDE DEF u
<1>9. u[1] = d
  <2>1. 1 \in 1..Len(u)
    BY <1>8
  <2>2. u[1] \in ToSet(u)
    BY <1>8, <2>1, InList
  <2> QED BY <1>8, <2>2
<1>10. u \o t \in Seq(Deployment) /\ ToSet(u \o t) = ToSet(u) \union ToSet(t)
  BY <1>5, <1>8, InConcat
<1>11. /\ Len(u \o t) = Len(u) + Len(t) /\ Len(t) \in Nat
       /\ \A i \in 1..(Len(u) + Len(t)) : (u \o t)[i] = IF i <= Len(u) THEN u[i] ELSE t[i - Len(u)]
  BY <1>5, <1>8, ConcatProperties, LenProperties
<1>12. Len(u \o t) # 0 /\ (u \o t)[1] = d
  BY <1>8, <1>9, <1>11
<1>13. ToSet(u \o t) = ToSet(list) \union {d}
  BY <1>5, <1>6, <1>8, <1>10
<1> QED BY <1>1, <1>10, <1>12, <1>13

\* The dummies that retention and Load may add.
Dummies(boot, cur) == {Dummy(boot, "boot"), Dummy(cur, "switch")}

\* A list from which the store can be started.
Complete(list, boot, cur) ==
    /\ list \in Seq(Deployment) /\ Len(list) # 0
    /\ \E d \in ToSet(list) : IsBooted(d, boot)
    /\ \E d \in ToSet(list) : IsCurrent(d, cur)

\* The result of retention is complete and has nothing but dummies that is new.
LEMMA RetentionCompletes ==
    ASSUME NEW list \in Seq(Deployment), NEW boot \in OutPaths, NEW cur \in OutPaths
    PROVE  /\ Complete(retention(list, boot, cur), boot, cur)
           /\ ToSet(retention(list, boot, cur)) \subseteq ToSet(list) \union Dummies(boot, cur)
<1> DEFINE all == Completed(list, boot, cur)
           kept == Kept(all, boot, cur)
           out == retention(list, boot, cur)
<1>1. /\ all \in Seq(Deployment) /\ \E d \in ToSet(all) : IsBooted(d, boot)
      /\ \E d \in ToSet(all) : IsCurrent(d, cur)
      /\ ToSet(all) \subseteq ToSet(list) \union Dummies(boot, cur)
  BY CompletedIs DEF Dummies
<1>2. out \in Seq(Deployment) /\ ToSet(out) = ToSet(kept)
  BY RetentionIs
<1> HIDE DEF all, out
<1>3. /\ kept \in Seq(Deployment) /\ ToSet(kept) \subseteq ToSet(all)
      /\ \E d \in ToSet(kept) : IsBooted(d, boot)
      /\ \E d \in ToSet(kept) : IsCurrent(d, cur)
  BY <1>1, KeptIs
<1> HIDE DEF kept
<1>4. Len(out) # 0
  BY <1>2, <1>3, InList
<1> QED BY <1>1, <1>2, <1>3, <1>4 DEF Complete, out

\* The list after the most recent deployment was created or updated begins with it.
LEMMA UpdatedIs ==
    ASSUME NEW list \in Seq(Deployment), NEW d \in Deployment, d.at > 0,
           \A e \in ToSet(list) : e.at >= d.at => e = d,
           NEW boot \in OutPaths, NEW cur \in OutPaths
    PROVE  LET out == retention(Insert(list, d), boot, cur)
           IN  /\ Complete(out, boot, cur) /\ out[1] = d
               /\ ToSet(out) \subseteq ToSet(list) \union {d} \union Dummies(boot, cur)
<1> DEFINE s == Insert(list, d)
<1>1. s \in Seq(Deployment) /\ ToSet(s) = ToSet(list) \union {d} /\ Len(s) # 0 /\ s[1] = d
  BY InsertIs
<1> HIDE DEF s
<1>2. retention(s, boot, cur)[1] = d
  BY <1>1, RetentionIs
<1>3. Complete(retention(s, boot, cur), boot, cur)
      /\ ToSet(retention(s, boot, cur)) \subseteq ToSet(s) \union Dummies(boot, cur)
  BY <1>1, RetentionCompletes
<1> QED BY <1>1, <1>2, <1>3 DEF s

\* Load completes the list.
LEMMA LoadIs ==
    ASSUME NEW list \in Seq(Deployment), NEW boot \in OutPaths, NEW cur \in OutPaths
    PROVE  /\ Complete(Load(list, boot, cur), boot, cur)
           /\ ToSet(Load(list, boot, cur)) \subseteq ToSet(list) \union Dummies(boot, cur)
<1> DEFINE l1 == IF \E d \in ToSet(list) : d.outPath = boot THEN list
                 ELSE Append(list, Dummy(boot, "boot"))
           l2 == IF \E d \in ToSet(l1) : d.outPath = cur THEN l1
                 ELSE Append(l1, Dummy(cur, "switch"))
<1>1. Load(list, boot, cur) = retention(l2, boot, cur)
  BY DEF Load, Ensure
<1>2. ASSUME NEW s \in Seq(Deployment), NEW e \in Deployment
      PROVE  Append(s, e) \in Seq(Deployment) /\ ToSet(Append(s, e)) = ToSet(s) \union {e}
  <2> DEFINE t == <<e>>
  <2>1. Append(s, e) = s \o t /\ t \in Seq(Deployment) /\ ToSet(t) = {e}
    BY AppendIsConcat, InSingle
  <2> HIDE DEF t
  <2> QED BY <2>1, InConcat
<1>3. Dummies(boot, cur) \subseteq Deployment
  BY DummyType DEF Dummies
<1>4. l1 \in Seq(Deployment) /\ ToSet(l1) \subseteq ToSet(list) \union Dummies(boot, cur)
  BY <1>2, <1>3 DEF Dummies
<1> HIDE DEF l1
<1>5. l2 \in Seq(Deployment) /\ ToSet(l2) \subseteq ToSet(list) \union Dummies(boot, cur)
  BY <1>2, <1>3, <1>4 DEF Dummies
<1> HIDE DEF l2
<1> QED BY <1>1, <1>5, RetentionCompletes

\* The deployment under way is replaced everywhere in the list.
LEMMA ReplacedIs ==
    ASSUME NEW list \in Seq(Deployment), NEW old, NEW new \in Deployment
    PROVE  /\ ReplaceAll(list, old, new) \in Seq(Deployment)
           /\ \A e \in ToSet(ReplaceAll(list, old, new)) :
                e = new \/ (e \in ToSet(list) /\ e # old)
<1> DEFINE t == ReplaceAll(list, old, new)
<1>1. Len(list) \in Nat /\ \A i \in 1..Len(list) : list[i] \in Deployment
  BY LenProperties, ElementOfSeq
<1>2. t = [i \in 1..Len(list) |-> IF list[i] = old THEN new ELSE list[i]]
  BY DEF ReplaceAll
<1>3. t \in [1..Len(list) -> Deployment]
  BY <1>1, <1>2
<1>4. t \in Seq(Deployment) /\ Len(t) = Len(list)
  BY <1>1, <1>3
<1>5. \A i \in 1..Len(t) : t[i] = IF list[i] = old THEN new ELSE list[i]
  BY <1>2, <1>4
<1> HIDE DEF t
<1>6. \A e \in ToSet(t) : e = new \/ (e \in ToSet(list) /\ e # old)
  BY <1>4, <1>5, InList
<1> QED BY <1>4, <1>6 DEF t

-----------------------------------------------------------------------------
(* The inductive invariant.                                                *)

\* The dated deployments of the list have different dates, none after the clock.
DateInv ==
    /\ dpls \in Seq(Deployment) /\ clock \in 0..MaxDeployments
    /\ \A d \in ToSet(dpls) : d.at <= clock
    /\ \A d, e \in ToSet(dpls) : d.at = e.at /\ d.at > 0 => d = e

\* A deployment makes at most one link.
LinkInv ==
    /\ booted \in OutPaths /\ current \in OutPaths /\ read \in OutPaths
    /\ DOMAIN profiles \subseteq 1..clock
    /\ pc \in {"created", "running"} => DOMAIN profiles \subseteq 1..(clock - 1)
    /\ \A n \in DOMAIN profiles : profiles[n] \in OutPaths
    /\ default \in 0..clock /\ profilePath \in 0..clock

\* The deployment under way is the first of the list; the current system is the one that
\* the deployer has read or the deployed one.
UnderWayInv ==
    pc # "idle" => /\ Len(dpls) # 0 /\ clock > 0 /\ dpls[1].at = clock
                   /\ current \in {read, dpls[1].outPath}

\* The list knows the booted and the current system, unless it was lost.
RunningInv ==
    Len(dpls) # 0 => /\ \E d \in ToSet(dpls) : IsBooted(d, booted)
                     /\ \E d \in ToSet(dpls) : d.outPath = current

\* The deployment whose end the manager has not yet learned of is the first of the list.
NotifiedInv ==
    pc = "idle" /\ done # {} => Len(dpls) # 0 /\ \A d \in done : d.op = dpls[1].op

StoreInv == DateInv /\ LinkInv /\ UnderWayInv /\ RunningInv

\* The deployment that is looked up is the first of the list.
LEMMA LatestIs ==
    ASSUME DateInv, UnderWayInv, pc # "idle"
    PROVE  /\ IsStored /\ Latest = dpls[1] /\ Latest \in ToSet(dpls)
           /\ Latest \in Deployment /\ Latest.at = clock /\ clock \in Nat /\ clock > 0
<1> DEFINE I == {i \in 1..Len(dpls) : dpls[i].at = clock}
<1>1. dpls \in Seq(Deployment) /\ Len(dpls) \in Nat /\ Len(dpls) # 0 /\ dpls[1].at = clock
  BY InList DEF DateInv, UnderWayInv
<1>2. 1 \in I /\ I \in SUBSET Nat
  BY <1>1
<1>3. Min(I) \in I /\ Min(I) <= 1
  BY <1>2, MinIs
<1>4. Min(I) = 1
  BY <1>1, <1>3
<1>5. Latest = dpls[Min(I)]
  BY <1>2 DEF Latest, First, SelectInSeq
<1>6. dpls[1] \in ToSet(dpls) /\ dpls[1] \in Deployment
  BY <1>1, <1>2, InList
<1> QED BY <1>1, <1>4, <1>5, <1>6, RetentionAssumption DEF IsStored, DateInv, UnderWayInv

\* A list whose elements are those of the store, the deployment under way and dummies keeps
\* the dates.
LEMMA DatesKept ==
    ASSUME DateInv, clock' \in 0..MaxDeployments, clock <= clock', dpls' \in Seq(Deployment),
           NEW boot \in OutPaths, NEW cur \in OutPaths, NEW d, d.at = clock',
           \A e \in ToSet(dpls') : \/ e = d \/ e \in Dummies(boot, cur)
                                   \/ e \in ToSet(dpls) /\ (e.at # clock' \/ e = d)
    PROVE  DateInv'
<1>1. \A e \in Dummies(boot, cur) : e.at = 0
  BY DummyType DEF Dummies
<1>2. clock' \in Nat /\ clock \in Nat
  BY RetentionAssumption DEF DateInv
<1>3. \A e \in ToSet(dpls) : e.at \in Nat
  <2>1. ToSet(dpls) \subseteq Deployment
    BY InList DEF DateInv
  <2> QED BY <2>1, RetentionAssumption DEF Deployment
<1>4. \A e \in ToSet(dpls') : e.at <= clock'
  BY <1>1, <1>2, <1>3 DEF DateInv
<1>5. \A e, f \in ToSet(dpls') : e.at = f.at /\ e.at > 0 => e = f
  BY <1>1, <1>2, <1>3 DEF DateInv
<1> QED BY <1>4, <1>5 DEF DateInv

\* The creation of a deployment.
LEMMA NewDeploymentKeeps ==
    ASSUME StoreInv, NEW p \in OutPaths, NEW op \in Operations, NewDeployment(p, op)
    PROVE  StoreInv'
<1> DEFINE d == [at |-> clock + 1, outPath |-> p, op |-> op, status |-> "init", profile |-> 0]
<1>0. clock \in Nat /\ MaxDeployments \in Nat /\ dpls \in Seq(Deployment)
  BY RetentionAssumption DEF StoreInv, DateInv
<1>1. clock' = clock + 1 /\ clock + 1 \in 0..MaxDeployments
  BY <1>0 DEF NewDeployment
<1>2. /\ dpls' = retention(Insert(dpls, d), booted, current)
      /\ pc' = "created" /\ read' = current
      /\ UNCHANGED <<profiles, default, booted, current, profilePath>>
  BY <1>1 DEF NewDeployment, updateDataDeployments, linkVars
<1>3. d \in Deployment /\ d.at = clock + 1 /\ d.at > 0
  BY <1>0, <1>1, RetentionAssumption DEF Deployment
<1>4. \A e \in ToSet(dpls) : ~(e.at >= d.at) /\ e.at # clock'
  <2>1. ToSet(dpls) \subseteq Deployment
    BY <1>0, InList
  <2>2. \A e \in ToSet(dpls) : e.at \in Nat /\ e.at <= clock
    BY <2>1, RetentionAssumption DEF StoreInv, DateInv, Deployment
  <2> QED BY <1>0, <1>1, <1>3, <2>2
<1> HIDE DEF d
<1>5. booted \in OutPaths /\ current \in OutPaths
  BY DEF StoreInv, LinkInv
<1>6. /\ Complete(dpls', booted, current) /\ dpls'[1] = d
      /\ ToSet(dpls') \subseteq ToSet(dpls) \union {d} \union Dummies(booted, current)
  BY <1>0, <1>2, <1>3, <1>4, <1>5, UpdatedIs
<1>7. DateInv'
  <2>1. /\ dpls' \in Seq(Deployment) /\ clock <= clock' /\ d.at = clock'
        /\ clock' \in 0..MaxDeployments
    BY <1>0, <1>1, <1>3, <1>6 DEF Complete
  <2>2. DateInv
    BY DEF StoreInv
  <2> QED BY <1>4, <1>5, <1>6, <2>1, <2>2, DatesKept
<1>8. LinkInv'
  BY <1>0, <1>1, <1>2 DEF StoreInv, LinkInv
<1>9. UnderWayInv'
  BY <1>0, <1>1, <1>2, <1>3, <1>6 DEF UnderWayInv, Complete
<1>10. RunningInv'
  BY <1>2, <1>6 DEF RunningInv, Complete, IsCurrent
<1> QED BY <1>7, <1>8, <1>9, <1>10 DEF StoreInv

\* The update of the deployment under way.
LEMMA UpdateKeeps ==
    ASSUME StoreInv, pc # "idle", NEW d \in Deployment, d.at = clock,
           d.outPath = Latest.outPath, Update(d), UNCHANGED <<clock, booted, current, read>>
    PROVE  /\ DateInv' /\ UnderWayInv' /\ RunningInv'
           /\ Len(dpls') # 0 /\ dpls'[1] = d
<1>0. DateInv /\ UnderWayInv /\ booted \in OutPaths /\ read \in OutPaths /\ dpls \in Seq(Deployment)
  BY DEF StoreInv, LinkInv, DateInv
<1>1. /\ Latest = dpls[1] /\ Latest \in ToSet(dpls) /\ Latest.at = clock
      /\ clock \in Nat /\ clock > 0
  BY <1>0, LatestIs
<1> DEFINE list == ReplaceAll(dpls, Latest, d)
<1>2. list \in Seq(Deployment) /\ \A e \in ToSet(list) : e = d \/ (e \in ToSet(dpls) /\ e # Latest)
  BY <1>0, ReplacedIs
<1>3. dpls' = retention(Insert(list, d), booted, read)
  BY DEF Update, updateDataDeployments
<1>4. \A e \in ToSet(dpls) : e # Latest => e.at # clock /\ ~(e.at >= clock)
  <2>1. ToSet(dpls) \subseteq Deployment
    BY <1>0, InList
  <2>2. \A e \in ToSet(dpls) : e.at \in Nat /\ e.at <= clock
    BY <1>0, <2>1, RetentionAssumption DEF DateInv, Deployment
  <2>3. \A e \in ToSet(dpls) : e.at = clock => e = Latest
    BY <1>0, <1>1 DEF DateInv
  <2> QED BY <1>1, <2>2, <2>3
<1> HIDE DEF list
<1>5. \A e \in ToSet(list) : e.at >= d.at => e = d
  BY <1>2, <1>4
<1>6. /\ Complete(dpls', booted, read) /\ dpls'[1] = d
      /\ ToSet(dpls') \subseteq ToSet(list) \union {d} \union Dummies(booted, read)
  <2>1. d.at > 0
    BY <1>1
  <2> QED BY <1>0, <1>2, <1>3, <1>5, <2>1, UpdatedIs
<1>7. DateInv'
  <2>1. /\ dpls' \in Seq(Deployment) /\ clock <= clock' /\ d.at = clock'
        /\ clock' \in 0..MaxDeployments
    BY <1>0, <1>1, <1>6 DEF Complete, DateInv
  <2>2. \A e \in ToSet(dpls') : \/ e = d \/ e \in Dummies(booted, read)
                                \/ e \in ToSet(dpls) /\ (e.at # clock' \/ e = d)
    BY <1>2, <1>4, <1>6
  <2> QED BY <1>0, <2>1, <2>2, DatesKept
<1>8. dpls'[1] \in ToSet(dpls') /\ Len(dpls') # 0
  BY <1>6, InList DEF Complete
<1>9. current \in {read, d.outPath}
  BY <1>0, <1>1 DEF UnderWayInv
<1>10. UnderWayInv'
  BY <1>1, <1>6, <1>8, <1>9 DEF UnderWayInv
<1>11. RunningInv'
  BY <1>6, <1>8, <1>9 DEF RunningInv, Complete, IsCurrent
<1> QED BY <1>6, <1>7, <1>8, <1>10, <1>11

\* comin starts again.
LEMMA StartKeeps ==
    ASSUME StoreInv, NEW boot \in OutPaths, NEW cur \in OutPaths,
           Start(Load(dpls, boot, cur), boot, cur)
    PROVE  StoreInv' /\ RebootIsKnown'
<1>0. DateInv /\ dpls \in Seq(Deployment) /\ clock \in Nat
  BY RetentionAssumption DEF StoreInv, DateInv
<1>1. /\ dpls' = Load(dpls, boot, cur) /\ booted' = boot /\ current' = cur /\ read' = boot
      /\ pc' = "idle" /\ profilePath' = 0 /\ done' = {}
      /\ needToReboot' = RebootAtStart(dpls', boot, cur)
      /\ UNCHANGED <<clock, profiles, default>>
  BY DEF Start
<1>2. /\ Complete(dpls', boot, cur)
      /\ ToSet(dpls') \subseteq ToSet(dpls) \union Dummies(boot, cur)
  BY <1>0, <1>1, LoadIs
<1>3. dpls' \in Seq(Deployment) /\ Len(dpls') \in Nat /\ Len(dpls') # 0
  BY <1>2, InList DEF Complete
<1>4. DateInv'
  <2>1. ToSet(dpls) \subseteq Deployment
    BY <1>0, InList
  <2>2. \A e \in ToSet(dpls) : e.at \in Nat
    BY <2>1, RetentionAssumption DEF Deployment
  <2>3. \A e \in Dummies(boot, cur) : e.at = 0
    BY DummyType DEF Dummies
  <2> QED BY <1>0, <1>1, <1>2, <1>3, <2>2, <2>3 DEF DateInv
<1>5. LinkInv'
  BY <1>0, <1>1 DEF StoreInv, LinkInv
<1>6. RunningInv'
  BY <1>1, <1>2 DEF RunningInv, Complete, IsCurrent
<1>7. RebootIsKnown'
  <2>1. CASE Len(dpls') > 1
    BY <1>1, <2>1 DEF RebootIsKnown, RebootAtStart, NeedToReboot
  <2>2. CASE Len(dpls') = 1
    <3>1. \A d \in ToSet(dpls') : d = dpls'[1]
      <4>1. \A i \in 1..1 : i = 1
        OBVIOUS
      <4> QED BY <1>3, <2>2, <4>1, InList
    <3>2. boot = cur
      BY <1>2, <3>1 DEF Complete, IsBooted, IsCurrent
    <3>3. ~RebootAtStart(dpls', boot, cur)
      BY <2>2 DEF RebootAtStart
    <3>4. ~needToReboot'
      BY <1>1, <3>3
    <3>5. KernelOf[current'] = KernelOf[booted']
      BY <1>1, <3>2
    <3> QED BY <3>4, <3>5 DEF RebootIsKnown
  <2>3. Len(dpls') > 1 \/ Len(dpls') = 1
    BY <1>3
  <2> QED BY <2>1, <2>2, <2>3
<1> QED BY <1>1, <1>4, <1>5, <1>6, <1>7 DEF StoreInv, UnderWayInv

\* A set of natural numbers with an upper bound has a greatest element.
LEMMA MaxIs ==
    ASSUME NEW S \in SUBSET Nat, S # {}, NEW b \in Nat, \A n \in S : n <= b
    PROVE  Max(S) \in S /\ \A n \in S : n <= Max(S)
<1> DEFINE B == {m \in Nat : \A n \in S : n <= m}
<1>1. PICK m \in B : \A n \in B : m <= n
  <2>1. B \in SUBSET Nat /\ b \in B
    OBVIOUS
  <2> HIDE DEF B
  <2> QED BY <2>1, LeastNatural
<1>2. m \in S
  <2> SUFFICES ASSUME m \notin S PROVE FALSE
    OBVIOUS
  <2>1. \A n \in S : n <= m - 1 /\ m - 1 \in Nat
    OBVIOUS
  <2>2. m - 1 \in B
    BY <2>1
  <2> QED BY <1>1, <2>2
<1>3. \A n \in S : m >= n
  OBVIOUS
<1>4. Max(S) \in S /\ \A n \in S : Max(S) >= n
  BY <1>2, <1>3 DEF Max
<1> QED BY <1>4

\* nix-env makes at most one link, with a number that no link has, and the link comin
\* points to one of the system afterwards.
LEMMA NixEnvSetIs ==
    ASSUME StoreInv, pc = "running", NEW p \in OutPaths, nixEnvSet(p)
    PROVE  /\ DOMAIN profiles' \subseteq 1..clock /\ default' \in 0..clock
           /\ \A n \in DOMAIN profiles' : profiles'[n] \in OutPaths
           /\ \A n \in DOMAIN profiles : n \in DOMAIN profiles' /\ profiles'[n] = profiles[n]
           /\ default' \in DOMAIN profiles' /\ profiles'[default'] = p
<1> DEFINE S == DOMAIN profiles \union {0}
           top == Max(S)
<1>1. clock \in Nat /\ clock > 0
  BY RetentionAssumption DEF StoreInv, DateInv, UnderWayInv
<1>2. /\ DOMAIN profiles \subseteq 1..(clock - 1)
      /\ \A n \in DOMAIN profiles : profiles[n] \in OutPaths
  BY DEF StoreInv, LinkInv
<1>3. S \in SUBSET Nat /\ S # {} /\ \A n \in S : n <= clock - 1
  BY <1>1, <1>2
<1>4. top \in S /\ \A n \in S : n <= top
  <2>1. clock - 1 \in Nat
    BY <1>1
  <2> HIDE DEF S
  <2> QED BY <1>3, <2>1, MaxIs
<1> HIDE DEF top
<1>5. top \in 0..(clock - 1) /\ top + 1 \in 1..clock /\ top + 1 \notin DOMAIN profiles
  BY <1>1, <1>3, <1>4
<1>6. \/ default' = top /\ profiles' = profiles /\ top > 0 /\ profiles[top] = p
      \/ /\ default' = top + 1
         /\ profiles' = [n \in DOMAIN profiles \union {top + 1} |->
                           IF n = top + 1 THEN p ELSE profiles[n]]
  BY DEF nixEnvSet, top
<1>7. CASE default' = top /\ profiles' = profiles /\ top > 0 /\ profiles[top] = p
  BY <1>1, <1>2, <1>4, <1>5, <1>7
<1>8. CASE /\ default' = top + 1
           /\ profiles' = [n \in DOMAIN profiles \union {top + 1} |->
                           IF n = top + 1 THEN p ELSE profiles[n]]
  BY <1>1, <1>2, <1>5, <1>8
<1> QED BY <1>6, <1>7, <1>8

\* Every step keeps the invariant.
LEMMA StoreStep == StoreInv /\ [Next]_vars => StoreInv'
<1> SUFFICES ASSUME StoreInv, [Next]_vars PROVE StoreInv'
  OBVIOUS
<1>0. /\ DateInv /\ LinkInv /\ UnderWayInv /\ RunningInv /\ dpls \in Seq(Deployment)
      /\ booted \in OutPaths /\ current \in OutPaths
      /\ clock \in Nat /\ clock <= MaxDeployments /\ MaxDeployments \in Nat
  BY RetentionAssumption DEF StoreInv, DateInv, LinkInv
<1>1. ASSUME NEW p \in OutPaths, NEW op \in Operations, NewDeployment(p, op) PROVE StoreInv'
  BY <1>1, NewDeploymentKeeps
<1>2. CASE DeploymentStarted
  <2> DEFINE d == [Latest EXCEPT !.status = "running"]
  <2>1. pc = "created" /\ pc' = "running" /\ Update(d)
        /\ UNCHANGED <<clock, profiles, default, booted, current, read, profilePath>>
    BY <1>2 DEF DeploymentStarted, linkVars
  <2>2. d \in Deployment /\ d.at = clock /\ d.outPath = Latest.outPath
    BY <1>0, <2>1, LatestIs DEF Deployment
  <2> HIDE DEF d
  <2>3. DateInv' /\ UnderWayInv' /\ RunningInv'
    BY <2>1, <2>2, UpdateKeeps
  <2>4. LinkInv'
    BY <1>0, <2>1 DEF LinkInv
  <2> QED BY <2>3, <2>4 DEF StoreInv
<1>3. CASE SetSystemProfile
  <2>1. /\ pc = "running" /\ pc' \in {"remove", "finish"}
        /\ UNCHANGED <<dpls, clock, booted, current, read>>
    BY <1>3 DEF SetSystemProfile
  <2>2. LinkInv'
    <3>1. CASE UNCHANGED <<profiles, default, profilePath>>
      BY <1>0, <2>1, <3>1 DEF LinkInv
    <3>2. CASE nixEnvSet(Latest.outPath) /\ profilePath' = default'
      <4>1. Latest.outPath \in OutPaths
        BY <1>0, <2>1, LatestIs DEF Deployment
      <4>2. /\ DOMAIN profiles' \subseteq 1..clock /\ default' \in 0..clock
            /\ \A n \in DOMAIN profiles' : profiles'[n] \in OutPaths
        BY <2>1, <3>2, <4>1, NixEnvSetIs
      <4> QED BY <1>0, <2>1, <3>2, <4>2 DEF LinkInv
    <3> QED BY <1>3, <3>1, <3>2 DEF SetSystemProfile
  <2> QED BY <1>0, <2>1, <2>2 DEF StoreInv, DateInv, UnderWayInv, RunningInv
<1>4. CASE RemoveProfiles
  <2>1. /\ pc = "remove" /\ pc' = "switch"
        /\ UNCHANGED <<dpls, clock, default, booted, current, read, profilePath>>
    BY <1>4 DEF RemoveProfiles
  <2>2. DOMAIN profiles' \subseteq DOMAIN profiles
        /\ \A n \in DOMAIN profiles' : profiles'[n] = profiles[n]
    BY <1>4 DEF RemoveProfiles
  <2>3. LinkInv'
    BY <1>0, <2>1, <2>2 DEF LinkInv
  <2> QED BY <1>0, <2>1, <2>3 DEF StoreInv, DateInv, UnderWayInv, RunningInv
<1>5. CASE SwitchToConfiguration
  <2>1. /\ pc = "switch" /\ pc' = "finish"
        /\ UNCHANGED <<dpls, clock, profiles, default, booted, read, profilePath>>
        /\ current' \in {current, Latest.outPath}
    BY <1>5 DEF SwitchToConfiguration, Activate
  <2>2. Latest = dpls[1] /\ Latest \in ToSet(dpls) /\ Latest.outPath \in OutPaths
    BY <1>0, <2>1, LatestIs DEF Deployment
  <2>3. LinkInv' /\ UnderWayInv' /\ RunningInv'
    BY <1>0, <2>1, <2>2 DEF LinkInv, UnderWayInv, RunningInv
  <2> QED BY <1>0, <2>1, <2>3 DEF StoreInv, DateInv
<1>6. CASE DeploymentFinished
  <2> DEFINE d == [Latest EXCEPT !.status = IF err THEN "failed" ELSE "done",
                                 !.profile = profilePath]
  <2>1. pc = "finish" /\ pc' = "notify" /\ profilePath' = 0 /\ Update(d)
        /\ UNCHANGED <<clock, profiles, default, booted, current, read>>
    BY <1>6 DEF DeploymentFinished, linkVars
  <2>2. d \in Deployment /\ d.at = clock /\ d.outPath = Latest.outPath
    <3>1. profilePath \in 0..MaxDeployments
      BY <1>0 DEF LinkInv
    <3> QED BY <1>0, <2>1, <3>1, LatestIs DEF Deployment
  <2> HIDE DEF d
  <2>3. DateInv' /\ UnderWayInv' /\ RunningInv'
    BY <2>1, <2>2, UpdateKeeps
  <2>4. LinkInv'
    BY <1>0, <2>1 DEF LinkInv
  <2> QED BY <2>3, <2>4 DEF StoreInv
<1>7. CASE Notify
  <2>1. /\ pc' = "idle"
        /\ UNCHANGED <<dpls, clock, profiles, default, booted, current, read, profilePath>>
    BY <1>7 DEF Notify, linkVars
  <2> QED BY <1>0, <2>1 DEF StoreInv, DateInv, LinkInv, UnderWayInv, RunningInv
<1>8. CASE ManagerReceive
  <2>1. CASE Start(Load(dpls, booted, current), booted, current)
    BY <1>0, <2>1, StartKeeps
  <2>2. CASE UNCHANGED <<dpls, clock, linkVars, deployerVars>>
    BY <1>0, <2>2 DEF StoreInv, DateInv, LinkInv, UnderWayInv, RunningInv, linkVars, deployerVars
  <2> QED BY <1>8, <2>1, <2>2 DEF ManagerReceive
<1>9. CASE Restart
  BY <1>0, <1>9, StartKeeps DEF Restart
<1>10. CASE Reboot
  <2>1. PICK p \in Range(profiles) \union {booted} : Start(Load(dpls, p, p), p, p)
    BY <1>10 DEF Reboot
  <2>2. p \in OutPaths
    BY <1>0, <2>1 DEF LinkInv, Range
  <2> QED BY <2>1, <2>2, StartKeeps
<1>11. CASE RestartWithoutStore
  <2>1. /\ dpls' = <<>> /\ pc' = "idle" /\ read' = booted /\ profilePath' = 0
        /\ UNCHANGED <<clock, profiles, default, booted, current>>
    BY <1>11 DEF RestartWithoutStore, Start
  <2>2. dpls' \in Seq(Deployment) /\ Len(dpls') = 0
    BY <2>1
  <2>3. \A e : e \notin ToSet(dpls')
    BY <2>2, InList
  <2>4. DateInv' /\ LinkInv'
    BY <1>0, <2>1, <2>2, <2>3 DEF DateInv, LinkInv
  <2> QED BY <2>1, <2>2, <2>4 DEF StoreInv, UnderWayInv, RunningInv
<1>12. CASE UNCHANGED vars
  BY <1>0, <1>12 DEF StoreInv, DateInv, LinkInv, UnderWayInv, RunningInv, vars, linkVars,
                     deployerVars
<1> QED BY <1>1, <1>2, <1>3, <1>4, <1>5, <1>6, <1>7, <1>8, <1>9, <1>10, <1>11, <1>12 DEF Next

\* The store is first loaded from an empty list.
LEMMA StoreInit == Init => StoreInv /\ Complete(dpls, booted, current)
<1> SUFFICES ASSUME Init PROVE StoreInv /\ Complete(dpls, booted, current)
  OBVIOUS
<1>1. /\ booted \in OutPaths /\ current = booted /\ read = booted /\ pc = "idle" /\ clock = 0
      /\ profiles = <<>> /\ default = 0 /\ profilePath = 0 /\ dpls = Load(<<>>, booted, current)
      /\ MaxDeployments \in Nat
  BY RetentionAssumption DEF Init
<1>2. <<>> \in Seq(Deployment) /\ Len(<<>>) = 0
  OBVIOUS
<1>3. ToSet(<<>>) = {}
  BY <1>2, InList
<1>4. Complete(dpls, booted, current) /\ ToSet(dpls) \subseteq Dummies(booted, current)
  BY <1>1, <1>2, <1>3, LoadIs
<1>5. \A d \in Dummies(booted, current) : d.at = 0
  BY <1>1, DummyType DEF Dummies
<1>6. DateInv
  BY <1>1, <1>4, <1>5 DEF DateInv, Complete
<1>7. LinkInv
  <2>1. DOMAIN <<>> = {}
    OBVIOUS
  <2> QED BY <1>1, <2>1 DEF LinkInv
<1>8. UnderWayInv /\ RunningInv
  BY <1>1, <1>4 DEF UnderWayInv, RunningInv, Complete, IsCurrent
<1> QED BY <1>4, <1>6, <1>7, <1>8 DEF StoreInv

\* The invariant holds in every state.
LEMMA StoreAlways == Spec => []StoreInv
<1>1. Init => StoreInv
  BY StoreInit
<1> QED BY <1>1, StoreStep, PTL DEF Spec

\* UnderWayIsStored: for all capacities that are not 0, however many deployments there
\* were and wherever comin was stopped, the store has the deployment under way.
THEOREM UnderWayIsNeverDropped == Spec => []UnderWayIsStored
<1>1. StoreInv => UnderWayIsStored
  BY LatestIs DEF StoreInv, UnderWayIsStored
<1> QED BY <1>1, StoreAlways, PTL

\* RunningSystemIsKept: the store has a boot entry of the booted system and a deployment
\* of the current one, unless it was lost.
THEOREM RunningSystemIsNeverDropped == Spec => []RunningSystemIsKept
<1>1. StoreInv => RunningSystemIsKept
  <2> SUFFICES ASSUME StoreInv, dpls # <<>>
               PROVE  /\ \E d \in ToSet(dpls) : isBootEntry(d) /\ Done(d) /\ d.outPath = booted
                      /\ \E d \in ToSet(dpls) : d.outPath = current
    BY DEF RunningSystemIsKept
  <2>1. Len(dpls) # 0
    BY EmptySeq DEF StoreInv, DateInv
  <2> QED BY <2>1 DEF StoreInv, RunningInv, IsBooted
<1> QED BY <1>1, StoreAlways, PTL

-----------------------------------------------------------------------------
(* The links.                                                              *)

\* BootedProfileIsKept: neither nix-env nor RemoveProfiles takes away the link of the
\* booted system.
THEOREM BootedProfileIsNeverRemoved == Spec => BootedProfileIsKept
<1> DEFINE Keeps == booted' = booted /\ booted \in Range(profiles) => booted \in Range(profiles')
<1>1. StoreInv /\ [Next]_vars => [Keeps]_vars
  <2> SUFFICES ASSUME StoreInv, Next, booted \in Range(profiles) PROVE booted \in Range(profiles')
    OBVIOUS
  <2>1. PICK n \in DOMAIN profiles : profiles[n] = booted
    BY DEF Range
  <2> SUFFICES n \in DOMAIN profiles' /\ profiles'[n] = profiles[n]
    BY <2>1 DEF Range
  <2>2. CASE UNCHANGED profiles
    BY <2>2
  <2>3. CASE SetSystemProfile /\ nixEnvSet(Latest.outPath)
    <3>1. pc = "running" /\ Latest.outPath \in OutPaths
      BY <2>3, LatestIs DEF SetSystemProfile, StoreInv, Deployment
    <3> QED BY <2>3, <3>1, NixEnvSetIs
  <2>4. CASE RemoveProfiles
    BY <2>1, <2>4 DEF RemoveProfiles, Preserved
  <2> QED BY <2>2, <2>3, <2>4 DEF Next, NewDeployment, DeploymentStarted, SetSystemProfile,
        SwitchToConfiguration, DeploymentFinished, Notify, ManagerReceive, Restart, Reboot,
        RestartWithoutStore, Start, linkVars
<1> QED BY <1>1, StoreAlways, PTL DEF Spec, BootedProfileIsKept

-----------------------------------------------------------------------------
(* The decisions of the manager.                                           *)

RebootInv == StoreInv /\ NotifiedInv /\ RebootIsKnown

\* Every step keeps what the manager knows.
LEMMA RebootStep == RebootInv /\ [Next]_vars => RebootInv'
<1> SUFFICES ASSUME RebootInv, [Next]_vars PROVE NotifiedInv' /\ RebootIsKnown'
  BY StoreStep DEF RebootInv
<1>0. /\ StoreInv /\ NotifiedInv /\ RebootIsKnown /\ booted \in OutPaths /\ current \in OutPaths
      /\ DateInv /\ UnderWayInv
  BY DEF RebootInv, StoreInv, LinkInv
<1>1. CASE pc' # "idle"
  BY <1>1 DEF NotifiedInv, RebootIsKnown
<1>2. CASE Notify
  <2>1. /\ pc # "idle" /\ UNCHANGED dpls
        /\ done' = {[outPath |-> Latest.outPath, op |-> Latest.op, restart |-> restart]}
    BY <1>2 DEF Notify
  <2>2. Latest = dpls[1] /\ Len(dpls) # 0
    BY <1>0, <2>1, LatestIs DEF UnderWayInv
  <2>3. done' # {} /\ \A d \in done' : d.op = dpls[1].op
    BY <2>1, <2>2
  <2>4. Len(dpls') # 0 /\ \A d \in done' : d.op = dpls'[1].op
    BY <2>1, <2>2, <2>3
  <2> QED BY <2>3, <2>4 DEF NotifiedInv, RebootIsKnown
<1>3. ASSUME NEW p \in OutPaths, NEW q \in OutPaths, Start(Load(dpls, p, q), p, q)
      PROVE  NotifiedInv' /\ RebootIsKnown'
  BY <1>0, <1>3, StartKeeps DEF NotifiedInv, Start
<1>4. CASE ManagerReceive
  <2>1. CASE Start(Load(dpls, booted, current), booted, current)
    BY <1>0, <1>3, <2>1
  <2>2. ASSUME NEW d \in done, done' = {}, UNCHANGED <<dpls, linkVars, deployerVars>>,
               needToReboot' = NeedToReboot(d.outPath, d.op, booted, current)
        PROVE  NotifiedInv' /\ RebootIsKnown'
    <3>1. pc' = pc /\ dpls' = dpls /\ booted' = booted /\ current' = current
      BY <2>2 DEF linkVars, deployerVars
    <3>2. pc = "idle" => d.op = dpls[1].op
      BY <1>0 DEF NotifiedInv
    <3>3. d.op # "boot" => (needToReboot' <=> KernelOf[current] # KernelOf[booted])
      BY <2>2 DEF NeedToReboot
    <3> QED BY <2>2, <3>1, <3>2, <3>3 DEF NotifiedInv, RebootIsKnown
  <2> QED BY <1>4, <2>1, <2>2 DEF ManagerReceive
<1>5. CASE Restart
  BY <1>0, <1>3, <1>5 DEF Restart
<1>6. CASE Reboot
  <2>1. PICK p \in Range(profiles) \union {booted} : Start(Load(dpls, p, p), p, p)
    BY <1>6 DEF Reboot
  <2>2. p \in OutPaths
    BY <1>0, <2>1 DEF StoreInv, LinkInv, Range
  <2> QED BY <1>3, <2>1, <2>2
<1>7. CASE RestartWithoutStore
  BY <1>7 DEF RestartWithoutStore, Start, NotifiedInv, RebootIsKnown
<1>8. CASE UNCHANGED vars
  BY <1>0, <1>8 DEF vars, linkVars, deployerVars, managerVars, NotifiedInv, RebootIsKnown
<1>9. Next => pc' # "idle" \/ Notify \/ ManagerReceive \/ Restart \/ Reboot \/ RestartWithoutStore
  BY DEF Next, NewDeployment, DeploymentStarted, SetSystemProfile, RemoveProfiles,
         SwitchToConfiguration, DeploymentFinished
<1> QED BY <1>1, <1>2, <1>4, <1>5, <1>6, <1>7, <1>8, <1>9

\* RebootIsKnown: between deployments the flag tells whether the kernel of the current
\* system is the one that was booted, over restarts and reboots.
THEOREM RebootIsAlwaysKnown == Spec => []RebootIsKnown
<1>1. Init => RebootInv
  BY StoreInit DEF Init, RebootInv, NotifiedInv, RebootIsKnown
<1>2. RebootInv => RebootIsKnown
  BY DEF RebootInv
<1> QED BY <1>1, <1>2, RebootStep, PTL DEF Spec

\* The unit of the running process is the one of the current system, or comin is about to
\* be restarted, which the deployer or the channel to the manager remembers.
UnitInv ==
    /\ pc \in {"remove", "switch"} => before \in {UnitOf[current], NoHash}
    /\ \A d, e \in done : d = e
    /\ excused \/ unit = UnitOf[current] \/ (restart /\ pc \in {"finish", "notify"})
               \/ \E d \in done : d.restart

\* Every step keeps it.
LEMMA UnitStep == UnitInv /\ [Next]_vars => UnitInv'
<1> SUFFICES ASSUME UnitInv, [Next]_vars PROVE UnitInv'
  OBVIOUS
<1>1. ASSUME NEW p \in OutPaths, NEW op \in Operations, NewDeployment(p, op) PROVE UnitInv'
  BY <1>1 DEF UnitInv, NewDeployment, linkVars, hashVars, managerVars
<1>2. CASE DeploymentStarted
  BY <1>2 DEF UnitInv, DeploymentStarted, linkVars, hashVars, managerVars
<1>3. CASE SetSystemProfile
  BY <1>3 DEF UnitInv, SetSystemProfile, managerVars, cominUnitFileHash
<1>4. CASE RemoveProfiles
  BY <1>4 DEF UnitInv, RemoveProfiles, hashVars, managerVars
<1>5. CASE SwitchToConfiguration
  <2>1. PICK after \in {UnitOf[current'], NoHash} :
          /\ restart' = (~err' /\ before # after)
          /\ excused' = (\/ excused
                         \/ current' # current /\ (err' \/ (before = NoHash /\ after = NoHash)))
    BY <1>5 DEF SwitchToConfiguration, cominUnitFileHash
  <2>2. pc = "switch" /\ pc' = "finish" /\ UNCHANGED <<unit, done>>
    BY <1>5 DEF SwitchToConfiguration, managerVars
  <2>3. before \in {UnitOf[current], NoHash}
    BY <2>2 DEF UnitInv
  <2>4. excused \/ unit = UnitOf[current] \/ \E d \in done : d.restart
    BY <2>2 DEF UnitInv
  <2>5. excused' \/ unit = UnitOf[current'] \/ restart' \/ \E d \in done : d.restart
    BY <2>1, <2>3, <2>4
  <2> QED BY <2>2, <2>5 DEF UnitInv
<1>6. CASE DeploymentFinished
  BY <1>6 DEF UnitInv, DeploymentFinished, linkVars, hashVars, managerVars
<1>7. CASE Notify
  BY <1>7 DEF UnitInv, Notify, linkVars
<1>8. ASSUME NEW list, NEW p, NEW q, Start(list, p, q) PROVE UnitInv'
  BY <1>8 DEF UnitInv, Start
<1>9. CASE ManagerReceive
  <2>1. CASE Start(Load(dpls, booted, current), booted, current)
    BY <1>8, <2>1
  <2>2. CASE /\ \E d \in done : ~d.restart
             /\ done' = {} /\ UNCHANGED <<linkVars, deployerVars, hashVars>>
    BY <2>2 DEF UnitInv, linkVars, deployerVars, hashVars
  <2> QED BY <1>9, <2>1, <2>2 DEF ManagerReceive
<1>10. CASE Restart \/ Reboot \/ RestartWithoutStore
  BY <1>8, <1>10 DEF Restart, Reboot, RestartWithoutStore
<1>11. CASE UNCHANGED vars
  BY <1>11 DEF UnitInv, vars, linkVars, deployerVars, hashVars, managerVars
<1> QED BY <1>1, <1>2, <1>3, <1>4, <1>5, <1>6, <1>7, <1>9, <1>10, <1>11 DEF Next

\* RunsCurrentUnit: a change of comin's unit file is followed by a restart of comin,
\* unless an activation failed or the unit file could not be read.
THEOREM CurrentUnitRuns == Spec => []RunsCurrentUnit
<1>1. Init => UnitInv
  BY DEF Init, UnitInv
<1>2. UnitInv => RunsCurrentUnit
  BY DEF UnitInv, RunsCurrentUnit
<1> QED BY <1>1, <1>2, UnitStep, PTL DEF Spec

-----------------------------------------------------------------------------
(* The order of the list.                                                  *)

\* From newer to older.
Ordered(list) == \A i, j \in 1..Len(list) : i < j => list[i].at >= list[j].at

\* Each element once.
Once(list) == \A i, j \in 1..Len(list) : i < j => list[i] # list[j]

\* Each dated element once, but for the first, which an update puts in front of itself.
TailOnce(list) ==
    \A i, j \in 1..Len(list) : 1 < i /\ i < j /\ list[i].at > 0 => list[i] # list[j]

\* A subsequence keeps the order, and the elements at different indices.
LEMMA SubsequenceOrder ==
    ASSUME NEW list \in Seq(Deployment), NEW I
    PROVE  /\ Ordered(list) => Ordered(Subsequence(list, I))
           /\ Once(list) => Once(Subsequence(list, I))
           /\ TailOnce(list) => TailOnce(Subsequence(list, I))
<1> DEFINE t == Subsequence(list, I)
<1>1. PICK f : t \in Seq(Deployment) /\ Selects(f, t, Len(list), list, I)
  BY SubsequenceSelects
<1> HIDE DEF t
<1>2. \A k \in 1..Len(t) : f[k] \in 1..Len(list) /\ t[k] = list[f[k]]
  BY <1>1 DEF Selects
<1>3. \A j, k \in 1..Len(t) : j < k => f[j] < f[k]
  BY <1>1 DEF Selects
<1>4. Ordered(list) => Ordered(t)
  BY <1>2, <1>3 DEF Ordered
<1>5. Once(list) => Once(t)
  BY <1>2, <1>3 DEF Once
<1>6. TailOnce(list) => TailOnce(t)
  <2>1. \A k \in 1..Len(t) : 1 < k => 1 < f[k]
    <3>1. Len(t) \in Nat
      BY <1>1, LenProperties
    <3>2. \A k \in 1..Len(t) : 1 \in 1..Len(t)
      BY <3>1
    <3> QED BY <1>2, <1>3, <3>2
  <2> QED BY <1>2, <1>3, <2>1 DEF TailOnce
<1> QED BY <1>4, <1>5, <1>6 DEF t

\* Distinct has every element once.
LEMMA DistinctOnce ==
    ASSUME NEW list \in Seq(Deployment)
    PROVE  Once(Distinct(list))
<1> DEFINE I == {i \in DOMAIN list : \A j \in 1..(i - 1) : list[j] # list[i]}
           t == Subsequence(list, I)
<1>1. PICK f : t \in Seq(Deployment) /\ Selects(f, t, Len(list), list, I)
  BY SubsequenceSelects
<1>2. Distinct(list) = t
  BY DEF Distinct
<1> HIDE DEF t
<1>3. \A k \in 1..Len(t) : f[k] \in 1..Len(list) /\ t[k] = list[f[k]] /\ f[k] \in I
  BY <1>1 DEF Selects
<1>4. \A j, k \in 1..Len(t) : j < k => f[j] < f[k]
  BY <1>1 DEF Selects
<1>5. ASSUME NEW j \in 1..Len(t), NEW k \in 1..Len(t), j < k PROVE t[j] # t[k]
  <2>1. f[j] \in 1..(f[k] - 1)
    BY <1>3, <1>4, <1>5
  <2> QED BY <1>3, <2>1
<1> QED BY <1>2, <1>5 DEF Once

\* Two lists one after the other.
LEMMA ConcatOrder ==
    ASSUME NEW s \in Seq(Deployment), NEW t \in Seq(Deployment)
    PROVE  /\ /\ Ordered(s) /\ Ordered(t)
              /\ \A x \in ToSet(s), y \in ToSet(t) : x.at >= y.at
              => Ordered(s \o t)
           /\ /\ Once(s) /\ Once(t)
              /\ \A x \in ToSet(s), y \in ToSet(t) : x # y
              => Once(s \o t)
<1> DEFINE u == s \o t
<1>1. /\ Len(u) = Len(s) + Len(t)
      /\ \A i \in 1..(Len(s) + Len(t)) : u[i] = IF i <= Len(s) THEN s[i] ELSE t[i - Len(s)]
  BY ConcatProperties
<1>2. Len(s) \in Nat /\ Len(t) \in Nat
  BY LenProperties
<1> HIDE DEF u
<1>3. ASSUME NEW i \in 1..Len(u), NEW j \in 1..Len(u), i < j
      PROVE  \/ i \in 1..Len(s) /\ j \in 1..Len(s) /\ u[i] = s[i] /\ u[j] = s[j]
             \/ /\ i - Len(s) \in 1..Len(t) /\ j - Len(s) \in 1..Len(t)
                /\ i - Len(s) < j - Len(s) /\ u[i] = t[i - Len(s)] /\ u[j] = t[j - Len(s)]
             \/ u[i] \in ToSet(s) /\ u[j] \in ToSet(t)
  <2>1. CASE j <= Len(s)
    BY <1>1, <1>2, <1>3, <2>1
  <2>2. CASE i > Len(s)
    BY <1>1, <1>2, <1>3, <2>2
  <2>3. CASE i <= Len(s) /\ j > Len(s)
    <3>1. i \in 1..Len(s) /\ u[i] = s[i] /\ j - Len(s) \in 1..Len(t) /\ u[j] = t[j - Len(s)]
      BY <1>1, <1>2, <1>3, <2>3
    <3> QED BY <3>1, InList
  <2> QED BY <1>2, <2>1, <2>2, <2>3
<1>4. ASSUME Ordered(s), Ordered(t), \A x \in ToSet(s), y \in ToSet(t) : x.at >= y.at
      PROVE  Ordered(u)
  BY <1>3, <1>4 DEF Ordered
<1>5. ASSUME Once(s), Once(t), \A x \in ToSet(s), y \in ToSet(t) : x # y
      PROVE  Once(u)
  BY <1>3, <1>5 DEF Once
<1> QED BY <1>4, <1>5 DEF u

\* A dummy at the end of a list.
LEMMA DummyOrder ==
    ASSUME NEW s \in Seq(Deployment), NEW e \in Deployment, e.at = 0
    PROVE  /\ Append(s, e) \in Seq(Deployment)
           /\ Ordered(s) => Ordered(Append(s, e))
           /\ TailOnce(s) => TailOnce(Append(s, e))
<1> DEFINE t == Append(s, e)
<1>1. /\ t \in Seq(Deployment) /\ Len(t) = Len(s) + 1 /\ Len(s) \in Nat /\ t[Len(s) + 1] = e
      /\ \A i \in 1..Len(s) : t[i] = s[i]
  BY AppendProperties, LenProperties
<1>2. \A i \in 1..Len(s) : s[i].at \in Nat
  <2>1. \A i \in 1..Len(s) : s[i] \in Deployment
    BY ElementOfSeq
  <2> QED BY <2>1, RetentionAssumption DEF Deployment
<1> HIDE DEF t
<1>3. \A i \in 1..Len(t) : i \in 1..Len(s) \/ i = Len(s) + 1
  BY <1>1
<1>4. \A i, j \in 1..Len(t) : i < j => i \in 1..Len(s)
  BY <1>1
<1>5. Ordered(s) => Ordered(t)
  BY <1>1, <1>2, <1>3, <1>4 DEF Ordered
<1>6. TailOnce(s) => TailOnce(t)
  BY <1>1, <1>2, <1>3, <1>4 DEF TailOnce
<1> QED BY <1>1, <1>5, <1>6 DEF t

\* The dummies of the first two steps do not disturb the order.
LEMMA CompletedOrder ==
    ASSUME NEW list \in Seq(Deployment), NEW boot \in OutPaths, NEW cur \in OutPaths
    PROVE  /\ Ordered(list) => Ordered(Completed(list, boot, cur))
           /\ TailOnce(list) => TailOnce(Completed(list, boot, cur))
<1> DEFINE b == Dummy(boot, "boot")
           c == Dummy(cur, "switch")
           l == IF \E d \in ToSet(list) : IsBooted(d, boot) THEN list ELSE Append(list, b)
           m == IF \E d \in ToSet(l) : IsCurrent(d, cur) THEN l ELSE Append(l, c)
<1>1. Completed(list, boot, cur) = m
  BY DEF Completed, Ensure
<1>2. b \in Deployment /\ b.at = 0 /\ c \in Deployment /\ c.at = 0
  BY DummyType
<1> HIDE DEF b, c
<1>3. l \in Seq(Deployment) /\ (Ordered(list) => Ordered(l)) /\ (TailOnce(list) => TailOnce(l))
  BY <1>2, DummyOrder
<1> HIDE DEF l
<1>4. (Ordered(l) => Ordered(m)) /\ (TailOnce(l) => TailOnce(m))
  BY <1>2, <1>3, DummyOrder
<1> HIDE DEF m
<1> QED BY <1>1, <1>3, <1>4

\* retention keeps the order of a list and removes duplicates.
LEMMA RetentionOrder ==
    ASSUME NEW list \in Seq(Deployment), Ordered(list), NEW boot \in OutPaths, NEW cur \in OutPaths
    PROVE  Ordered(retention(list, boot, cur)) /\ Once(retention(list, boot, cur))
<1> DEFINE all == Completed(list, boot, cur)
           kept == Kept(all, boot, cur)
           da == Distinct(all)
           dk == Distinct(kept)
           I == {i \in DOMAIN da : da[i].at > 0 /\ Contains(kept, da[i])}
           J == {i \in DOMAIN dk : dk[i].at = 0}
           s == Subsequence(da, I)
           t == Subsequence(dk, J)
<1>1. retention(list, boot, cur) = s \o t
  BY DEF retention, Select
<1>2. /\ all \in Seq(Deployment) /\ Ordered(all)
      /\ \E d \in ToSet(all) : IsBooted(d, boot)
      /\ \E d \in ToSet(all) : IsCurrent(d, cur)
  BY CompletedIs, CompletedOrder
<1> HIDE DEF all
<1>3. kept \in Seq(Deployment)
  BY <1>2, KeptIs
<1> HIDE DEF kept
<1>4. da \in Seq(Deployment) /\ Ordered(da) /\ Once(da)
  <2>1. Ordered(da)
    BY <1>2, SubsequenceOrder DEF Distinct
  <2> QED BY <1>2, <2>1, InDistinct, DistinctOnce
<1>5. dk \in Seq(Deployment) /\ Once(dk)
  BY <1>3, InDistinct, DistinctOnce
<1> HIDE DEF da, dk
<1>6. \A i \in 1..Len(da) : i \in I => da[i].at > 0
  OBVIOUS
<1>7. \A i \in 1..Len(dk) : i \in J => dk[i].at = 0
  OBVIOUS
<1> HIDE DEF I, J
<1>8. s \in Seq(Deployment) /\ Ordered(s) /\ Once(s) /\ \A x \in ToSet(s) : x.at > 0
  BY <1>4, <1>6, SubsequenceOrder, InSubsequence
<1>9. t \in Seq(Deployment) /\ Once(t) /\ \A x \in ToSet(t) : x.at = 0
  BY <1>5, <1>7, SubsequenceOrder, InSubsequence
<1> HIDE DEF s, t
<1>10. Ordered(t)
  <2>1. \A i \in 1..Len(t) : t[i].at = 0
    BY <1>9, InList
  <2> QED BY <2>1 DEF Ordered
<1>11. \A x \in ToSet(s), y \in ToSet(t) : x.at >= y.at /\ x # y
  <2>1. ToSet(s) \subseteq Deployment
    BY <1>8, InList
  <2> QED BY <1>8, <1>9, <2>1, RetentionAssumption DEF Deployment
<1> QED BY <1>1, <1>8, <1>9, <1>10, <1>11, ConcatOrder

\* Insert puts a deployment where it belongs.
LEMMA InsertOrder ==
    ASSUME NEW list \in Seq(Deployment), Ordered(list), NEW d \in Deployment
    PROVE  Insert(list, d) \in Seq(Deployment) /\ Ordered(Insert(list, d))
<1> DEFINE I == {i \in DOMAIN list : list[i].at >= d.at}
           J == {i \in DOMAIN list : list[i].at < d.at}
           s == Subsequence(list, I)
           m == <<d>>
           t == Subsequence(list, J)
           u == s \o m
<1>1. Insert(list, d) = u \o t
  BY DEF Insert, Select
<1>2. \A i \in 1..Len(list) : (i \in I => list[i].at >= d.at) /\ (i \in J => list[i].at < d.at)
  OBVIOUS
<1> HIDE DEF I, J
<1>3. s \in Seq(Deployment) /\ Ordered(s) /\ \A x \in ToSet(s) : x.at >= d.at
  BY <1>2, SubsequenceOrder, InSubsequence
<1>4. t \in Seq(Deployment) /\ Ordered(t) /\ \A x \in ToSet(t) : x.at < d.at
  BY <1>2, SubsequenceOrder, InSubsequence
<1>5. m \in Seq(Deployment) /\ ToSet(m) = {d} /\ Len(m) = 1
  BY InSingle
<1> HIDE DEF s, t, m
<1>6. Ordered(m)
  BY <1>5 DEF Ordered
<1>7. u \in Seq(Deployment) /\ Ordered(u) /\ ToSet(u) = ToSet(s) \union ToSet(m)
  BY <1>3, <1>5, <1>6, ConcatOrder, InConcat
<1> HIDE DEF u
<1>8. ToSet(u) \subseteq Deployment /\ ToSet(t) \subseteq Deployment
  BY <1>4, <1>7, InList
<1>9. \A x \in Deployment : x.at \in Nat
  BY RetentionAssumption DEF Deployment
<1>10. \A x \in ToSet(u) : x.at >= d.at
  BY <1>3, <1>5, <1>7, <1>9
<1>11. \A x \in ToSet(u), y \in ToSet(t) : x.at >= y.at
  BY <1>4, <1>8, <1>9, <1>10
<1> QED BY <1>1, <1>4, <1>7, <1>11, ConcatOrder, InConcat

\* Load keeps the order of the list.
LEMMA LoadOrder ==
    ASSUME NEW list \in Seq(Deployment), Ordered(list), NEW boot \in OutPaths, NEW cur \in OutPaths
    PROVE  Ordered(Load(list, boot, cur)) /\ Once(Load(list, boot, cur))
<1> DEFINE b == Dummy(boot, "boot")
           c == Dummy(cur, "switch")
           l1 == IF \E d \in ToSet(list) : d.outPath = boot THEN list ELSE Append(list, b)
           l2 == IF \E d \in ToSet(l1) : d.outPath = cur THEN l1 ELSE Append(l1, c)
<1>1. Load(list, boot, cur) = retention(l2, boot, cur)
  BY DEF Load, Ensure
<1>2. b \in Deployment /\ b.at = 0 /\ c \in Deployment /\ c.at = 0
  BY DummyType
<1> HIDE DEF b, c
<1>3. l1 \in Seq(Deployment) /\ Ordered(l1)
  BY <1>2, DummyOrder
<1> HIDE DEF l1
<1>4. l2 \in Seq(Deployment) /\ Ordered(l2)
  BY <1>2, <1>3, DummyOrder
<1> HIDE DEF l2
<1> QED BY <1>1, <1>4, RetentionOrder

\* Replacing a deployment by one with the same date keeps the order.
LEMMA ReplacedOrder ==
    ASSUME NEW list \in Seq(Deployment), Ordered(list), NEW old, NEW new \in Deployment,
           old.at = new.at
    PROVE  Ordered(ReplaceAll(list, old, new))
<1> DEFINE t == ReplaceAll(list, old, new)
<1>1. t = [i \in 1..Len(list) |-> IF list[i] = old THEN new ELSE list[i]]
  BY DEF ReplaceAll
<1>2. Len(list) \in Nat /\ \A i \in 1..Len(list) : list[i] \in Deployment
  BY LenProperties, ElementOfSeq
<1>3. t \in [1..Len(list) -> Deployment]
  BY <1>1, <1>2
<1>4. Len(t) = Len(list)
  BY <1>2, <1>3
<1>5. \A i \in 1..Len(list) : t[i].at = list[i].at
  BY <1>1
<1> HIDE DEF t
<1>6. Ordered(t)
  BY <1>4, <1>5 DEF Ordered
<1> QED BY <1>6 DEF t

OrderInv == Ordered(dpls) /\ Once(dpls)

\* Every step keeps the list in order, each deployment once.
LEMMA OrderStep == StoreInv /\ OrderInv /\ [Next]_vars => OrderInv'
<1> SUFFICES ASSUME StoreInv, OrderInv, [Next]_vars PROVE OrderInv'
  OBVIOUS
<1>0. /\ DateInv /\ UnderWayInv /\ dpls \in Seq(Deployment) /\ Ordered(dpls)
      /\ booted \in OutPaths /\ current \in OutPaths /\ read \in OutPaths /\ clock \in Nat
      /\ profilePath \in 0..MaxDeployments
  BY RetentionAssumption DEF StoreInv, DateInv, LinkInv, OrderInv
<1>1. ASSUME NEW list \in Seq(Deployment), Ordered(list), NEW d \in Deployment,
             NEW cur \in OutPaths, dpls' = updateDataDeployments(list, d, cur)
      PROVE  OrderInv'
  <2> DEFINE s == Insert(list, d)
  <2>1. s \in Seq(Deployment) /\ Ordered(s)
    BY <1>1, InsertOrder
  <2>2. dpls' = retention(s, booted, cur)
    BY <1>1 DEF updateDataDeployments
  <2> HIDE DEF s
  <2> QED BY <1>0, <2>1, <2>2, RetentionOrder DEF OrderInv
<1>2. ASSUME NEW p \in OutPaths, NEW op \in Operations, NewDeployment(p, op) PROVE OrderInv'
  <2> DEFINE d == [at |-> clock', outPath |-> p, op |-> op, status |-> "init", profile |-> 0]
  <2>1. dpls' = updateDataDeployments(dpls, d, current)
    BY <1>2 DEF NewDeployment
  <2>2. clock' \in 0..MaxDeployments
    BY <1>0, <1>2, RetentionAssumption DEF NewDeployment
  <2>3. d \in Deployment
    BY <2>2, RetentionAssumption DEF Deployment
  <2> HIDE DEF d
  <2> QED BY <1>0, <1>1, <2>1, <2>3
<1>3. ASSUME NEW d \in Deployment, pc # "idle", d.at = Latest.at, Update(d) PROVE OrderInv'
  <2> DEFINE list == ReplaceAll(dpls, Latest, d)
  <2>1. list \in Seq(Deployment) /\ Ordered(list)
    BY <1>0, <1>3, ReplacedIs, ReplacedOrder
  <2>2. dpls' = updateDataDeployments(list, d, read)
    BY <1>3 DEF Update
  <2> HIDE DEF list
  <2> QED BY <1>0, <1>1, <2>1, <2>2
<1>4. CASE DeploymentStarted
  <2> DEFINE d == [Latest EXCEPT !.status = "running"]
  <2>1. pc = "created" /\ Update(d)
    BY <1>4 DEF DeploymentStarted
  <2>2. d \in Deployment /\ d.at = Latest.at
    BY <1>0, <2>1, LatestIs DEF Deployment
  <2> HIDE DEF d
  <2> QED BY <1>3, <2>1, <2>2
<1>5. CASE DeploymentFinished
  <2> DEFINE d == [Latest EXCEPT !.status = IF err THEN "failed" ELSE "done",
                                 !.profile = profilePath]
  <2>1. pc = "finish" /\ Update(d)
    BY <1>5 DEF DeploymentFinished
  <2>2. d \in Deployment /\ d.at = Latest.at
    BY <1>0, <2>1, LatestIs DEF Deployment
  <2> HIDE DEF d
  <2> QED BY <1>3, <2>1, <2>2
<1>6. ASSUME NEW p \in OutPaths, NEW q \in OutPaths, Start(Load(dpls, p, q), p, q)
      PROVE  OrderInv'
  BY <1>0, <1>6, LoadOrder DEF OrderInv, Start
<1>7. CASE Restart \/ ManagerReceive
  BY <1>0, <1>6, <1>7 DEF Restart, ManagerReceive, OrderInv
<1>8. CASE Reboot
  <2>1. PICK p \in Range(profiles) \union {booted} : Start(Load(dpls, p, p), p, p)
    BY <1>8 DEF Reboot
  <2>2. p \in OutPaths
    BY <1>0, <2>1 DEF StoreInv, LinkInv, Range
  <2> QED BY <1>6, <2>1, <2>2
<1>9. CASE RestartWithoutStore
  <2>1. dpls' = <<>> /\ Len(<<>>) = 0
    BY <1>9 DEF RestartWithoutStore, Start
  <2>2. 1..Len(dpls') = {}
    BY <2>1
  <2> QED BY <2>2 DEF OrderInv, Ordered, Once
<1>10. CASE UNCHANGED dpls
  BY <1>10 DEF OrderInv
<1> QED BY <1>2, <1>4, <1>5, <1>7, <1>8, <1>9, <1>10 DEF Next, SetSystemProfile,
      RemoveProfiles, SwitchToConfiguration, Notify, vars

\* The types of the deployer's and of the manager's variables.
LocalType ==
    /\ pc \in {"idle", "created", "running", "remove", "switch", "finish", "notify"}
    /\ before \in Range(UnitOf) \union {NoHash} /\ unit \in Range(UnitOf)
    /\ done \subseteq [outPath: OutPaths, op: {"switch", "boot", "test", "null"},
                       restart: BOOLEAN]
    /\ seen \subseteq Deployment

FlagType ==
    err \in BOOLEAN /\ restart \in BOOLEAN /\ excused \in BOOLEAN /\ needToReboot \in BOOLEAN

\* Every step keeps the flags Boolean.
LEMMA FlagStep == FlagType /\ [Next]_vars => FlagType'
<1> SUFFICES ASSUME FlagType, [Next]_vars PROVE FlagType'
  OBVIOUS
<1>1. err' \in BOOLEAN
  BY DEF FlagType, Next, vars, linkVars, hashVars, managerVars, deployerVars, NewDeployment,
         DeploymentStarted, SetSystemProfile, RemoveProfiles, SwitchToConfiguration,
         DeploymentFinished, Notify, ManagerReceive, Restart, Reboot, RestartWithoutStore, Start
<1>2. restart' \in BOOLEAN
  BY DEF FlagType, Next, vars, linkVars, hashVars, managerVars, deployerVars, NewDeployment,
         DeploymentStarted, SetSystemProfile, RemoveProfiles, SwitchToConfiguration,
         DeploymentFinished, Notify, ManagerReceive, Restart, Reboot, RestartWithoutStore, Start
<1>3. excused' \in BOOLEAN
  BY DEF FlagType, Next, vars, linkVars, hashVars, managerVars, deployerVars, NewDeployment,
         DeploymentStarted, SetSystemProfile, RemoveProfiles, SwitchToConfiguration,
         DeploymentFinished, Notify, ManagerReceive, Restart, Reboot, RestartWithoutStore, Start
<1>4. needToReboot' \in BOOLEAN
  BY DEF FlagType, Next, vars, linkVars, hashVars, managerVars, deployerVars, NewDeployment,
         DeploymentStarted, SetSystemProfile, RemoveProfiles, SwitchToConfiguration,
         DeploymentFinished, Notify, ManagerReceive, Restart, Reboot, RestartWithoutStore, Start,
         NeedToReboot, RebootAtStart
<1> QED BY <1>1, <1>2, <1>3, <1>4 DEF FlagType

\* Every step keeps the other types.
LEMMA LocalStep == StoreInv /\ FlagType /\ LocalType /\ [Next]_vars => LocalType'
<1> SUFFICES ASSUME StoreInv, FlagType, LocalType, [Next]_vars PROVE LocalType'
  OBVIOUS
<1>0. /\ DateInv /\ UnderWayInv /\ booted \in OutPaths /\ current \in OutPaths /\ clock \in Nat
      /\ profilePath \in 0..MaxDeployments /\ restart \in BOOLEAN /\ MaxDeployments \in Nat
  BY RetentionAssumption DEF StoreInv, DateInv, LinkInv, FlagType
<1>1. \A p \in OutPaths : UnitOf[p] \in Range(UnitOf)
  BY RetentionAssumption DEF Range
<1>2. ASSUME NEW p \in OutPaths, NEW op \in Operations, NewDeployment(p, op) PROVE LocalType'
  <2>1. clock' \in 0..MaxDeployments
    BY <1>0, <1>2 DEF NewDeployment
  <2>2. [at |-> clock', outPath |-> p, op |-> op, status |-> "init", profile |-> 0] \in Deployment
    BY <1>0, <2>1, RetentionAssumption DEF Deployment
  <2> QED BY <1>2, <2>2 DEF NewDeployment, LocalType, hashVars, managerVars
<1>3. CASE DeploymentStarted
  <2>1. [Latest EXCEPT !.status = "running"] \in Deployment
    BY <1>0, <1>3, LatestIs DEF DeploymentStarted, Deployment
  <2> QED BY <1>3, <2>1 DEF DeploymentStarted, Update, LocalType, hashVars, managerVars
<1>4. CASE SetSystemProfile
  BY <1>0, <1>1, <1>4 DEF SetSystemProfile, LocalType, managerVars, cominUnitFileHash
<1>5. CASE RemoveProfiles
  BY <1>5 DEF RemoveProfiles, LocalType, hashVars, managerVars
<1>6. CASE SwitchToConfiguration
  BY <1>6 DEF SwitchToConfiguration, LocalType, managerVars
<1>7. CASE DeploymentFinished
  <2>1. [Latest EXCEPT !.status = IF err THEN "failed" ELSE "done", !.profile = profilePath]
          \in Deployment
    BY <1>0, <1>7, LatestIs DEF DeploymentFinished, Deployment
  <2> QED BY <1>7, <2>1 DEF DeploymentFinished, Update, LocalType, hashVars, managerVars
<1>8. CASE Notify
  <2>1. Latest \in Deployment
    BY <1>0, <1>8, LatestIs DEF Notify
  <2>2. [outPath |-> Latest.outPath, op |-> Latest.op, restart |-> restart]
          \in [outPath: OutPaths, op: {"switch", "boot", "test", "null"}, restart: BOOLEAN]
    BY <1>0, <2>1 DEF Deployment
  <2> QED BY <1>8, <2>2 DEF Notify, LocalType
<1>9. ASSUME NEW list, NEW p \in OutPaths, NEW q \in OutPaths, Start(list, p, q),
             seen' \subseteq Deployment
      PROVE  LocalType'
  BY <1>1, <1>9 DEF Start, LocalType
<1>10. CASE ManagerReceive
  <2>1. CASE done' = {} /\ UNCHANGED <<deployerVars, hashVars, seen>>
    BY <2>1 DEF LocalType, deployerVars, hashVars
  <2>2. CASE Start(Load(dpls, booted, current), booted, current) /\ UNCHANGED seen
    BY <1>0, <1>9, <2>2 DEF LocalType
  <2> QED BY <1>10, <2>1, <2>2 DEF ManagerReceive
<1>11. CASE Restart
  BY <1>0, <1>9, <1>11 DEF Restart, LocalType
<1>12. CASE Reboot
  <2>1. PICK p \in Range(profiles) \union {booted} : Start(Load(dpls, p, p), p, p)
    BY <1>12 DEF Reboot
  <2>2. p \in OutPaths
    BY <1>0, <2>1 DEF StoreInv, LinkInv, Range
  <2> QED BY <1>9, <1>12, <2>1, <2>2 DEF Reboot, LocalType
<1>13. CASE RestartWithoutStore
  BY <1>0, <1>9, <1>13 DEF RestartWithoutStore
<1>14. CASE UNCHANGED vars
  BY <1>14 DEF LocalType, vars, deployerVars, hashVars, managerVars
<1> QED BY <1>2, <1>3, <1>4, <1>5, <1>6, <1>7, <1>8, <1>10, <1>11, <1>12, <1>13, <1>14 DEF Next

TypeInv == StoreInv /\ OrderInv /\ FlagType /\ LocalType /\ UnitInv

\* The parts of TypeOK.
LEMMA TypesHold == TypeInv => TypeOK
<1> SUFFICES ASSUME TypeInv PROVE TypeOK
  OBVIOUS
<1>1. /\ dpls \in Seq(Deployment) /\ clock \in 0..MaxDeployments /\ MaxDeployments \in Nat
      /\ LinkInv
  BY RetentionAssumption DEF TypeInv, StoreInv, DateInv
<1>2. ToSet(dpls) \subseteq Deployment /\ DOMAIN dpls = 1..Len(dpls)
  BY <1>1, InList, LenProperties
<1>3. \A i, j \in DOMAIN dpls : i < j => dpls[i] # dpls[j] /\ dpls[i].at >= dpls[j].at
  BY <1>2 DEF TypeInv, OrderInv, Ordered, Once
<1>4. /\ DOMAIN profiles \subseteq 1..MaxDeployments /\ Range(profiles) \subseteq OutPaths
      /\ default \in 0..MaxDeployments /\ profilePath \in 0..MaxDeployments
      /\ booted \in OutPaths /\ current \in OutPaths /\ read \in OutPaths
  BY <1>1 DEF LinkInv, Range
<1>5. Cardinality(done) <= 1
  <2>1. CASE done = {}
    BY <2>1, FS_EmptySet
  <2>2. CASE done # {}
    <3>1. PICK d \in done : TRUE
      BY <2>2
    <3>2. done = {d}
      BY <3>1 DEF TypeInv, UnitInv
    <3>3. Cardinality({d}) = 1
      BY FS_Singleton
    <3> QED BY <3>2, <3>3
  <2> QED BY <2>1, <2>2
<1> QED BY <1>1, <1>2, <1>3, <1>4, <1>5 DEF TypeOK, TypeInv, FlagType, LocalType

\* The type invariant: among the rest, the list is sorted from newer to older and has no
\* deployment twice, whatever is created, updated, loaded or lost.
THEOREM TypeCorrect == Spec => []TypeOK
<1>1. Init => TypeInv
  <2> SUFFICES ASSUME Init PROVE TypeInv
    OBVIOUS
  <2>1. StoreInv
    BY StoreInit
  <2>2. OrderInv
    <3>1. <<>> \in Seq(Deployment) /\ Ordered(<<>>) /\ booted \in OutPaths /\ current \in OutPaths
      BY DEF Ordered, Init
    <3> QED BY <3>1, LoadOrder DEF Init, OrderInv
  <2>3. UnitOf[current] \in Range(UnitOf)
    BY RetentionAssumption DEF Range, Init
  <2>4. FlagType /\ LocalType /\ UnitInv
    BY <2>3 DEF Init, FlagType, LocalType, UnitInv
  <2> QED BY <2>1, <2>2, <2>4 DEF TypeInv
<1>2. TypeInv /\ [Next]_vars => TypeInv'
  BY StoreStep, OrderStep, FlagStep, LocalStep, UnitStep DEF TypeInv
<1> QED BY <1>1, <1>2, TypesHold, PTL DEF Spec

-----------------------------------------------------------------------------
(* The capacities.                                                         *)

\* Among the n first elements of a list in order is every one with fewer than n - 1 more
\* recent ones: the first element may be in the list twice.
LEMMA RecentTaken ==
    ASSUME NEW s \in Seq(Deployment), Ordered(s), TailOnce(s),
           NEW e \in ToSet(s), e.at > 0, \A x \in ToSet(s) : x.at = e.at => x = e,
           NEW P, IsFiniteSet(P), \A x \in ToSet(s) : x.at > e.at => x \in P,
           NEW n \in Nat, Cardinality(P) < n - 1
    PROVE  e \in ToSet(Take(s, n))
<1> DEFINE E == {i \in 1..Len(s) : s[i] = e}
<1>0. /\ Len(s) \in Nat /\ \A i \in 1..Len(s) : s[i] \in ToSet(s) /\ s[i].at \in Nat
      /\ e.at \in Nat /\ Cardinality(P) \in Nat
  <2>1. ToSet(s) \subseteq Deployment /\ Len(s) \in Nat /\ \A i \in 1..Len(s) : s[i] \in ToSet(s)
    BY InList
  <2>2. \A x \in Deployment : x.at \in Nat
    BY RetentionAssumption DEF Deployment
  <2> QED BY <2>1, <2>2, FS_CardinalityType
<1>1. PICK i \in E : \A j \in E : i <= j
  <2>1. E \in SUBSET Nat /\ E # {}
    BY <1>0, InList
  <2> HIDE DEF E
  <2> QED BY <2>1, LeastNatural
<1>2. \A j \in 2..(i - 1) : j \in 1..Len(s) /\ 1 < j /\ s[j].at > e.at /\ s[j] \in P
  <2>1. \A j \in 2..(i - 1) : j \in 1..Len(s) /\ 1 < j /\ j < i /\ s[j] # e
    BY <1>0, <1>1
  <2>2. \A j \in 2..(i - 1) : s[j].at >= e.at
    BY <1>1, <2>1 DEF Ordered
  <2> QED BY <1>0, <2>1, <2>2
<1>3. i <= n
  <2> DEFINE f == [j \in 2..(i - 1) |-> s[j]]
  <2>1. \A j, k \in 2..(i - 1) : s[j] = s[k] => j = k
    <3>1. \A j, k \in 2..(i - 1) : j < k => s[j] # s[k]
      BY <1>0, <1>2 DEF TailOnce
    <3>2. \A j, k \in 2..(i - 1) : j < k \/ k < j \/ j = k
      BY <1>1
    <3> QED BY <3>1, <3>2
  <2>2. f \in Injection(2..(i - 1), P)
    BY <1>2, <2>1 DEF Injection, IsInjective
  <2>3. Cardinality(2..(i - 1)) <= Cardinality(P)
    BY <2>2, FS_Injection
  <2>4. 2 \in Int /\ i - 1 \in Int /\ i \in Nat
    BY <1>1
  <2>5. Cardinality(2..(i - 1)) = IF 2 > i - 1 THEN 0 ELSE (i - 1) - 2 + 1
    BY <2>4, FS_Interval
  <2> QED BY <1>0, <2>3, <2>4, <2>5
<1> QED BY <1>1, <1>3, InTake

\* The systems of a set of deployments.
PathsOf(S) == {d.outPath : d \in S}

\* The boot entries of a set of deployments.
Boots(S) == {d \in S : isBootEntry(d) /\ Done(d)}

Newer(S, d) == {e \in S : e.at > d.at}

\* The latest boot entries of the last BootEntryCapacity systems.
NeededBoots(S) ==
    {d \in Boots(S) : /\ \A f \in Boots(S) : f.outPath = d.outPath => f.at <= d.at
                      /\ Cardinality(PathsOf(Newer(Boots(S), d))) < BootEntryCapacity}

\* The deployments of a set that the store must not forget.
Needed(S) ==
    MostRecent({d \in S : Done(d)}, SuccessfulCapacity - 1)
    \union MostRecent(S, AnyCapacity - 1)
    \union NeededBoots(S)

\* A finite set has finitely many systems.
LEMMA PathsFinite ==
    ASSUME NEW S, IsFiniteSet(S)
    PROVE  IsFiniteSet(PathsOf(S))
<1> DEFINE f == [d \in S |-> d.outPath]
<1>1. f \in Surjection(S, PathsOf(S))
  BY DEF Surjection, PathsOf
<1> QED BY <1>1, FS_Surjection

\* A list whose dated elements are those of S.
Lists(list, S) ==
    /\ list \in Seq(Deployment) /\ Ordered(list) /\ TailOnce(list)
    /\ \A x \in ToSet(list) : x.at > 0 => x \in S

\* Deployments with different dates.
Dated(S) ==
    /\ IsFiniteSet(S) /\ S \subseteq Deployment
    /\ \A d \in S : d.at > 0
    /\ \A d, e \in S : d.at = e.at => d = e

\* The third step keeps the boot entries.
LEMMA BootsKept ==
    ASSUME NEW S, Dated(S), NEW all, Lists(all, S), NEW d \in NeededBoots(S), d \in ToSet(all)
    PROVE  d \in deploymentsBootEntry(all)
<1> DEFINE I == {i \in DOMAIN all : isBootEntry(all[i]) /\ Done(all[i])}
           entries == Subsequence(all, I)
           pathsBefore(i) == {entries[j].outPath : j \in 1..(i - 1)}
           newPaths == {i \in DOMAIN entries : entries[i].outPath \notin pathsBefore(i)}
<1>1. deploymentsBootEntry(all) =
        {entries[i] : i \in {k \in newPaths : Cardinality(pathsBefore(k)) < BootEntryCapacity}}
  BY DEF deploymentsBootEntry, Select
<1>2. all \in Seq(Deployment) /\ Ordered(all) /\ \A x \in ToSet(all) : x.at > 0 => x \in S
  BY DEF Lists
<1>3. \A i \in 1..Len(all) : i \in I <=> isBootEntry(all[i]) /\ Done(all[i])
  BY <1>2, LenProperties
<1> HIDE DEF I
<1>4. entries \in Seq(Deployment) /\ Ordered(entries)
  BY <1>2, InSubsequence, SubsequenceOrder
<1>5. \A x : x \in ToSet(entries) <=> x \in ToSet(all) /\ isBootEntry(x) /\ Done(x)
  BY <1>2, <1>3, InSubsequence, InList
<1> HIDE DEF entries
<1>6. /\ d \in S /\ isBootEntry(d) /\ Done(d)
      /\ \A f \in Boots(S) : f.outPath = d.outPath => f.at <= d.at
      /\ Cardinality(PathsOf(Newer(Boots(S), d))) < BootEntryCapacity
  BY DEF NeededBoots, Boots
<1> DEFINE E == {i \in 1..Len(entries) : entries[i] = d}
<1>7. PICK i \in E : \A j \in E : i <= j
  <2>1. E \in SUBSET Nat /\ E # {}
    BY <1>4, <1>5, <1>6, InList
  <2> HIDE DEF E
  <2> QED BY <2>1, LeastNatural
<1>8. i \in 1..Len(entries) /\ entries[i] = d /\ Len(entries) \in Nat
  BY <1>4, <1>7, LenProperties
<1>9. \A x \in S : x.at \in Nat /\ x.at > 0
  BY RetentionAssumption DEF Dated, Deployment
<1>10. ASSUME NEW j \in 1..(i - 1) PROVE entries[j] \in Newer(Boots(S), d)
  <2>1. j \in 1..Len(entries) /\ j < i /\ entries[j] # d
    BY <1>7, <1>8
  <2>2. entries[j].at >= d.at
    BY <1>4, <1>8, <2>1 DEF Ordered
  <2>3. entries[j] \in ToSet(entries) /\ entries[j] \in Deployment
    BY <1>4, <2>1, InList
  <2>4. entries[j].at \in Nat
    BY <2>3, RetentionAssumption DEF Deployment
  <2>5. entries[j] \in S
    BY <1>2, <1>5, <1>6, <1>9, <2>2, <2>3, <2>4
  <2>6. entries[j].at # d.at
    BY <1>6, <2>1, <2>5 DEF Dated
  <2> QED BY <1>5, <1>6, <1>9, <2>2, <2>3, <2>4, <2>5, <2>6 DEF Newer, Boots
<1>11. pathsBefore(i) \subseteq PathsOf(Newer(Boots(S), d))
  BY <1>10 DEF PathsOf
<1>12. d.outPath \notin pathsBefore(i)
  <2>1. \A e \in Newer(Boots(S), d) : e.outPath # d.outPath
    BY <1>6, <1>9 DEF Newer, Boots
  <2> QED BY <1>10, <2>1
<1>13. Cardinality(pathsBefore(i)) < BootEntryCapacity
  <2>1. IsFiniteSet(PathsOf(Newer(Boots(S), d)))
    <3>1. Newer(Boots(S), d) \in SUBSET S
      BY DEF Newer, Boots
    <3>2. IsFiniteSet(Newer(Boots(S), d))
      BY <3>1, FS_Subset DEF Dated
    <3> QED BY <3>2, PathsFinite
  <2> HIDE DEF pathsBefore
  <2>2. pathsBefore(i) \in SUBSET PathsOf(Newer(Boots(S), d))
    BY <1>11
  <2>3. /\ Cardinality(pathsBefore(i)) <= Cardinality(PathsOf(Newer(Boots(S), d)))
        /\ IsFiniteSet(pathsBefore(i))
    BY <2>1, <2>2, FS_Subset
  <2>4. /\ Cardinality(pathsBefore(i)) \in Nat
        /\ Cardinality(PathsOf(Newer(Boots(S), d))) \in Nat /\ BootEntryCapacity \in Nat
    BY <2>1, <2>3, FS_CardinalityType, RetentionAssumption
  <2> QED BY <1>6, <2>3, <2>4
<1>14. i \in newPaths
  BY <1>4, <1>8, <1>12, LenProperties
<1> HIDE DEF newPaths, pathsBefore
<1> QED BY <1>1, <1>8, <1>13, <1>14

\* The five steps keep what is needed, of a list that has it.
LEMMA NeededKept ==
    ASSUME NEW S, Dated(S), NEW list, Lists(list, S), Needed(S) \subseteq ToSet(list),
           NEW boot \in OutPaths, NEW cur \in OutPaths
    PROVE  Needed(S) \subseteq ToSet(retention(list, boot, cur))
<1> DEFINE all == Completed(list, boot, cur)
           D == {i \in DOMAIN all : Done(all[i])}
           l == Subsequence(all, D)
<1>1. list \in Seq(Deployment)
  BY DEF Lists
<1>2. /\ all \in Seq(Deployment) /\ ToSet(list) \subseteq ToSet(all)
      /\ ToSet(all) \subseteq ToSet(list) \union Dummies(boot, cur)
      /\ \E d \in ToSet(all) : IsBooted(d, boot)
      /\ \E d \in ToSet(all) : IsCurrent(d, cur)
  BY <1>1, CompletedIs DEF Dummies
<1>3. Lists(all, S)
  <2>1. \A e \in Dummies(boot, cur) : e.at = 0
    BY DummyType DEF Dummies
  <2>2. \A x \in ToSet(all) : x.at > 0 => x \in S
    BY <1>2, <2>1 DEF Lists
  <2>3. Ordered(all) /\ TailOnce(all)
    BY <1>1, CompletedOrder DEF Lists
  <2> HIDE DEF all
  <2> QED BY <1>2, <2>2, <2>3 DEF Lists
<1>4. ToSet(retention(list, boot, cur)) = ToSet(Kept(all, boot, cur))
  BY <1>1, RetentionIs
<1> HIDE DEF all
<1>5. /\ ToSet(all) \intersect deploymentsBootEntry(all) \subseteq ToSet(Kept(all, boot, cur))
      /\ ToSet(deploymentsSuccessful(all)) \subseteq ToSet(Kept(all, boot, cur))
      /\ ToSet(deploymentsAny(all)) \subseteq ToSet(Kept(all, boot, cur))
  BY <1>2, KeptIs
<1>6. /\ SuccessfulCapacity \in Nat /\ AnyCapacity \in Nat
      /\ IsFiniteSet(S) /\ \A x \in S : x.at \in Nat /\ x.at > 0
  BY RetentionAssumption DEF Dated, Deployment
<1>7. ASSUME NEW d \in MostRecent(S, AnyCapacity - 1)
      PROVE  d \in ToSet(deploymentsAny(all))
  <2>1. d \in S /\ d \in ToSet(all) /\ Cardinality(Newer(S, d)) < AnyCapacity - 1
    BY <1>2 DEF MostRecent, Needed, Newer
  <2>2. IsFiniteSet(Newer(S, d))
    <3>1. Newer(S, d) \in SUBSET S
      BY DEF Newer
    <3> QED BY <1>6, <3>1, FS_Subset
  <2>3. \A x \in ToSet(all) : x.at > d.at => x \in Newer(S, d)
    <3>1. ToSet(all) \subseteq Deployment
      BY <1>2, InList
    <3>2. \A x \in ToSet(all) : x.at \in Nat
      BY <3>1, RetentionAssumption DEF Deployment
    <3> QED BY <1>3, <1>6, <2>1, <3>2 DEF Newer, Lists
  <2>4. \A x \in ToSet(all) : x.at = d.at => x = d
    BY <1>3, <1>6, <2>1 DEF Lists, Dated
  <2> QED BY <1>2, <1>3, <1>6, <2>1, <2>2, <2>3, <2>4, RecentTaken DEF Lists, deploymentsAny
<1>8. ASSUME NEW d \in MostRecent({x \in S : Done(x)}, SuccessfulCapacity - 1)
      PROVE  d \in ToSet(deploymentsSuccessful(all))
  <2> DEFINE P == Newer({x \in S : Done(x)}, d)
  <2>1. d \in S /\ Done(d) /\ d \in ToSet(all) /\ Cardinality(P) < SuccessfulCapacity - 1
    BY <1>2 DEF MostRecent, Needed, Newer
  <2>2. IsFiniteSet(P)
    <3>1. P \in SUBSET S
      BY DEF Newer
    <3> QED BY <1>6, <3>1, FS_Subset
  <2>3. \A i \in 1..Len(all) : i \in D <=> Done(all[i])
    BY <1>2, LenProperties
  <2> HIDE DEF D
  <2>4. /\ l \in Seq(Deployment) /\ Ordered(l) /\ TailOnce(l)
        /\ \A x : x \in ToSet(l) <=> x \in ToSet(all) /\ Done(x)
    <3>1. Ordered(l) /\ TailOnce(l)
      BY <1>2, <1>3, SubsequenceOrder DEF Lists
    <3> QED BY <1>2, <2>3, <3>1, InSubsequence, InList
  <2>5. deploymentsSuccessful(all) = Take(l, SuccessfulCapacity)
    BY DEF deploymentsSuccessful, Select, D
  <2> HIDE DEF l
  <2>6. \A x \in ToSet(l) : x.at > d.at => x \in P
    <3>1. ToSet(l) \subseteq Deployment
      BY <2>4, InList
    <3>2. \A x \in ToSet(l) : x.at \in Nat
      BY <3>1, RetentionAssumption DEF Deployment
    <3> QED BY <1>3, <1>6, <2>1, <2>4, <3>2 DEF Newer, Lists
  <2>7. \A x \in ToSet(l) : x.at = d.at => x = d
    BY <1>3, <1>6, <2>1, <2>4 DEF Lists, Dated
  <2> HIDE DEF P
  <2>8. d \in ToSet(l) /\ d.at > 0
    BY <1>6, <2>1, <2>4
  <2> QED BY <1>6, <2>1, <2>2, <2>4, <2>5, <2>6, <2>7, <2>8, RecentTaken
<1>9. ASSUME NEW d \in NeededBoots(S)
      PROVE  d \in ToSet(all) \intersect deploymentsBootEntry(all)
  BY <1>2, <1>3, BootsKept DEF Needed
<1> QED BY <1>4, <1>5, <1>7, <1>8, <1>9 DEF Needed

\* A deployment that is inserted in front is in the list at most twice.
LEMMA InsertTail ==
    ASSUME NEW list \in Seq(Deployment), Once(list), NEW d \in Deployment,
           \A e \in ToSet(list) : e.at >= d.at => e = d
    PROVE  TailOnce(Insert(list, d))
<1> DEFINE I == {i \in DOMAIN list : list[i].at >= d.at}
           J == {i \in DOMAIN list : list[i].at < d.at}
           s == Subsequence(list, I)
           m == <<d>>
           t == Subsequence(list, J)
           u == s \o m
           v == u \o t
<1>1. Insert(list, d) = v
  BY DEF Insert, Select
<1>2. \A i \in 1..Len(list) : (i \in I => list[i].at >= d.at) /\ (i \in J => list[i].at < d.at)
  OBVIOUS
<1> HIDE DEF I, J
<1>3. s \in Seq(Deployment) /\ Once(s) /\ \A x \in ToSet(s) : x = d
  BY <1>2, SubsequenceOrder, InSubsequence, InList
<1>4. t \in Seq(Deployment) /\ Once(t) /\ \A x \in ToSet(t) : x.at < d.at
  BY <1>2, SubsequenceOrder, InSubsequence
<1>5. m \in Seq(Deployment) /\ ToSet(m) = {d} /\ Len(m) = 1
  BY InSingle
<1> HIDE DEF s, t, m
<1>6. Len(s) \in Nat /\ Len(s) <= 1 /\ Len(t) \in Nat
  <2>1. Len(s) \in Nat /\ Len(t) \in Nat
    BY <1>3, <1>4, LenProperties
  <2>2. ASSUME Len(s) > 1 PROVE FALSE
    <3>1. 1 \in 1..Len(s) /\ 2 \in 1..Len(s) /\ 1 < 2
      BY <2>1, <2>2
    <3>2. s[1] = d /\ s[2] = d
      BY <1>3, <3>1, InList
    <3> QED BY <1>3, <3>1, <3>2 DEF Once
  <2> QED BY <2>1, <2>2
<1>7. u \in Seq(Deployment) /\ Len(u) \in Nat /\ Len(u) <= 2 /\ \A x \in ToSet(u) : x = d
  <2>1. Len(u) = Len(s) + Len(m)
    BY <1>3, <1>5, ConcatProperties
  <2>2. u \in Seq(Deployment) /\ ToSet(u) = ToSet(s) \union ToSet(m)
    BY <1>3, <1>5, InConcat
  <2> HIDE DEF u
  <2> QED BY <1>3, <1>5, <1>6, <2>1, <2>2
<1> HIDE DEF u
<1>8. /\ Len(v) = Len(u) + Len(t)
      /\ \A i \in 1..(Len(u) + Len(t)) : v[i] = IF i <= Len(u) THEN u[i] ELSE t[i - Len(u)]
  BY <1>4, <1>7, ConcatProperties
<1> HIDE DEF v
<1>9. ASSUME NEW i \in 1..Len(v), NEW j \in 1..Len(v), 1 < i, i < j PROVE v[i] # v[j]
  <2>1. j - Len(u) \in 1..Len(t) /\ v[j] = t[j - Len(u)]
    BY <1>6, <1>7, <1>8, <1>9
  <2>2. CASE i <= Len(u)
    <3>1. i \in 1..Len(u) /\ v[i] = u[i]
      BY <1>6, <1>7, <1>8, <2>2
    <3>2. v[i] = d /\ v[j].at < d.at
      BY <1>4, <1>7, <2>1, <3>1, InList
    <3>3. d.at \in Nat
      BY RetentionAssumption DEF Deployment
    <3> QED BY <3>2, <3>3
  <2>3. CASE i > Len(u)
    <3>1. i - Len(u) \in 1..Len(t) /\ v[i] = t[i - Len(u)] /\ i - Len(u) < j - Len(u)
      BY <1>6, <1>7, <1>8, <1>9, <2>3
    <3> QED BY <1>4, <2>1, <3>1 DEF Once
  <2> QED BY <1>7, <2>2, <2>3
<1> QED BY <1>1, <1>9 DEF TailOnce

\* The deployment under way is replaced by one of the same date, which no other has.
LEMMA ReplacedOnce ==
    ASSUME NEW list \in Seq(Deployment), Once(list), NEW old, NEW new \in Deployment,
           \A e \in ToSet(list) : e.at = new.at => e = old
    PROVE  /\ Once(ReplaceAll(list, old, new))
           /\ \A e \in ToSet(list) : e # old => e \in ToSet(ReplaceAll(list, old, new))
<1> DEFINE t == ReplaceAll(list, old, new)
<1>1. Len(list) \in Nat /\ \A i \in 1..Len(list) : list[i] \in Deployment /\ list[i] \in ToSet(list)
  BY LenProperties, ElementOfSeq, InList
<1>2. t = [i \in 1..Len(list) |-> IF list[i] = old THEN new ELSE list[i]]
  BY DEF ReplaceAll
<1>3. t \in [1..Len(list) -> Deployment]
  BY <1>1, <1>2
<1>4. t \in Seq(Deployment) /\ Len(t) = Len(list)
  BY <1>1, <1>3
<1>5. \A i \in 1..Len(list) : t[i] = IF list[i] = old THEN new ELSE list[i]
  BY <1>2
<1> HIDE DEF t
<1>6. \A i, j \in 1..Len(list) : t[i] = t[j] => list[i] = list[j]
  BY <1>1, <1>5
<1>7. Once(t)
  BY <1>4, <1>6 DEF Once
<1>8. \A e \in ToSet(list) : e # old => e \in ToSet(t)
  BY <1>4, <1>5, InList
<1> QED BY <1>7, <1>8 DEF t

\* When the most recent deployment of a set is added, or takes the place of one that was
\* not successful, nothing else becomes needed.
LEMMA NeededGrows ==
    ASSUME NEW R, NEW S, NEW o, NEW d, IsFiniteSet(R), R \subseteq Deployment,
           d \in Deployment, S = R \/ S = R \union {o}, ~Done(o), o.at = d.at,
           \A e \in R : e.at < d.at
    PROVE  \A x \in Needed(R \union {d}) : x = d \/ (x \in Needed(S) /\ x \in R)
<1> DEFINE T == R \union {d}
<1>0. d.at \in Nat /\ \A e \in R : e.at \in Nat
  BY RetentionAssumption DEF Deployment
<1> SUFFICES ASSUME NEW x \in Needed(T), x # d PROVE x \in Needed(S) /\ x \in R
  OBVIOUS
<1>1. x \in R /\ x \in S /\ x.at \in Nat /\ x.at < d.at
  BY <1>0 DEF Needed, MostRecent, NeededBoots, Boots
<1>2. IsFiniteSet(S) /\ IsFiniteSet(T)
  BY FS_AddElement
<1>3. CASE x \in MostRecent(T, AnyCapacity - 1)
  <2> DEFINE A == {e \in R : e.at > x.at}
             U == {e \in S : e.at > x.at}
             V == {e \in T : e.at > x.at}
  <2>1. IsFiniteSet(A)
    BY FS_Subset
  <2>2. d \notin A /\ o \notin A
    BY <1>0
  <2>3. V = A \union {d}
    BY <1>1
  <2>4. U = A \/ U = A \union {o}
    BY <1>1
  <2>5. Cardinality(V) < AnyCapacity - 1
    BY <1>3 DEF MostRecent
  <2> HIDE DEF A, U, V
  <2>6. /\ Cardinality(V) = Cardinality(A) + 1 /\ Cardinality(A) \in Nat
        /\ Cardinality(U) = Cardinality(A) \/ Cardinality(U) = Cardinality(A) + 1
    BY <2>1, <2>2, <2>3, <2>4, FS_AddElement, FS_CardinalityType
  <2>7. AnyCapacity \in Nat
    BY RetentionAssumption
  <2>8. Cardinality(U) < AnyCapacity - 1
    BY <2>5, <2>6, <2>7
  <2> QED BY <1>1, <2>8 DEF Needed, MostRecent, U
<1>4. CASE x \in MostRecent({e \in T : Done(e)}, SuccessfulCapacity - 1)
  <2> DEFINE A == {e \in {f \in S : Done(f)} : e.at > x.at}
             B == {e \in {f \in T : Done(f)} : e.at > x.at}
  <2>1. A \in SUBSET B /\ B \in SUBSET T
    OBVIOUS
  <2>2. Done(x) /\ Cardinality(B) < SuccessfulCapacity - 1
    BY <1>4 DEF MostRecent
  <2> HIDE DEF A, B, T
  <2>3. IsFiniteSet(B)
    BY <1>2, <2>1, FS_Subset
  <2>4. IsFiniteSet(A) /\ Cardinality(A) <= Cardinality(B)
    BY <2>1, <2>3, FS_Subset
  <2>5. Cardinality(A) \in Nat /\ Cardinality(B) \in Nat /\ SuccessfulCapacity \in Nat
    BY <2>3, <2>4, FS_CardinalityType, RetentionAssumption
  <2>6. Cardinality(A) < SuccessfulCapacity - 1
    BY <2>2, <2>4, <2>5
  <2> QED BY <1>1, <2>2, <2>6 DEF Needed, MostRecent, A
<1>5. CASE x \in NeededBoots(T)
  <2> DEFINE A == PathsOf(Newer(Boots(S), x))
             B == PathsOf(Newer(Boots(T), x))
  <2>1. Boots(S) \subseteq Boots(T) /\ x \in Boots(S)
    BY <1>1, <1>5 DEF Boots, NeededBoots
  <2>2. A \in SUBSET B
    BY <2>1 DEF PathsOf, Newer
  <2>3. \A f \in Boots(S) : f.outPath = x.outPath => f.at <= x.at
    BY <1>5, <2>1 DEF NeededBoots
  <2>4. Cardinality(B) < BootEntryCapacity
    BY <1>5 DEF NeededBoots
  <2>5. IsFiniteSet(B)
    <3>1. Newer(Boots(T), x) \in SUBSET T
      BY DEF Newer, Boots
    <3>2. IsFiniteSet(Newer(Boots(T), x))
      BY <1>2, <3>1, FS_Subset
    <3> QED BY <3>2, PathsFinite
  <2> HIDE DEF A, B
  <2>6. IsFiniteSet(A) /\ Cardinality(A) <= Cardinality(B)
    BY <2>2, <2>5, FS_Subset
  <2>7. Cardinality(A) \in Nat /\ Cardinality(B) \in Nat /\ BootEntryCapacity \in Nat
    BY <2>5, <2>6, FS_CardinalityType, RetentionAssumption
  <2>8. Cardinality(A) < BootEntryCapacity
    BY <2>4, <2>6, <2>7
  <2> QED BY <1>1, <2>1, <2>3, <2>8 DEF Needed, NeededBoots, A
<1> QED BY <1>3, <1>4, <1>5 DEF Needed

\* The deployments of the history have different dates, and the list has no other.
SeenInv ==
    /\ Dated(seen)
    /\ \A d \in seen : d.at <= clock
    /\ \A d \in ToSet(dpls) : d.at > 0 => d \in seen

\* The deployment under way is not yet successful.
StatusInv == pc \in {"created", "running", "remove", "switch", "finish"} => ~Done(dpls[1])

NeededInv == Needed(seen) \subseteq ToSet(dpls)

\* A link of a system exists.
Linked(n, p) == n \in DOMAIN profiles /\ profiles[n] = p

\* So does the link of every boot entry, and the one that the deployer has made.
LinkedInv ==
    /\ \A d \in ToSet(dpls) : d.at > 0 /\ isBootEntry(d) /\ Done(d) => Linked(d.profile, d.outPath)
    /\ pc \in {"remove", "switch"} \/ (pc = "finish" /\ ~err) =>
         (isBootEntry(dpls[1]) => Linked(profilePath, dpls[1].outPath))

HistoryInv == StoreInv /\ OrderInv /\ SeenInv /\ NeededInv

\* What the invariant says of the list and of the history.
LEMMA HistoryIs ==
    ASSUME HistoryInv
    PROVE  /\ DateInv /\ UnderWayInv /\ dpls \in Seq(Deployment) /\ ToSet(dpls) \subseteq Deployment
           /\ clock \in Nat /\ booted \in OutPaths /\ current \in OutPaths /\ read \in OutPaths
           /\ Dated(seen) /\ Once(dpls) /\ Ordered(dpls) /\ Needed(seen) \subseteq ToSet(dpls)
           /\ \A e \in seen : e.at \in Nat /\ e.at <= clock /\ e.at > 0
<1>1. /\ DateInv /\ UnderWayInv /\ dpls \in Seq(Deployment) /\ clock \in Nat
      /\ booted \in OutPaths /\ current \in OutPaths /\ read \in OutPaths
  BY RetentionAssumption DEF HistoryInv, StoreInv, DateInv, LinkInv
<1>2. Dated(seen) /\ Once(dpls) /\ Ordered(dpls) /\ Needed(seen) \subseteq ToSet(dpls)
  BY DEF HistoryInv, OrderInv, SeenInv, NeededInv
<1>3. ToSet(dpls) \subseteq Deployment
  BY <1>1, InList
<1>4. \A e \in seen : e.at \in Nat
  BY <1>2, RetentionAssumption DEF Dated, Deployment
<1>5. \A e \in seen : e.at <= clock /\ e.at > 0
  BY DEF HistoryInv, SeenInv, Dated
<1> QED BY <1>1, <1>2, <1>3, <1>4, <1>5

\* The creation of a deployment.
LEMMA NewDeploymentIsSeen ==
    ASSUME HistoryInv, NEW p \in OutPaths, NEW op \in Operations, NewDeployment(p, op)
    PROVE  /\ SeenInv' /\ NeededInv' /\ ~Done(dpls'[1])
           /\ \A e \in ToSet(dpls') : e.at > 0 /\ Done(e) => e \in ToSet(dpls)
<1> DEFINE d == [at |-> clock + 1, outPath |-> p, op |-> op, status |-> "init", profile |-> 0]
           list == Insert(dpls, d)
           S == seen \union {d}
<1>0. /\ clock \in Nat /\ dpls \in Seq(Deployment) /\ booted \in OutPaths /\ current \in OutPaths
      /\ Dated(seen) /\ Once(dpls) /\ Ordered(dpls) /\ Needed(seen) \subseteq ToSet(dpls)
      /\ \A e \in seen : e.at \in Nat /\ e.at <= clock /\ e.at > 0
      /\ ToSet(dpls) \subseteq Deployment
  BY HistoryIs
<1>1. /\ clock' = clock + 1 /\ clock + 1 \in 0..MaxDeployments /\ seen' = S
      /\ dpls' = retention(list, booted, current)
  BY <1>0, RetentionAssumption DEF NewDeployment, updateDataDeployments
<1>2. d \in Deployment /\ d.at = clock + 1 /\ d.at > 0 /\ ~Done(d)
  BY <1>0, <1>1, RetentionAssumption DEF Deployment, Done
<1> HIDE DEF d
<1>3. \A e \in ToSet(dpls) : ~(e.at >= d.at)
  <2>1. \A e \in ToSet(dpls) : e.at \in Nat /\ e.at <= clock
    BY <1>0, RetentionAssumption DEF HistoryInv, StoreInv, DateInv, Deployment
  <2> QED BY <1>0, <1>2, <2>1
<1>4. Dated(S) /\ \A e \in S : e.at <= clock'
  <2>1. IsFiniteSet(S)
    BY <1>0, FS_AddElement DEF Dated
  <2>2. \A e \in S : e.at > 0 /\ e.at <= clock'
    BY <1>0, <1>1, <1>2
  <2>3. \A e, f \in S : e.at = f.at => e = f
    BY <1>0, <1>2 DEF Dated
  <2>4. S \subseteq Deployment
    BY <1>0, <1>2 DEF Dated
  <2> HIDE DEF S
  <2> QED BY <2>1, <2>2, <2>3, <2>4 DEF Dated
<1>5. list \in Seq(Deployment) /\ ToSet(list) = ToSet(dpls) \union {d}
  BY <1>0, <1>2, <1>3, InsertIs
<1>6. Lists(list, S)
  <2>1. Ordered(list) /\ TailOnce(list)
    BY <1>0, <1>2, <1>3, InsertOrder, InsertTail
  <2>2. \A x \in ToSet(list) : x.at > 0 => x \in S
    BY <1>5 DEF HistoryInv, SeenInv
  <2> HIDE DEF list, S
  <2> QED BY <1>5, <2>1, <2>2 DEF Lists
<1>7. Needed(S) \subseteq ToSet(list)
  <2>1. \A e \in seen : e.at < d.at
    BY <1>0, <1>2
  <2>2. \A x \in Needed(S) : x = d \/ x \in Needed(seen)
    BY <1>0, <1>2, <2>1, NeededGrows DEF Dated
  <2> HIDE DEF S, list
  <2> QED BY <1>0, <1>5, <2>2
<1>8. NeededInv'
  <2> HIDE DEF S, list
  <2> QED BY <1>0, <1>1, <1>4, <1>6, <1>7, NeededKept DEF NeededInv
<1>9. /\ dpls'[1] = d
      /\ ToSet(dpls') \subseteq ToSet(dpls) \union {d} \union Dummies(booted, current)
  BY <1>0, <1>1, <1>2, <1>3, UpdatedIs
<1>10. \A e \in ToSet(dpls') : e.at > 0 => e \in ToSet(dpls) \union {d}
  <2>1. \A e \in Dummies(booted, current) : e.at = 0
    BY <1>0, DummyType DEF Dummies
  <2> QED BY <1>9, <2>1
<1>11. SeenInv'
  <2>1. \A e \in ToSet(dpls') : e.at > 0 => e \in S
    BY <1>10 DEF HistoryInv, SeenInv
  <2> HIDE DEF S
  <2> QED BY <1>1, <1>4, <2>1 DEF SeenInv
<1> QED BY <1>2, <1>8, <1>9, <1>10, <1>11

\* The update of the deployment under way.
LEMMA UpdateIsSeen ==
    ASSUME HistoryInv, pc # "idle", ~Done(dpls[1]), NEW d \in Deployment, d.at = clock,
           Update(d), UNCHANGED <<clock, booted, current, read>>
    PROVE  /\ SeenInv' /\ NeededInv' /\ dpls'[1] = d
           /\ \A e \in ToSet(dpls') : e.at > 0 => e = d \/ e \in ToSet(dpls)
<1>0. /\ DateInv /\ UnderWayInv /\ dpls \in Seq(Deployment) /\ booted \in OutPaths
      /\ read \in OutPaths /\ Dated(seen) /\ Once(dpls) /\ Ordered(dpls)
      /\ Needed(seen) \subseteq ToSet(dpls)
      /\ \A e \in seen : e.at \in Nat /\ e.at <= clock /\ e.at > 0
      /\ ToSet(dpls) \subseteq Deployment
  BY HistoryIs
<1> DEFINE o == Latest
           R == {e \in seen : e.at # d.at}
           S == R \union {d}
           l == ReplaceAll(dpls, o, d)
           list == Insert(l, d)
<1>1. /\ o = dpls[1] /\ o \in ToSet(dpls) /\ o.at = clock /\ clock \in Nat /\ clock > 0
      /\ o \in seen /\ ~Done(o)
  <2>1. o = dpls[1] /\ o \in ToSet(dpls) /\ o.at = clock /\ clock \in Nat /\ clock > 0
    BY <1>0, LatestIs
  <2> QED BY <2>1 DEF HistoryInv, SeenInv
<1>2. dpls' = retention(list, booted, read) /\ seen' = S
  BY DEF Update, updateDataDeployments
<1> HIDE DEF o
<1>3. \A e \in ToSet(dpls) : e.at \in Nat /\ (e # o => e.at # d.at /\ ~(e.at >= d.at))
  <2>1. \A e \in ToSet(dpls) : e.at \in Nat /\ e.at <= clock
    BY <1>0, RetentionAssumption DEF DateInv, Deployment
  <2>2. \A e \in ToSet(dpls) : e.at = clock => e = o
    BY <1>0, <1>1 DEF DateInv
  <2> QED BY <1>1, <2>1, <2>2
<1>4. seen = R \union {o} /\ IsFiniteSet(R) /\ R \subseteq Deployment /\ \A e \in R : e.at < d.at
  <2>1. \A e \in seen : e.at = d.at => e = o
    BY <1>0, <1>1 DEF Dated
  <2>2. seen = R \union {o}
    BY <1>1, <2>1
  <2>3. IsFiniteSet(R) /\ R \subseteq Deployment
    BY <1>0, FS_Subset DEF Dated
  <2> QED BY <1>0, <1>1, <2>2, <2>3
<1>5. /\ l \in Seq(Deployment) /\ Once(l) /\ Ordered(l)
      /\ \A e \in ToSet(l) : e = d \/ (e \in ToSet(dpls) /\ e # o)
      /\ \A e \in ToSet(dpls) : e # o => e \in ToSet(l)
  <2>1. \A e \in ToSet(dpls) : e.at = d.at => e = o
    BY <1>3
  <2> QED BY <1>0, <1>1, <2>1, ReplacedIs, ReplacedOrder, ReplacedOnce
<1> HIDE DEF l
<1>6. \A e \in ToSet(l) : e.at >= d.at => e = d
  BY <1>3, <1>5
<1>7. list \in Seq(Deployment) /\ ToSet(list) = ToSet(l) \union {d}
  BY <1>5, <1>6, InsertIs
<1>8. \A e \in ToSet(dpls) : e.at > 0 /\ e # o => e \in R
  BY <1>3 DEF HistoryInv, SeenInv
<1>9. Dated(S) /\ \A e \in S : e.at <= clock
  <2>1. IsFiniteSet(S)
    BY <1>4, FS_AddElement
  <2>2. \A e \in S : e.at > 0 /\ e.at <= clock
    BY <1>0, <1>1
  <2>3. \A e, f \in S : e.at = f.at => e = f
    BY <1>0, <1>4 DEF Dated
  <2>4. S \subseteq Deployment
    BY <1>4
  <2> HIDE DEF S
  <2> QED BY <2>1, <2>2, <2>3, <2>4 DEF Dated
<1> HIDE DEF R
<1>10. Lists(list, S)
  <2>1. Ordered(list) /\ TailOnce(list)
    BY <1>5, <1>6, InsertOrder, InsertTail
  <2>2. \A x \in ToSet(list) : x.at > 0 => x \in S
    BY <1>5, <1>7, <1>8
  <2> HIDE DEF list, S
  <2> QED BY <1>7, <2>1, <2>2 DEF Lists
<1>11. Needed(S) \subseteq ToSet(list)
  <2>1. \A x \in Needed(S) : x = d \/ (x \in Needed(seen) /\ x \in R)
    BY <1>1, <1>4, NeededGrows
  <2>2. \A x \in R : x # o
    BY <1>1, <1>4
  <2> HIDE DEF S, list
  <2> QED BY <1>0, <1>5, <1>7, <2>1, <2>2
<1>12. NeededInv'
  <2> HIDE DEF S, list
  <2> QED BY <1>0, <1>2, <1>9, <1>10, <1>11, NeededKept DEF NeededInv
<1>13. dpls'[1] = d /\ ToSet(dpls') \subseteq ToSet(l) \union {d} \union Dummies(booted, read)
  <2>1. d.at > 0
    BY <1>1
  <2> QED BY <1>0, <1>2, <1>5, <1>6, <2>1, UpdatedIs
<1>14. \A e \in ToSet(dpls') : e.at > 0 => e = d \/ (e \in ToSet(dpls) /\ e # o)
  <2>1. \A e \in Dummies(booted, read) : e.at = 0
    BY <1>0, DummyType DEF Dummies
  <2> QED BY <1>5, <1>13, <2>1
<1>15. SeenInv'
  <2>1. \A e \in ToSet(dpls') : e.at > 0 => e \in S
    BY <1>8, <1>14
  <2> HIDE DEF S
  <2> QED BY <1>2, <1>9, <2>1 DEF SeenInv
<1> QED BY <1>12, <1>13, <1>14, <1>15

\* comin starts again with the store.
LEMMA StartIsSeen ==
    ASSUME HistoryInv, NEW boot \in OutPaths, NEW cur \in OutPaths,
           Start(Load(dpls, boot, cur), boot, cur), UNCHANGED seen
    PROVE  /\ SeenInv' /\ NeededInv'
           /\ \A e \in ToSet(dpls') : e.at > 0 => e \in ToSet(dpls)
<1>0. /\ dpls \in Seq(Deployment) /\ Dated(seen) /\ Once(dpls) /\ Ordered(dpls)
      /\ Needed(seen) \subseteq ToSet(dpls) /\ \A e \in ToSet(dpls) : e.at > 0 => e \in seen
      /\ \A e \in seen : e.at <= clock
  BY DEF HistoryInv, StoreInv, DateInv, OrderInv, SeenInv, NeededInv
<1>1. dpls' = Load(dpls, boot, cur) /\ UNCHANGED <<clock, seen>>
  BY DEF Start
<1> DEFINE b == Dummy(boot, "boot")
           c == Dummy(cur, "switch")
           l1 == IF \E d \in ToSet(dpls) : d.outPath = boot THEN dpls ELSE Append(dpls, b)
           l2 == IF \E d \in ToSet(l1) : d.outPath = cur THEN l1 ELSE Append(l1, c)
<1>2. dpls' = retention(l2, boot, cur)
  BY <1>1 DEF Load, Ensure
<1>3. b \in Deployment /\ b.at = 0 /\ c \in Deployment /\ c.at = 0
  BY DummyType
<1> HIDE DEF b, c
<1>4. ASSUME NEW s, Lists(s, seen), NEW e \in Deployment, e.at = 0
      PROVE  Lists(Append(s, e), seen) /\ ToSet(s) \subseteq ToSet(Append(s, e))
  <2>1. /\ s \in Seq(Deployment) /\ Ordered(s) /\ TailOnce(s)
        /\ \A x \in ToSet(s) : x.at > 0 => x \in seen
    BY <1>4 DEF Lists
  <2> DEFINE t == <<e>>
             u == Append(s, e)
  <2>2. u = s \o t /\ t \in Seq(Deployment) /\ ToSet(t) = {e}
    BY <1>4, <2>1, AppendIsConcat, InSingle
  <2> HIDE DEF t
  <2>3. ToSet(u) = ToSet(s) \union {e}
    BY <2>1, <2>2, InConcat
  <2>4. u \in Seq(Deployment) /\ Ordered(u) /\ TailOnce(u)
    BY <1>4, <2>1, DummyOrder
  <2> HIDE DEF u
  <2>5. Lists(u, seen)
    BY <1>4, <2>1, <2>3, <2>4 DEF Lists
  <2> QED BY <2>3, <2>5 DEF u
<1>5. Lists(dpls, seen)
  BY <1>0 DEF Lists, Once, TailOnce
<1>6. Lists(l1, seen) /\ ToSet(dpls) \subseteq ToSet(l1)
  BY <1>3, <1>4, <1>5
<1> HIDE DEF l1
<1>7. Lists(l2, seen) /\ ToSet(l1) \subseteq ToSet(l2)
  BY <1>3, <1>4, <1>6
<1> HIDE DEF l2
<1>8. NeededInv'
  BY <1>0, <1>1, <1>2, <1>6, <1>7, NeededKept DEF NeededInv
<1>9. ToSet(dpls') \subseteq ToSet(dpls) \union Dummies(boot, cur)
  BY <1>0, <1>1, LoadIs
<1>10. \A e \in ToSet(dpls') : e.at > 0 => e \in ToSet(dpls)
  <2>1. \A e \in Dummies(boot, cur) : e.at = 0
    BY DummyType DEF Dummies
  <2> QED BY <1>9, <2>1
<1> QED BY <1>0, <1>1, <1>8, <1>10 DEF SeenInv

\* Every step keeps the history, what is needed of it and the status of the deployment
\* under way.
LEMMA HistoryStep ==
    HistoryInv /\ StatusInv /\ [Next]_vars => HistoryInv' /\ StatusInv'
<1> SUFFICES ASSUME HistoryInv, StatusInv, [Next]_vars PROVE SeenInv' /\ NeededInv' /\ StatusInv'
  BY StoreStep, OrderStep DEF HistoryInv
<1>0. /\ DateInv /\ UnderWayInv /\ booted \in OutPaths /\ current \in OutPaths
      /\ profilePath \in 0..MaxDeployments /\ StoreInv
  BY HistoryIs, RetentionAssumption DEF HistoryInv, StoreInv, LinkInv, DateInv
<1>1. ASSUME NEW p \in OutPaths, NEW op \in Operations, NewDeployment(p, op)
      PROVE  SeenInv' /\ NeededInv' /\ StatusInv'
  BY <1>1, NewDeploymentIsSeen DEF StatusInv
<1>2. CASE DeploymentStarted
  <2> DEFINE d == [Latest EXCEPT !.status = "running"]
  <2>1. /\ pc = "created" /\ Update(d) /\ UNCHANGED <<clock, booted, current, read>>
    BY <1>2 DEF DeploymentStarted, linkVars
  <2>2. d \in Deployment /\ d.at = clock /\ ~Done(d)
    BY <1>0, <2>1, LatestIs DEF Deployment, Done
  <2> HIDE DEF d
  <2>3. SeenInv' /\ NeededInv' /\ dpls'[1] = d
    BY <2>1, <2>2, UpdateIsSeen DEF StatusInv
  <2> QED BY <2>2, <2>3 DEF StatusInv
<1>3. CASE DeploymentFinished
  <2> DEFINE d == [Latest EXCEPT !.status = IF err THEN "failed" ELSE "done",
                                 !.profile = profilePath]
  <2>1. /\ pc = "finish" /\ pc' = "notify" /\ Update(d)
        /\ UNCHANGED <<clock, booted, current, read>>
    BY <1>3 DEF DeploymentFinished, linkVars
  <2>2. d \in Deployment /\ d.at = clock
    BY <1>0, <2>1, LatestIs DEF Deployment
  <2> HIDE DEF d
  <2>3. SeenInv' /\ NeededInv'
    BY <2>1, <2>2, UpdateIsSeen DEF StatusInv
  <2> QED BY <2>1, <2>3 DEF StatusInv
<1>4. ASSUME NEW p \in OutPaths, NEW q \in OutPaths, Start(Load(dpls, p, q), p, q), UNCHANGED seen
      PROVE  SeenInv' /\ NeededInv' /\ StatusInv'
  BY <1>4, StartIsSeen DEF StatusInv, Start
<1>5. CASE SetSystemProfile
  BY <1>5 DEF HistoryInv, SetSystemProfile, SeenInv, NeededInv, StatusInv
<1>6. CASE RemoveProfiles
  BY <1>6 DEF HistoryInv, RemoveProfiles, SeenInv, NeededInv, StatusInv
<1>7. CASE SwitchToConfiguration
  BY <1>7 DEF HistoryInv, SwitchToConfiguration, SeenInv, NeededInv, StatusInv
<1>8. CASE Notify
  BY <1>8 DEF HistoryInv, Notify, SeenInv, NeededInv, StatusInv
<1>9. CASE ManagerReceive
  <2>1. CASE UNCHANGED <<dpls, clock, deployerVars, seen>>
    BY <2>1 DEF HistoryInv, SeenInv, NeededInv, StatusInv, deployerVars
  <2> QED BY <1>0, <1>4, <1>9, <2>1 DEF ManagerReceive
<1>10. CASE Restart
  BY <1>0, <1>4, <1>10 DEF Restart
<1>11. CASE Reboot
  <2>1. PICK p \in Range(profiles) \union {booted} : Start(Load(dpls, p, p), p, p)
    BY <1>11 DEF Reboot
  <2>2. p \in OutPaths
    BY <1>0, <2>1 DEF StoreInv, LinkInv, Range
  <2> QED BY <1>4, <1>11, <2>1, <2>2 DEF Reboot
<1>12. CASE RestartWithoutStore
  <2>1. dpls' = <<>> /\ seen' = {} /\ pc' = "idle"
    BY <1>12 DEF RestartWithoutStore, Start
  <2>2. ToSet(dpls') = {}
    <3>1. dpls' \in Seq(Deployment) /\ Len(dpls') = 0
      BY <2>1
    <3> QED BY <3>1, InList
  <2>3. Needed({}) = {} /\ Dated({})
    BY FS_EmptySet DEF Needed, MostRecent, NeededBoots, Boots, Dated
  <2> QED BY <2>1, <2>2, <2>3 DEF SeenInv, NeededInv, StatusInv
<1>13. CASE UNCHANGED vars
  BY <1>13 DEF vars, deployerVars, HistoryInv, SeenInv, NeededInv, StatusInv
<1> QED BY <1>1, <1>2, <1>3, <1>5, <1>6, <1>7, <1>8, <1>9, <1>10, <1>11, <1>12, <1>13 DEF Next

\* The history is empty at first.
LEMMA HistoryInit == Init => HistoryInv /\ StatusInv
<1> SUFFICES ASSUME Init PROVE HistoryInv /\ StatusInv
  OBVIOUS
<1>1. StoreInv
  BY StoreInit
<1>2. OrderInv
  <2>1. <<>> \in Seq(Deployment) /\ Ordered(<<>>) /\ booted \in OutPaths /\ current \in OutPaths
    BY DEF Ordered, Init
  <2> QED BY <2>1, LoadOrder DEF Init, OrderInv
<1>3. Needed({}) = {} /\ Dated({})
  BY FS_EmptySet DEF Needed, MostRecent, NeededBoots, Boots, Dated
<1>4. \A d \in ToSet(dpls) : d.at \in Nat /\ d.at <= 0
  <2>1. ToSet(dpls) \subseteq Deployment
    BY <1>1, InList DEF StoreInv, DateInv
  <2> QED BY <1>1, <2>1, RetentionAssumption DEF StoreInv, DateInv, Deployment, Init
<1>5. SeenInv /\ NeededInv /\ StatusInv
  BY <1>3, <1>4 DEF Init, SeenInv, NeededInv, StatusInv
<1> QED BY <1>1, <1>2, <1>5 DEF HistoryInv

\* RecentAreKept: the store has the last SuccessfulCapacity - 1 successful deployments and
\* the last AnyCapacity - 1 deployments, for all capacities and however long the history is.
THEOREM RecentAreNeverDropped == Spec => []RecentAreKept
<1>1. HistoryInv => RecentAreKept
  BY DEF HistoryInv, NeededInv, Needed, RecentAreKept
<1>2. HistoryInv /\ StatusInv /\ [Next]_vars => (HistoryInv /\ StatusInv)'
  BY HistoryStep
<1> QED BY <1>1, <1>2, HistoryInit, PTL DEF Spec

\* Every step keeps the links of the boot entries.
LEMMA LinkedStep ==
    HistoryInv /\ StatusInv /\ LinkedInv /\ [Next]_vars => LinkedInv'
<1> SUFFICES ASSUME HistoryInv, StatusInv, LinkedInv, [Next]_vars PROVE LinkedInv'
  OBVIOUS
<1>0. /\ DateInv /\ UnderWayInv /\ booted \in OutPaths /\ current \in OutPaths
      /\ profilePath \in 0..MaxDeployments /\ StoreInv
  BY HistoryIs, RetentionAssumption DEF HistoryInv, StoreInv, LinkInv, DateInv
<1>1. ASSUME NEW p \in OutPaths, NEW op \in Operations, NewDeployment(p, op) PROVE LinkedInv'
  <2>1. pc' = "created" /\ UNCHANGED profiles
    BY <1>1 DEF NewDeployment, linkVars
  <2>2. \A e \in ToSet(dpls') : e.at > 0 /\ Done(e) => e \in ToSet(dpls)
    BY <1>1, NewDeploymentIsSeen
  <2> QED BY <2>1, <2>2 DEF LinkedInv, Linked
<1>2. CASE DeploymentStarted
  <2> DEFINE d == [Latest EXCEPT !.status = "running"]
  <2>1. /\ pc = "created" /\ pc' = "running" /\ Update(d)
        /\ UNCHANGED <<clock, booted, current, read, profiles>>
    BY <1>2 DEF DeploymentStarted, linkVars
  <2>2. d \in Deployment /\ d.at = clock /\ ~Done(d)
    BY <1>0, <2>1, LatestIs DEF Deployment, Done
  <2> HIDE DEF d
  <2>3. \A e \in ToSet(dpls') : e.at > 0 => e = d \/ e \in ToSet(dpls)
    BY <2>1, <2>2, UpdateIsSeen DEF StatusInv
  <2> QED BY <2>1, <2>2, <2>3 DEF LinkedInv, Linked
<1>3. CASE SetSystemProfile
  <2>1. pc = "running" /\ UNCHANGED dpls
    BY <1>3 DEF SetSystemProfile
  <2>2. Latest = dpls[1] /\ Latest.outPath \in OutPaths
    BY <1>0, <2>1, LatestIs DEF Deployment
  <2>3. CASE UNCHANGED profiles /\ Latest.op \in {"null", "test"}
    BY <2>1, <2>2, <2>3 DEF LinkedInv, Linked, isBootEntry
  <2>4. CASE nixEnvSet(Latest.outPath) /\ profilePath' = default'
    <3>1. /\ \A n \in DOMAIN profiles : n \in DOMAIN profiles' /\ profiles'[n] = profiles[n]
          /\ default' \in DOMAIN profiles' /\ profiles'[default'] = Latest.outPath
      BY <1>0, <2>1, <2>2, <2>4, NixEnvSetIs
    <3> QED BY <2>1, <2>2, <2>4, <3>1 DEF LinkedInv, Linked
  <2>5. CASE UNCHANGED profiles /\ pc' = "finish" /\ err' = TRUE
    BY <2>1, <2>5 DEF LinkedInv, Linked
  <2> QED BY <1>3, <2>3, <2>4, <2>5 DEF SetSystemProfile
<1>4. CASE RemoveProfiles
  <2>1. pc = "remove" /\ pc' = "switch" /\ UNCHANGED <<dpls, profilePath>>
    BY <1>4 DEF RemoveProfiles
  <2>2. \A n \in DOMAIN profiles :
          Preserved(n) => n \in DOMAIN profiles' /\ profiles'[n] = profiles[n]
    BY <1>4 DEF RemoveProfiles
  <2>3. \A n, p : Linked(n, p) /\ (n = profilePath \/ \E d \in ToSet(dpls) : d.profile = n) =>
          n \in DOMAIN profiles' /\ profiles'[n] = p
    BY <2>2 DEF Linked, Preserved
  <2> QED BY <2>1, <2>3 DEF LinkedInv, Linked
<1>5. CASE SwitchToConfiguration
  BY <1>5 DEF SwitchToConfiguration, LinkedInv, Linked
<1>6. CASE DeploymentFinished
  <2> DEFINE d == [Latest EXCEPT !.status = IF err THEN "failed" ELSE "done",
                                 !.profile = profilePath]
  <2>1. /\ pc = "finish" /\ pc' = "notify" /\ Update(d)
        /\ UNCHANGED <<clock, booted, current, read, profiles>>
    BY <1>6 DEF DeploymentFinished, linkVars
  <2>2. Latest = dpls[1] /\ Latest \in Deployment /\ Latest.at = clock
    BY <1>0, <2>1, LatestIs
  <2>3. /\ d \in Deployment /\ d.at = clock
        /\ isBootEntry(d) /\ Done(d) =>
             ~err /\ isBootEntry(dpls[1]) /\ d.profile = profilePath /\ d.outPath = dpls[1].outPath
    BY <1>0, <2>2 DEF Deployment, Done, isBootEntry
  <2> HIDE DEF d
  <2>4. \A e \in ToSet(dpls') : e.at > 0 => e = d \/ e \in ToSet(dpls)
    BY <2>1, <2>3, UpdateIsSeen DEF StatusInv
  <2> QED BY <2>1, <2>3, <2>4 DEF LinkedInv, Linked
<1>7. CASE Notify
  BY <1>7 DEF Notify, LinkedInv, Linked, linkVars
<1>8. ASSUME NEW p \in OutPaths, NEW q \in OutPaths, Start(Load(dpls, p, q), p, q), UNCHANGED seen
      PROVE  LinkedInv'
  <2>1. pc' = "idle" /\ UNCHANGED profiles
    BY <1>8 DEF Start
  <2>2. \A e \in ToSet(dpls') : e.at > 0 => e \in ToSet(dpls)
    BY <1>8, StartIsSeen
  <2> QED BY <2>1, <2>2 DEF LinkedInv, Linked
<1>9. CASE ManagerReceive
  <2>1. CASE UNCHANGED <<dpls, linkVars, deployerVars>>
    BY <2>1 DEF LinkedInv, Linked, linkVars, deployerVars
  <2> QED BY <1>0, <1>8, <1>9, <2>1 DEF ManagerReceive
<1>10. CASE Restart
  BY <1>0, <1>8, <1>10 DEF Restart
<1>11. CASE Reboot
  <2>1. PICK p \in Range(profiles) \union {booted} : Start(Load(dpls, p, p), p, p)
    BY <1>11 DEF Reboot
  <2>2. p \in OutPaths
    BY <1>0, <2>1 DEF StoreInv, LinkInv, Range
  <2> QED BY <1>8, <1>11, <2>1, <2>2 DEF Reboot
<1>12. CASE RestartWithoutStore
  <2>1. dpls' = <<>> /\ pc' = "idle"
    BY <1>12 DEF RestartWithoutStore, Start
  <2>2. ToSet(dpls') = {}
    <3>1. dpls' \in Seq(Deployment) /\ Len(dpls') = 0
      BY <2>1
    <3> QED BY <3>1, InList
  <2> QED BY <2>1, <2>2 DEF LinkedInv
<1>13. CASE UNCHANGED vars
  BY <1>13 DEF vars, linkVars, deployerVars, LinkedInv, Linked
<1> QED BY <1>1, <1>2, <1>3, <1>4, <1>5, <1>6, <1>7, <1>9, <1>10, <1>11, <1>12, <1>13 DEF Next

\* The latest boot entry of each of the last systems is in the list, with its link.
LEMMA BootEntriesFollow == HistoryInv /\ LinkedInv => BootEntriesAreKept
<1> SUFFICES ASSUME HistoryInv, LinkedInv, NEW e \in Bootable,
                    Cardinality(MoreRecent(e.outPath)) < BootEntryCapacity
             PROVE  \E d \in ToSet(dpls) :
                      /\ isBootEntry(d) /\ Done(d) /\ d.outPath = e.outPath
                      /\ d.profile \in DOMAIN profiles /\ profiles[d.profile] = e.outPath
  BY DEF BootEntriesAreKept
<1>1. /\ Bootable = Boots(seen) /\ clock \in Nat /\ Needed(seen) \subseteq ToSet(dpls)
      /\ \A d \in Bootable : d.at \in Nat /\ d.at <= clock /\ d.at > 0
  BY HistoryIs DEF Bootable, Boots
<1> DEFINE N == {n \in Nat : \E d \in Bootable : d.outPath = e.outPath /\ d.at = n}
<1>2. N \in SUBSET Nat /\ N # {} /\ \A n \in N : n <= clock
  BY <1>1
<1>3. Max(N) \in N /\ \A n \in N : n <= Max(N)
  <2> HIDE DEF N
  <2> QED BY <1>1, <1>2, MaxIs
<1>4. PICK d \in Bootable : d.outPath = e.outPath /\ d.at = Max(N)
  BY <1>3
<1>5. \A f \in Bootable : f.outPath = d.outPath => f.at <= d.at
  BY <1>1, <1>3, <1>4
<1>6. \A f \in Bootable :
        f.at > d.at <=> \A g \in Bootable : g.outPath = e.outPath => g.at < f.at
  BY <1>1, <1>4, <1>5
<1>7. MoreRecent(e.outPath) = PathsOf(Newer(Boots(seen), d))
  BY <1>1, <1>6 DEF MoreRecent, PathsOf, Newer
<1>8. d \in NeededBoots(seen)
  BY <1>1, <1>5, <1>7 DEF NeededBoots
<1>9. d \in ToSet(dpls) /\ isBootEntry(d) /\ Done(d) /\ d.at > 0
  BY <1>1, <1>8 DEF Needed, Bootable
<1> QED BY <1>4, <1>9 DEF LinkedInv, Linked

\* BootEntriesAreKept: the last BootEntryCapacity distinct systems that were deployed for
\* the next boot are in the store, each with a link that exists, for all capacities.
THEOREM BootEntriesAreNeverDropped == Spec => []BootEntriesAreKept
<1>1. Init => LinkedInv
  <2> SUFFICES ASSUME Init PROVE LinkedInv
    OBVIOUS
  <2>1. SeenInv
    BY HistoryInit DEF HistoryInv
  <2> QED BY <2>1 DEF Init, SeenInv, LinkedInv
<1>2. HistoryInv /\ StatusInv /\ LinkedInv /\ [Next]_vars => (HistoryInv /\ StatusInv /\ LinkedInv)'
  BY HistoryStep, LinkedStep
<1> QED BY <1>1, <1>2, HistoryInit, BootEntriesFollow, PTL DEF Spec

=============================================================================

-------------------------- MODULE Selections_proofs --------------------------
(***************************************************************************)
(* What filter, push and sort return, for every sequence and every order,  *)
(* and that recursive functions over places exist.                         *)
(* Induction over a sequence is the least-number principle: the first      *)
(* prefix for which a claim fails.                                         *)
(***************************************************************************)
EXTENDS Selections, FiniteSetTheorems, FunctionTheorems, WellFoundedInduction,
        NaturalsInduction, SequenceTheorems, TLAPS

\* A set of numbers that is not empty has a least one.
LEMMA LeastOf ==
  ASSUME NEW T, T \subseteq Nat, T # {}
  PROVE  \E m \in T : \A k \in T : m <= k
<1>1. \E m \in T : \A k \in T : ~ (<<k, m>> \in OpToRel(<, Nat))
  BY WFMin, NatLessThanWellFounded, Zenon
<1>2. PICK m \in T : \A k \in T : ~ (<<k, m>> \in OpToRel(<, Nat))
  BY <1>1
<1>3. \A k \in T : ~ (k < m)
  BY <1>2, Zenon DEF OpToRel
<1> QED
  BY <1>3

----------------------------------------------------------------------------
(* filter.                                                                 *)

\* The elements kept of the first n.
Kept(s, S, n) == {i \in 1..n : s[i] \in S}
\* The filtered prefixes.
Filtered(s, S, N, kept) ==
  kept = [n \in 0..N |-> IF n = 0 THEN <<>>
                         ELSE IF s[n] \in S THEN Append(kept[n - 1], s[n]) ELSE kept[n - 1]]
\* k is the filtered prefix of n elements: the one at place i of the sequence
\* has as many of its kind up to it as its place in the result says.
Filters(s, S, n, k) ==
  /\ Len(k) = Cardinality(Kept(s, S, n))
  /\ \A i \in Kept(s, S, n) :
       /\ Cardinality(Kept(s, S, i)) \in 1..Len(k)
       /\ k[Cardinality(Kept(s, S, i))] = s[i]
  /\ \A j \in 1..Len(k) : \E i \in Kept(s, S, n) : Cardinality(Kept(s, S, i)) = j

LEMMA KeptCount ==
  ASSUME NEW s, NEW S, NEW n \in Nat
  PROVE  /\ IsFiniteSet(Kept(s, S, n)) /\ Cardinality(Kept(s, S, n)) \in Nat
         /\ Kept(s, S, 0) = {} /\ Cardinality(Kept(s, S, 0)) = 0
         /\ \A m \in 0..n : Cardinality(Kept(s, S, m)) <= Cardinality(Kept(s, S, n))
         /\ n > 0 => Cardinality(Kept(s, S, n)) =
                       Cardinality(Kept(s, S, n - 1)) + IF s[n] \in S THEN 1 ELSE 0
<1>1. \A m \in Nat : IsFiniteSet(Kept(s, S, m)) /\ Cardinality(Kept(s, S, m)) \in Nat
  <2> TAKE m \in Nat
  <2>1. IsFiniteSet(1..m)
    BY FS_Interval
  <2>2. Kept(s, S, m) \in SUBSET (1..m)
    BY DEF Kept
  <2> QED
    BY <2>1, <2>2, FS_Subset, FS_CardinalityType
<1>2. Kept(s, S, 0) = {}
  BY DEF Kept
<1>3. Cardinality(Kept(s, S, 0)) = 0
  BY <1>2, FS_EmptySet
<1>4. ASSUME NEW m \in 0..n
      PROVE  Cardinality(Kept(s, S, m)) <= Cardinality(Kept(s, S, n))
  <2>1. Kept(s, S, m) \in SUBSET Kept(s, S, n)
    BY DEF Kept
  <2> QED
    BY <1>1, <2>1, FS_Subset
<1>5. ASSUME n > 0
      PROVE  Cardinality(Kept(s, S, n)) =
               Cardinality(Kept(s, S, n - 1)) + IF s[n] \in S THEN 1 ELSE 0
  <2>1. n - 1 \in Nat /\ n \notin Kept(s, S, n - 1)
    BY <1>5 DEF Kept
  <2>2. CASE s[n] \in S
    <3>1. Kept(s, S, n) = Kept(s, S, n - 1) \cup {n}
      BY <1>5, <2>2 DEF Kept
    <3>2. Cardinality(Kept(s, S, n - 1) \cup {n}) = Cardinality(Kept(s, S, n - 1)) + 1
      BY <1>1, <2>1, FS_AddElement
    <3> QED
      BY <2>2, <3>1, <3>2
  <2>3. CASE s[n] \notin S
    <3>1. Kept(s, S, n) = Kept(s, S, n - 1)
      BY <1>5, <2>3 DEF Kept
    <3> QED
      BY <1>1, <2>1, <2>3, <3>1
  <2> QED
    BY <2>2, <2>3
<1> QED
  BY <1>1, <1>2, <1>3, <1>4, <1>5

\* The recursive function exists, one prefix after the other.
LEMMA PrefixesExist ==
  ASSUME NEW X, NEW s \in Seq(X), NEW S
  PROVE  \E kept : Filtered(s, S, Len(s), kept)
<1> DEFINE P(N) == \E kept : Filtered(s, S, N, kept)
           T    == {N \in 0..Len(s) : ~P(N)}
<1>1. P(0)
  <2>1. Filtered(s, S, 0, [n \in 0..0 |-> <<>>])
    BY DEF Filtered
  <2> QED
    BY <2>1
<1>2. ASSUME NEW N \in 0..Len(s), N # 0, P(N - 1)
      PROVE  P(N)
  <2>1. PICK kept : Filtered(s, S, N - 1, kept)
    BY <1>2
  <2> DEFINE more == [n \in 0..N |-> IF n < N THEN kept[n]
                        ELSE IF s[N] \in S THEN Append(kept[N - 1], s[N]) ELSE kept[N - 1]]
  <2>2. \A n \in 0..(N - 1) : more[n] = kept[n]
    OBVIOUS
  <2>3. \A n \in 0..(N - 1) :
          kept[n] = IF n = 0 THEN <<>>
                    ELSE IF s[n] \in S THEN Append(kept[n - 1], s[n]) ELSE kept[n - 1]
    BY <2>1, Zenon DEF Filtered
  <2>4. more[N] = IF s[N] \in S THEN Append(kept[N - 1], s[N]) ELSE kept[N - 1]
    OBVIOUS
  <2> HIDE DEF more
  <2>5. \A n \in 0..N :
          more[n] = IF n = 0 THEN <<>>
                    ELSE IF s[n] \in S THEN Append(more[n - 1], s[n]) ELSE more[n - 1]
    <3> TAKE n \in 0..N
    <3>1. CASE n = N
      <4>1. more[n - 1] = kept[n - 1]
        BY <1>2, <2>2, <3>1
      <4> QED
        BY <1>2, <2>4, <3>1, <4>1
    <3>2. CASE n # N
      <4>1. n \in 0..(N - 1) /\ (n # 0 => n - 1 \in 0..(N - 1))
        BY <3>2
      <4> QED
        BY <4>1, <2>2, <2>3
    <3> QED
      BY <3>1, <3>2
  <2>6. more = [n \in 0..N |-> more[n]]
    BY DEF more
  <2>7. Filtered(s, S, N, more)
    BY <2>5, <2>6 DEF Filtered
  <2> QED
    BY <2>7
<1>3. T = {}
  <2> SUFFICES ASSUME T # {} PROVE FALSE
    OBVIOUS
  <2> HIDE DEF P
  <2>0. Len(s) \in Nat /\ T \subseteq Nat
    BY LenProperties
  <2>1. PICK m \in T : \A k \in T : m <= k
    BY <2>0, LeastOf
  <2>2. m # 0
    BY <2>1, <1>1
  <2>3. m - 1 \in 0..Len(s) /\ m - 1 \notin T
    BY <2>0, <2>1, <2>2
  <2> QED
    BY <1>2, <2>1, <2>2, <2>3
<1> QED
  BY <1>3, LenProperties

LEMMA PrefixesFilter ==
  ASSUME NEW X, NEW s \in Seq(X), NEW S, NEW kept, Filtered(s, S, Len(s), kept),
         NEW n \in 0..Len(s)
  PROVE  kept[n] \in Seq(X) /\ Filters(s, S, n, kept[n])
<1> DEFINE P(m) == kept[m] \in Seq(X) /\ Filters(s, S, m, kept[m])
           T    == {m \in 0..Len(s) : ~P(m)}
<1>0. Len(s) \in Nat /\ T \subseteq Nat
  BY LenProperties
<1>1. kept[0] = <<>>
  <2>1. \A m \in 0..Len(s) : kept[m] = IF m = 0 THEN <<>>
          ELSE IF s[m] \in S THEN Append(kept[m - 1], s[m]) ELSE kept[m - 1]
    BY Zenon DEF Filtered
  <2> QED
    BY <1>0, <2>1
<1>2. P(0)
  <2>1. Kept(s, S, 0) = {} /\ Cardinality(Kept(s, S, 0)) = 0
    BY KeptCount
  <2> QED
    BY <1>1, <2>1 DEF Filters
<1>3. ASSUME NEW m \in 1..Len(s), P(m - 1)
      PROVE  P(m)
  <2> DEFINE c(i) == Cardinality(Kept(s, S, i))
  <2>1. m \in Nat /\ m - 1 \in Nat /\ m \in 0..Len(s) /\ m - 1 \in 0..Len(s) /\ s[m] \in X
    BY <1>0, ElementOfSeq
  <2>2. kept[m] = IF s[m] \in S THEN Append(kept[m - 1], s[m]) ELSE kept[m - 1]
    <3>1. kept[m] = IF m = 0 THEN <<>>
                    ELSE IF s[m] \in S THEN Append(kept[m - 1], s[m]) ELSE kept[m - 1]
      BY <2>1, Zenon DEF Filtered
    <3> QED
      BY <3>1
  <2>3. kept[m - 1] \in Seq(X) /\ Filters(s, S, m - 1, kept[m - 1])
    BY <1>3
  <2>4. c(m) = c(m - 1) + IF s[m] \in S THEN 1 ELSE 0
    BY <2>1, KeptCount
  <2>5. c(m - 1) \in Nat
    BY <2>1, KeptCount
  <2>6. CASE s[m] \in S
    <3>1. Kept(s, S, m) = Kept(s, S, m - 1) \cup {m}
      BY <2>1, <2>6 DEF Kept
    <3>2. kept[m] = Append(kept[m - 1], s[m]) /\ kept[m] \in Seq(X)
      BY <2>1, <2>2, <2>3, <2>6, AppendProperties
    <3>3. Len(kept[m - 1]) = c(m - 1) /\ Len(kept[m]) = c(m) /\ c(m) = c(m - 1) + 1
      BY <2>1, <2>3, <2>4, <2>6, <3>2, AppendProperties DEF Filters
    <3> HIDE DEF c
    <3>4. /\ \A j \in 1..c(m - 1) : kept[m][j] = kept[m - 1][j]
          /\ kept[m][c(m)] = s[m]
      BY <2>1, <2>3, <2>5, <3>2, <3>3, AppendProperties
    <3>5. \A i \in Kept(s, S, m) : c(i) \in 1..c(m) /\ kept[m][c(i)] = s[i]
      <4> TAKE i \in Kept(s, S, m)
      <4>1. CASE i = m
        BY <2>5, <3>3, <3>4, <4>1
      <4>2. CASE i # m
        <5>1. i \in Kept(s, S, m - 1)
          BY <3>1, <4>2
        <5>2. c(i) \in 1..c(m - 1) /\ kept[m - 1][c(i)] = s[i]
          BY <2>3, <3>3, <5>1 DEF Filters, c
        <5> QED
          BY <2>5, <3>3, <3>4, <5>2
      <4> QED
        BY <4>1, <4>2
    <3>6. \A j \in 1..c(m) : \E i \in Kept(s, S, m) : c(i) = j
      <4> TAKE j \in 1..c(m)
      <4>1. CASE j = c(m)
        BY <3>1, <4>1
      <4>2. CASE j # c(m)
        <5>1. j \in 1..c(m - 1)
          BY <2>5, <3>3, <4>2
        <5>2. PICK i \in Kept(s, S, m - 1) : c(i) = j
          BY <2>3, <3>3, <5>1 DEF Filters, c
        <5> QED
          BY <3>1, <5>2
      <4> QED
        BY <4>1, <4>2
    <3> QED
      BY <3>2, <3>3, <3>5, <3>6 DEF Filters, c
  <2>7. CASE s[m] \notin S
    <3>1. Kept(s, S, m) = Kept(s, S, m - 1)
      BY <2>1, <2>7 DEF Kept
    <3>2. kept[m] = kept[m - 1]
      BY <2>2, <2>7
    <3> QED
      BY <2>3, <3>1, <3>2 DEF Filters
  <2> QED
    BY <2>6, <2>7
<1> HIDE DEF P
<1>4. T = {}
  <2> SUFFICES ASSUME T # {} PROVE FALSE
    OBVIOUS
  <2>1. PICK m \in T : \A k \in T : m <= k
    BY <1>0, LeastOf
  <2>2. m # 0
    BY <1>2, <2>1
  <2>3. m \in 1..Len(s) /\ m - 1 \in 0..Len(s) /\ m - 1 \notin T
    BY <1>0, <2>1, <2>2
  <2> QED
    BY <1>3, <2>1, <2>3
<1> QED
  BY <1>4 DEF P

\* filter returns the elements of S, each as often as it is there, in order.
LEMMA OnlyFilters ==
  ASSUME NEW X, NEW s \in Seq(X), NEW S
  PROVE  Only(s, S) \in Seq(X) /\ Filters(s, S, Len(s), Only(s, S))
<1> DEFINE chosen == CHOOSE kept : Filtered(s, S, Len(s), kept)
<1>1. Filtered(s, S, Len(s), chosen)
  BY PrefixesExist
<1>2. Only(s, S) = chosen[Len(s)]
  BY DEF Only, Filtered
<1> HIDE DEF chosen
<1>3. Len(s) \in 0..Len(s)
  BY LenProperties
<1> QED
  BY <1>1, <1>2, <1>3, PrefixesFilter

\* The first k of the filtered elements are those with fewer than k of their
\* kind before them.
LEMMA FirstOfOnly ==
  ASSUME NEW X, NEW s \in Seq(X), NEW S, NEW k \in Nat
  PROVE  /\ \A j \in 1..Len(Only(s, S)) : j <= k =>
              \E i \in 1..Len(s) : s[i] \in S /\ Cardinality(Kept(s, S, i - 1)) < k /\ Only(s, S)[j] = s[i]
         /\ \A i \in 1..Len(s) : s[i] \in S /\ Cardinality(Kept(s, S, i - 1)) < k =>
              /\ Cardinality(Kept(s, S, i)) \in 1..Len(Only(s, S)) /\ Cardinality(Kept(s, S, i)) <= k
              /\ Only(s, S)[Cardinality(Kept(s, S, i))] = s[i]
<1> DEFINE only  == Only(s, S)
           c(i)  == Cardinality(Kept(s, S, i))
<1>1. only \in Seq(X) /\ Filters(s, S, Len(s), only) /\ Len(s) \in Nat /\ Len(only) \in Nat
  BY OnlyFilters, LenProperties
<1>2. \A i \in Kept(s, S, Len(s)) : /\ i \in 1..Len(s) /\ s[i] \in S
                                    /\ c(i) \in 1..Len(only) /\ only[c(i)] = s[i]
                                    /\ c(i - 1) \in Nat /\ c(i) = c(i - 1) + 1
  <2> TAKE i \in Kept(s, S, Len(s))
  <2>1. i \in 1..Len(s) /\ s[i] \in S /\ i \in Nat /\ i > 0 /\ i - 1 \in Nat
    BY <1>1 DEF Kept
  <2>2. c(i) \in 1..Len(only) /\ only[c(i)] = s[i]
    BY <1>1 DEF Filters
  <2>3. c(i - 1) \in Nat /\ c(i) = c(i - 1) + IF s[i] \in S THEN 1 ELSE 0
    BY <2>1, KeptCount
  <2> QED
    BY <2>1, <2>2, <2>3
<1>3. \A j \in 1..Len(only) : \E i \in Kept(s, S, Len(s)) : c(i) = j
  BY <1>1 DEF Filters
<1>4. Kept(s, S, Len(s)) = {i \in 1..Len(s) : s[i] \in S}
  BY DEF Kept
<1> HIDE DEF only, c
<1>5. ASSUME NEW j \in 1..Len(only), j <= k
      PROVE  \E i \in 1..Len(s) : s[i] \in S /\ c(i - 1) < k /\ only[j] = s[i]
  <2>1. PICK i \in Kept(s, S, Len(s)) : c(i) = j
    BY <1>3
  <2>2. i \in 1..Len(s) /\ s[i] \in S /\ only[j] = s[i] /\ c(i - 1) \in Nat /\ c(i) = c(i - 1) + 1
    BY <1>2, <2>1
  <2>3. c(i - 1) < k
    BY <1>1, <1>5, <2>1, <2>2
  <2> QED
    BY <2>2, <2>3
<1>6. ASSUME NEW i \in 1..Len(s), s[i] \in S, c(i - 1) < k
      PROVE  c(i) \in 1..Len(only) /\ c(i) <= k /\ only[c(i)] = s[i]
  BY <1>1, <1>2, <1>4, <1>6
<1> QED
  BY <1>5, <1>6 DEF only, c

\* Nothing is dropped exactly if everything passes; what is in the result is
\* what passes.
LEMMA OnlyKeeps ==
  ASSUME NEW X, NEW s \in Seq(X), NEW S
  PROVE  /\ {Only(s, S)[j] : j \in DOMAIN Only(s, S)} = {s[i] : i \in {i \in 1..Len(s) : s[i] \in S}}
         /\ Only(s, S) = s <=> \A i \in 1..Len(s) : s[i] \in S
<1> DEFINE only == Only(s, S)
           c(i) == Cardinality(Kept(s, S, i))
<1>1. only \in Seq(X) /\ Filters(s, S, Len(s), only) /\ Len(s) \in Nat /\ Len(only) \in Nat
  BY OnlyFilters, LenProperties
<1>2. Kept(s, S, Len(s)) = {i \in 1..Len(s) : s[i] \in S}
  BY DEF Kept
<1>3. \A i \in Kept(s, S, Len(s)) : c(i) \in 1..Len(only) /\ only[c(i)] = s[i]
  BY <1>1 DEF Filters
<1>4. \A j \in 1..Len(only) : \E i \in Kept(s, S, Len(s)) : c(i) = j
  BY <1>1 DEF Filters
<1>5. Len(only) = c(Len(s))
  BY <1>1 DEF Filters
<1> HIDE DEF only
<1>6. DOMAIN only = 1..Len(only) /\ DOMAIN s = 1..Len(s)
  BY <1>1
<1>7. {only[j] : j \in DOMAIN only} = {s[i] : i \in {i \in 1..Len(s) : s[i] \in S}}
  <2> HIDE DEF c
  <2> QED
    BY <1>2, <1>3, <1>4, <1>6
<1>8. ASSUME only = s, NEW i \in 1..Len(s)
      PROVE  s[i] \in S
  <2>1. s[i] \in {only[j] : j \in DOMAIN only}
    BY <1>6, <1>8
  <2> QED
    BY <1>7, <2>1
<1>9. ASSUME \A i \in 1..Len(s) : s[i] \in S
      PROVE  only = s
  <2>1. \A n \in 0..Len(s) : Kept(s, S, n) = 1..n
    BY <1>1, <1>9 DEF Kept
  <2>2. \A n \in 0..Len(s) : c(n) = n
    BY <1>1, <2>1, FS_Interval
  <2> HIDE DEF c
  <2>3. Len(only) = Len(s)
    BY <1>1, <1>5, <2>2
  <2>4. \A i \in 1..Len(s) : only[i] = s[i]
    BY <1>1, <1>2, <1>3, <1>9, <2>2
  <2> QED
    BY <1>1, <2>3, <2>4, SeqEqual
<1> QED
  BY <1>7, <1>8, <1>9 DEF only

\* The filter keeps what is different different, and keeps the order.
LEMMA OnlyOrder ==
  ASSUME NEW X, NEW s \in Seq(X), NEW S,
         \A p, q \in 1..Len(s) : s[p] = s[q] => p = q
  PROVE  /\ Only(s, S) \in Seq(X) /\ Len(Only(s, S)) \in Nat
         /\ \A i \in 1..Len(Only(s, S)) : \E p \in 1..Len(s) : s[p] \in S /\ Only(s, S)[i] = s[p]
         /\ \A p \in 1..Len(s) : s[p] \in S => \E i \in 1..Len(Only(s, S)) : Only(s, S)[i] = s[p]
         /\ \A i, j \in 1..Len(Only(s, S)) : Only(s, S)[i] = Only(s, S)[j] => i = j
         /\ \A i, j \in 1..Len(Only(s, S)) : \A p, q \in 1..Len(s) :
              Only(s, S)[i] = s[p] /\ Only(s, S)[j] = s[q] /\ p < q => i < j
<1> DEFINE only == Only(s, S)
           c(i) == Cardinality(Kept(s, S, i))
<1>1. only \in Seq(X) /\ Filters(s, S, Len(s), only) /\ Len(s) \in Nat /\ Len(only) \in Nat
  BY OnlyFilters, LenProperties
<1>2. Kept(s, S, Len(s)) = {i \in 1..Len(s) : s[i] \in S}
  BY DEF Kept
<1>3. \A p \in Kept(s, S, Len(s)) : c(p) \in 1..Len(only) /\ only[c(p)] = s[p]
  BY <1>1 DEF Filters
<1>4. \A j \in 1..Len(only) : \E p \in Kept(s, S, Len(s)) : c(p) = j
  BY <1>1 DEF Filters
<1>5. ASSUME NEW p \in Kept(s, S, Len(s)), NEW q \in Kept(s, S, Len(s)), p < q
      PROVE  c(p) < c(q)
  <2>1. p \in 1..Len(s) /\ q \in 1..Len(s) /\ s[q] \in S /\ q - 1 \in Nat /\ p \in 0..(q - 1)
    BY <1>1, <1>2, <1>5
  <2>2. c(p) <= c(q - 1) /\ c(q - 1) \in Nat
    BY <2>1, KeptCount
  <2>3. q \in Nat /\ q > 0
    BY <2>1
  <2>4. c(q) = c(q - 1) + IF s[q] \in S THEN 1 ELSE 0
    BY <2>3, KeptCount
  <2>5. c(p) \in Nat
    BY <2>1, KeptCount
  <2> HIDE DEF c
  <2> QED
    BY <2>1, <2>2, <2>4, <2>5
<1> HIDE DEF only, c
<1>6. ASSUME NEW i \in 1..Len(only), NEW p \in 1..Len(s), only[i] = s[p]
      PROVE  p \in Kept(s, S, Len(s)) /\ c(p) = i
  <2>1. PICK r \in Kept(s, S, Len(s)) : c(r) = i
    BY <1>4
  <2>2. only[i] = s[r] /\ r \in 1..Len(s)
    BY <1>2, <1>3, <2>1
  <2>3. r = p
    BY <1>6, <2>2
  <2> QED
    BY <2>1, <2>3
<1>7. \A i \in 1..Len(only) : \E p \in 1..Len(s) : s[p] \in S /\ only[i] = s[p]
  BY <1>2, <1>3, <1>4
<1>8. \A p \in 1..Len(s) : s[p] \in S => \E i \in 1..Len(only) : only[i] = s[p]
  BY <1>2, <1>3
<1>9. ASSUME NEW i \in 1..Len(only), NEW j \in 1..Len(only), only[i] = only[j]
      PROVE  i = j
  <2>1. PICK p \in 1..Len(s) : only[i] = s[p]
    BY <1>7
  <2> QED
    BY <1>6, <1>9, <2>1
<1>10. ASSUME NEW i \in 1..Len(only), NEW j \in 1..Len(only),
              NEW p \in 1..Len(s), NEW q \in 1..Len(s), only[i] = s[p], only[j] = s[q], p < q
       PROVE  i < j
  <2>1. p \in Kept(s, S, Len(s)) /\ c(p) = i /\ q \in Kept(s, S, Len(s)) /\ c(q) = j
    BY <1>6, <1>10
  <2> QED
    BY <1>5, <1>10, <2>1
<1> QED
  BY <1>1, <1>7, <1>8, <1>9, <1>10 DEF only

----------------------------------------------------------------------------
(* sort.                                                                   *)

\* before is a strict total order of the places 1..n.
Orders(before, n) ==
  /\ \A p \in 1..n : <<p, p>> \notin before
  /\ \A p, q \in 1..n : p # q => <<p, q>> \in before \/ <<q, p>> \in before
  /\ \A p, q, r \in 1..n : <<p, q>> \in before /\ <<q, r>> \in before => <<p, r>> \in before

\* A strict total order of finitely many places numbers them: how many come
\* before a place is different for each, and takes every value.
LEMMA PlacesAreNumbered ==
  ASSUME NEW n \in Nat, NEW before, Orders(before, n)
  PROVE  LET rank(p) == Cardinality({q \in 1..n : <<q, p>> \in before})
         IN  /\ \A p \in 1..n : rank(p) \in 0..(n - 1)
             /\ \A p, q \in 1..n : <<p, q>> \in before <=> rank(p) < rank(q)
             /\ \A i \in 1..n : \E p \in 1..n : rank(p) = i - 1
<1> DEFINE Below(p) == {q \in 1..n : <<q, p>> \in before}
           rank(p)  == Cardinality(Below(p))
<1>1. IsFiniteSet(1..n) /\ Cardinality(1..n) = n
  BY FS_Interval
<1>2. \A p \in 1..n : IsFiniteSet(Below(p)) /\ rank(p) \in Nat
  <2> TAKE p \in 1..n
  <2>1. Below(p) \in SUBSET (1..n)
    OBVIOUS
  <2> QED
    BY <1>1, <2>1, FS_Subset, FS_CardinalityType
<1>3. ASSUME NEW p \in 1..n
      PROVE  rank(p) < n
  <2>1. Below(p) \in SUBSET (1..n) /\ p \notin Below(p)
    BY DEF Orders
  <2>2. rank(p) <= n /\ rank(p) # n
    <3>1. Below(p) # 1..n
      BY <2>1
    <3> HIDE DEF Below
    <3> QED
      BY <1>1, <2>1, <3>1, FS_Subset
  <2> QED
    BY <1>2, <2>2
<1>4. ASSUME NEW p \in 1..n, NEW q \in 1..n, <<p, q>> \in before
      PROVE  rank(p) < rank(q)
  <2>1. Below(p) \in SUBSET Below(q) /\ p \in Below(q) /\ p \notin Below(p)
    BY <1>4 DEF Orders
  <2>2. rank(p) <= rank(q) /\ rank(p) # rank(q)
    BY <1>2, <2>1, FS_Subset
  <2> QED
    BY <1>2, <2>2
<1> HIDE DEF rank, Below
<1>5. \A p, q \in 1..n : rank(p) < rank(q) => <<p, q>> \in before
  <2> SUFFICES ASSUME NEW p \in 1..n, NEW q \in 1..n, rank(p) < rank(q)
               PROVE  <<p, q>> \in before
    OBVIOUS
  <2>1. p # q
    BY <1>2
  <2>2. <<p, q>> \in before \/ <<q, p>> \in before
    BY <2>1 DEF Orders
  <2> QED
    BY <1>2, <1>4, <2>2
<1> DEFINE f == [p \in 1..n |-> rank(p) + 1]
<1>6. f \in Injection(1..n, 1..n)
  <2>1. f \in [1..n -> 1..n]
    BY <1>2, <1>3
  <2>2. \A p, q \in 1..n : f[p] = f[q] => p = q
    <3> SUFFICES ASSUME NEW p \in 1..n, NEW q \in 1..n, f[p] = f[q], p # q
                 PROVE  FALSE
      OBVIOUS
    <3>1. rank(p) = rank(q)
      BY <1>2
    <3>2. <<p, q>> \in before \/ <<q, p>> \in before
      BY DEF Orders
    <3> QED
      BY <1>2, <1>4, <3>1, <3>2
  <2> QED
    BY <2>1, <2>2 DEF Injection, IsInjective
<1>7. f \in Surjection(1..n, 1..n)
  BY <1>1, <1>6, FS_Injection
<1>8. ASSUME NEW i \in 1..n
      PROVE  \E p \in 1..n : rank(p) = i - 1
  <2>1. PICK p \in 1..n : f[p] = i
    BY <1>7 DEF Surjection
  <2> QED
    BY <1>2, <2>1
<1>9. \A p \in 1..n : rank(p) \in 0..(n - 1)
  BY <1>2, <1>3
<1> QED
  BY <1>4, <1>5, <1>8, <1>9 DEF rank, Below

\* sort permutes the places of a sequence into the order asked for.
LEMMA ArrangedPlaces ==
  ASSUME NEW X, NEW s \in Seq(X), NEW before, Orders(before, Len(s))
  PROVE  /\ Arranged(s, before) \in Seq(X) /\ Len(Arranged(s, before)) = Len(s)
         /\ \E place \in Bijection(1..Len(s), 1..Len(s)) :
              /\ \A i \in 1..Len(s) : Arranged(s, before)[i] = s[place[i]]
              /\ \A i, j \in 1..Len(s) : i < j <=> <<place[i], place[j]>> \in before
<1> DEFINE n       == Len(s)
           rank(p) == Cardinality({q \in 1..n : <<q, p>> \in before})
           place   == [i \in 1..n |-> CHOOSE p \in 1..n : rank(p) = i - 1]
<1>1. n \in Nat
  BY LenProperties
<1>2. /\ \A p \in 1..n : rank(p) \in 0..(n - 1)
      /\ \A p, q \in 1..n : <<p, q>> \in before <=> rank(p) < rank(q)
      /\ \A i \in 1..n : \E p \in 1..n : rank(p) = i - 1
  BY <1>1, PlacesAreNumbered
<1>3. Arranged(s, before) = [i \in 1..n |-> s[place[i]]]
  BY DEF Arranged
<1> HIDE DEF rank
<1>4. \A i \in 1..n : place[i] \in 1..n /\ rank(place[i]) = i - 1
  BY <1>2
<1>5. place \in [1..n -> 1..n]
  BY <1>4
<1> HIDE DEF place
<1>6. place \in Bijection(1..n, 1..n)
  <2>1. \A i, j \in 1..n : place[i] = place[j] => i = j
    BY <1>1, <1>4
  <2>2. place \in Injection(1..n, 1..n)
    BY <1>5, <2>1 DEF Injection, IsInjective
  <2>3. IsFiniteSet(1..n) /\ Cardinality(1..n) = n
    <3> HIDE DEF n
    <3> QED
      BY <1>1, FS_Interval
  <2>4. place \in Surjection(1..n, 1..n)
    BY <2>2, <2>3, FS_Injection, Zenon
  <2> QED
    BY <2>2, <2>4 DEF Bijection
<1>7. \A i, j \in 1..n : i < j <=> <<place[i], place[j]>> \in before
  <2> TAKE i, j \in 1..n
  <2>1. place[i] \in 1..n /\ place[j] \in 1..n /\ rank(place[i]) = i - 1 /\ rank(place[j]) = j - 1
    BY <1>4
  <2>2. <<place[i], place[j]>> \in before <=> rank(place[i]) < rank(place[j])
    BY <1>2, <2>1
  <2> QED
    BY <1>1, <2>1, <2>2
<1>8. \A i \in 1..n : s[place[i]] \in X
  BY <1>4, ElementOfSeq
<1>9. Arranged(s, before) \in Seq(X) /\ Len(Arranged(s, before)) = n
  BY <1>1, <1>3, <1>8, IsASeq
<1> QED
  BY <1>3, <1>6, <1>7, <1>9

\* sort with (a, b) => a - b returns the numbers, not descending.
LEMMA AscendingSorts ==
  ASSUME NEW s \in Seq(Int)
  PROVE  /\ Ascending(s) \in Seq(Int) /\ Len(Ascending(s)) = Len(s)
         /\ \A i, j \in 1..Len(s) : i < j => Ascending(s)[i] <= Ascending(s)[j]
         /\ \E place \in Bijection(1..Len(s), 1..Len(s)) :
              \A i \in 1..Len(s) : Ascending(s)[i] = s[place[i]]
<1> DEFINE before == {pq \in (1..Len(s)) \X (1..Len(s)) :
                        s[pq[1]] < s[pq[2]] \/ (s[pq[1]] = s[pq[2]] /\ pq[1] < pq[2])}
<1>1. Len(s) \in Nat /\ \A i \in 1..Len(s) : s[i] \in Int
  BY LenProperties, ElementOfSeq
<1>2. \A p, q \in 1..Len(s) : <<p, q>> \in before <=> s[p] < s[q] \/ (s[p] = s[q] /\ p < q)
  BY Zenon
<1>3. Ascending(s) = Arranged(s, before)
  BY DEF Ascending
<1> HIDE DEF before
<1>4. Orders(before, Len(s))
  <2>1. \A p \in 1..Len(s) : <<p, p>> \notin before
    BY <1>1, <1>2
  <2>2. \A p, q \in 1..Len(s) : p # q => <<p, q>> \in before \/ <<q, p>> \in before
    <3> TAKE p, q \in 1..Len(s)
    <3>1. s[p] \in Int /\ s[q] \in Int /\ p \in Int /\ q \in Int
      BY <1>1
    <3>2. p # q => s[p] < s[q] \/ (s[p] = s[q] /\ p < q) \/ s[q] < s[p] \/ (s[q] = s[p] /\ q < p)
      BY <3>1
    <3> QED
      BY <1>2, <3>2
  <2>3. \A p, q, r \in 1..Len(s) : <<p, q>> \in before /\ <<q, r>> \in before => <<p, r>> \in before
    <3> TAKE p, q, r \in 1..Len(s)
    <3>1. s[p] \in Int /\ s[q] \in Int /\ s[r] \in Int /\ p \in Int /\ q \in Int /\ r \in Int
      BY <1>1
    <3>2. /\ <<p, q>> \in before <=> s[p] < s[q] \/ (s[p] = s[q] /\ p < q)
          /\ <<q, r>> \in before <=> s[q] < s[r] \/ (s[q] = s[r] /\ q < r)
          /\ <<p, r>> \in before <=> s[p] < s[r] \/ (s[p] = s[r] /\ p < r)
      BY <1>2
    <3> QED
      BY <3>1, <3>2
  <2> QED
    BY <2>1, <2>2, <2>3 DEF Orders
<1>5. /\ Ascending(s) \in Seq(Int) /\ Len(Ascending(s)) = Len(s)
      /\ \E place \in Bijection(1..Len(s), 1..Len(s)) :
           /\ \A i \in 1..Len(s) : Ascending(s)[i] = s[place[i]]
           /\ \A i, j \in 1..Len(s) : i < j <=> <<place[i], place[j]>> \in before
  <2>1. /\ Arranged(s, before) \in Seq(Int) /\ Len(Arranged(s, before)) = Len(s)
        /\ \E place \in Bijection(1..Len(s), 1..Len(s)) :
             /\ \A i \in 1..Len(s) : Arranged(s, before)[i] = s[place[i]]
             /\ \A i, j \in 1..Len(s) : i < j <=> <<place[i], place[j]>> \in before
    BY <1>4, ArrangedPlaces, Zenon
  <2> QED
    BY <1>3, <2>1, Zenon
<1>6. PICK place \in Bijection(1..Len(s), 1..Len(s)) :
        /\ \A i \in 1..Len(s) : Ascending(s)[i] = s[place[i]]
        /\ \A i, j \in 1..Len(s) : i < j <=> <<place[i], place[j]>> \in before
  BY <1>5
<1>7. \A i \in 1..Len(s) : place[i] \in 1..Len(s)
  BY DEF Bijection, Injection
<1>8. ASSUME NEW i \in 1..Len(s), NEW j \in 1..Len(s), i < j
      PROVE  Ascending(s)[i] <= Ascending(s)[j]
  <2>1. place[i] \in 1..Len(s) /\ place[j] \in 1..Len(s) /\ <<place[i], place[j]>> \in before
    BY <1>6, <1>7, <1>8
  <2>2. s[place[i]] <= s[place[j]]
    <3>1. s[place[i]] \in Int /\ s[place[j]] \in Int
      BY <1>1, <2>1
    <3>2. s[place[i]] < s[place[j]] \/ s[place[i]] = s[place[j]]
      BY <1>2, <2>1
    <3> QED
      BY <3>1, <3>2
  <2> QED
    BY <1>6, <2>2
<1> QED
  BY <1>5, <1>6, <1>8

\* t holds the numbers of s in ascending order.
Sorts(s, t, n) ==
  /\ s \in [1..n -> Int] /\ t \in [1..n -> Int]
  /\ \A i, j \in 1..n : i < j => t[i] <= t[j]
  /\ \E place \in [1..n -> 1..n] :
       /\ \A i, j \in 1..n : place[i] = place[j] => i = j
       /\ \A p \in 1..n : \E i \in 1..n : place[i] = p
       /\ \A i \in 1..n : t[i] = s[place[i]]

LEMMA AscendingIsSorted ==
  ASSUME NEW s \in Seq(Int)
  PROVE  Len(s) \in Nat /\ Sorts(s, Ascending(s), Len(s))
<1>1. PICK place \in Bijection(1..Len(s), 1..Len(s)) :
        \A i \in 1..Len(s) : Ascending(s)[i] = s[place[i]]
  BY AscendingSorts
<1>2. Len(s) \in Nat /\ s \in [1..Len(s) -> Int] /\ Ascending(s) \in [1..Len(s) -> Int]
  BY AscendingSorts, LenProperties
<1>3. \A i, j \in 1..Len(s) : i < j => Ascending(s)[i] <= Ascending(s)[j]
  BY AscendingSorts
<1>4. /\ place \in [1..Len(s) -> 1..Len(s)]
      /\ \A i, j \in 1..Len(s) : place[i] = place[j] => i = j
      /\ \A p \in 1..Len(s) : \E i \in 1..Len(s) : place[i] = p
  BY DEF Bijection, Injection, Surjection, IsInjective
<1> QED
  BY <1>1, <1>2, <1>3, <1>4, Zenon DEF Sorts

\* Sorting neither adds nor drops a number.
LEMMA SortsPermutes ==
  ASSUME NEW n \in Nat, NEW s, NEW t, Sorts(s, t, n)
  PROVE  /\ \A i \in 1..n : \E p \in 1..n : t[i] = s[p]
         /\ \A p \in 1..n : \E i \in 1..n : t[i] = s[p]
<1>1. PICK place \in [1..n -> 1..n] :
         /\ \A p \in 1..n : \E i \in 1..n : place[i] = p
         /\ \A i \in 1..n : t[i] = s[place[i]]
  BY DEF Sorts
<1>2. ASSUME NEW i \in 1..n PROVE \E p \in 1..n : t[i] = s[p]
  BY <1>1
<1>3. ASSUME NEW p \in 1..n PROVE \E i \in 1..n : t[i] = s[p]
  <2>1. PICK i \in 1..n : place[i] = p
    BY <1>1
  <2>2. t[i] = s[p]
    BY <1>1, <2>1
  <2> QED
    BY <2>2
<1> QED
  BY <1>2, <1>3

\* As many of the sorted numbers as of the given ones are above a limit.
LEMMA SortsCounts ==
  ASSUME NEW n \in Nat, NEW s, NEW t, Sorts(s, t, n), NEW x \in Int
  PROVE  Cardinality({i \in 1..n : s[i] > x}) = Cardinality({i \in 1..n : t[i] > x})
<1> DEFINE G == {i \in 1..n : s[i] > x}
           H == {i \in 1..n : t[i] > x}
<1>1. PICK place \in [1..n -> 1..n] :
         /\ \A i, j \in 1..n : place[i] = place[j] => i = j
         /\ \A p \in 1..n : \E i \in 1..n : place[i] = p
         /\ \A i \in 1..n : t[i] = s[place[i]]
  BY DEF Sorts
<1>2. IsFiniteSet(H)
  <2>1. IsFiniteSet(1..n) /\ H \in SUBSET (1..n)
    BY FS_Interval
  <2> QED
    BY <2>1, FS_Subset
<1> DEFINE f == [i \in H |-> place[i]]
<1>3. \A i \in H : place[i] \in G
  BY <1>1
<1>4. \A p \in G : \E i \in H : place[i] = p
  BY <1>1
<1>5. f \in Bijection(H, G)
  <2>1. f \in [H -> G]
    BY <1>3
  <2>2. \A i, j \in H : f[i] = f[j] => i = j
    BY <1>1
  <2>3. \A p \in G : \E i \in H : f[i] = p
    BY <1>4
  <2> HIDE DEF f, G, H
  <2> QED
    BY <2>1, <2>2, <2>3 DEF Bijection, Injection, Surjection, IsInjective
<1>6. ExistsBijection(H, G)
  BY <1>5 DEF ExistsBijection
<1>7. Cardinality(G) = Cardinality(H)
  BY <1>2, <1>6, FS_Bijection
<1> QED
  BY <1>7

\* Of ascending numbers, the m-th is more than x exactly if all but m - 1 are.
LEMMA AboveInOrder ==
  ASSUME NEW n \in Nat, NEW t \in [1..n -> Int], \A i, j \in 1..n : i < j => t[i] <= t[j],
         NEW m \in 1..n, NEW x \in Int
  PROVE  /\ Cardinality({i \in 1..n : t[i] > x}) \in Nat
         /\ t[m] > x <=> Cardinality({i \in 1..n : t[i] > x}) >= n - m + 1
<1> DEFINE H == {i \in 1..n : t[i] > x}
<1>1. IsFiniteSet(H) /\ Cardinality(H) \in Nat
  <2>1. IsFiniteSet(1..n) /\ H \in SUBSET (1..n)
    BY FS_Interval
  <2> QED
    BY <2>1, FS_Subset, FS_CardinalityType
<1>2. ASSUME t[m] > x
      PROVE  Cardinality(H) >= n - m + 1
  <2>1. m..n \in SUBSET H
    <3> SUFFICES ASSUME NEW i \in m..n PROVE i \in H
      OBVIOUS
    <3>1. i \in 1..n /\ t[i] \in Int /\ t[m] \in Int /\ (m < i \/ m = i)
      OBVIOUS
    <3>2. t[m] <= t[i]
      BY <3>1
    <3> QED
      BY <1>2, <3>1, <3>2
  <2>2. Cardinality(m..n) = n - m + 1
    BY FS_Interval
  <2> HIDE DEF H
  <2>3. Cardinality(m..n) <= Cardinality(H)
    BY <1>1, <2>1, FS_Subset
  <2> QED
    BY <2>2, <2>3
<1>3. ASSUME ~(t[m] > x)
      PROVE  Cardinality(H) < n - m + 1
  <2>1. H \in SUBSET ((m + 1)..n)
    <3> SUFFICES ASSUME NEW i \in 1..n, t[i] > x PROVE i \in (m + 1)..n
      OBVIOUS
    <3>1. t[i] \in Int /\ t[m] \in Int
      OBVIOUS
    <3>2. ~(i < m) /\ i # m
      BY <1>3, <3>1
    <3> QED
      BY <3>2
  <2>2. IsFiniteSet((m + 1)..n) /\ Cardinality((m + 1)..n) = n - m
    BY FS_Interval
  <2> HIDE DEF H
  <2>3. Cardinality(H) <= Cardinality((m + 1)..n)
    BY <2>1, <2>2, FS_Subset
  <2> QED
    BY <1>1, <2>2, <2>3
<1> HIDE DEF H
<1>4. t[m] > x <=> Cardinality(H) >= n - m + 1
  BY <1>1, <1>2, <1>3
<1> QED
  BY <1>1, <1>4 DEF H

\* How many of the first n elements are more than x.
Above(s, n, x) == Cardinality({i \in 1..n : s[i] > x})

LEMMA MoreThanPlace ==
  ASSUME NEW n \in Nat, NEW s, NEW t, Sorts(s, t, n), NEW m \in 1..n, NEW x \in Int
  PROVE  /\ t[m] \in Int /\ Above(s, n, x) \in Nat
         /\ t[m] > x <=> Above(s, n, x) >= n - m + 1
<1>1. t \in [1..n -> Int] /\ \A i, j \in 1..n : i < j => t[i] <= t[j]
  BY DEF Sorts
<1>2. /\ Above(t, n, x) \in Nat
      /\ t[m] > x <=> Above(t, n, x) >= n - m + 1
  BY <1>1, AboveInOrder DEF Above
<1>3. Above(s, n, x) = Above(t, n, x)
  BY SortsCounts DEF Above
<1>4. t[m] \in Int
  BY <1>1
<1> QED
  BY <1>2, <1>3, <1>4

\* Ascending numbers grow by one exactly if they are an interval of as many.
LEMMA GrowInOrder ==
  ASSUME NEW n \in Nat, n > 0, NEW t \in [1..n -> Int],
         \A i, j \in 1..n : i < j => t[i] <= t[j]
  PROVE  (\A i \in 2..n : t[i] = t[i - 1] + 1)
           <=> \E first \in {t[i] : i \in 1..n} : {t[i] : i \in 1..n} = first..(first + n - 1)
<1> DEFINE S == {t[i] : i \in 1..n}
<1>1. \A v \in S : v \in Int
  OBVIOUS
<1>2. 1 \in 1..n /\ t[1] \in Int /\ t[1] \in S
  OBVIOUS
<1>3. ASSUME \A i \in 2..n : t[i] = t[i - 1] + 1
      PROVE  S = t[1]..(t[1] + n - 1)
  <2> DEFINE Off == {i \in 1..n : t[i] # t[1] + i - 1}
  <2>1. Off = {}
    <3> SUFFICES ASSUME Off # {} PROVE FALSE
      OBVIOUS
    <3>1. Off \subseteq Nat
      OBVIOUS
    <3>2. PICK m \in Off : \A k \in Off : m <= k
      BY <3>1, LeastOf
    <3>3. m # 1
      BY <1>2
    <3>4. m \in 2..n /\ m - 1 \in 1..n /\ m - 1 \notin Off
      BY <3>2, <3>3
    <3>5. t[m - 1] = t[1] + (m - 1) - 1 /\ t[m] = t[m - 1] + 1
      BY <1>3, <3>4
    <3>6. t[m] # t[1] + m - 1
      BY <3>2
    <3> QED
      BY <1>2, <3>4, <3>5, <3>6
  <2>2. \A i \in 1..n : t[i] = t[1] + i - 1
    BY <2>1
  <2>3. ASSUME NEW i \in 1..n PROVE t[i] \in t[1]..(t[1] + n - 1)
    BY <1>2, <2>2
  <2>4. ASSUME NEW v \in t[1]..(t[1] + n - 1) PROVE v \in S
    <3>1. v - t[1] + 1 \in 1..n
      BY <1>2
    <3>2. PICK i \in 1..n : i = v - t[1] + 1
      BY <3>1
    <3>3. t[i] = t[1] + i - 1 /\ v \in Int
      BY <1>2, <2>2
    <3>4. t[i] = v
      BY <1>2, <3>2, <3>3
    <3> QED
      BY <3>4
  <2> QED
    BY <2>3, <2>4
<1>4. ASSUME NEW first \in S, S = first..(first + n - 1), NEW i \in 2..n
      PROVE  t[i] = t[i - 1] + 1
  <2>1. first \in Int /\ i \in 1..n /\ i - 1 \in 1..n /\ t[i] \in Int /\ t[i - 1] \in Int
    BY <1>1
  <2>2. t \in Surjection(1..n, S)
    BY DEF Surjection
  <2> HIDE DEF S
  <2>3. IsFiniteSet(1..n) /\ Cardinality(1..n) = n /\ Cardinality(S) = n
    BY <1>4, <2>1, FS_Interval
  <2>4. t \in Injection(1..n, S)
    BY <2>2, <2>3, FS_Surjection
  <2>5. t[i - 1] # t[i]
    BY <2>1, <2>4 DEF Injection, IsInjective
  <2>6. t[i - 1] < t[i]
    BY <2>1, <2>5
  <2>7. ASSUME t[i] # t[i - 1] + 1 PROVE FALSE
    <3>1. t[i] \in S /\ t[i - 1] \in S
      BY <2>1 DEF S
    <3>2. t[i - 1] + 1 \in S /\ t[i - 1] + 1 < t[i]
      BY <1>4, <2>1, <2>6, <2>7, <3>1
    <3>3. PICK k \in 1..n : t[k] = t[i - 1] + 1
      BY <3>2 DEF S
    <3>4. k < i - 1 \/ k = i - 1 \/ i = k \/ i < k
      BY <2>1
    <3>5. t[k] <= t[i - 1] \/ t[i] <= t[k]
      BY <2>1, <3>4
    <3> QED
      BY <2>1, <3>2, <3>3, <3>5
  <2> QED
    BY <2>7
<1> HIDE DEF S
<1>5. (\A i \in 2..n : t[i] = t[i - 1] + 1) <=> \E first \in S : S = first..(first + n - 1)
  BY <1>2, <1>3, <1>4
<1> QED
  BY <1>5 DEF S

Grow(t, n)     == \A i \in 2..n : t[i] = t[i - 1] + 1
Interval(s, n) == \E first \in {s[i] : i \in 1..n} : {s[i] : i \in 1..n} = first..(first + n - 1)

LEMMA GrowByOne ==
  ASSUME NEW n \in Nat, n > 0, NEW s, NEW t, Sorts(s, t, n)
  PROVE  Grow(t, n) <=> Interval(s, n)
<1>1. t \in [1..n -> Int] /\ \A i, j \in 1..n : i < j => t[i] <= t[j]
  BY DEF Sorts
<1>2. {t[i] : i \in 1..n} = {s[i] : i \in 1..n}
  <2>1. /\ \A i \in 1..n : \E p \in 1..n : t[i] = s[p]
        /\ \A p \in 1..n : \E i \in 1..n : t[i] = s[p]
    BY SortsPermutes
  <2>2. ASSUME NEW v \in {t[i] : i \in 1..n} PROVE v \in {s[i] : i \in 1..n}
    BY <2>1, Zenon
  <2>3. ASSUME NEW v \in {s[i] : i \in 1..n} PROVE v \in {t[i] : i \in 1..n}
    <3>1. PICK p \in 1..n : v = s[p]
      OBVIOUS
    <3>2. PICK i \in 1..n : t[i] = s[p]
      BY <2>1
    <3> QED
      BY <3>1, <3>2
  <2> QED
    BY <2>2, <2>3
<1>3. (\A i \in 2..n : t[i] = t[i - 1] + 1)
        <=> \E first \in {t[i] : i \in 1..n} : {t[i] : i \in 1..n} = first..(first + n - 1)
  BY <1>1, GrowInOrder
<1> QED
  BY <1>2, <1>3 DEF Grow, Interval

----------------------------------------------------------------------------
(* Recursion over places.                                                  *)

\* What holds at 0 and is passed on from each place to the next holds at all.
LEMMA UpTo ==
  ASSUME NEW N \in Nat, NEW T, 0 \in T, \A n \in 1..N : n - 1 \in T => n \in T
  PROVE  \A n \in 0..N : n \in T
<1> DEFINE U == {n \in 0..N : n \notin T}
<1> SUFFICES ASSUME U # {} PROVE FALSE
  OBVIOUS
<1>1. U \subseteq Nat
  OBVIOUS
<1>2. PICK m \in U : \A k \in U : m <= k
  BY <1>1, LeastOf
<1>3. m \in 1..N /\ m - 1 \in 0..N /\ m - 1 \notin U
  BY <1>2
<1> QED
  BY <1>3

\* g starts as base and goes on by step.
Runs(g, N, base, step) == g[0] = base /\ \A n \in 1..N : g[n] = step[<<g[n - 1], n>>]

\* A recursive function over places exists, with values in the set that the
\* steps stay in.
LEMMA Recursion ==
  ASSUME NEW N \in Nat, NEW S, NEW base \in S, NEW step \in [S \X (1..N) -> S]
  PROVE  \E g \in [0..N -> S] : Runs(g, N, base, step)
<1> DEFINE T == {n \in 0..N : \E g \in [0..n -> S] : Runs(g, n, base, step)}
<1>1. 0 \in T
  <2>1. [n \in 0..0 |-> base] \in [0..0 -> S] /\ Runs([n \in 0..0 |-> base], 0, base, step)
    BY DEF Runs
  <2> QED
    BY <2>1
<1>2. ASSUME NEW n \in 1..N, n - 1 \in T
      PROVE  n \in T
  <2>1. PICK g \in [0..(n - 1) -> S] : Runs(g, n - 1, base, step)
    BY <1>2
  <2> DEFINE next == step[<<g[n - 1], n>>]
             h    == [m \in 0..n |-> IF m = n THEN next ELSE g[m]]
  <2>2. next \in S
    <3>1. g[n - 1] \in S
      OBVIOUS
    <3>2. <<g[n - 1], n>> \in S \X (1..N)
      BY <3>1
    <3> QED
      BY <3>2
  <2>3. h \in [0..n -> S]
    BY <2>2
  <2>4. h[n] = next /\ \A m \in 0..(n - 1) : h[m] = g[m]
    OBVIOUS
  <2> HIDE DEF h
  <2>5. h[0] = base
    BY <2>1, <2>4 DEF Runs
  <2>6. ASSUME NEW m \in 1..n
        PROVE  h[m] = step[<<h[m - 1], m>>]
    <3>1. h[m - 1] = g[m - 1]
      BY <2>4
    <3>2. CASE m = n
      BY <2>4, <3>1, <3>2
    <3>3. CASE m # n
      <4>1. h[m] = g[m] /\ m \in 1..(n - 1)
        BY <2>4, <3>3
      <4>2. g[m] = step[<<g[m - 1], m>>]
        BY <2>1, <4>1 DEF Runs
      <4> QED
        BY <3>1, <4>1, <4>2
    <3> QED
      BY <3>2, <3>3
  <2>7. Runs(h, n, base, step)
    BY <2>5, <2>6 DEF Runs
  <2> QED
    BY <2>3, <2>7
<1> HIDE DEF T
<1>3. \A n \in 0..N : n \in T
  BY <1>1, <1>2, UpTo
<1>4. N \in T
  BY <1>3
<1> QED
  BY <1>4 DEF T

----------------------------------------------------------------------------
(* push(...list).                                                          *)

\* s holds the first n lists of ss one after the other: its place k is the
\* place col[k] of the list row[k].
Lays(ss, n, s, row, col) ==
  /\ \A k \in 1..Len(s) : /\ row[k] \in 1..n /\ col[k] \in 1..Len(ss[row[k]])
                          /\ s[k] = ss[row[k]][col[k]]
  /\ \A k, l \in 1..Len(s) : k < l => row[k] < row[l] \/ (row[k] = row[l] /\ col[k] < col[l])
  /\ \A i \in 1..n : \A j \in 1..Len(ss[i]) : \E k \in 1..Len(s) : row[k] = i /\ col[k] = j

Laid(ss, n, s) == \E row, col : Lays(ss, n, s, row, col)

Joined(s, t) == s \o t

LEMMA LaysNext ==
  ASSUME NEW X, NEW ss, NEW n \in Nat, n > 0, ss[n] \in Seq(X), NEW s \in Seq(X), Laid(ss, n - 1, s)
  PROVE  Laid(ss, n, Joined(s, ss[n]))
<1> DEFINE t == ss[n]
           u == s \o ss[n]
           L == Len(s)
           M == Len(t)
<1>1. PICK row, col : Lays(ss, n - 1, s, row, col)
  BY DEF Laid
<1> DEFINE row1 == [k \in 1..(L + M) |-> IF k <= L THEN row[k] ELSE n]
           col1 == [k \in 1..(L + M) |-> IF k <= L THEN col[k] ELSE k - L]
<1>2. L \in Nat /\ M \in Nat
  BY LenProperties
<1>3. Len(u) = L + M /\ \A k \in 1..(L + M) : u[k] = IF k <= L THEN s[k] ELSE t[k - L]
  BY ConcatProperties
<1>4. /\ \A k \in 1..L : row1[k] = row[k] /\ col1[k] = col[k] /\ u[k] = s[k] /\ k \in 1..(L + M)
      /\ \A k \in (L + 1)..(L + M) : row1[k] = n /\ col1[k] = k - L /\ k \in 1..(L + M)
      /\ \A k \in 1..(L + M) : k \in 1..L \/ k \in (L + 1)..(L + M)
  BY <1>2, <1>3
<1>5. \A k \in (L + 1)..(L + M) : u[k] = t[k - L] /\ k - L \in 1..M
  BY <1>2, <1>3
<1>6. /\ \A k \in 1..L : /\ row[k] \in 1..(n - 1) /\ col[k] \in 1..Len(ss[row[k]])
                         /\ s[k] = ss[row[k]][col[k]]
      /\ \A k, l \in 1..L : k < l => row[k] < row[l] \/ (row[k] = row[l] /\ col[k] < col[l])
      /\ \A i \in 1..(n - 1) : \A j \in 1..Len(ss[i]) : \E k \in 1..L : row[k] = i /\ col[k] = j
  BY <1>1 DEF Lays
<1> HIDE DEF u, L, M, row1, col1
<1>7. ASSUME NEW k \in 1..(L + M)
      PROVE  /\ row1[k] \in 1..n /\ col1[k] \in 1..Len(ss[row1[k]])
             /\ u[k] = ss[row1[k]][col1[k]]
  <2>1. CASE k \in 1..L
    <3>1. row1[k] = row[k] /\ col1[k] = col[k] /\ u[k] = s[k]
      BY <1>4, <2>1
    <3>2. row[k] \in 1..(n - 1) /\ col[k] \in 1..Len(ss[row[k]]) /\ s[k] = ss[row[k]][col[k]]
      BY <1>6, <2>1
    <3>3. row[k] \in 1..n
      BY <3>2
    <3> QED
      BY <3>1, <3>2, <3>3
  <2>2. CASE k \in (L + 1)..(L + M)
    BY <1>4, <1>5, <2>2 DEF M
  <2> QED
    BY <1>4, <2>1, <2>2
<1>8. ASSUME NEW k \in 1..(L + M), NEW l \in 1..(L + M), k < l
      PROVE  row1[k] < row1[l] \/ (row1[k] = row1[l] /\ col1[k] < col1[l])
  <2>1. CASE l \in 1..L
    <3>1. k \in 1..L
      BY <1>2, <1>8, <2>1
    <3> QED
      BY <1>4, <1>6, <1>8, <2>1, <3>1
  <2>2. CASE k \in 1..L /\ l \in (L + 1)..(L + M)
    <3>1. row1[k] \in 1..(n - 1) /\ row1[l] = n
      BY <1>4, <1>6, <2>2
    <3> QED
      BY <3>1
  <2>3. CASE k \in (L + 1)..(L + M)
    <3>1. l \in (L + 1)..(L + M)
      BY <1>2, <1>8, <2>3
    <3>2. row1[k] = n /\ row1[l] = n /\ col1[k] = k - L /\ col1[l] = l - L
      BY <1>4, <2>3, <3>1
    <3> QED
      BY <1>2, <1>8, <3>2
  <2> QED
    BY <1>4, <2>1, <2>2, <2>3
<1>9. ASSUME NEW i \in 1..n, NEW j \in 1..Len(ss[i])
      PROVE  \E k \in 1..(L + M) : row1[k] = i /\ col1[k] = j
  <2>1. CASE i = n
    <3>1. j \in 1..M
      BY <2>1 DEF M
    <3>2. L + j \in (L + 1)..(L + M) /\ (L + j) - L = j
      BY <1>2, <3>1
    <3>3. row1[L + j] = n /\ col1[L + j] = j /\ L + j \in 1..(L + M)
      BY <1>4, <3>2
    <3> QED
      BY <2>1, <3>3
  <2>2. CASE i # n
    <3>0. i \in 1..(n - 1)
      BY <2>2
    <3>1. PICK k \in 1..L : row[k] = i /\ col[k] = j
      BY <1>6, <3>0
    <3> QED
      BY <1>4, <3>1
  <2> QED
    BY <2>1, <2>2
<1>10. Lays(ss, n, u, row1, col1)
  <2>1. Len(u) = L + M
    BY <1>3
  <2>2. \A k \in 1..Len(u) : /\ row1[k] \in 1..n /\ col1[k] \in 1..Len(ss[row1[k]])
                             /\ u[k] = ss[row1[k]][col1[k]]
    BY <1>7, <2>1
  <2>3. \A k, l \in 1..Len(u) :
          k < l => row1[k] < row1[l] \/ (row1[k] = row1[l] /\ col1[k] < col1[l])
    BY <1>8, <2>1
  <2>4. \A i \in 1..n : \A j \in 1..Len(ss[i]) : \E k \in 1..Len(u) : row1[k] = i /\ col1[k] = j
    BY <1>9, <2>1
  <2> QED
    BY <2>2, <2>3, <2>4, Zenon DEF Lays
<1> QED
  BY <1>10 DEF Laid, Joined, u

\* The place behind one is the next of its list, or the first of a later list
\* behind the last of this; the first place is that of a list and the last the
\* last of one.
Neighbours(ss, s, row, col) ==
  /\ \A k \in 1..Len(s) : k + 1 \in 1..Len(s) =>
       \/ row[k + 1] = row[k] /\ col[k + 1] = col[k] + 1
       \/ row[k] < row[k + 1] /\ col[k] = Len(ss[row[k]]) /\ col[k + 1] = 1
  /\ Len(s) > 0 => col[1] = 1 /\ col[Len(s)] = Len(ss[row[Len(s)]])

LEMMA LaysNeighbours ==
  ASSUME NEW n \in Nat, NEW ss, \A i \in 1..n : Len(ss[i]) \in Nat /\ Len(ss[i]) > 0,
         NEW s, Len(s) \in Nat, NEW row, NEW col, Lays(ss, n, s, row, col)
  PROVE  Neighbours(ss, s, row, col)
<1> DEFINE L == Len(s)
<1>1. L \in Nat
  OBVIOUS
<1>2. \A i \in 1..n : Len(ss[i]) \in Nat /\ Len(ss[i]) > 0
  OBVIOUS
<1>3. /\ \A k \in 1..L : row[k] \in 1..n /\ col[k] \in 1..Len(ss[row[k]])
      /\ \A k, l \in 1..L : k < l => row[k] < row[l] \/ (row[k] = row[l] /\ col[k] < col[l])
      /\ \A i \in 1..n : \A j \in 1..Len(ss[i]) : \E k \in 1..L : row[k] = i /\ col[k] = j
  BY DEF Lays
<1>8. \A i \in 1..n : \A j \in 1..Len(ss[i]) : \E k \in 1..L : row[k] = i /\ col[k] = j
  BY <1>3
<1> HIDE DEF L
<1>4. ASSUME NEW k \in 1..L, NEW m \in 1..L
      PROVE  /\ row[k] \in 1..n /\ row[m] \in 1..n /\ col[k] \in Int /\ col[m] \in Int
             /\ k <= m => row[k] < row[m] \/ (row[k] = row[m] /\ col[k] <= col[m])
  <2>1. row[k] \in 1..n /\ row[m] \in 1..n /\ col[k] \in Int /\ col[m] \in Int
    BY <1>2, <1>3
  <2>2. k <= m => k < m \/ k = m
    BY <1>1
  <2>3. k < m => row[k] < row[m] \/ (row[k] = row[m] /\ col[k] < col[m])
    BY <1>3
  <2> QED
    BY <2>1, <2>2, <2>3
<1>5. ASSUME NEW k \in 1..L, NEW l \in 1..L, l = k + 1
      PROVE  \/ row[l] = row[k] /\ col[l] = col[k] + 1
             \/ row[k] < row[l] /\ col[k] = Len(ss[row[k]]) /\ col[l] = 1
  <2>1. /\ row[k] \in Int /\ row[l] \in Int /\ col[k] \in Int /\ col[l] \in Int
        /\ row[k] \in 1..n /\ row[l] \in 1..n
        /\ col[k] \in 1..Len(ss[row[k]]) /\ col[l] \in 1..Len(ss[row[l]])
        /\ Len(ss[row[k]]) \in Nat /\ Len(ss[row[l]]) \in Nat
    BY <1>2, <1>3
  <2>2. row[k] < row[l] \/ (row[k] = row[l] /\ col[k] < col[l])
    <3>1. k < l
      BY <1>1, <1>5
    <3> QED
      BY <1>3, <3>1
  <2>3. \A m \in 1..L : m <= k \/ l <= m
    BY <1>1, <1>5
  <2>4. \A m \in 1..L :
          /\ row[m] \in Int /\ col[m] \in Int
          /\ m <= k => row[m] < row[k] \/ (row[m] = row[k] /\ col[m] <= col[k])
          /\ l <= m => row[l] < row[m] \/ (row[l] = row[m] /\ col[l] <= col[m])
    BY <1>4
  <2>5. CASE row[k] = row[l]
    <3>1. col[k] + 1 \in 1..Len(ss[row[k]])
      BY <2>1, <2>2, <2>5
    <3>2. PICK m \in 1..L : row[m] = row[k] /\ col[m] = col[k] + 1
      BY <1>8, <2>1, <3>1, Zenon
    <3>3. l <= m
      BY <2>1, <2>3, <2>4, <3>2
    <3>4. col[l] <= col[k] + 1
      BY <2>1, <2>4, <2>5, <3>2, <3>3
    <3> QED
      BY <2>1, <2>2, <2>5, <3>4
  <2>6. CASE row[k] < row[l]
    <3>1. col[k] = Len(ss[row[k]])
      <4> SUFFICES ASSUME col[k] + 1 \in 1..Len(ss[row[k]]) PROVE FALSE
        BY <2>1
      <4>1. PICK m \in 1..L : row[m] = row[k] /\ col[m] = col[k] + 1
        BY <1>8, <2>1, Zenon
      <4>2. /\ m <= k => row[m] < row[k] \/ (row[m] = row[k] /\ col[m] <= col[k])
            /\ l <= m => row[l] < row[m] \/ (row[l] = row[m] /\ col[l] <= col[m])
            /\ m <= k \/ l <= m
        BY <2>3, <2>4
      <4> QED
        BY <2>1, <2>6, <4>1, <4>2
    <3>2. col[l] = 1
      <4> SUFFICES ASSUME col[l] - 1 \in 1..Len(ss[row[l]]) PROVE FALSE
        BY <2>1
      <4>1. PICK m \in 1..L : row[m] = row[l] /\ col[m] = col[l] - 1
        BY <1>8, <2>1, Zenon
      <4>2. /\ m <= k => row[m] < row[k] \/ (row[m] = row[k] /\ col[m] <= col[k])
            /\ l <= m => row[l] < row[m] \/ (row[l] = row[m] /\ col[l] <= col[m])
            /\ m <= k \/ l <= m
        BY <2>3, <2>4
      <4>3. ~(m <= k)
        <5>1. row[m] = row[l] /\ (m <= k => row[m] <= row[k])
          BY <2>1, <4>1, <4>2
        <5> QED
          BY <2>1, <2>6, <5>1
      <4>4. ~(l <= m)
        BY <2>1, <4>1, <4>2
      <4> QED
        BY <4>2, <4>3, <4>4
    <3> QED
      BY <2>6, <3>1, <3>2
  <2> QED
    BY <2>2, <2>5, <2>6
<1>6. ASSUME L > 0
      PROVE  col[1] = 1 /\ col[L] = Len(ss[row[L]])
  <2>1. 1 \in 1..L /\ L \in 1..L /\ \A m \in 1..L : 1 <= m /\ m <= L
    BY <1>1, <1>6
  <2>2. /\ row[1] \in 1..n /\ col[1] \in 1..Len(ss[row[1]])
        /\ row[L] \in 1..n /\ col[L] \in 1..Len(ss[row[L]])
        /\ Len(ss[row[1]]) \in Nat /\ Len(ss[row[L]]) \in Nat
    BY <1>2, <1>3, <2>1
  <2>3. col[1] = 1
    <3>1. 1 \in 1..Len(ss[row[1]])
      BY <2>2
    <3>2. PICK m \in 1..L : row[m] = row[1] /\ col[m] = 1
      BY <1>8, <2>2, <3>1, Zenon
    <3>3. row[1] < row[m] \/ (row[1] = row[m] /\ col[1] <= col[m])
      BY <1>4, <2>1
    <3> QED
      BY <2>2, <3>2, <3>3
  <2>4. col[L] = Len(ss[row[L]])
    <3>1. Len(ss[row[L]]) \in 1..Len(ss[row[L]])
      BY <2>2
    <3>2. PICK m \in 1..L : row[m] = row[L] /\ col[m] = Len(ss[row[L]])
      BY <1>8, <2>2, <3>1, Zenon
    <3>3. row[m] < row[L] \/ (row[m] = row[L] /\ col[m] <= col[L])
      BY <1>4, <2>1
    <3> QED
      BY <2>2, <3>2, <3>3
  <2> QED
    BY <2>3, <2>4
<1>7. \A k \in 1..L : k + 1 \in 1..L =>
        \/ row[k + 1] = row[k] /\ col[k + 1] = col[k] + 1
        \/ row[k] < row[k + 1] /\ col[k] = Len(ss[row[k]]) /\ col[k + 1] = 1
  BY <1>5
<1> QED
  BY <1>6, <1>7 DEF Neighbours, L

\* One list after the other, each whole and in its order.
LEMMA FlatLays ==
  ASSUME NEW X, NEW ss \in Seq(Seq(X))
  PROVE  Flat(ss) \in Seq(X) /\ Laid(ss, Len(ss), Flat(ss))
<1> DEFINE N    == Len(ss)
           Flats(flat) == flat = [n \in 0..N |-> IF n = 0 THEN <<>> ELSE flat[n - 1] \o ss[n]]
           step == [sn \in Seq(X) \X (1..N) |-> sn[1] \o ss[sn[2]]]
           chosen == CHOOSE flat : Flats(flat)
<1>1. N \in Nat /\ \A n \in 1..N : ss[n] \in Seq(X)
  BY LenProperties, ElementOfSeq
<1>2. \E flat : Flats(flat)
  <2>1. step \in [Seq(X) \X (1..N) -> Seq(X)]
    <3>1. \A s \in Seq(X), n \in 1..N : s \o ss[n] \in Seq(X)
      BY <1>1, ConcatProperties
    <3> QED
      BY <3>1
  <2>2. <<>> \in Seq(X)
    BY EmptySeq
  <2>3. \A s \in Seq(X), n \in 1..N : step[<<s, n>>] = s \o ss[n]
    OBVIOUS
  <2> HIDE DEF step, N
  <2>4. PICK g \in [0..N -> Seq(X)] : Runs(g, N, <<>>, step)
    BY <1>1, <2>1, <2>2, Recursion
  <2>5. ASSUME NEW n \in 0..N
        PROVE  g[n] = IF n = 0 THEN <<>> ELSE g[n - 1] \o ss[n]
    <3>1. CASE n = 0
      BY <2>4, <3>1 DEF Runs
    <3>2. CASE n # 0
      <4>1. n \in 1..N /\ n - 1 \in 0..N /\ g[n - 1] \in Seq(X)
        BY <1>1, <3>2
      <4>2. g[n] = step[<<g[n - 1], n>>]
        BY <2>4, <4>1 DEF Runs
      <4> QED
        BY <2>3, <3>2, <4>1, <4>2
    <3> QED
      BY <3>1, <3>2
  <2>6. Flats(g)
    BY <2>5
  <2> QED
    BY <2>6
<1>3. Flats(chosen)
  BY <1>2
<1>4. Flat(ss) = chosen[N]
  BY DEF Flat
<1> HIDE DEF chosen, N
<1>5. /\ chosen[0] = <<>>
      /\ \A n \in 1..N : chosen[n] = chosen[n - 1] \o ss[n]
  <2>1. \A n \in 0..N : chosen[n] = IF n = 0 THEN <<>> ELSE chosen[n - 1] \o ss[n]
    BY <1>3
  <2>2. 0 \in 0..N /\ \A n \in 1..N : n \in 0..N /\ n # 0
    BY <1>1
  <2> QED
    BY <2>1, <2>2
<1> DEFINE T == {n \in 0..N : chosen[n] \in Seq(X) /\ Laid(ss, n, chosen[n])}
<1>6. chosen[0] \in Seq(X) /\ Laid(ss, 0, chosen[0])
  <2>1. Lays(ss, 0, <<>>, <<>>, <<>>)
    BY DEF Lays
  <2>2. Laid(ss, 0, <<>>)
    BY <2>1 DEF Laid
  <2> QED
    BY <1>5, <2>2, EmptySeq
<1>7. ASSUME NEW n \in 1..N, chosen[n - 1] \in Seq(X), Laid(ss, n - 1, chosen[n - 1])
      PROVE  chosen[n] \in Seq(X) /\ Laid(ss, n, chosen[n])
  <2> DEFINE s == chosen[n - 1]
  <2>0. chosen[n] = Joined(s, ss[n])
    BY <1>5, Zenon DEF Joined
  <2>1. ss[n] \in Seq(X) /\ n \in Nat /\ n > 0 /\ chosen[n] = Joined(s, ss[n])
    BY <1>1, <2>0
  <2>2. s \in Seq(X) /\ Laid(ss, n - 1, s)
    BY <1>7
  <2> HIDE DEF s
  <2>3. Laid(ss, n, Joined(s, ss[n]))
    BY <2>1, <2>2, LaysNext
  <2>4. Joined(s, ss[n]) \in Seq(X)
    BY <2>1, <2>2, ConcatProperties DEF Joined
  <2> QED
    BY <2>1, <2>3, <2>4
<1>10. 0 \in T /\ \A n \in 1..N : n - 1 \in T => n \in T
  BY <1>1, <1>6, <1>7
<1> HIDE DEF T
<1>8. \A n \in 0..N : n \in T
  BY <1>1, <1>10, UpTo
<1>9. N \in T
  BY <1>1, <1>8
<1> QED
  BY <1>4, <1>9 DEF T, N
=============================================================================

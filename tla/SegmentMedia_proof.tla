------------------------- MODULE SegmentMedia_proof -------------------------
(***************************************************************************)
(* Proofs about SegmentMedia.                                              *)
(***************************************************************************)
EXTENDS SegmentMedia, FiniteSetTheorems, SequenceTheorems,
        WellFoundedInduction, TLAPS

----------------------------------------------------------------------------
(* Least numbers, sorted sets and filtered lists.                          *)

\* A set of natural numbers has a least element.
LEMMA LeastNumber ==
    ASSUME NEW T \in SUBSET Nat, T # {}
    PROVE  \E m \in T : \A n \in T : m <= n
<1>1. \E m \in T : \A n \in T : ~(<<n, m>> \in OpToRel(<, Nat))
    BY NatLessThanWellFounded, WFMin
<1>2. PICK m \in T : \A n \in T : ~(<<n, m>> \in OpToRel(<, Nat))
    BY <1>1
<1>3. ASSUME NEW n \in T
      PROVE  m <= n
    <2>1. n \in Nat /\ m \in Nat
        OBVIOUS
    <2>2. CASE n < m
        <3> DEFINE pair == <<n, m>>
        <3>1. pair \in Nat \X Nat /\ pair[1] < pair[2]
            BY <2>1, <2>2
        <3>2. pair \in {ss \in Nat \X Nat : ss[1] < ss[2]}
            BY <3>1
        <3> QED
            BY <3>2, <1>2 DEF OpToRel
    <2> QED
        BY <2>1, <2>2
<1> QED
    BY <1>3

Below(of, r) == {s \in of : s < r}

\* The element with n - 1 others below it exists.
LEMMA Ranks ==
    ASSUME NEW of \in SUBSET Nat, IsFiniteSet(of)
    PROVE  \A n \in 1 .. Cardinality(of) :
              \E r \in of : Cardinality(Below(of, r)) = n - 1
<1> DEFINE N == Cardinality(of)
           rank == [r \in of |-> Cardinality(Below(of, r)) + 1]
<1>1. N \in Nat /\ ExistsBijection(1 .. N, of)
    BY FS_CardinalityType
<1>2. \A r \in of : IsFiniteSet(Below(of, r)) /\ Cardinality(Below(of, r)) \in Nat
    BY FS_Subset, FS_CardinalityType DEF Below
<1>3. ASSUME NEW r \in of, NEW q \in of, r < q
      PROVE  Cardinality(Below(of, r)) < Cardinality(Below(of, q))
    <2>1. Below(of, r) \subseteq Below(of, q)
        <3>1. r \in Nat /\ q \in Nat /\ \A s \in of : s \in Nat
            OBVIOUS
        <3>2. \A s \in of : s < r => s < q
            BY <1>3, <3>1
        <3> QED
            BY <3>2 DEF Below
    <2>2. r \in Below(of, q) /\ r \notin Below(of, r)
        BY <1>3 DEF Below
    <2> QED
        BY <2>1, <2>2, <1>2, FS_Subset
<1>4. ASSUME NEW r \in of
      PROVE  Cardinality(Below(of, r)) < N
    <2>1. Below(of, r) \subseteq of /\ r \notin Below(of, r)
        BY DEF Below
    <2> QED
        BY <2>1, <1>1, <1>2, FS_Subset
<1>5. rank \in [of -> 1 .. N]
    BY <1>1, <1>2, <1>4
<1>6. \A r, q \in of : rank[r] = rank[q] => r = q
    BY <1>2, <1>3
<1>7. rank \in Injection(of, 1 .. N)
    BY <1>5, <1>6 DEF Injection, IsInjective
<1>8. IsFiniteSet(1 .. N) /\ Cardinality(1 .. N) = N
    BY <1>1, FS_Interval
<1>9. rank \in Surjection(of, 1 .. N)
    BY <1>7, <1>8, FS_Injection
<1>10. \A n \in 1 .. N : \E r \in of : rank[r] = n
    BY <1>9 DEF Surjection
<1>11. \A r \in of : rank[r] = Cardinality(Below(of, r)) + 1
    OBVIOUS
<1> HIDE DEF rank
<1> QED
    BY <1>10, <1>11, <1>2, <1>1

\* Ascending lists exactly the elements of a finite set, smallest first.
LEMMA AscendingProperties ==
    ASSUME NEW of \in SUBSET Nat, IsFiniteSet(of)
    PROVE  /\ Ascending(of) \in Seq(of)
           /\ Len(Ascending(of)) = Cardinality(of)
           /\ Range(Ascending(of)) = of
           /\ \A i, j \in 1 .. Cardinality(of) :
                 i < j => Ascending(of)[i] < Ascending(of)[j]
<1> DEFINE N == Cardinality(of)
           list == Ascending(of)
<1>1. N \in Nat
    BY FS_CardinalityType
<1>2. list = [n \in 1 .. N |->
                CHOOSE r \in of : Cardinality(Below(of, r)) = n - 1]
    BY DEF Ascending, Below
<1>3. \A n \in 1 .. N : list[n] \in of /\ Cardinality(Below(of, list[n])) = n - 1
    BY <1>2, Ranks
<1>4. list \in [1 .. N -> of]
    BY <1>2, <1>3
<1>5. list \in Seq(of) /\ Len(list) = N /\ DOMAIN list = 1 .. N
    BY <1>4, <1>1
<1> HIDE DEF list
<1>6. \A r \in of : IsFiniteSet(Below(of, r)) /\ Cardinality(Below(of, r)) \in Nat
    BY FS_Subset, FS_CardinalityType DEF Below
<1>7. ASSUME NEW r \in of, NEW q \in of,
             Cardinality(Below(of, r)) < Cardinality(Below(of, q))
      PROVE  r < q
    <2>1. CASE q <= r
        <3>1. r \in Nat /\ q \in Nat /\ \A s \in of : s \in Nat
            OBVIOUS
        <3>2. \A s \in of : s < q => s < r
            BY <2>1, <3>1
        <3>3. Below(of, q) \subseteq Below(of, r)
            BY <3>2 DEF Below
        <3>4. Cardinality(Below(of, q)) <= Cardinality(Below(of, r))
            BY <3>3, <1>6, FS_Subset
        <3> QED
            BY <3>4, <1>6, <1>7
    <2> QED
        BY <2>1
<1>8. \A i, j \in 1 .. N : i < j => list[i] < list[j]
    <2> SUFFICES ASSUME NEW i \in 1 .. N, NEW j \in 1 .. N, i < j
                 PROVE  list[i] < list[j]
        OBVIOUS
    <2>1. Cardinality(Below(of, list[i])) < Cardinality(Below(of, list[j]))
        BY <1>3, <1>1
    <2> QED
        BY <2>1, <1>3, <1>7
<1>9. \A i, j \in 1 .. N : list[i] = list[j] => i = j
    BY <1>3, <1>1
<1>10. list \in Injection(1 .. N, of)
    BY <1>4, <1>9 DEF Injection, IsInjective
<1>11. IsFiniteSet(1 .. N) /\ Cardinality(1 .. N) = N
    BY <1>1, FS_Interval
<1>12. list \in Surjection(1 .. N, of)
    BY <1>10, <1>11, FS_Injection
<1>13. Range(list) = of
    BY <1>12, <1>5, <1>4 DEF Surjection, Range
<1> QED
    BY <1>5, <1>8, <1>13 DEF list

\* What the recursive function in Keeping satisfies up to n.
KeptUpTo(kept, list, some, m) ==
    kept = [n \in 0 .. m |->
               IF n = 0 THEN <<>>
               ELSE IF list[n] \in some THEN Append(kept[n - 1], list[n])
               ELSE kept[n - 1]]

LEMMA KeptExists ==
    ASSUME NEW list, NEW some, NEW m \in Nat
    PROVE  \E kept : KeptUpTo(kept, list, some, m)
<1> DEFINE Undefined == {n \in Nat : ~\E kept : KeptUpTo(kept, list, some, n)}
<1> SUFFICES ASSUME Undefined # {}
             PROVE  FALSE
    OBVIOUS
<1>1. PICK n \in Undefined : \A i \in Undefined : n <= i
    BY LeastNumber
<1>2. n \in Nat /\ ~\E kept : KeptUpTo(kept, list, some, n)
    OBVIOUS
<1>3. CASE n = 0
    <2> DEFINE none == [i \in 0 .. 0 |-> <<>>]
    <2>1. KeptUpTo(none, list, some, 0)
        <3>1. \A i \in 0 .. 0 : i = 0
            OBVIOUS
        <3> QED
            BY <3>1 DEF KeptUpTo
    <2> QED
        BY <2>1, <1>2, <1>3
<1>4. CASE n # 0
    <2>1. n - 1 \in Nat /\ n - 1 \notin Undefined
        BY <1>1, <1>2, <1>4
    <2>2. PICK shorter : KeptUpTo(shorter, list, some, n - 1)
        BY <2>1
    <2> DEFINE last == IF list[n] \in some THEN Append(shorter[n - 1], list[n])
                       ELSE shorter[n - 1]
               kept == [i \in 0 .. n |-> IF i = n THEN last ELSE shorter[i]]
               next == [i \in 0 .. n |->
                            IF i = 0 THEN <<>>
                            ELSE IF list[i] \in some THEN Append(kept[i - 1], list[i])
                            ELSE kept[i - 1]]
    <2>3. \A i \in 0 .. n - 1 : kept[i] = shorter[i]
        BY <2>1
    <2>4. kept[n] = last
        BY <1>2
    <2>5. \A i \in 0 .. n - 1 : shorter[i] =
             IF i = 0 THEN <<>>
             ELSE IF list[i] \in some THEN Append(shorter[i - 1], list[i])
             ELSE shorter[i - 1]
        BY <2>2 DEF KeptUpTo
    <2>6. ASSUME NEW i \in 0 .. n
          PROVE  kept[i] = next[i]
        <3>1. CASE i = n
            <4>1. next[n] = IF list[n] \in some THEN Append(kept[n - 1], list[n])
                            ELSE kept[n - 1]
                BY <1>2, <1>4
            <4>2. kept[n - 1] = shorter[n - 1]
                BY <2>3, <2>1
            <4> QED
                BY <3>1, <4>1, <4>2, <2>4
        <3>2. CASE i # n
            <4>1. i \in 0 .. n - 1 /\ (i # 0 => i - 1 \in 0 .. n - 1)
                BY <3>2, <1>2
            <4>2. kept[i] = shorter[i] /\ (i # 0 => kept[i - 1] = shorter[i - 1])
                BY <4>1, <2>3
            <4>3. next[i] = IF i = 0 THEN <<>>
                            ELSE IF list[i] \in some THEN Append(kept[i - 1], list[i])
                            ELSE kept[i - 1]
                OBVIOUS
            <4> HIDE DEF kept, next
            <4> QED
                BY <4>1, <4>2, <4>3, <2>5
        <3> QED
            BY <3>1, <3>2
    <2>7. kept = next
        <3>1. kept = [i \in 0 .. n |-> kept[i]] /\ next = [i \in 0 .. n |-> next[i]]
            OBVIOUS
        <3> HIDE DEF kept, next
        <3> QED
            BY <3>1, <2>6
    <2>8. KeptUpTo(kept, list, some, n)
        BY <2>7 DEF KeptUpTo
    <2> QED
        BY <2>8, <1>2
<1> QED
    BY <1>3, <1>4

KeptFunction(list, some) == CHOOSE kept : KeptUpTo(kept, list, some, Len(list))

\* The first n elements of list, filtered: the places of those that stay.
Filtered(result, list, some, n) ==
    \E places \in [1 .. Len(result) -> 1 .. n] :
        /\ \A i, j \in 1 .. Len(result) : i < j => places[i] < places[j]
        /\ \A i \in 1 .. Len(result) : result[i] = list[places[i]]
        /\ \A i \in 1 .. Len(result) : list[places[i]] \in some
        /\ \A p \in 1 .. n : list[p] \in some =>
              \E i \in 1 .. Len(result) : places[i] = p

LEMMA FilteredSkip ==
    ASSUME NEW S, NEW list \in Seq(S), NEW some, NEW n \in 0 .. Len(list) - 1,
           NEW result \in Seq(S), Filtered(result, list, some, n),
           list[n + 1] \notin some
    PROVE  Filtered(result, list, some, n + 1)
<1>1. PICK places \in [1 .. Len(result) -> 1 .. n] :
         /\ \A i, j \in 1 .. Len(result) : i < j => places[i] < places[j]
         /\ \A i \in 1 .. Len(result) : result[i] = list[places[i]]
         /\ \A i \in 1 .. Len(result) : list[places[i]] \in some
         /\ \A p \in 1 .. n : list[p] \in some =>
               \E i \in 1 .. Len(result) : places[i] = p
    BY DEF Filtered
<1>2. places \in [1 .. Len(result) -> 1 .. n + 1]
    OBVIOUS
<1>3. \A p \in 1 .. n + 1 : list[p] \in some =>
         \E i \in 1 .. Len(result) : places[i] = p
    <2>1. \A p \in 1 .. n + 1 : p = n + 1 \/ p \in 1 .. n
        OBVIOUS
    <2> QED
        BY <1>1, <2>1
<1> QED
    BY <1>1, <1>2, <1>3 DEF Filtered

LEMMA FilteredTake ==
    ASSUME NEW S, NEW list \in Seq(S), NEW some, NEW n \in 0 .. Len(list) - 1,
           NEW result \in Seq(S), Filtered(result, list, some, n),
           list[n + 1] \in some
    PROVE  Filtered(Append(result, list[n + 1]), list, some, n + 1)
<1>1. PICK places \in [1 .. Len(result) -> 1 .. n] :
         /\ \A i, j \in 1 .. Len(result) : i < j => places[i] < places[j]
         /\ \A i \in 1 .. Len(result) : result[i] = list[places[i]]
         /\ \A i \in 1 .. Len(result) : list[places[i]] \in some
         /\ \A p \in 1 .. n : list[p] \in some =>
               \E i \in 1 .. Len(result) : places[i] = p
    BY DEF Filtered
<1> DEFINE l == Len(result)
           longer == Append(result, list[n + 1])
           more == [i \in 1 .. l + 1 |-> IF i = l + 1 THEN n + 1 ELSE places[i]]
<1>2. l \in Nat /\ list[n + 1] \in S
    OBVIOUS
<1>3. Len(longer) = l + 1 /\ longer[l + 1] = list[n + 1]
      /\ \A i \in 1 .. l : longer[i] = result[i]
    BY <1>2, AppendProperties
<1>4. more[l + 1] = n + 1 /\ \A i \in 1 .. l : more[i] = places[i]
    BY <1>2
<1>5. \A i \in 1 .. l : places[i] \in 1 .. n
    OBVIOUS
<1>6. more \in [1 .. l + 1 -> 1 .. n + 1]
    BY <1>2, <1>5
<1>7. \A i \in 1 .. l + 1 : i = l + 1 \/ i \in 1 .. l
    BY <1>2
<1> HIDE DEF more, longer, l
<1>8. \A i, j \in 1 .. l + 1 : i < j => more[i] < more[j]
    <2> SUFFICES ASSUME NEW i \in 1 .. l + 1, NEW j \in 1 .. l + 1, i < j
                 PROVE  more[i] < more[j]
        OBVIOUS
    <2>1. i \in 1 .. l
        BY <1>2
    <2>2. CASE j = l + 1
        BY <2>1, <2>2, <1>4, <1>5
    <2>3. CASE j \in 1 .. l
        BY <2>1, <2>3, <1>4, <1>1 DEF l
    <2> QED
        BY <2>2, <2>3, <1>7
<1>9. \A i \in 1 .. l + 1 : longer[i] = list[more[i]] /\ list[more[i]] \in some
    BY <1>1, <1>3, <1>4, <1>7 DEF l
<1>10. ASSUME NEW p \in 1 .. n + 1, list[p] \in some
       PROVE  \E i \in 1 .. l + 1 : more[i] = p
    <2>1. CASE p = n + 1
        BY <2>1, <1>4, <1>2
    <2>2. CASE p # n + 1
        <3>1. PICK i \in 1 .. l : places[i] = p
            BY <2>2, <1>10, <1>1 DEF l
        <3> QED
            BY <3>1, <1>4, <1>2
    <2> QED
        BY <2>1, <2>2
<1> QED
    <2>1. Filtered(longer, list, some, n + 1)
        <3> SUFFICES \E spots \in [1 .. Len(longer) -> 1 .. n + 1] :
                        /\ \A i, j \in 1 .. Len(longer) : i < j => spots[i] < spots[j]
                        /\ \A i \in 1 .. Len(longer) : longer[i] = list[spots[i]]
                        /\ \A i \in 1 .. Len(longer) : list[spots[i]] \in some
                        /\ \A p \in 1 .. n + 1 : list[p] \in some =>
                              \E i \in 1 .. Len(longer) : spots[i] = p
            BY DEF Filtered
        <3>1. more \in [1 .. Len(longer) -> 1 .. n + 1]
            BY <1>3, <1>6
        <3> WITNESS more \in [1 .. Len(longer) -> 1 .. n + 1]
        <3> QED
            BY <1>3, <1>8, <1>9, <1>10
    <2> QED
        BY <2>1 DEF longer

\* Keeping leaves exactly the elements that are among some, in their order.
LEMMA KeepingFilters ==
    ASSUME NEW S, NEW list \in Seq(S), NEW some
    PROVE  /\ Keeping(list, some) \in Seq(S)
           /\ Filtered(Keeping(list, some), list, some, Len(list))
<1> DEFINE kept == KeptFunction(list, some)
           N == Len(list)
<1>1. N \in Nat
    OBVIOUS
<1>2. KeptUpTo(kept, list, some, N)
    BY <1>1, KeptExists DEF KeptFunction
<1>3. Keeping(list, some) = kept[N]
    BY DEF Keeping, KeptFunction, KeptUpTo
<1>4. \A n \in 0 .. N : kept[n] =
         IF n = 0 THEN <<>>
         ELSE IF list[n] \in some THEN Append(kept[n - 1], list[n])
         ELSE kept[n - 1]
    BY <1>2 DEF KeptUpTo
<1> HIDE DEF kept
<1> DEFINE P(n) == kept[n] \in Seq(S) /\ Filtered(kept[n], list, some, n)
           Wrong == {n \in 0 .. N : ~P(n)}
<1>5. CASE Wrong # {}
    <2>1. PICK n \in Wrong : \A i \in Wrong : n <= i
        <3>1. Wrong \in SUBSET Nat
            BY <1>1
        <3> QED
            BY <3>1, <1>5, LeastNumber
    <2>2. CASE n = 0
        <3>1. kept[0] = <<>>
            BY <1>1, <1>4
        <3>2. <<>> \in Seq(S) /\ Len(<<>>) = 0
            OBVIOUS
        <3>3. [i \in 1 .. 0 |-> 0] \in [1 .. Len(<<>>) -> 1 .. 0]
            BY <3>2
        <3>4. Filtered(<<>>, list, some, 0)
            <4> DEFINE none == [i \in 1 .. 0 |-> 0]
            <4>1. \A i \in 1 .. 0 : FALSE
                OBVIOUS
            <4>2. none \in [1 .. Len(<<>>) -> 1 .. 0]
                BY <3>2, <3>3
            <4> HIDE DEF none
            <4> QED
                BY <4>1, <4>2, <3>2 DEF Filtered
        <3> QED
            BY <3>1, <3>2, <3>4, <2>2, <2>1
    <2>3. CASE n # 0
        <3> DEFINE m == n - 1
        <3>1. n \in 1 .. N /\ m \in 0 .. N - 1 /\ n = m + 1
            BY <2>1, <2>3, <1>1
        <3>2. P(m)
            BY <3>1, <2>1, <1>1
        <3>3. kept[n] = IF list[n] \in some THEN Append(kept[m], list[n])
                        ELSE kept[m]
            BY <3>1, <1>4, <1>1
        <3>4. list[n] \in S
            BY <3>1
        <3> HIDE DEF m
        <3>5. CASE list[n] \in some
            <4>1. Append(kept[m], list[n]) \in Seq(S)
                BY <3>2, <3>4
            <4>2. Filtered(Append(kept[m], list[m + 1]), list, some, m + 1)
                BY <3>1, <3>2, <3>5, FilteredTake
            <4> QED
                BY <4>1, <4>2, <3>1, <3>3, <3>5, <2>1
        <3>6. CASE list[n] \notin some
            <4>1. Filtered(kept[m], list, some, m + 1)
                BY <3>1, <3>2, <3>6, FilteredSkip
            <4> QED
                BY <4>1, <3>1, <3>2, <3>3, <3>6, <2>1
        <3> QED
            BY <3>5, <3>6
    <2> QED
        BY <2>2, <2>3
<1>6. CASE Wrong = {}
    BY <1>6, <1>1, <1>3
<1> QED
    BY <1>5, <1>6

\* As sets.
LEMMA KeepingRange ==
    ASSUME NEW S, NEW list \in Seq(S), NEW some
    PROVE  /\ Keeping(list, some) \in Seq(S)
           /\ Range(Keeping(list, some)) = Range(list) \intersect some
<1> DEFINE kept == Keeping(list, some)
<1>1. kept \in Seq(S) /\ Filtered(kept, list, some, Len(list))
    BY KeepingFilters
<1>2. DOMAIN kept = 1 .. Len(kept) /\ DOMAIN list = 1 .. Len(list)
    BY <1>1
<1> HIDE DEF kept
<1>3. PICK places \in [1 .. Len(kept) -> 1 .. Len(list)] :
         /\ \A i \in 1 .. Len(kept) : kept[i] = list[places[i]]
         /\ \A i \in 1 .. Len(kept) : list[places[i]] \in some
         /\ \A p \in 1 .. Len(list) : list[p] \in some =>
               \E i \in 1 .. Len(kept) : places[i] = p
    BY <1>1 DEF Filtered
<1>4. Range(kept) \subseteq Range(list) \intersect some
    BY <1>2, <1>3 DEF Range
<1>5. Range(list) \intersect some \subseteq Range(kept)
    BY <1>2, <1>3 DEF Range
<1> QED
    BY <1>1, <1>4, <1>5 DEF kept

\* Two elements that stay are in the order they had.
LEMMA KeepingOrder ==
    ASSUME NEW S, NEW list \in Seq(S), NEW some,
           NEW i \in 1 .. Len(Keeping(list, some)),
           NEW j \in 1 .. Len(Keeping(list, some)), i < j
    PROVE  \E p, q \in 1 .. Len(list) :
              /\ p < q
              /\ Keeping(list, some)[i] = list[p]
              /\ Keeping(list, some)[j] = list[q]
              /\ list[p] \in some /\ list[q] \in some
<1> DEFINE kept == Keeping(list, some)
<1>1. kept \in Seq(S) /\ Filtered(kept, list, some, Len(list))
    BY KeepingFilters
<1> HIDE DEF kept
<1>2. PICK places \in [1 .. Len(kept) -> 1 .. Len(list)] :
         /\ \A m, n \in 1 .. Len(kept) : m < n => places[m] < places[n]
         /\ \A m \in 1 .. Len(kept) : kept[m] = list[places[m]]
         /\ \A m \in 1 .. Len(kept) : list[places[m]] \in some
    BY <1>1 DEF Filtered
<1>3. i \in 1 .. Len(kept) /\ j \in 1 .. Len(kept)
    BY DEF kept
<1>4. /\ places[i] \in 1 .. Len(list) /\ places[j] \in 1 .. Len(list)
      /\ places[i] < places[j] /\ kept[i] = list[places[i]]
      /\ kept[j] = list[places[j]]
      /\ list[places[i]] \in some /\ list[places[j]] \in some
    BY <1>2, <1>3
<1> QED
    BY <1>4 DEF kept

LEMMA KeepingDistinct ==
    ASSUME NEW S, NEW list \in Seq(S), NEW some,
           \A p, q \in DOMAIN list : p # q => list[p] # list[q]
    PROVE  \A i, j \in DOMAIN Keeping(list, some) :
              i # j => Keeping(list, some)[i] # Keeping(list, some)[j]
<1>1. Keeping(list, some) \in Seq(S)
    BY KeepingFilters
<1>2. DOMAIN Keeping(list, some) = 1 .. Len(Keeping(list, some))
    BY <1>1
<1>3. Len(Keeping(list, some)) \in Nat /\ Len(list) \in Nat
      /\ DOMAIN list = 1 .. Len(list)
    BY <1>1
<1>4. ASSUME NEW i \in 1 .. Len(Keeping(list, some)),
             NEW j \in 1 .. Len(Keeping(list, some)), i < j
      PROVE  Keeping(list, some)[i] # Keeping(list, some)[j]
    <2>1. PICK p, q \in 1 .. Len(list) :
              /\ p < q
              /\ Keeping(list, some)[i] = list[p]
              /\ Keeping(list, some)[j] = list[q]
        BY <1>4, KeepingOrder
    <2> QED
        BY <2>1, <1>3
<1>5. ASSUME NEW i \in 1 .. Len(Keeping(list, some)),
             NEW j \in 1 .. Len(Keeping(list, some)), i # j
      PROVE  i < j \/ j < i
    BY <1>3, <1>5
<1> QED
    BY <1>2, <1>4, <1>5

----------------------------------------------------------------------------
(* Segments, tasks, files and entries.                                     *)

LEMMA SegmentFacts ==
    /\ Segments \subseteq Nat
    /\ IsFiniteSet(Segments)
    /\ \A of \in SUBSET Segments : of \in SUBSET Nat /\ IsFiniteSet(of)
    /\ \A s \in Segments : EntryOf[s] \in Entries
BY SegmentAssumption, EntryAssumption, FS_Subset

LEMMA InOrderProperties ==
    ASSUME NEW of \in SUBSET Segments
    PROVE  /\ InOrder[of] \in Seq(of)
           /\ InOrder[of] \in Seq(Segments)
           /\ Len(InOrder[of]) = Cardinality(of)
           /\ DOMAIN InOrder[of] = 1 .. Cardinality(of)
           /\ Cardinality(of) \in Nat
           /\ Range(InOrder[of]) = of
           /\ \A i, j \in 1 .. Cardinality(of) :
                 i < j => InOrder[of][i] < InOrder[of][j]
<1>1. InOrder[of] = Ascending(of)
    BY DEF InOrder
<1>2. of \in SUBSET Nat /\ IsFiniteSet(of)
    BY SegmentFacts
<1>3. /\ Ascending(of) \in Seq(of)
      /\ Len(Ascending(of)) = Cardinality(of)
      /\ Range(Ascending(of)) = of
      /\ \A i, j \in 1 .. Cardinality(of) :
            i < j => Ascending(of)[i] < Ascending(of)[j]
    BY <1>2, AscendingProperties
<1>4. Cardinality(of) \in Nat
    BY <1>2, FS_CardinalityType
<1> QED
    BY <1>1, <1>3, <1>4

LEMMA InOrderSingle ==
    ASSUME NEW s \in Segments
    PROVE  InOrder[{s}] = <<s>>
<1>1. {s} \in SUBSET Segments /\ Cardinality({s}) = 1
    BY FS_Singleton
<1>2. InOrder[{s}] \in Seq({s}) /\ Len(InOrder[{s}]) = 1
    BY <1>1, InOrderProperties
<1>3. <<s>> \in Seq({s}) /\ Len(<<s>>) = 1 /\ <<s>>[1] = s
    OBVIOUS
<1>4. \A i \in 1 .. Len(InOrder[{s}]) : InOrder[{s}][i] = <<s>>[i]
    <2>1. \A i \in 1 .. Len(InOrder[{s}]) : i = 1 /\ InOrder[{s}][i] = s
        BY <1>2
    <2> QED
        BY <2>1, <1>3
<1> QED
    BY <1>2, <1>3, <1>4, SeqEqual

LEMMA InOrderEmpty == InOrder[{}] = <<>>
<1>1. {} \in SUBSET Segments /\ Cardinality({}) = 0
    BY FS_EmptySet
<1>2. InOrder[{}] \in Seq({}) /\ Len(InOrder[{}]) = 0
    BY <1>1, InOrderProperties
<1> QED
    BY <1>2

LEMMA SettingFacts ==
    ASSUME setting \in Settings
    PROVE  /\ Deferred \in BOOLEAN /\ Merge \in BOOLEAN /\ Transcode \in BOOLEAN
           /\ Throws \in BOOLEAN /\ Strict \in BOOLEAN
           /\ JournalFaults \in BOOLEAN
           /\ Doubtful \subseteq Segments /\ Losable \subseteq Segments
BY SettingAssumption
   DEF Deferred, Merge, Transcode, Throws, Strict, JournalFaults, Doubtful,
       Losable

LEMMA FileFacts ==
    /\ \A s, r : Raw(s) = Raw(r) => s = r
    /\ \A s, t : Raw(s) # Merged(t) /\ Raw(s) # Final(t)
    /\ \A t, u : Merged(t) # Final(u)
    /\ \A t, u : Merged(t) = Merged(u) => t = u
    /\ \A t, u : Final(t) = Final(u) => t = u
    /\ \A s : Raw(s).kind = "raw" /\ Raw(s).of = {s}
    /\ \A t : Merged(t).kind = "merged" /\ Merged(t).of = t
    /\ \A t : Final(t).kind = "final" /\ Final(t).of = t
<1>1. \A s : Raw(s).kind = "raw" /\ Raw(s).of = {s}
    BY DEF Raw
<1>2. \A t : Merged(t).kind = "merged" /\ Merged(t).of = t
    BY DEF Merged
<1>3. \A t : Final(t).kind = "final" /\ Final(t).of = t
    BY DEF Final
<1>4. \A s, r : Raw(s) = Raw(r) => {s} = {r}
    BY <1>1
<1>5. \A s, r : {s} = {r} => s = r
    OBVIOUS
<1>6. \A s, t : Raw(s) # Merged(t) /\ Raw(s) # Final(t)
    BY <1>1, <1>2, <1>3
<1>7. \A t, u : Merged(t) # Final(u)
    BY <1>2, <1>3
<1>8. \A t, u : (Merged(t) = Merged(u) \/ Final(t) = Final(u)) => t = u
    BY <1>2, <1>3
<1>9. ASSUME NEW s, NEW r, Raw(s) = Raw(r)
      PROVE  s = r
    BY <1>9, <1>4, <1>5
<1>10. \A s, r : Raw(s) = Raw(r) => s = r
    BY <1>9
<1> QED
    BY <1>1, <1>2, <1>3, <1>6, <1>7, <1>8, <1>10

LEMMA TaskFacts ==
    ASSUME setting \in Settings, NEW t \in Tasks
    PROVE  /\ t \in SUBSET Segments /\ t # {}
           /\ EntryOfTask(t) \in Entries
           /\ \A s \in t : EntryOf[s] = EntryOfTask(t)
           /\ t \subseteq SegmentsOf(EntryOfTask(t))
           /\ ~Merge => \E s \in Segments : t = {s}
<1>1. Merge \in BOOLEAN
    BY SettingFacts
<1>2. CASE Merge
    <2>1. Tasks = (UNION {SUBSET SegmentsOf(e) : e \in Entries}) \ {{}}
        BY <1>1, <1>2 DEF Tasks, TaskSets
    <2>2. PICK e \in Entries : t \subseteq SegmentsOf(e) /\ t # {}
        BY <2>1
    <2>3. \A s \in t : s \in Segments /\ EntryOf[s] = e
        BY <2>2 DEF SegmentsOf
    <2>4. (CHOOSE s \in t : TRUE) \in t
        BY <2>2
    <2>5. EntryOfTask(t) = e
        BY <2>3, <2>4 DEF EntryOfTask
    <2> QED
        BY <2>2, <2>3, <2>5, <1>2
<1>3. CASE ~Merge
    <2>1. Tasks = {{s} : s \in Segments}
        BY <1>1, <1>3 DEF Tasks, TaskSets
    <2>2. PICK s \in Segments : t = {s}
        BY <2>1
    <2>3. (CHOOSE r \in t : TRUE) = s
        BY <2>2
    <2>4. EntryOfTask(t) = EntryOf[s]
        BY <2>3 DEF EntryOfTask
    <2> QED
        BY <2>2, <2>4, SegmentFacts DEF SegmentsOf
<1> QED
    BY <1>1, <1>2, <1>3

\* Which sets of segments are tasks.
LEMMA TaskSetFacts ==
    ASSUME setting \in Settings
    PROVE  /\ \A s \in Segments : {s} \in Tasks /\ EntryOfTask({s}) = EntryOf[s]
           /\ Merge => \A e \in Entries : \A t \in SUBSET SegmentsOf(e) :
                 t # {} => t \in Tasks /\ EntryOfTask(t) = e
           /\ IsFiniteSet(Tasks)
<1>1. Merge \in BOOLEAN
    BY SettingFacts
<1>2. Tasks = IF Merge
              THEN (UNION {SUBSET SegmentsOf(e) : e \in Entries}) \ {{}}
              ELSE {{s} : s \in Segments}
    BY <1>1 DEF Tasks, TaskSets
<1>3. ASSUME NEW s \in Segments
      PROVE  {s} \in Tasks
    <2>1. EntryOf[s] \in Entries /\ {s} \subseteq SegmentsOf(EntryOf[s])
        BY SegmentFacts DEF SegmentsOf
    <2> QED
        BY <1>2, <2>1
<1>4. ASSUME NEW s \in Segments
      PROVE  EntryOfTask({s}) = EntryOf[s]
    BY <1>3, TaskFacts
<1>5. ASSUME Merge, NEW e \in Entries, NEW t \in SUBSET SegmentsOf(e), t # {}
      PROVE  t \in Tasks /\ EntryOfTask(t) = e
    <2>1. t \in Tasks
        BY <1>2, <1>5
    <2>2. PICK s \in t : TRUE
        BY <1>5
    <2>3. EntryOf[s] = e
        BY DEF SegmentsOf
    <2> QED
        BY <2>1, <2>2, <2>3, TaskFacts
<1>6. IsFiniteSet(Tasks)
    <2>1. Tasks \subseteq SUBSET Segments
        BY TaskFacts
    <2>2. IsFiniteSet(SUBSET Segments)
        BY SegmentFacts, FS_SUBSET
    <2> QED
        BY <2>1, <2>2, FS_Subset
<1> QED
    BY <1>3, <1>4, <1>5, <1>6

Ascends(list) ==
    \A i, j \in DOMAIN list : i < j =>
        \A r \in list[i].of : \A s \in list[j].of : r < s

LEMMA RawsOfFacts ==
    ASSUME setting \in Settings, NEW t \in Tasks
    PROVE  /\ RawsOf(t) \in Seq({Raw(s) : s \in t})
           /\ RawsOf(t) \in Seq(Files)
           /\ Range(RawsOf(t)) = {Raw(s) : s \in t}
           /\ Ascends(RawsOf(t))
<1> DEFINE order == InOrder[t]
           raws == [i \in DOMAIN order |-> Raw(order[i])]
           N == Cardinality(t)
<1>1. t \in SUBSET Segments
    BY TaskFacts
<1>2. /\ order \in Seq(t) /\ DOMAIN order = 1 .. N /\ N \in Nat
      /\ Range(order) = t
      /\ \A i, j \in 1 .. N : i < j => order[i] < order[j]
    BY <1>1, InOrderProperties
<1>3. RawsOf(t) = raws
    BY DEF RawsOf
<1> HIDE DEF order
<1>4. \A i \in 1 .. N : order[i] \in t
    BY <1>2
<1>5. DOMAIN raws = 1 .. N /\ \A i \in 1 .. N : raws[i] = Raw(order[i])
    BY <1>2
<1>6. raws \in [1 .. N -> {Raw(s) : s \in t}]
    BY <1>4, <1>5
<1>7. raws \in Seq({Raw(s) : s \in t})
    BY <1>2, <1>6
<1>8. {Raw(s) : s \in t} \subseteq Files
    BY <1>1 DEF Files
<1>9. raws \in Seq(Files)
    BY <1>7, <1>8, SeqMonotonic
<1>10. Range(raws) \subseteq {Raw(s) : s \in t}
    BY <1>5, <1>4 DEF Range
<1>11. {Raw(s) : s \in t} \subseteq Range(raws)
    <2> SUFFICES ASSUME NEW s \in t
                 PROVE  Raw(s) \in Range(raws)
        OBVIOUS
    <2>1. PICK i \in 1 .. N : order[i] = s
        BY <1>2 DEF Range
    <2> QED
        BY <2>1, <1>5 DEF Range
<1>12. Ascends(raws)
    <2> SUFFICES ASSUME NEW i \in 1 .. N, NEW j \in 1 .. N, i < j,
                        NEW r \in raws[i].of, NEW s \in raws[j].of
                 PROVE  r < s
        BY <1>5 DEF Ascends
    <2>1. r = order[i] /\ s = order[j]
        BY <1>5, FileFacts
    <2> QED
        BY <2>1, <1>2
<1> QED
    BY <1>3, <1>7, <1>9, <1>10, <1>11, <1>12

LEMMA FilesFacts ==
    ASSUME setting \in Settings
    PROVE  /\ \A s \in Segments : Raw(s) \in Files
           /\ \A t \in Tasks : Merged(t) \in Files /\ Final(t) \in Files
           /\ \A f \in Files : f.of \in SUBSET Segments /\ f.of # {}
           /\ \A f \in Files : f.kind = "raw" => \E s \in Segments : f = Raw(s)
           /\ None \notin Files
<1>1. \A s \in Segments : Raw(s) \in Files
    BY DEF Files
<1>2. \A t \in Tasks : Merged(t) \in Files /\ Final(t) \in Files
    BY DEF Files
<1>3. ASSUME NEW f \in Files
      PROVE  \/ \E s \in Segments : f = Raw(s)
             \/ \E t \in Tasks : f = Merged(t) \/ f = Final(t)
    BY DEF Files
<1>4. ASSUME NEW f \in Files
      PROVE  /\ f.of \in SUBSET Segments /\ f.of # {}
             /\ f.kind = "raw" => \E s \in Segments : f = Raw(s)
    <2>1. CASE \E s \in Segments : f = Raw(s)
        <3>1. PICK s \in Segments : f = Raw(s)
            BY <2>1
        <3>2. f.of = {s}
            BY <3>1, FileFacts
        <3> QED
            BY <3>1, <3>2
    <2>2. ASSUME NEW t \in Tasks, f = Merged(t) \/ f = Final(t)
          PROVE  f.of = t /\ f.kind # "raw"
        BY <2>2, FileFacts
    <2>3. \A t \in Tasks : t \in SUBSET Segments /\ t # {}
        BY TaskFacts
    <2> QED
        BY <1>3, <2>1, <2>2, <2>3
<1>5. None \notin Files
    <2> DEFINE all == [kind : {"raw", "merged", "final"}, of : SUBSET Segments]
    <2>1. \A s \in Segments : Raw(s) \in all
        BY DEF Raw
    <2>2. \A t \in Tasks : Merged(t) \in all /\ Final(t) \in all
        BY TaskFacts DEF Merged, Final
    <2>3. Files \subseteq all
        BY <2>1, <2>2, <1>3
    <2>4. None \notin all
        BY NoneAssumption
    <2> HIDE DEF all
    <2> QED
        BY <2>3, <2>4
<1> QED
    BY <1>1, <1>2, <1>4, <1>5

----------------------------------------------------------------------------
(* Lists of files with their tabs.                                         *)

Items == [file : Files, tabs : Seq(Segments)]

LEMMA EntryFacts ==
    /\ EntryValues =
         [listed : Seq(Items),
          outcome : {"pending", "completed", "failed", "skipped"},
          timing : {"after-test", "after-worker"},
          decision : {"recorded", "failed", "discarded"},
          incomplete : BOOLEAN]
    /\ Interrupted \in EntryValues
<1>1. EntryValues =
         [listed : Seq(Items),
          outcome : {"pending", "completed", "failed", "skipped"},
          timing : {"after-test", "after-worker"},
          decision : {"recorded", "failed", "discarded"},
          incomplete : BOOLEAN]
    BY DEF EntryValues, EntriesListing, Items
<1>2. <<>> \in Seq(Items)
    OBVIOUS
<1> QED
    BY <1>1, <1>2 DEF Interrupted

LEMMA FilesOfFacts ==
    ASSUME NEW listed \in Seq(Items)
    PROVE  /\ FilesOf(listed) \in Seq(Files)
           /\ Len(FilesOf(listed)) = Len(listed)
           /\ \A i \in 1 .. Len(listed) : FilesOf(listed)[i] = listed[i].file
           /\ \A f : f \in Range(FilesOf(listed)) <=>
                 \E x \in Range(listed) : x.file = f
<1> DEFINE paths == [i \in DOMAIN listed |-> listed[i].file]
           N == Len(listed)
<1>1. DOMAIN listed = 1 .. N /\ N \in Nat
      /\ \A i \in 1 .. N : listed[i] \in Items
    OBVIOUS
<1>2. \A i \in 1 .. N : listed[i].file \in Files
    BY <1>1 DEF Items
<1>3. paths \in [1 .. N -> Files]
    BY <1>1, <1>2
<1>4. paths \in Seq(Files) /\ Len(paths) = N /\ DOMAIN paths = 1 .. N
    BY <1>1, <1>3
<1>5. \A i \in 1 .. N : paths[i] = listed[i].file
    BY <1>1
<1> HIDE DEF paths
<1>6. \A f : f \in Range(paths) <=> \E x \in Range(listed) : x.file = f
    BY <1>1, <1>4, <1>5 DEF Range
<1> QED
    BY <1>4, <1>5, <1>6 DEF FilesOf, paths

LEMMA TabHistoryFacts ==
    ASSUME NEW parts \in SUBSET Segments, NEW merged \in Seq(Segments)
    PROVE  /\ TabHistory(parts, merged).parts = parts
           /\ TabHistory(parts, merged).merged =
                IF parts = {} THEN merged ELSE InOrder[parts]
           /\ TabHistory(parts, merged).merged \in Seq(Segments)
BY InOrderProperties DEF TabHistory

\* What AttachTabs says of each file.
TabsOf(f, history) ==
    IF IsMergedFile(f) THEN history.merged
    ELSE InOrder[f.of \intersect history.parts]

LEMMA AttachTabsFacts ==
    ASSUME setting \in Settings,
           NEW paths \in Seq(Files), NEW history,
           history.parts \in SUBSET Segments, history.merged \in Seq(Segments)
    PROVE  /\ AttachTabs(paths, history) \in Seq(Items)
           /\ Len(AttachTabs(paths, history)) = Len(paths)
           /\ \A i \in 1 .. Len(paths) :
                 /\ AttachTabs(paths, history)[i].file = paths[i]
                 /\ AttachTabs(paths, history)[i].tabs = TabsOf(paths[i], history)
           /\ FilesOf(AttachTabs(paths, history)) = paths
<1> DEFINE N == Len(paths)
           item(i) == [file |-> paths[i], tabs |-> TabsOf(paths[i], history)]
           result == [i \in DOMAIN paths |-> item(i)]
<1>1. DOMAIN paths = 1 .. N /\ N \in Nat /\ \A i \in 1 .. N : paths[i] \in Files
    OBVIOUS
<1>2. AttachTabs(paths, history) = result
    BY DEF AttachTabs, TabsOf
<1>3. ASSUME NEW i \in 1 .. N
      PROVE  item(i) \in Items
    <2>1. paths[i].of \intersect history.parts \in SUBSET Segments
        OBVIOUS
    <2>2. InOrder[paths[i].of \intersect history.parts] \in Seq(Segments)
        BY <2>1, InOrderProperties
    <2>3. TabsOf(paths[i], history) \in Seq(Segments)
        BY <2>2 DEF TabsOf
    <2> QED
        BY <2>3, <1>1 DEF Items
<1>4. result \in [1 .. N -> Items]
    BY <1>1, <1>3
<1>5. result \in Seq(Items) /\ Len(result) = N
    BY <1>1, <1>4
<1>6. \A i \in 1 .. N :
         result[i].file = paths[i] /\ result[i].tabs = TabsOf(paths[i], history)
    BY <1>1
<1> HIDE DEF result
<1>7. FilesOf(result) = paths
    <2>1. /\ FilesOf(result) \in Seq(Files) /\ Len(FilesOf(result)) = N
          /\ \A i \in 1 .. N : FilesOf(result)[i] = result[i].file
        BY <1>5, FilesOfFacts
    <2> QED
        BY <2>1, <1>6, SeqEqual
<1> QED
    BY <1>2, <1>5, <1>6, <1>7

LEMMA ReadTabHistoryFacts ==
    ASSUME setting \in Settings, NEW listed \in Seq(Items)
    PROVE  LET history == ReadTabHistory(listed) IN
           /\ history.parts =
                UNION {Range(listed[i].tabs) :
                          i \in {n \in DOMAIN listed : ~IsMergedFile(listed[n].file)}}
           /\ history.parts \in SUBSET Segments
           /\ history.parts # {} => history.merged = InOrder[history.parts]
           /\ history.merged \in Seq(Segments)
<1> DEFINE whole == Keeping(listed, {item \in Range(listed) :
                        IsMergedFile(item.file) /\ item.tabs # <<>>})
           known == UNION {Range(listed[i].tabs) :
                       i \in {n \in DOMAIN listed : ~IsMergedFile(listed[n].file)}}
           merged == IF whole = <<>> THEN <<>> ELSE whole[1].tabs
<1>1. \A i \in DOMAIN listed : listed[i].tabs \in Seq(Segments)
    <2>1. \A i \in DOMAIN listed : listed[i] \in Items
        OBVIOUS
    <2> QED
        BY <2>1 DEF Items
<1>2. \A i \in DOMAIN listed : Range(listed[i].tabs) \subseteq Segments
    BY <1>1, RangeOfSeq
<1>3. known \in SUBSET Segments
    BY <1>2
<1>4. whole \in Seq(Items)
    BY KeepingFilters
<1>5. merged \in Seq(Segments)
    <2>1. CASE whole = <<>>
        BY <2>1
    <2>2. CASE whole # <<>>
        <3>1. whole[1] \in Items
            BY <2>2, <1>4, EmptySeq, ElementOfSeq
        <3> QED
            BY <3>1, <2>2 DEF Items
    <2> QED
        BY <2>1, <2>2
<1>6. ReadTabHistory(listed) = TabHistory(known, merged)
    BY DEF ReadTabHistory
<1> HIDE DEF known, merged
<1>7. /\ TabHistory(known, merged).parts = known
      /\ TabHistory(known, merged).merged =
           IF known = {} THEN merged ELSE InOrder[known]
      /\ TabHistory(known, merged).merged \in Seq(Segments)
    BY <1>3, <1>5, TabHistoryFacts
<1> QED
    BY <1>3, <1>6, <1>7 DEF known

Stay(listed, replaced, produced) ==
    {item \in Range(listed) :
        item.file \notin replaced \union Range(FilesOf(produced))}

\* Where the produced files go, and what is before and after them.
LEMMA ReplaceSegmentsParts ==
    ASSUME NEW listed \in Seq(Items), NEW produced \in Seq(Items), NEW replaced
    PROVE  LET stay == Stay(listed, replaced, produced)
               result == ReplaceSegments(listed, replaced, produced)
           IN
           \E p \in 0 .. Len(listed) :
              /\ result = Keeping(SubSeq(listed, 1, p), stay) \o produced
                             \o Keeping(SubSeq(listed, p + 1, Len(listed)), stay)
              /\ \A i \in 1 .. Len(listed) : listed[i].file \in replaced => p <= i
              /\ (\E i \in 1 .. Len(listed) : listed[i].file \in replaced) =>
                    p \in 1 .. Len(listed) /\ listed[p].file \in replaced
              /\ SubSeq(listed, 1, p) \in Seq(Items)
              /\ SubSeq(listed, p + 1, Len(listed)) \in Seq(Items)
<1> DEFINE stay == Stay(listed, replaced, produced)
           N == Len(listed)
           hits == {i \in DOMAIN listed : listed[i].file \in replaced}
           p == IF hits = {} THEN Len(listed) ELSE Min(hits)
<1>1. N \in Nat /\ DOMAIN listed = 1 .. N
    OBVIOUS
<1>2. hits # {} => Min(hits) \in hits /\ \A i \in hits : Min(hits) <= i
    <2>1. hits \in SUBSET Nat
        BY <1>1
    <2>2. hits # {} => \E m \in hits : \A i \in hits : m <= i
        BY <2>1, LeastNumber
    <2> QED
        BY <2>2 DEF Min
<1>3. p \in 0 .. N
    BY <1>1, <1>2
<1>4. ReplaceSegments(listed, replaced, produced) =
         Keeping(SubSeq(listed, 1, p), stay) \o produced
             \o Keeping(SubSeq(listed, p + 1, N), stay)
    BY DEF ReplaceSegments, Stay
<1>5. \A i \in 1 .. N : listed[i].file \in replaced => p <= i
    BY <1>1, <1>2
<1>6. (\E i \in 1 .. N : listed[i].file \in replaced) =>
         p \in 1 .. N /\ listed[p].file \in replaced
    BY <1>1, <1>2
<1> HIDE DEF p
<1>7. SubSeq(listed, 1, p) \in Seq(Items) /\ SubSeq(listed, p + 1, N) \in Seq(Items)
    BY <1>1, <1>3
<1> QED
    BY <1>3, <1>4, <1>5, <1>6, <1>7

\* As sets: the produced files, and those that neither are replaced nor among
\* them.
LEMMA ReplaceSegmentsFacts ==
    ASSUME NEW listed \in Seq(Items), NEW produced \in Seq(Items), NEW replaced
    PROVE  LET result == ReplaceSegments(listed, replaced, produced) IN
           /\ result \in Seq(Items)
           /\ Range(result) =
                Stay(listed, replaced, produced) \union Range(produced)
<1> DEFINE stay == Stay(listed, replaced, produced)
           N == Len(listed)
<1>1. PICK p \in 0 .. N :
         /\ ReplaceSegments(listed, replaced, produced) =
               Keeping(SubSeq(listed, 1, p), stay) \o produced
                  \o Keeping(SubSeq(listed, p + 1, Len(listed)), stay)
         /\ SubSeq(listed, 1, p) \in Seq(Items)
         /\ SubSeq(listed, p + 1, Len(listed)) \in Seq(Items)
    BY ReplaceSegmentsParts
<1> DEFINE first == SubSeq(listed, 1, p)
           last == SubSeq(listed, p + 1, N)
<1>2. /\ Keeping(first, stay) \in Seq(Items)
      /\ Range(Keeping(first, stay)) = Range(first) \intersect stay
      /\ Keeping(last, stay) \in Seq(Items)
      /\ Range(Keeping(last, stay)) = Range(last) \intersect stay
    BY <1>1, KeepingRange
<1>3. Range(first) \union Range(last) = Range(listed)
    <2>1. first \o last = listed
        <3>1. 1 \in 1 .. N + 1 /\ p \in 1 - 1 .. N /\ N \in p .. N
            BY <1>1
        <3>2. SubSeq(listed, 1, p) \o SubSeq(listed, p + 1, N) = SubSeq(listed, 1, N)
            BY <3>1, ConcatAdjacentSubSeq
        <3> QED
            BY <3>2, SubSeqFull
    <2>2. Range(first \o last) = Range(first) \union Range(last)
        BY <1>1, RangeConcatenation
    <2> QED
        BY <2>1, <2>2
<1>4. stay \subseteq Range(listed)
    BY DEF Stay
<1> HIDE DEF first, last, stay
<1>5. /\ Keeping(first, stay) \o produced \in Seq(Items)
      /\ Range(Keeping(first, stay) \o produced) =
            Range(Keeping(first, stay)) \union Range(produced)
    BY <1>2, RangeConcatenation, ConcatProperties
<1>6. /\ (Keeping(first, stay) \o produced) \o Keeping(last, stay) \in Seq(Items)
      /\ Range((Keeping(first, stay) \o produced) \o Keeping(last, stay)) =
            Range(Keeping(first, stay) \o produced) \union Range(Keeping(last, stay))
    <2> DEFINE start == Keeping(first, stay) \o produced
               end == Keeping(last, stay)
    <2>1. start \in Seq(Items) /\ end \in Seq(Items)
        BY <1>2, <1>5
    <2> HIDE DEF start, end
    <2>2. start \o end \in Seq(Items)
        BY <2>1, ConcatProperties
    <2>3. Range(start \o end) = Range(start) \union Range(end)
        BY <2>1, RangeConcatenation
    <2> QED
        BY <2>2, <2>3 DEF start, end
<1>7. Range(listed) \intersect stay = stay
    BY <1>4
<1> QED
    BY <1>1, <1>2, <1>3, <1>5, <1>6, <1>7 DEF first, last, stay

----------------------------------------------------------------------------
(* The invariant.                                                          *)

Report == [outcome : {"completed", "failed"}, decision : {"recorded", "failed"},
           paths : Seq(Files)]

Answered(t) == pc[t] \in {"completing", "journaling", "done"}

\* What the media part of the state may hold.
DeferredTypes ==
    /\ setting \in Settings
    /\ up \in BOOLEAN /\ torn \in BOOLEAN /\ expected \in BOOLEAN
    /\ files \subseteq Files
    /\ lost \subseteq Segments
    /\ queue \in Seq(Tasks)
    /\ pc \in [Tasks -> Locations]
    /\ step \in [Tasks -> {"merge", "transcode"}]
    /\ published \in [Tasks -> Files \union {None}]
    /\ completion \in [Tasks -> Report \union {None}]
    /\ entries \in [Entries -> EntryValues \union {None}]
    /\ journal \in [Entries -> EntryValues \union {None}]
    /\ outstanding \in [Entries -> Nat]
    /\ writes \in Seq([task : Tasks, entry : EntryValues])

\* What the recording part may hold.
SessionTypes ==
    /\ at \in Nat
    /\ current \in Entries \union {None}
    /\ recorded \in Seq(Files)
    /\ broken \in BOOLEAN /\ threw \in BOOLEAN
    /\ retain \in BOOLEAN \union {None}
    /\ before \in Nat
    /\ captured \subseteq Segments

MediaTypes == DeferredTypes /\ SessionTypes

\* Nothing is processed before the tests are over, and nothing survives a kill.
Phases ==
    /\ expected => up /\ TestsOver
    /\ ~expected => /\ \A t \in Tasks : pc[t] = "queued" /\ published[t] = None
                    /\ step = FirstSteps
                    /\ \A e \in Entries : outstanding[e] = 0
                    /\ writes = <<>>
    /\ ~up => queue = <<>> /\ current = None
    /\ current = None => recorded = <<>> /\ ~broken /\ retain = None
    /\ current # None => entries[current] = Interrupted

\* The files of the recording under way.
Recording ==
    /\ \A f \in Range(recorded) :
          \E s \in SegmentsOf(current) :
              s < at /\ (f = Raw(s) \/ (~Deferred /\ f = Final({s})))
    /\ \A i, j \in DOMAIN recorded : i < j =>
          \A r \in recorded[i].of : \A s \in recorded[j].of : r < s

\* The tasks in the queue, and those of the recording under way.
Queued ==
    /\ \A i, j \in DOMAIN queue : i # j => queue[i] # queue[j]
    /\ \A t \in Range(queue) :
          /\ Deferred /\ pc[t] = "queued"
          /\ \A s \in t : s < at
          /\ EntryOfTask(t) = current =>
                ~Merge /\ \E s \in t : Raw(s) \in Range(recorded)

Past(e) == \A s \in SegmentsOf(e) : s < at

\* An entry with content or tasks is the one under way or has been completed.
Begun ==
    /\ up => \A s \in captured : s < at
    /\ \A e \in Entries \ {current} :
          up /\ (Awaited(e) # {} \/ captured \intersect SegmentsOf(e) # {}) =>
              Past(e) /\ entries[e] \in EntryValues

\* Merged entries have one task.
Alone == Merge => \A e \in Entries : \A t, u \in Awaited(e) : t = u

\* Nothing of an incomplete recording is awaited.
IncompleteFits ==
    \A e \in Entries :
        entries[e] \in EntryValues /\ entries[e].incomplete => Awaited(e) = {}

\* The chained appends are those of the tasks that wait for them.
Chained ==
    /\ \A i \in DOMAIN writes : pc[writes[i].task] = "journaling"
    /\ \A i, j \in DOMAIN writes : i # j => writes[i].task # writes[j].task

Open(e) == {t \in Awaited(e) : ~Reported(t)}
Reports(e) == {t \in Awaited(e) : Reported(t)}
Failed(e) ==
    \/ entries[e].decision = "failed"
    \/ \E t \in Reports(e) : completion[t].outcome = "failed"

ReportsFit ==
    \A t \in Tasks : Answered(t) =>
        /\ completion[t] \in Report
        /\ completion[t].decision = "failed" => completion[t].outcome = "failed"

SessionInv ==
    /\ Phases /\ Recording /\ Queued /\ Begun /\ Alone
    /\ IncompleteFits /\ Chained /\ ReportsFit

\* An entry waits for as many tasks as have not reported.
Counted == expected => \A e \in Entries : outstanding[e] = Cardinality(Open(e))

\* The outcome of an entry says what its reports so far say.
Outcomes ==
    \A e \in Entries \ {current} : up /\ Awaited(e) # {} =>
        /\ entries[e].outcome = "failed" <=> Failed(e)
        /\ ~Failed(e) /\ Reports(e) # {} =>
              entries[e].outcome = IF outstanding[e] > 0 THEN "pending" ELSE "completed"
        /\ Merge /\ Reports(e) = {} => entries[e].outcome # "failed"

OutcomeInv == Counted /\ Outcomes

StepsFit ==
    /\ expected => Deferred
    /\ \A t \in Tasks :
          /\ ~Merge => step[t] = "transcode"
          /\ Merge /\ step[t] = "transcode" => Transcode
          /\ \/ published[t] \in {None, Final(t)}
             \/ Merge /\ published[t] = Merged(t)

PathsFit ==
    \A t \in Tasks : Answered(t) =>
        /\ Ascends(completion[t].paths)
        /\ \A f \in Range(completion[t].paths) :
              \/ \E s \in t : f = Raw(s)
              \/ f = Final(t)
              \/ (Merge /\ f = Merged(t))

Ordered(listed) ==
    \A i, j \in DOMAIN listed : i < j =>
        \A r \in listed[i].file.of : \A s \in listed[j].file.of : r < s

\* Files show the tabs of their segments; those of a failed entry may show none.
Labelled(items, failed) ==
    \A item \in items :
        \/ item.tabs = InOrder[item.file.of]
        \/ item.tabs = <<>> /\ failed

WellListed(v) ==
    Ordered(v.listed) /\ Labelled(Range(v.listed), v.outcome = "failed")

OwnFiles(v, e) ==
    \A f \in Range(FilesOf(v.listed)) : f.of # {} /\ f.of \subseteq SegmentsOf(e)

\* Nothing is merged in the list.
Parted(v) ==
    \A f \in Range(FilesOf(v.listed)) :
        \E s \in Segments : f = Raw(s) \/ f = Final({s})

\* The recordings of a task are listed, and nothing else is.
ListsRaws(v, t) == \A s \in t : Raw(s) \in Range(FilesOf(v.listed))
OnlyRaws(v, t) == \A f \in Range(FilesOf(v.listed)) : \E s \in t : f = Raw(s)

\* The lists of the entries; the one being recorded is still empty.
Lists ==
    /\ \A e \in Entries : entries[e] \in EntryValues => WellListed(entries[e])
    /\ \A e \in Entries \ {current} : entries[e] \in EntryValues =>
          /\ OwnFiles(entries[e], e)
          /\ Deferred /\ ~Merge => Parted(entries[e])
    /\ up => \A e \in Entries \ {current} : \A t \in Open(e) :
          /\ ListsRaws(entries[e], t)
          /\ Merge => OnlyRaws(entries[e], t)

ListInv == StepsFit /\ PathsFit /\ Lists

Processed(v) == v # None /\ v.outcome = "completed" /\ v.timing = "after-worker"

\* What an entry of this deferred outcome lists has been processed.  A merged
\* file that is transcoded goes on to be removed.
Proper(v, e) ==
    Processed(v) =>
        \A f \in Range(FilesOf(v.listed)) :
            IF f.kind = "raw" THEN f.of \notin Awaited(e)
            ELSE f \in files /\ (f.kind = "merged" => ~Transcode)

AllProper ==
    /\ \A e \in Entries : Proper(entries[e], e) /\ Proper(journal[e], e)
    /\ \A i \in DOMAIN writes : Proper(writes[i].entry, EntryOfTask(writes[i].task))

NoneProcessed ==
    up /\ ~expected => \A e \in Entries : ~Processed(entries[e]) /\ ~Processed(journal[e])

CompletedPaths ==
    \A t \in Tasks : Answered(t) /\ completion[t].outcome = "completed" =>
        /\ completion[t].paths = <<Output(t)>> /\ Output(t) \in files
        /\ step[t] = "merge" => ~Transcode

PublishedThere ==
    \A t \in Tasks : pc[t] \in {"published", "cleaned"} =>
        Output(t) \in files /\ published[t] = Output(t)

\* The processed files among these exist.
FinalsIn(paths) == \A f \in Range(paths) : f.kind = "raw" \/ f \in files

FinalsThere ==
    Deferred /\ ~Merge /\ up =>
        /\ \A t \in Tasks : Answered(t) => FinalsIn(completion[t].paths)
        /\ \A e \in Entries \ {current} : entries[e] \in EntryValues =>
              FinalsIn(FilesOf(entries[e].listed))
        /\ \A e \in Entries \ {current} : \A t \in Reports(e) :
              completion[t].outcome = "completed" =>
                 \A s \in t : Raw(s) \notin Range(FilesOf(entries[e].listed))

TrueInv == AllProper /\ NoneProcessed /\ CompletedPaths /\ PublishedThere /\ FinalsThere

Holding(s, among) == \E f \in files \intersect among : s \in f.of

\* Where a task stands, one of its files holds each of its segments, and when
\* it has reported one that its entry lists.
Held(t, s) ==
    /\ pc[t] \in {"queued", "check", "process"} =>
          IF Merge /\ step[t] = "transcode" THEN Merged(t) \in files
          ELSE Raw(s) \in files
    /\ Answered(t) => Holding(s, Range(completion[t].paths))
    /\ Reported(t) => Holding(s, Range(FilesOf(entries[EntryOf[s]].listed)))

AllHeld == \A s \in captured \ lost : Holding(s, files)

TasksHold ==
    up /\ Deferred => \A s \in captured :
        /\ EntryOf[s] = current => Raw(s) \in Range(recorded)
        /\ Merge => \A t \in Awaited(EntryOf[s]) : s \in t
        /\ \A t \in Awaited(EntryOf[s]) : s \in t /\ s \notin lost => Held(t, s)
        /\ (\A t \in Awaited(EntryOf[s]) : s \notin t) =>
              /\ s \notin lost => Raw(s) \in files
              /\ EntryOf[s] # current =>
                    Raw(s) \in Range(FilesOf(entries[EntryOf[s]].listed))

HeldInv == AllHeld /\ TasksHold

----------------------------------------------------------------------------
(* Types.                                                                  *)

LEMMA SameSetting ==
    ASSUME setting' = setting
    PROVE  /\ Deferred' = Deferred /\ Merge' = Merge /\ Transcode' = Transcode
           /\ Tasks' = Tasks /\ Files' = Files /\ Items' = Items
           /\ EntryValues' = EntryValues /\ Report' = Report
           /\ FirstSteps' = FirstSteps
           /\ \A e : TasksOf(e)' = TasksOf(e)
           /\ \A f : IsMergedFile(f)' = IsMergedFile(f)
<1>1. Deferred' = Deferred /\ Merge' = Merge /\ Transcode' = Transcode
    BY DEF Deferred, Merge, Transcode
<1>2. Tasks' = Tasks
    BY <1>1 DEF Tasks
<1>3. Files' = Files
    BY <1>2 DEF Files
<1>4. EntryValues' = EntryValues /\ Items' = Items
    BY <1>3 DEF EntryValues, EntriesListing, Items
<1>5. Report' = Report
    BY <1>3 DEF Report
<1>6. FirstSteps' = FirstSteps
    BY <1>1, <1>2 DEF FirstSteps
<1>7. \A e : TasksOf(e)' = TasksOf(e)
    BY <1>2 DEF TasksOf
<1>8. \A f : IsMergedFile(f)' = IsMergedFile(f)
    BY <1>1 DEF IsMergedFile
<1> QED
    BY <1>1, <1>2, <1>3, <1>4, <1>5, <1>6, <1>7, <1>8

\* The action keeps the setting, and what it leaves alone keeps its type.
LEMMA NextKeepsSetting == [Next]_mediaVars => setting' = setting
<1> SUFFICES ASSUME [Next]_mediaVars
             PROVE  setting' = setting
    OBVIOUS
<1>1. CASE Record
    <2>1. ASSUME NEW entry, Complete(entry)
          PROVE  setting' = setting
        BY <2>1 DEF Complete
    <2> QED
        BY <1>1, <2>1
           DEF Record, Begin, Stop, StartFinalize, FinalizeFailed, Discard,
               KeepIncomplete, KeepSegments, MergeNow, vars
<1>2. CASE Teardown
    BY <1>2
       DEF Teardown, Flush, Take, Write, TaskStep, CheckInput, Process,
           RemoveInputs, Finish, Throw, CompleteDeferred
<1>3. CASE Done \/ UNCHANGED mediaVars
    BY <1>3 DEF Done, mediaVars, vars
<1>4. CASE Kill
    BY <1>4 DEF Kill, Crash
<1>5. CASE \E s \in Losable : LoseInput(s) /\ UNCHANGED recording
    BY <1>5 DEF LoseInput
<1> QED
    BY <1>1, <1>2, <1>3, <1>4, <1>5 DEF Next

CompletedFits(entry, paths, parts, deferred) ==
    /\ entry \in EntryValues
    /\ entry.listed = AttachTabs(paths, TabHistory(parts, <<>>))
    /\ entry.outcome = IF broken THEN "failed"
                       ELSE IF deferred THEN "pending"
                       ELSE IF retain THEN "completed" ELSE "skipped"
    /\ entry.timing = IF deferred /\ ~broken THEN "after-worker" ELSE "after-test"
    /\ entry.decision = IF broken THEN "failed"
                        ELSE IF ~retain THEN "discarded"
                        ELSE IF paths = <<>> THEN "failed" ELSE "recorded"
    /\ entry.incomplete = broken

LEMMA CompletedEntryType ==
    ASSUME setting \in Settings, broken \in BOOLEAN, retain \in BOOLEAN,
           NEW paths \in Seq(Files), NEW parts \in SUBSET Segments,
           NEW deferred \in BOOLEAN
    PROVE  CompletedFits(CompletedEntry(paths, parts, deferred), paths, parts, deferred)
<1> DEFINE listed == AttachTabs(paths, TabHistory(parts, <<>>))
           outcome == IF broken THEN "failed"
                      ELSE IF deferred THEN "pending"
                      ELSE IF retain THEN "completed" ELSE "skipped"
           timing == IF deferred /\ ~broken THEN "after-worker" ELSE "after-test"
           decision == IF broken THEN "failed"
                       ELSE IF ~retain THEN "discarded"
                       ELSE IF paths = <<>> THEN "failed" ELSE "recorded"
<1>1. <<>> \in Seq(Segments)
    OBVIOUS
<1>2. listed \in Seq(Items)
    BY <1>1, TabHistoryFacts, AttachTabsFacts, ZenonT(60)
<1>3. CompletedEntry(paths, parts, deferred) =
         [listed |-> listed, outcome |-> outcome, timing |-> timing,
          decision |-> decision, incomplete |-> broken]
    BY DEF CompletedEntry
<1>4. /\ outcome \in {"pending", "completed", "failed", "skipped"}
      /\ timing \in {"after-test", "after-worker"}
      /\ decision \in {"recorded", "failed", "discarded"}
    OBVIOUS
<1> HIDE DEF listed, outcome, timing, decision
<1>5. CompletedEntry(paths, parts, deferred) \in EntryValues
    BY <1>2, <1>3, <1>4, EntryFacts
<1> QED
    BY <1>3, <1>5 DEF listed, outcome, timing, decision, CompletedFits

FailedEntry(paths) ==
    [Interrupted EXCEPT !.listed = AttachTabs(paths, TabHistory({}, <<>>))]

LEMMA FailedEntryType ==
    ASSUME setting \in Settings, NEW paths \in Seq(Files)
    PROVE  /\ FailedEntry(paths) \in EntryValues
           /\ FailedEntry(paths).listed =
                AttachTabs(paths, TabHistory({}, <<>>))
           /\ FailedEntry(paths).outcome = "failed"
           /\ FailedEntry(paths).timing = "after-test"
           /\ FailedEntry(paths).decision = "failed"
           /\ FailedEntry(paths).incomplete = FALSE
<1> DEFINE listed == AttachTabs(paths, TabHistory({}, <<>>))
<1>1. <<>> \in Seq(Segments) /\ {} \in SUBSET Segments
    OBVIOUS
<1>2. listed \in Seq(Items)
    BY <1>1, TabHistoryFacts, AttachTabsFacts
<1>3. FailedEntry(paths) = [Interrupted EXCEPT !.listed = listed]
    BY DEF FailedEntry
<1> HIDE DEF listed
<1>4. FailedEntry(paths) =
         [listed |-> listed, outcome |-> "failed", timing |-> "after-test",
          decision |-> "failed", incomplete |-> FALSE]
    BY <1>3 DEF Interrupted
<1> QED
    BY <1>2, <1>4, EntryFacts DEF listed

Sticky(existing) == ~Merge /\ existing.outcome = "failed"

SettledOutcome(existing, t, left) ==
    IF Sticky(existing) THEN "failed"
    ELSE IF left > 0 /\ completion[t].outcome = "completed" THEN "pending"
    ELSE completion[t].outcome

SettledDecision(existing, t) ==
    IF Sticky(existing) THEN existing.decision ELSE completion[t].decision

\* What a settled entry consists of.
LEMMA SettledType ==
    ASSUME DeferredTypes, NEW t \in Tasks, completion[t] \in Report,
           NEW e \in Entries, NEW existing \in EntryValues, NEW left \in Nat
    PROVE  LET updated == Settled(e, existing, t, left) IN
           /\ updated \in EntryValues
           /\ updated.listed = Relisted(e, existing, t)
           /\ updated.timing = "after-worker"
           /\ existing.incomplete = FALSE => updated.incomplete = FALSE
           /\ updated.outcome = SettledOutcome(existing, t, left)
           /\ updated.decision = SettledDecision(existing, t)
<1> DEFINE listed == Relisted(e, existing, t)
           incomplete == Sticky(existing) /\ existing.incomplete
           outcome == SettledOutcome(existing, t, left)
           decision == SettledDecision(existing, t)
<1>1. setting \in Settings
    BY DEF DeferredTypes
<1>2. /\ existing.listed \in Seq(Items)
      /\ existing.outcome \in {"pending", "completed", "failed", "skipped"}
      /\ existing.timing \in {"after-test", "after-worker"}
      /\ existing.decision \in {"recorded", "failed", "discarded"}
      /\ existing.incomplete \in BOOLEAN
      /\ existing = [listed |-> existing.listed, outcome |-> existing.outcome,
                     timing |-> existing.timing,
                     decision |-> existing.decision,
                     incomplete |-> existing.incomplete]
    BY EntryFacts
<1>3. /\ completion[t].paths \in Seq(Files)
      /\ completion[t].outcome \in {"completed", "failed"}
      /\ completion[t].decision \in {"recorded", "failed"}
    BY DEF Report
<1>4. listed \in Seq(Items)
    <2> DEFINE history == ReadTabHistory(existing.listed)
    <2>1. history.parts \in SUBSET Segments /\ history.merged \in Seq(Segments)
        BY <1>1, <1>2, ReadTabHistoryFacts
    <2>2. AttachTabs(completion[t].paths, history) \in Seq(Items)
        BY <1>1, <1>3, <2>1, AttachTabsFacts
    <2> QED
        BY <1>2, <2>2, ReplaceSegmentsFacts DEF Relisted
<1>5. Settled(e, existing, t, left) =
         [existing EXCEPT !.listed = listed, !.timing = "after-worker",
          !.incomplete = incomplete, !.outcome = outcome,
          !.decision = decision]
    BY DEF Settled, Sticky, SettledOutcome, SettledDecision
<1>6. incomplete \in BOOLEAN
    BY <1>2 DEF Sticky
<1>7. outcome \in {"pending", "completed", "failed"}
    BY <1>3 DEF SettledOutcome
<1>8. decision \in {"recorded", "failed", "discarded"}
    BY <1>2, <1>3 DEF SettledDecision
<1>9. existing.incomplete = FALSE => incomplete = FALSE
    OBVIOUS
<1> HIDE DEF listed, incomplete, outcome, decision
<1>10. Settled(e, existing, t, left) =
         [listed |-> listed, outcome |-> outcome, timing |-> "after-worker",
          decision |-> decision, incomplete |-> incomplete]
    BY <1>2, <1>5
<1>11. Settled(e, existing, t, left) \in EntryValues
    BY <1>4, <1>6, <1>7, <1>8, <1>10, EntryFacts
<1> QED
    BY <1>9, <1>10, <1>11 DEF listed, outcome, decision

LEMMA AppendLineFacts ==
    ASSUME journal \in [Entries -> EntryValues \union {None}], torn \in BOOLEAN,
           NEW e \in Entries, NEW entry \in EntryValues, AppendLine(e, entry)
    PROVE  /\ torn' \in BOOLEAN
           /\ journal' \in [Entries -> EntryValues \union {None}]
           /\ \A d \in Entries :
                 \/ journal'[d] = journal[d]
                 \/ d = e /\ journal'[d] = entry
BY DEF AppendLine

LEMMA PartsFacts ==
    ASSUME MediaTypes, Recording, current \in Entries
    PROVE  /\ Parts \in SUBSET SegmentsOf(current)
           /\ Parts \in SUBSET Segments
           /\ recorded # <<>> => Parts # {}
           /\ Merge /\ recorded # <<>> =>
                 Parts \in Tasks /\ EntryOfTask(Parts) = current
<1>1. setting \in Settings
    BY DEF MediaTypes, DeferredTypes
<1>2. recorded \in Seq(Files)
    BY DEF MediaTypes, SessionTypes
<1>3. ASSUME NEW f \in Range(recorded)
      PROVE  f.of # {} /\ f.of \subseteq SegmentsOf(current)
    <2>1. PICK s \in SegmentsOf(current) : f = Raw(s) \/ f = Final({s})
        BY DEF Recording
    <2>2. f.of = {s}
        BY <2>1, FileFacts
    <2> QED
        BY <2>1, <2>2
<1>4. Parts \subseteq SegmentsOf(current)
    BY <1>3 DEF Parts
<1>5. recorded # <<>> => Parts # {}
    <2>1. recorded # <<>> => recorded[1] \in Range(recorded)
        BY <1>2, EmptySeq DEF Range
    <2> QED
        BY <2>1, <1>3 DEF Parts
<1> QED
    BY <1>1, <1>4, <1>5, TaskSetFacts DEF SegmentsOf

LEMMA DropTasksFacts ==
    ASSUME MediaTypes, NEW paths
    PROVE  /\ DropTasksForPaths(queue, paths) \in Seq(Tasks)
           /\ Range(DropTasksForPaths(queue, paths)) =
                {t \in Range(queue) : ~Touches(t, paths)}
<1>1. queue \in Seq(Tasks)
    BY DEF MediaTypes, DeferredTypes
<1> DEFINE some == {t \in Range(queue) : ~Touches(t, paths)}
<1>2. /\ Keeping(queue, some) \in Seq(Tasks)
      /\ Range(Keeping(queue, some)) = Range(queue) \intersect some
    BY <1>1, KeepingRange
<1>3. Range(queue) \intersect some = some
    OBVIOUS
<1> QED
    BY <1>2, <1>3 DEF DropTasksForPaths

LEMMA DeferredTypesNext ==
    ASSUME setting' = setting, setting \in Settings,
           up' \in BOOLEAN, torn' \in BOOLEAN, expected' \in BOOLEAN,
           files' \subseteq Files, lost' \subseteq Segments,
           queue' \in Seq(Tasks), pc' \in [Tasks -> Locations],
           step' \in [Tasks -> {"merge", "transcode"}],
           published' \in [Tasks -> Files \union {None}],
           completion' \in [Tasks -> Report \union {None}],
           entries' \in [Entries -> EntryValues \union {None}],
           journal' \in [Entries -> EntryValues \union {None}],
           outstanding' \in [Entries -> Nat],
           writes' \in Seq([task : Tasks, entry : EntryValues])
    PROVE  DeferredTypes'
BY SameSetting DEF DeferredTypes

LEMMA SessionTypesNext ==
    ASSUME setting' = setting, at' \in Nat, current' \in Entries \union {None},
           recorded' \in Seq(Files), broken' \in BOOLEAN, threw' \in BOOLEAN,
           retain' \in BOOLEAN \union {None}, before' \in Nat,
           captured' \subseteq Segments
    PROVE  SessionTypes'
BY SameSetting DEF SessionTypes

LEMMA InitTypes ==
    ASSUME SegmentInit
    PROVE  MediaTypes
<1> USE DEF SegmentInit, Init
<1>1. setting \in Settings
    OBVIOUS
<1>2. Merge \in BOOLEAN
    BY <1>1, SettingFacts
<1>3. FirstSteps \in [Tasks -> {"merge", "transcode"}]
    BY <1>2 DEF FirstSteps, ForEach
<1>4. up \in BOOLEAN /\ torn \in BOOLEAN /\ expected \in BOOLEAN
    OBVIOUS
<1>5. pc = [t \in Tasks |-> "queued"] /\ step = FirstSteps
      /\ published = [t \in Tasks |-> None] /\ completion = [t \in Tasks |-> None]
      /\ entries = [e \in Entries |-> None] /\ journal = [e \in Entries |-> None]
    BY DEF ForEach, NoEntries
<1>6. files \subseteq Files /\ lost \subseteq Segments
    OBVIOUS
<1>7. /\ queue \in Seq(Tasks) /\ outstanding \in [Entries -> Nat]
      /\ writes \in Seq([task : Tasks, entry : EntryValues])
    OBVIOUS
<1>8. pc \in [Tasks -> Locations]
    BY <1>5 DEF Locations
<1>9. DeferredTypes
    <2> HIDE DEF SegmentInit, Init
    <2> QED
        BY <1>1, <1>3, <1>4, <1>5, <1>6, <1>7, <1>8 DEF DeferredTypes
<1>10. SessionTypes
    <2>1. /\ at = 1 /\ current = None /\ recorded = <<>> /\ retain = None
          /\ before = 0 /\ captured = {}
        OBVIOUS
    <2>2. broken \in BOOLEAN /\ threw \in BOOLEAN
        OBVIOUS
    <2> HIDE DEF SegmentInit, Init
    <2>3. recorded \in Seq(Files)
        BY <2>1
    <2> QED
        BY <2>1, <2>2, <2>3 DEF SessionTypes
<1> QED
    BY <1>9, <1>10 DEF MediaTypes

LEMMA InputFacts ==
    ASSUME MediaTypes, NEW t \in Tasks
    PROVE  /\ Inputs(t) \in Seq(Files)
           /\ Output(t) \in Files
           /\ <<Output(t)>> \in Seq(Files)
           /\ Range(<<Output(t)>>) = {Output(t)}
           /\ Range(Inputs(t)) =
                IF Merge /\ step[t] = "transcode" THEN {Merged(t)}
                ELSE {Raw(s) : s \in t}
           /\ Range(Inputs(t)) \subseteq Files
           /\ Keeping(Inputs(t), files) \in Seq(Files)
           /\ Range(Keeping(Inputs(t), files)) = Range(Inputs(t)) \intersect files
<1>1. setting \in Settings
    BY DEF MediaTypes, DeferredTypes
<1>2. Merged(t) \in Files /\ Final(t) \in Files
    BY <1>1, FilesFacts
<1>3. RawsOf(t) \in Seq(Files) /\ Range(RawsOf(t)) = {Raw(s) : s \in t}
    BY <1>1, RawsOfFacts
<1>4. \A f : Range(<<f>>) = {f}
    BY DEF Range
<1>5. Output(t) \in Files
    BY <1>2 DEF Output
<1>6. Inputs(t) \in Seq(Files)
    BY <1>2, <1>3 DEF Inputs
<1>7. Range(Inputs(t)) =
         IF Merge /\ step[t] = "transcode" THEN {Merged(t)}
         ELSE {Raw(s) : s \in t}
    BY <1>3, <1>4 DEF Inputs
<1>8. Range(Inputs(t)) \subseteq Files
    BY <1>6, RangeOfSeq
<1>9. /\ Keeping(Inputs(t), files) \in Seq(Files)
      /\ Range(Keeping(Inputs(t), files)) = Range(Inputs(t)) \intersect files
    BY <1>6, KeepingRange
<1>10. <<Output(t)>> \in Seq(Files)
    BY <1>5
<1> QED
    BY <1>4, <1>5, <1>6, <1>7, <1>8, <1>9, <1>10

LEMMA SettleFacts ==
    ASSUME MediaTypes, NEW t \in Tasks, NEW outcome \in {"completed", "failed"},
           NEW decision \in {"recorded", "failed"}, NEW paths \in Seq(Files),
           Settle(t, outcome, decision, paths)
    PROVE  /\ pc' = [pc EXCEPT ![t] = "completing"]
           /\ pc' \in [Tasks -> Locations]
           /\ completion' \in [Tasks -> Report \union {None}]
           /\ completion'[t] \in Report
           /\ completion'[t].outcome = outcome
           /\ completion'[t].decision = decision
           /\ completion'[t].paths = paths
           /\ \A u \in Tasks \ {t} : completion'[u] = completion[u]
<1> PICK report : report = [outcome |-> outcome, decision |-> decision,
                            paths |-> paths]
    OBVIOUS
<1>1. report \in Report
    BY DEF Report
<1>2. completion' = [completion EXCEPT ![t] = report]
    BY DEF Settle
<1>3. completion \in [Tasks -> Report \union {None}] /\ pc \in [Tasks -> Locations]
    BY DEF MediaTypes, DeferredTypes
<1>4. pc' = [pc EXCEPT ![t] = "completing"] /\ "completing" \in Locations
    BY DEF Settle, Goto, Locations
<1>5. completion'[t] = report /\ \A u \in Tasks \ {t} : completion'[u] = completion[u]
    BY <1>2, <1>3
<1> QED
    BY <1>1, <1>2, <1>3, <1>4, <1>5

LEMMA NoneFacts == None \notin Entries /\ TRUE # None /\ FALSE # None
BY NoneAssumption

LEMMA CompleteTypes ==
    ASSUME MediaTypes, Ended, NEW entry \in EntryValues, Complete(entry),
           files' \in SUBSET Files, queue' \in Seq(Tasks),
           captured' \in SUBSET Segments
    PROVE  MediaTypes'
<1>1. /\ setting \in Settings /\ current \in Entries
      /\ up \in BOOLEAN /\ torn \in BOOLEAN /\ expected \in BOOLEAN
      /\ lost \subseteq Segments /\ pc \in [Tasks -> Locations]
      /\ step \in [Tasks -> {"merge", "transcode"}]
      /\ published \in [Tasks -> Files \union {None}]
      /\ completion \in [Tasks -> Report \union {None}]
      /\ entries \in [Entries -> EntryValues \union {None}]
      /\ journal \in [Entries -> EntryValues \union {None}]
      /\ outstanding \in [Entries -> Nat]
      /\ writes \in Seq([task : Tasks, entry : EntryValues])
      /\ at \in Nat
    BY DEF MediaTypes, DeferredTypes, SessionTypes, Ended
<1>2. /\ setting' = setting /\ up' = up /\ lost' = lost /\ expected' = expected
      /\ step' = step /\ published' = published /\ pc' = pc
      /\ completion' = completion /\ outstanding' = outstanding
      /\ writes' = writes /\ at' = at
    BY DEF Complete, flushing
<1>3. /\ entries' = [entries EXCEPT ![current] = entry]
      /\ AppendLine(current, entry)
      /\ current' = None /\ recorded' = <<>> /\ broken' = FALSE
      /\ retain' = None /\ before' = 0 /\ threw' = FALSE
    BY DEF Complete
<1>4. torn' \in BOOLEAN /\ journal' \in [Entries -> EntryValues \union {None}]
    BY <1>1, <1>3, AppendLineFacts
<1>5. entries' \in [Entries -> EntryValues \union {None}]
    BY <1>1, <1>3
<1>6. DeferredTypes'
    BY <1>1, <1>2, <1>4, <1>5, DeferredTypesNext
<1>7. recorded' \in Seq(Files)
    BY <1>3
<1>8. broken' \in BOOLEAN /\ threw' \in BOOLEAN
    BY <1>3
<1>9. SessionTypes'
    BY <1>1, <1>2, <1>3, <1>7, <1>8, SessionTypesNext
<1> QED
    BY <1>6, <1>9 DEF MediaTypes

Dropped == DropTasksForPaths(queue, Range(recorded))

\* What the end of a recording does to the files, the queue and the entry.
LEMMA Completing ==
    ASSUME MediaTypes, Recording,
           FinalizeFailed \/ Discard \/ KeepIncomplete \/ KeepSegments \/ MergeNow
    PROVE  /\ Ended /\ current \in Entries
           /\ captured' = captured \/ captured' = captured \ SegmentsOf(current)
           /\ queue' \in Seq(Tasks)
           /\ files' \in SUBSET Files
           /\ \E entry \in EntryValues :
                 /\ Complete(entry)
                 /\ \/ queue' = queue /\ ~entry.incomplete
                    \/ queue' = Dropped
                    \/ /\ queue' = Append(Dropped, Parts) /\ ~entry.incomplete
                       /\ Parts \in Tasks /\ EntryOfTask(Parts) = current
                       /\ Merge /\ Deferred
<1>1. /\ setting \in Settings /\ Ended /\ current \in Entries
      /\ recorded \in Seq(Files) /\ broken \in BOOLEAN /\ retain \in BOOLEAN
      /\ queue \in Seq(Tasks) /\ files \in SUBSET Files
    BY DEF MediaTypes, DeferredTypes, SessionTypes, FinalizeFailed, Discard,
           KeepIncomplete, KeepSegments, MergeNow, Kept, Ended
<1>2. /\ Parts \in SUBSET Segments
      /\ Merge /\ recorded # <<>> => Parts \in Tasks /\ EntryOfTask(Parts) = current
    BY <1>1, PartsFacts
<1>3. Dropped \in Seq(Tasks)
    BY DropTasksFacts DEF Dropped
<1>4. <<>> \in Seq(Files)
    OBVIOUS
<1>5. CASE FinalizeFailed
    <2>1. Complete(FailedEntry(recorded)) /\ UNCHANGED <<files, queue, captured>>
        BY <1>5 DEF FinalizeFailed, FailedEntry
    <2>2. FailedEntry(recorded) \in EntryValues /\ ~FailedEntry(recorded).incomplete
        BY <1>1, FailedEntryType
    <2> QED
        BY <1>1, <2>1, <2>2
<1>6. CASE Discard
    <2>1. /\ files' \in SUBSET Files /\ captured' = captured \ SegmentsOf(current)
          /\ queue' = Dropped
          /\ Complete(CompletedEntry(<<>>, Parts, Len(queue') > before))
        BY <1>1, <1>6 DEF Discard, Dropped
    <2>2. CompletedEntry(<<>>, Parts, Len(queue') > before) \in EntryValues
        <3>1. (Len(queue') > before) \in BOOLEAN
            OBVIOUS
        <3> QED
            BY <1>1, <1>2, <1>4, <3>1, CompletedEntryType DEF CompletedFits
    <2> QED
        BY <1>1, <1>3, <2>1, <2>2
<1>7. CASE KeepIncomplete
    <2>1. /\ files' = files /\ captured' = captured /\ queue' = Dropped
          /\ Complete(CompletedEntry(recorded, Parts, Len(queue') > before))
        BY <1>7 DEF KeepIncomplete, Dropped
    <2>2. CompletedEntry(recorded, Parts, Len(queue') > before) \in EntryValues
        <3>1. (Len(queue') > before) \in BOOLEAN
            OBVIOUS
        <3> QED
            BY <1>1, <1>2, <3>1, CompletedEntryType DEF CompletedFits
    <2> QED
        BY <1>1, <1>3, <2>1, <2>2
<1>8. CASE KeepSegments
    <2>1. /\ files' = files /\ captured' = captured /\ ~broken
          /\ Complete(CompletedEntry(recorded, Parts, Len(queue') > before))
        BY <1>8 DEF KeepSegments, Kept
    <2>2. /\ CompletedEntry(recorded, Parts, Len(queue') > before) \in EntryValues
          /\ ~CompletedEntry(recorded, Parts, Len(queue') > before).incomplete
        <3>1. (Len(queue') > before) \in BOOLEAN
            OBVIOUS
        <3> QED
            BY <1>1, <1>2, <2>1, <3>1, CompletedEntryType DEF CompletedFits
    <2>3. CASE Mergeable
        <3>1. queue' = Append(Dropped, Parts) /\ Merge /\ Deferred
            BY <1>8, <2>3 DEF KeepSegments, Dropped, Mergeable
        <3>2. Parts \in Tasks /\ EntryOfTask(Parts) = current
            BY <1>2, <2>3 DEF Mergeable
        <3>3. Append(Dropped, Parts) \in Seq(Tasks)
            BY <1>3, <3>2
        <3> QED
            BY <1>1, <2>1, <2>2, <3>1, <3>2, <3>3
    <2>4. CASE ~Mergeable
        <3>1. queue' = queue
            BY <1>8, <2>4 DEF KeepSegments
        <3> QED
            BY <1>1, <2>1, <2>2, <3>1
    <2> QED
        BY <2>3, <2>4
<1>9. CASE MergeNow
    <2>1. queue' = queue /\ captured' = captured /\ Mergeable /\ ~broken
        BY <1>9 DEF MergeNow, Kept
    <2>2. Parts \in Tasks
        BY <1>2, <2>1 DEF Mergeable
    <2>3. Merged(Parts) \in Files /\ <<Merged(Parts)>> \in Seq(Files)
        BY <1>1, <2>2, FilesFacts
    <2>4. files' \in SUBSET Files
        BY <1>1, <1>9, <2>3 DEF MergeNow
    <2>5. \/ Complete(CompletedEntry(<<Merged(Parts)>>, Parts, FALSE))
          \/ Complete(CompletedEntry(recorded, Parts, FALSE))
          \/ Complete(FailedEntry(recorded))
        BY <1>9 DEF MergeNow, FailedEntry
    <2>6. /\ CompletedEntry(<<Merged(Parts)>>, Parts, FALSE) \in EntryValues
          /\ ~CompletedEntry(<<Merged(Parts)>>, Parts, FALSE).incomplete
        BY <1>1, <1>2, <2>1, <2>3, CompletedEntryType DEF CompletedFits
    <2>7. /\ CompletedEntry(recorded, Parts, FALSE) \in EntryValues
          /\ ~CompletedEntry(recorded, Parts, FALSE).incomplete
        BY <1>1, <1>2, <2>1, CompletedEntryType DEF CompletedFits
    <2>8. FailedEntry(recorded) \in EntryValues /\ ~FailedEntry(recorded).incomplete
        BY <1>1, FailedEntryType
    <2> QED
        BY <1>1, <2>1, <2>4, <2>5, <2>6, <2>7, <2>8
<1> QED
    BY <1>5, <1>6, <1>7, <1>8, <1>9

\* How a stop changes the recording, its files and the queue.
LEMMA StopFacts ==
    ASSUME MediaTypes, NEW s \in Segments, Stop(s)
    PROVE  /\ up /\ current \in Entries /\ s = at /\ EntryOf[s] = current
           /\ at' = at + 1 /\ current' = current
           /\ setting' = setting /\ up' = up /\ lost' = lost /\ entries' = entries
           /\ expected' = expected /\ step' = step /\ published' = published
           /\ pc' = pc /\ completion' = completion /\ outstanding' = outstanding
           /\ writes' = writes /\ journal' = journal /\ torn' = torn
           /\ retain' = retain /\ before' = before
           /\ broken' \in BOOLEAN /\ threw' \in BOOLEAN
           /\ retain # None => SegmentsToCome = {s}
           /\ captured' \in {captured, captured \union {s}}
           /\ \/ recorded' = recorded
              \/ recorded' = Append(recorded, Raw(s))
              \/ recorded' = Append(recorded, Final({s})) /\ ~Deferred
           /\ \E added \in SUBSET {Raw(s), Final({s})} : files' = files \union added
           /\ \/ queue' = queue
              \/ /\ queue' = Append(queue, {s}) /\ Deferred /\ ~Merge
                 /\ recorded' = Append(recorded, Raw(s))
           /\ s \in captured' \ captured /\ Deferred =>
                 recorded' = Append(recorded, Raw(s)) /\ Raw(s) \in files'
           /\ s \in captured' \ captured => \E f \in files' : s \in f.of
<1>1. /\ setting \in Settings /\ current \in Entries \union {None}
      /\ recorded \in Seq(Files) /\ broken \in BOOLEAN /\ up \in BOOLEAN
      /\ retain \in BOOLEAN \union {None}
    BY DEF MediaTypes, DeferredTypes, SessionTypes
<1>2. /\ Deferred \in BOOLEAN /\ Merge \in BOOLEAN /\ Transcode \in BOOLEAN
      /\ Strict \in BOOLEAN /\ Throws \in BOOLEAN
    BY <1>1, SettingFacts
<1>3. /\ up /\ current \in Entries /\ s = at /\ EntryOf[s] = current
      /\ at' = at + 1 /\ current' = current
      /\ retain # None => SegmentsToCome = {s}
      /\ setting' = setting /\ up' = up /\ lost' = lost /\ entries' = entries
      /\ expected' = expected /\ step' = step /\ published' = published
      /\ pc' = pc /\ completion' = completion /\ outstanding' = outstanding
      /\ writes' = writes /\ journal' = journal /\ torn' = torn
      /\ retain' = retain /\ before' = before
    BY <1>1 DEF Stop, SegmentsToCome, SegmentsOf, flushing
<1>4. broken' \in BOOLEAN
    BY <1>1 DEF Stop
<1>5. \A f : recorded \o <<f>> = Append(recorded, f)
    BY <1>1
<1>6. recorded \o <<>> = recorded
    BY <1>1
<1>7. s \in Raw(s).of /\ s \in Final({s}).of
    BY FileFacts
<1> DEFINE Changed ==
              /\ threw' \in BOOLEAN
              /\ captured' \in {captured, captured \union {s}}
              /\ \/ recorded' = recorded
                 \/ recorded' = Append(recorded, Raw(s))
                 \/ recorded' = Append(recorded, Final({s})) /\ ~Deferred
              /\ \E added \in SUBSET {Raw(s), Final({s})} : files' = files \union added
              /\ \/ queue' = queue
                 \/ /\ queue' = Append(queue, {s}) /\ Deferred /\ ~Merge
                    /\ recorded' = Append(recorded, Raw(s))
              /\ s \in captured' \ captured /\ Deferred =>
                    recorded' = Append(recorded, Raw(s)) /\ Raw(s) \in files'
              /\ s \in captured' \ captured => \E f \in files' : s \in f.of
<1>8. ASSUME Leave(<<>>, {}), Thrown(FALSE) \/ Thrown(Strict),
             UNCHANGED <<queue, captured>>
      PROVE  Changed
    <2>1. threw' \in BOOLEAN
        BY <1>1, <1>2, <1>8 DEF Thrown
    <2>2. recorded' = recorded /\ files' = files \union {}
        BY <1>6, <1>8 DEF Leave
    <2>3. \E added \in SUBSET {Raw(s), Final({s})} : files' = files \union added
        <3> WITNESS {} \in SUBSET {Raw(s), Final({s})}
        <3> QED
            BY <2>2
    <2> QED
        BY <1>8, <2>1, <2>2, <2>3
<1>9. ASSUME Uninspectable(s)
      PROVE  Changed
    <2>1. threw' \in BOOLEAN
        BY <1>1, <1>2, <1>9 DEF Thrown, Uninspectable
    <2>2. recorded' = Append(recorded, Raw(s)) /\ files' = files \union {Raw(s)}
        BY <1>5, <1>9 DEF Leave, Uninspectable
    <2>3. \E added \in SUBSET {Raw(s), Final({s})} : files' = files \union added
        <3> WITNESS {Raw(s)} \in SUBSET {Raw(s), Final({s})}
        <3> QED
            BY <2>2
    <2>4. queue' = queue /\ captured' = captured \union {s}
        BY <1>9 DEF Uninspectable
    <2>5. Raw(s) \in files'
        BY <2>2
    <2> QED
        BY <1>7, <2>1, <2>2, <2>3, <2>4, <2>5
<1>10. ASSUME NEW clean, Healthy(s, clean)
       PROVE  Changed
    <2>1. captured' = captured \union {s}
        BY <1>10 DEF Healthy
    <2>2. CASE Transcode /\ clean /\ ~Deferred
        <3>1. TranscodeNow(s) /\ queue' = queue
            BY <1>10, <2>2 DEF Healthy
        <3>2. threw' \in BOOLEAN
            BY <1>1, <1>2, <3>1 DEF TranscodeNow, Thrown
        <3>3. /\ \/ recorded' = recorded
                 \/ recorded' = Append(recorded, Raw(s))
                 \/ recorded' = Append(recorded, Final({s}))
              /\ \E added \in SUBSET {Raw(s), Final({s})} :
                    added # {} /\ files' = files \union added
            <4>1. CASE \E rest \in SUBSET {Raw(s)} :
                          Leave(<<Final({s})>>, {Final({s})} \union rest)
                <5>1. PICK rest \in SUBSET {Raw(s)} :
                          Leave(<<Final({s})>>, {Final({s})} \union rest)
                    BY <4>1
                <5>2. recorded' = Append(recorded, Final({s}))
                    BY <1>5, <5>1 DEF Leave
                <5>3. files' = files \union ({Final({s})} \union rest)
                    BY <5>1 DEF Leave
                <5> QED
                    BY <5>2, <5>3
            <4>2. CASE Leave(<<Raw(s)>>, {Raw(s)})
                <5>1. recorded' = Append(recorded, Raw(s))
                    BY <1>5, <4>2 DEF Leave
                <5>2. files' = files \union {Raw(s)}
                    BY <4>2 DEF Leave
                <5> QED
                    BY <5>1, <5>2
            <4>3. CASE \E made \in SUBSET {Final({s})} :
                          Leave(<<>>, {Raw(s)} \union made)
                <5>1. PICK made \in SUBSET {Final({s})} :
                          Leave(<<>>, {Raw(s)} \union made)
                    BY <4>3
                <5>2. recorded' = recorded
                    BY <1>6, <5>1 DEF Leave
                <5>3. files' = files \union ({Raw(s)} \union made)
                    BY <5>1 DEF Leave
                <5> QED
                    BY <5>2, <5>3
            <4> QED
                BY <3>1, <4>1, <4>2, <4>3 DEF TranscodeNow
        <3>4. \E f \in files' : s \in f.of
            <4>1. PICK added \in SUBSET {Raw(s), Final({s})} :
                      added # {} /\ files' = files \union added
                BY <3>3
            <4>2. Raw(s) \in files' \/ Final({s}) \in files'
                BY <4>1
            <4> QED
                BY <4>2, <1>7
        <3> QED
            BY <2>1, <2>2, <3>1, <3>2, <3>3, <3>4
    <2>3. CASE ~(Transcode /\ clean /\ ~Deferred)
        <3>1. /\ Leave(<<Raw(s)>>, {Raw(s)}) /\ Thrown(FALSE)
              /\ queue' = IF Transcode /\ clean /\ ~Merge THEN Append(queue, {s})
                          ELSE queue
            BY <1>10, <2>3 DEF Healthy
        <3>2. threw' \in BOOLEAN
            BY <3>1 DEF Thrown
        <3>3. recorded' = Append(recorded, Raw(s)) /\ files' = files \union {Raw(s)}
            BY <1>5, <3>1 DEF Leave
        <3>4. \E added \in SUBSET {Raw(s), Final({s})} : files' = files \union added
            <4> WITNESS {Raw(s)} \in SUBSET {Raw(s), Final({s})}
            <4> QED
                BY <3>3
        <3>5. Raw(s) \in files'
            BY <3>3
        <3>6. queue' = queue \/ (queue' = Append(queue, {s}) /\ Deferred /\ ~Merge)
            BY <1>2, <2>3, <3>1
        <3> QED
            BY <1>7, <2>1, <3>2, <3>3, <3>4, <3>5, <3>6
    <2> QED
        BY <2>2, <2>3
<1>11. Changed
    <2>1. PICK clean :
              \/ ~Keep /\ Leave(<<>>, {}) /\ Thrown(FALSE)
                       /\ UNCHANGED <<queue, captured>>
              \/ Healthy(s, clean)
              \/ NoFile
              \/ Uninspectable(s)
              \/ Empty
        BY DEF Stop
    <2> QED
        BY <1>8, <1>9, <1>10, <2>1 DEF NoFile, Empty
<1> HIDE DEF Changed
<1> QED
    BY <1>3, <1>4, <1>11 DEF Changed

LEMMA RecordTypes ==
    ASSUME MediaTypes, Recording, Record
    PROVE  MediaTypes'
<1>1. /\ DeferredTypes /\ SessionTypes /\ setting \in Settings
      /\ recorded \in Seq(Files) /\ queue \in Seq(Tasks) /\ files \subseteq Files
      /\ at \in Nat /\ captured \subseteq Segments
    BY DEF MediaTypes, DeferredTypes, SessionTypes
<1>2. CASE Begin
    <2>1. EntryOf[at] \in Entries /\ current = None
        BY <1>2, SegmentFacts DEF Begin
    <2>2. /\ torn' \in BOOLEAN
          /\ journal' \in [Entries -> EntryValues \union {None}]
        BY <1>1, <1>2, <2>1, EntryFacts, AppendLineFacts DEF Begin, DeferredTypes
    <2>3. entries' \in [Entries -> EntryValues \union {None}]
        BY <1>1, <1>2, <2>1, EntryFacts DEF Begin, DeferredTypes
    <2>4. DeferredTypes'
        BY <1>1, <1>2, <2>2, <2>3, DeferredTypesNext
           DEF Begin, DeferredTypes, flushing
    <2>5. SessionTypes'
        BY <1>1, <1>2, <2>1, SessionTypesNext DEF Begin, SessionTypes
    <2> QED
        BY <2>4, <2>5 DEF MediaTypes
<1>3. ASSUME NEW s \in Segments, Stop(s)
      PROVE  MediaTypes'
    <2>1. Raw(s) \in Files /\ {s} \in Tasks /\ Final({s}) \in Files
        BY <1>1, FilesFacts, TaskSetFacts
    <2>2. /\ \/ recorded' = recorded
             \/ recorded' = Append(recorded, Raw(s))
             \/ recorded' = Append(recorded, Final({s}))
          /\ \E added \in SUBSET {Raw(s), Final({s})} : files' = files \union added
          /\ queue' = queue \/ queue' = Append(queue, {s})
          /\ captured' \in {captured, captured \union {s}}
          /\ broken' \in BOOLEAN /\ threw' \in BOOLEAN
        BY <1>3, StopFacts
    <2>3. recorded' \in Seq(Files)
        BY <1>1, <2>1, <2>2
    <2>4. queue' \in Seq(Tasks)
        <3>1. Append(queue, {s}) \in Seq(Tasks)
            BY <1>1, <2>1, AppendProperties
        <3> QED
            BY <1>1, <2>2, <3>1
    <2>5. files' \subseteq Files
        BY <1>1, <2>1, <2>2
    <2>6. captured' \subseteq Segments
        BY <1>1, <2>2
    <2>7. /\ at' = at + 1 /\ current' = current /\ retain' = retain
          /\ before' = before /\ setting' = setting
        BY <1>3, StopFacts
    <2>8. at' \in Nat
        BY <1>1, <2>7
    <2>9. DeferredTypes'
        <3>1. /\ setting' = setting /\ up' = up /\ lost' = lost /\ entries' = entries
              /\ expected' = expected /\ step' = step /\ published' = published
              /\ pc' = pc /\ completion' = completion
              /\ outstanding' = outstanding /\ writes' = writes
              /\ journal' = journal /\ torn' = torn
            BY <1>3, StopFacts
        <3> QED
            BY <1>1, <2>4, <2>5, <3>1, DeferredTypesNext DEF DeferredTypes
    <2>10. SessionTypes'
        BY <1>1, <2>2, <2>3, <2>6, <2>7, <2>8, SessionTypesNext
           DEF SessionTypes
    <2> QED
        BY <2>9, <2>10 DEF MediaTypes
<1>4. CASE StartFinalize
    <2>1. DeferredTypes'
        BY <1>1, <1>4, DeferredTypesNext
           DEF StartFinalize, DeferredTypes, vars, media, manifest, journaling
    <2>2. before' \in Nat
        BY <1>1, <1>4 DEF StartFinalize
    <2>3. SessionTypes'
        BY <1>1, <1>4, <2>2, SessionTypesNext
           DEF StartFinalize, SessionTypes, vars
    <2> QED
        BY <2>1, <2>3 DEF MediaTypes
<1>5. CASE FinalizeFailed \/ Discard \/ KeepIncomplete \/ KeepSegments \/ MergeNow
    <2>1. /\ Ended /\ queue' \in Seq(Tasks) /\ files' \in SUBSET Files
          /\ captured' \in SUBSET Segments
          /\ \E entry \in EntryValues : Complete(entry)
        BY <1>1, <1>5, Completing
    <2> QED
        BY <2>1, CompleteTypes
<1> QED
    BY <1>2, <1>3, <1>4, <1>5 DEF Record

\* What is left when the worker is killed.
LEMMA KillTypes ==
    ASSUME MediaTypes, Kill
    PROVE  MediaTypes'
<1>1. /\ setting \in Settings /\ torn \in BOOLEAN /\ files \subseteq Files
      /\ lost \subseteq Segments /\ captured \subseteq Segments
      /\ journal \in [Entries -> EntryValues \union {None}]
    BY DEF MediaTypes, DeferredTypes, SessionTypes
<1>2. /\ queue' = <<>> /\ pc' = [t \in Tasks |-> "queued"] /\ step' = FirstSteps
      /\ published' = [t \in Tasks |-> None]
      /\ completion' = [t \in Tasks |-> None]
      /\ entries' = [e \in Entries |-> None]
      /\ outstanding' = [e \in Entries |-> 0] /\ writes' = <<>>
      /\ setting' = setting /\ files' = files /\ lost' = lost
      /\ journal' = journal /\ torn' = torn /\ captured' = captured
      /\ at' = 1 /\ current' = None /\ recorded' = <<>>
      /\ retain' = None /\ before' = 0
    BY DEF Kill, Crash, ForEach, NoEntries
<1>3. up' \in BOOLEAN /\ expected' \in BOOLEAN /\ broken' \in BOOLEAN /\ threw' \in BOOLEAN
    BY DEF Kill, Crash
<1>4. Merge \in BOOLEAN
    BY <1>1, SettingFacts
<1>5. step' \in [Tasks -> {"merge", "transcode"}]
    BY <1>2, <1>4 DEF FirstSteps, ForEach
<1>6. /\ pc' \in [Tasks -> Locations]
      /\ published' \in [Tasks -> Files \union {None}]
      /\ completion' \in [Tasks -> Report \union {None}]
      /\ entries' \in [Entries -> EntryValues \union {None}]
    BY <1>2 DEF Locations
<1>7. /\ outstanding' \in [Entries -> Nat] /\ queue' \in Seq(Tasks)
      /\ writes' \in Seq([task : Tasks, entry : EntryValues])
      /\ recorded' \in Seq(Files)
    BY <1>2
<1>8. DeferredTypes'
    BY <1>1, <1>2, <1>3, <1>5, <1>6, <1>7, DeferredTypesNext
<1>9. SessionTypes'
    BY <1>1, <1>2, <1>3, <1>7, SessionTypesNext
<1> QED
    BY <1>8, <1>9 DEF MediaTypes

\* A step that leaves the recording alone keeps its part of the types.
LEMMA SessionUnchanged ==
    ASSUME MediaTypes, setting' = setting, UNCHANGED recording
    PROVE  SessionTypes'
<1>1. /\ at' = at /\ current' = current /\ recorded' = recorded
      /\ broken' = broken /\ retain' = retain /\ before' = before
      /\ threw' = threw /\ captured' = captured
    BY DEF recording, session
<1> QED
    BY <1>1, SessionTypesNext DEF MediaTypes, SessionTypes

\* A task that is settling has its entry.
SettlingFits ==
    \A t \in Tasks : pc[t] = "completing" =>
        completion[t] \in Report /\ entries[EntryOfTask(t)] \in EntryValues

\* The operations of one task before it is settled for its entry.
Operation(t) == CheckInput(t) \/ Process(t) \/ RemoveInputs(t) \/ Finish(t) \/ Throw(t)

LEMMA OperationFacts ==
    ASSUME MediaTypes, NEW t \in Tasks, Operation(t)
    PROVE  /\ setting' = setting /\ up' = up /\ lost' = lost /\ queue' = queue
           /\ expected' = expected /\ entries' = entries
           /\ outstanding' = outstanding /\ writes' = writes
           /\ journal' = journal /\ torn' = torn
           /\ pc[t] \in {"check", "process", "published", "cleaned"}
           /\ \A u \in Tasks \ {t} :
                 /\ pc'[u] = pc[u] /\ step'[u] = step[u]
                 /\ published'[u] = published[u] /\ completion'[u] = completion[u]
           /\ pc'[t] \in Locations \ {"queued", "journaling", "done"}
           /\ pc'[t] = "completing" =>
                 /\ completion'[t] \in Report
                 /\ completion'[t].decision = "failed" =>
                       completion'[t].outcome = "failed"
           /\ pc'[t] # "completing" => completion'[t] = completion[t]
           /\ files' \subseteq Files
           /\ pc' \in [Tasks -> Locations]
           /\ step' \in [Tasks -> {"merge", "transcode"}]
           /\ published' \in [Tasks -> Files \union {None}]
           /\ completion' \in [Tasks -> Report \union {None}]
<1>1. /\ files \subseteq Files /\ pc \in [Tasks -> Locations]
      /\ step \in [Tasks -> {"merge", "transcode"}]
      /\ published \in [Tasks -> Files \union {None}]
      /\ completion \in [Tasks -> Report \union {None}]
    BY DEF MediaTypes, DeferredTypes
<1>2. /\ Inputs(t) \in Seq(Files) /\ Output(t) \in Files
      /\ <<Output(t)>> \in Seq(Files)
      /\ Keeping(Inputs(t), files) \in Seq(Files)
    BY InputFacts
<1>3. ASSUME NEW outcome \in {"completed", "failed"},
             NEW decision \in {"recorded", "failed"}, NEW paths \in Seq(Files),
             Settle(t, outcome, decision, paths),
             decision = "failed" => outcome = "failed"
      PROVE  /\ pc' \in [Tasks -> Locations]
             /\ completion' \in [Tasks -> Report \union {None}]
             /\ pc'[t] = "completing"
             /\ completion'[t] \in Report
             /\ completion'[t].decision = "failed" => completion'[t].outcome = "failed"
             /\ \A u \in Tasks \ {t} : pc'[u] = pc[u] /\ completion'[u] = completion[u]
    <2>1. /\ pc' = [pc EXCEPT ![t] = "completing"] /\ pc' \in [Tasks -> Locations]
          /\ completion' \in [Tasks -> Report \union {None}]
          /\ completion'[t] \in Report
          /\ completion'[t].outcome = outcome
          /\ completion'[t].decision = decision
          /\ \A u \in Tasks \ {t} : completion'[u] = completion[u]
        BY <1>3, SettleFacts
    <2> QED
        BY <1>1, <1>3, <2>1
<1>4. ASSUME NEW location \in {"check", "process", "published", "cleaned"},
             Goto(t, location)
      PROVE  /\ pc' \in [Tasks -> Locations] /\ pc'[t] = location
             /\ \A u \in Tasks \ {t} : pc'[u] = pc[u]
    BY <1>1, <1>4 DEF Goto, Locations
<1>5. CASE CheckInput(t)
    <2>1. /\ setting' = setting /\ up' = up /\ lost' = lost /\ queue' = queue
          /\ expected' = expected /\ entries' = entries
          /\ outstanding' = outstanding /\ writes' = writes
          /\ journal' = journal /\ torn' = torn /\ files' = files
          /\ step' = step /\ published' = published /\ pc[t] = "check"
        BY <1>5 DEF CheckInput, media, manifest, journaling
    <2>2. \/ Goto(t, "process") /\ completion' = completion
          \/ Settle(t, "failed", "failed", Inputs(t))
        BY <1>5 DEF CheckInput
    <2>3. CASE Goto(t, "process") /\ completion' = completion
        BY <1>1, <1>4, <2>1, <2>3 DEF Locations
    <2>4. CASE Settle(t, "failed", "failed", Inputs(t))
        BY <1>1, <1>2, <1>3, <2>1, <2>4 DEF Locations
    <2> QED
        BY <2>2, <2>3, <2>4
<1>6. CASE Process(t)
    <2>1. /\ setting' = setting /\ up' = up /\ lost' = lost /\ queue' = queue
          /\ expected' = expected /\ entries' = entries
          /\ outstanding' = outstanding /\ writes' = writes
          /\ journal' = journal /\ torn' = torn
          /\ step' = step /\ pc[t] = "process"
        BY <1>6 DEF Process, manifest, journaling
    <2>2. \/ /\ Goto(t, "published") /\ completion' = completion
             /\ files' = files \union {Output(t)}
             /\ published' = [published EXCEPT ![t] = Output(t)]
          \/ /\ Settle(t, "failed", "recorded", Inputs(t))
             /\ files' = files /\ published' = published
        BY <1>6 DEF Process
    <2>3. /\ files' \subseteq Files /\ published' \in [Tasks -> Files \union {None}]
          /\ \A u \in Tasks \ {t} : published'[u] = published[u]
        BY <1>1, <1>2, <2>2
    <2>4. CASE Goto(t, "published") /\ completion' = completion
        BY <1>1, <1>4, <2>1, <2>3, <2>4 DEF Locations
    <2>5. CASE Settle(t, "failed", "recorded", Inputs(t))
        BY <1>1, <1>2, <1>3, <2>1, <2>3, <2>5 DEF Locations
    <2> QED
        BY <2>2, <2>4, <2>5
<1>7. CASE RemoveInputs(t)
    <2>1. /\ setting' = setting /\ up' = up /\ lost' = lost /\ queue' = queue
          /\ expected' = expected /\ entries' = entries
          /\ outstanding' = outstanding /\ writes' = writes
          /\ journal' = journal /\ torn' = torn /\ completion' = completion
          /\ step' = step /\ published' = published /\ pc[t] = "published"
        BY <1>7 DEF RemoveInputs, manifest, journaling
    <2>2. files' \subseteq Files /\ Goto(t, "cleaned")
        BY <1>1, <1>7 DEF RemoveInputs
    <2> QED
        BY <1>1, <1>4, <2>1, <2>2 DEF Locations
<1>8. CASE Finish(t)
    <2>1. /\ setting' = setting /\ up' = up /\ lost' = lost /\ queue' = queue
          /\ expected' = expected /\ entries' = entries
          /\ outstanding' = outstanding /\ writes' = writes
          /\ journal' = journal /\ torn' = torn /\ files' = files
          /\ pc[t] = "cleaned"
        BY <1>8 DEF Finish, manifest, journaling
    <2>2. \/ /\ Goto(t, "check") /\ completion' = completion
             /\ step' = [step EXCEPT ![t] = "transcode"]
             /\ published' = [published EXCEPT ![t] = None]
          \/ /\ Settle(t, "completed", "recorded", <<Output(t)>>)
             /\ step' = step /\ published' = published
        BY <1>8 DEF Finish
    <2>3. /\ step' \in [Tasks -> {"merge", "transcode"}]
          /\ published' \in [Tasks -> Files \union {None}]
          /\ \A u \in Tasks \ {t} :
                published'[u] = published[u] /\ step'[u] = step[u]
        BY <1>1, <2>2
    <2>4. CASE Goto(t, "check") /\ completion' = completion
        BY <1>1, <1>4, <2>1, <2>3, <2>4 DEF Locations
    <2>5. CASE Settle(t, "completed", "recorded", <<Output(t)>>)
        BY <1>1, <1>2, <1>3, <2>1, <2>3, <2>5 DEF Locations
    <2> QED
        BY <2>2, <2>4, <2>5
<1>9. CASE Throw(t)
    <2>1. /\ setting' = setting /\ up' = up /\ lost' = lost /\ queue' = queue
          /\ expected' = expected /\ entries' = entries
          /\ outstanding' = outstanding /\ writes' = writes
          /\ journal' = journal /\ torn' = torn /\ files' = files
          /\ step' = step /\ published' = published
          /\ pc[t] \in {"process", "published", "cleaned"}
        BY <1>9 DEF Throw, media, manifest, journaling
    <2>2. PICK left : left = IF published[t] # None /\ published[t] \in files
                             THEN <<published[t]>>
                             ELSE Keeping(Inputs(t), files)
        OBVIOUS
    <2>3. left \in Seq(Files)
        <3>1. CASE published[t] # None /\ published[t] \in files
            BY <1>1, <2>2, <3>1
        <3> QED
            BY <1>2, <2>2, <3>1
    <2>4. Settle(t, "failed", IF left = <<>> THEN "failed" ELSE "recorded", left)
        BY <1>9, <2>2 DEF Throw
    <2>5. (IF left = <<>> THEN "failed" ELSE "recorded") \in {"recorded", "failed"}
        OBVIOUS
    <2> QED
        BY <1>1, <1>3, <2>1, <2>3, <2>4, <2>5 DEF Locations
<1> QED
    BY <1>5, <1>6, <1>7, <1>8, <1>9 DEF Operation

\* The entry of a task is updated and its new version is to be written.
LEMMA CompleteDeferredFacts ==
    ASSUME MediaTypes, SettlingFits, NEW t \in Tasks, CompleteDeferred(t)
    PROVE  LET e == EntryOfTask(t)
               left == IF outstanding[e] > 0 THEN outstanding[e] - 1 ELSE 0
               updated == Settled(e, entries[e], t, left)
           IN
           /\ setting' = setting /\ up' = up /\ files' = files /\ lost' = lost
           /\ queue' = queue /\ expected' = expected /\ step' = step
           /\ published' = published /\ completion' = completion
           /\ journal' = journal /\ torn' = torn
           /\ e \in Entries /\ left \in Nat
           /\ completion[t] \in Report /\ entries[e] \in EntryValues
           /\ updated \in EntryValues
           /\ pc[t] = "completing"
           /\ pc' \in [Tasks -> Locations]
           /\ pc'[t] = "journaling" /\ \A u \in Tasks \ {t} : pc'[u] = pc[u]
           /\ outstanding' \in [Entries -> Nat] /\ outstanding'[e] = left
           /\ \A d \in Entries \ {e} : outstanding'[d] = outstanding[d]
           /\ entries' \in [Entries -> EntryValues \union {None}]
           /\ entries'[e] = updated
           /\ \A d \in Entries \ {e} : entries'[d] = entries[d]
           /\ writes' = Append(writes, [task |-> t, entry |-> updated])
<1>1. /\ setting \in Settings /\ pc \in [Tasks -> Locations]
      /\ outstanding \in [Entries -> Nat] /\ DeferredTypes
      /\ entries \in [Entries -> EntryValues \union {None}]
    BY DEF MediaTypes, DeferredTypes
<1> PICK e : e = EntryOfTask(t)
    OBVIOUS
<1> PICK left : left = IF outstanding[e] > 0 THEN outstanding[e] - 1 ELSE 0
    OBVIOUS
<1>2. e \in Entries
    BY <1>1, TaskFacts
<1>3. left \in Nat
    BY <1>1, <1>2
<1>4. pc[t] = "completing"
    BY DEF CompleteDeferred
<1>5. completion[t] \in Report /\ entries[e] \in EntryValues
    BY <1>4 DEF SettlingFits
<1> PICK updated : updated = Settled(e, entries[e], t, left)
    OBVIOUS
<1>6. updated \in EntryValues
    BY <1>1, <1>2, <1>3, <1>5, SettledType
<1>7. /\ outstanding' = [outstanding EXCEPT ![e] = left]
      /\ entries' = [entries EXCEPT ![e] = updated]
      /\ writes' = Append(writes, [task |-> t, entry |-> updated])
      /\ pc' = [pc EXCEPT ![t] = "journaling"]
      /\ setting' = setting /\ up' = up /\ files' = files /\ lost' = lost
      /\ queue' = queue /\ expected' = expected /\ step' = step
      /\ published' = published /\ completion' = completion
      /\ journal' = journal /\ torn' = torn
    BY DEF CompleteDeferred, Goto, media
<1>8. /\ pc' \in [Tasks -> Locations]
      /\ pc'[t] = "journaling" /\ \A u \in Tasks \ {t} : pc'[u] = pc[u]
    BY <1>1, <1>7 DEF Locations
<1>9. /\ outstanding' \in [Entries -> Nat] /\ outstanding'[e] = left
      /\ \A d \in Entries \ {e} : outstanding'[d] = outstanding[d]
    BY <1>1, <1>2, <1>3, <1>7
<1>10. /\ entries' \in [Entries -> EntryValues \union {None}]
       /\ entries'[e] = updated
       /\ \A d \in Entries \ {e} : entries'[d] = entries[d]
    BY <1>1, <1>2, <1>6, <1>7
<1> QED
    BY <1>2, <1>3, <1>4, <1>5, <1>6, <1>7, <1>8, <1>9, <1>10

LEMMA TakeFacts ==
    ASSUME MediaTypes, Take
    PROVE  /\ setting' = setting /\ up' = up /\ files' = files /\ lost' = lost
           /\ expected' = expected /\ step' = step /\ published' = published
           /\ completion' = completion /\ entries' = entries
           /\ outstanding' = outstanding /\ writes' = writes
           /\ journal' = journal /\ torn' = torn
           /\ expected /\ up /\ queue # <<>> /\ queue' = Tail(queue)
           /\ queue' \in Seq(Tasks)
           /\ Head(queue) \in Tasks /\ Head(queue) \in Range(queue)
           /\ Range(queue) = {Head(queue)} \union Range(queue')
           /\ pc' \in [Tasks -> Locations]
           /\ pc'[Head(queue)] \in {"check", "process"}
           /\ \A u \in Tasks \ {Head(queue)} : pc'[u] = pc[u]
<1>1. queue \in Seq(Tasks) /\ pc \in [Tasks -> Locations]
    BY DEF MediaTypes, DeferredTypes
<1>2. queue # <<>> /\ queue' = Tail(queue)
    BY DEF Take
<1>3. Head(queue) \in Tasks /\ queue' \in Seq(Tasks)
    BY <1>1, <1>2
<1>4. Len(queue) \in Nat \ {0} /\ Head(queue) = queue[1]
    BY <1>1, <1>2
<1>5. Len(Tail(queue)) = Len(queue) - 1
      /\ \A i \in 1 .. Len(queue) - 1 : Tail(queue)[i] = queue[i + 1]
    BY <1>1, <1>2
<1>6. Range(queue) = {queue[i] : i \in 1 .. Len(queue)}
      /\ Range(queue') = {queue'[i] : i \in 1 .. Len(queue')}
    BY <1>1, <1>3 DEF Range
<1>7. Head(queue) \in Range(queue)
    BY <1>4, <1>6
<1>8. Range(queue') \subseteq Range(queue)
    BY <1>2, <1>4, <1>5, <1>6
<1>9. Range(queue) \subseteq {Head(queue)} \union Range(queue')
    <2> SUFFICES ASSUME NEW i \in 1 .. Len(queue), i # 1
                 PROVE  queue[i] \in Range(queue')
        BY <1>4, <1>6
    <2>1. i - 1 \in 1 .. Len(queue) - 1 /\ (i - 1) + 1 = i
        BY <1>4
    <2>2. queue'[i - 1] = queue[i]
        BY <1>2, <1>5, <2>1
    <2> QED
        BY <1>2, <1>5, <1>6, <2>1, <2>2
<1>10. /\ pc' = [pc EXCEPT ![Head(queue)] =
                   IF step[Head(queue)] = "merge" THEN "process" ELSE "check"]
       /\ setting' = setting /\ up' = up /\ files' = files /\ lost' = lost
       /\ expected' = expected /\ step' = step /\ published' = published
       /\ completion' = completion /\ entries' = entries
       /\ outstanding' = outstanding /\ writes' = writes
       /\ journal' = journal /\ torn' = torn /\ expected /\ up
    BY DEF Take, Goto, manifest, journaling
<1>11. /\ pc' \in [Tasks -> Locations]
       /\ pc'[Head(queue)] \in {"check", "process"}
       /\ \A u \in Tasks \ {Head(queue)} : pc'[u] = pc[u]
    BY <1>1, <1>3, <1>10 DEF Locations
<1> QED
    BY <1>2, <1>3, <1>7, <1>8, <1>9, <1>10, <1>11

LEMMA WriteFacts ==
    ASSUME MediaTypes, Write
    PROVE  /\ setting' = setting /\ up' = up /\ files' = files /\ lost' = lost
           /\ queue' = queue /\ expected' = expected /\ step' = step
           /\ published' = published /\ completion' = completion
           /\ entries' = entries /\ outstanding' = outstanding
           /\ writes # <<>> /\ writes' = Tail(writes)
           /\ Head(writes) \in [task : Tasks, entry : EntryValues]
           /\ writes' \in Seq([task : Tasks, entry : EntryValues])
           /\ EntryOfTask(Head(writes).task) \in Entries
           /\ pc' = [pc EXCEPT ![Head(writes).task] = "done"]
           /\ pc' \in [Tasks -> Locations]
           /\ AppendLine(EntryOfTask(Head(writes).task), Head(writes).entry)
           /\ torn' \in BOOLEAN
           /\ journal' \in [Entries -> EntryValues \union {None}]
<1>1. /\ setting \in Settings /\ pc \in [Tasks -> Locations]
      /\ writes \in Seq([task : Tasks, entry : EntryValues])
      /\ journal \in [Entries -> EntryValues \union {None}] /\ torn \in BOOLEAN
    BY DEF MediaTypes, DeferredTypes
<1>2. /\ setting' = setting /\ up' = up /\ files' = files /\ lost' = lost
      /\ queue' = queue /\ expected' = expected /\ step' = step
      /\ published' = published /\ completion' = completion
      /\ entries' = entries /\ outstanding' = outstanding
      /\ writes # <<>> /\ writes' = Tail(writes)
      /\ pc' = [pc EXCEPT ![Head(writes).task] = "done"]
      /\ AppendLine(EntryOfTask(Head(writes).task), Head(writes).entry)
    BY DEF Write, Goto, media, manifest
<1>3. /\ Head(writes) \in [task : Tasks, entry : EntryValues]
      /\ writes' \in Seq([task : Tasks, entry : EntryValues])
    BY <1>1, <1>2, HeadTailProperties
<1>4. Head(writes).task \in Tasks /\ Head(writes).entry \in EntryValues
    BY <1>3
<1>5. EntryOfTask(Head(writes).task) \in Entries
    BY <1>1, <1>4, TaskFacts
<1>6. torn' \in BOOLEAN /\ journal' \in [Entries -> EntryValues \union {None}]
    BY <1>1, <1>2, <1>4, <1>5, AppendLineFacts
<1>7. pc' \in [Tasks -> Locations]
    BY <1>1, <1>2, <1>4 DEF Locations
<1> QED
    BY <1>2, <1>3, <1>5, <1>6, <1>7

LEMMA TypesStep ==
    ASSUME MediaTypes, Recording, SettlingFits, Next
    PROVE  MediaTypes'
<1>1. /\ DeferredTypes /\ SessionTypes /\ setting \in Settings
    BY DEF MediaTypes, DeferredTypes
<1>2. CASE Record
    BY <1>2, RecordTypes
<1>3. CASE Teardown
    <2>1. UNCHANGED recording
        BY <1>3 DEF Teardown
    <2>2. CASE Flush
        <3>1. ASSUME NEW e \in Entries
              PROVE  outstanding[e] +
                        Cardinality({t \in TasksOf(e) : t \in Range(queue)}) \in Nat
            <4>1. IsFiniteSet({t \in TasksOf(e) : t \in Range(queue)})
                BY <1>1, TaskSetFacts, FS_Subset DEF TasksOf
            <4>2. Cardinality({t \in TasksOf(e) : t \in Range(queue)}) \in Nat
                BY <4>1, FS_CardinalityType
            <4> QED
                BY <1>1, <4>2 DEF DeferredTypes
        <3>2. outstanding' \in [Entries -> Nat]
            BY <2>2, <3>1 DEF Flush
        <3>3. /\ setting' = setting /\ up' = up /\ files' = files /\ lost' = lost
              /\ queue' = queue /\ step' = step /\ published' = published
              /\ pc' = pc /\ completion' = completion /\ entries' = entries
              /\ writes' = writes /\ journal' = journal /\ torn' = torn
            BY <2>2 DEF Flush, journaling
        <3>4. expected' \in BOOLEAN
            BY <2>2 DEF Flush
        <3>5. DeferredTypes'
            BY <1>1, <3>2, <3>3, <3>4, DeferredTypesNext DEF DeferredTypes
        <3> QED
            BY <2>1, <3>3, <3>5, SessionUnchanged DEF MediaTypes
    <2>3. CASE Take
        <3>1. DeferredTypes'
            BY <1>1, <2>3, TakeFacts, DeferredTypesNext DEF DeferredTypes
        <3> QED
            BY <2>1, <2>3, <3>1, TakeFacts, SessionUnchanged DEF MediaTypes
    <2>4. CASE Write
        <3>1. DeferredTypes'
            BY <1>1, <2>4, WriteFacts, DeferredTypesNext DEF DeferredTypes
        <3> QED
            BY <2>1, <2>4, <3>1, WriteFacts, SessionUnchanged DEF MediaTypes
    <2>5. ASSUME NEW t \in Tasks, Operation(t)
          PROVE  MediaTypes'
        <3>1. DeferredTypes'
            BY <1>1, <2>5, OperationFacts, DeferredTypesNext DEF DeferredTypes
        <3> QED
            BY <2>1, <2>5, <3>1, OperationFacts, SessionUnchanged DEF MediaTypes
    <2>6. ASSUME NEW t \in Tasks, CompleteDeferred(t)
          PROVE  MediaTypes'
        <3> PICK line : line = [task |-> t,
                     entry |-> Settled(EntryOfTask(t), entries[EntryOfTask(t)], t,
                        IF outstanding[EntryOfTask(t)] > 0
                        THEN outstanding[EntryOfTask(t)] - 1 ELSE 0)]
            OBVIOUS
        <3>1. /\ line \in [task : Tasks, entry : EntryValues]
              /\ writes' = Append(writes, line)
            BY <2>6, CompleteDeferredFacts
        <3>2. writes' \in Seq([task : Tasks, entry : EntryValues])
            BY <1>1, <3>1, AppendProperties DEF DeferredTypes
        <3>3. /\ setting' = setting /\ up' = up /\ files' = files /\ lost' = lost
              /\ queue' = queue /\ expected' = expected /\ step' = step
              /\ published' = published /\ completion' = completion
              /\ journal' = journal /\ torn' = torn
              /\ pc' \in [Tasks -> Locations] /\ outstanding' \in [Entries -> Nat]
              /\ entries' \in [Entries -> EntryValues \union {None}]
            BY <2>6, CompleteDeferredFacts
        <3>4. DeferredTypes'
            BY <1>1, <3>2, <3>3, DeferredTypesNext DEF DeferredTypes
        <3> QED
            BY <2>1, <3>3, <3>4, SessionUnchanged DEF MediaTypes
    <2> QED
        BY <1>3, <2>2, <2>3, <2>4, <2>5, <2>6 DEF Teardown, TaskStep, Operation
<1>4. CASE Done
    <2>1. DeferredTypes' /\ SessionTypes'
        BY <1>1, <1>4, SameSetting
           DEF Done, mediaVars, vars, media, manifest, journaling, recording,
               session, DeferredTypes, SessionTypes
    <2> QED
        BY <2>1 DEF MediaTypes
<1>5. CASE Kill
    BY <1>5, KillTypes
<1>6. ASSUME NEW s \in Losable, LoseInput(s), UNCHANGED recording
      PROVE  MediaTypes'
    <2>1. s \in Segments
        BY <1>1, SettingFacts
    <2>2. /\ setting' = setting /\ up' = up /\ queue' = queue
          /\ expected' = expected /\ step' = step /\ published' = published
          /\ pc' = pc /\ completion' = completion /\ entries' = entries
          /\ outstanding' = outstanding /\ writes' = writes
          /\ journal' = journal /\ torn' = torn
          /\ files' = files \ {Raw(s)} /\ lost' = lost \union {s}
        BY <1>6 DEF LoseInput, manifest, journaling
    <2>3. files' \subseteq Files /\ lost' \subseteq Segments
        BY <1>1, <2>1, <2>2 DEF DeferredTypes
    <2>4. DeferredTypes'
        BY <1>1, <2>2, <2>3, DeferredTypesNext DEF DeferredTypes
    <2> QED
        BY <1>6, <2>2, <2>4, SessionUnchanged DEF MediaTypes
<1> QED
    BY <1>2, <1>3, <1>4, <1>5, <1>6 DEF Next

----------------------------------------------------------------------------
(* The session: what is recorded and queued.                               *)

BaseInv == MediaTypes /\ SessionInv

LEMMA AwaitedFacts ==
    ASSUME setting \in Settings
    PROVE  /\ \A e, t : t \in Awaited(e) <=>
                 /\ t \in Tasks /\ EntryOfTask(t) = e
                 /\ t \in Range(queue) \/ pc[t] # "queued"
           /\ \A t \in Tasks :
                 t \in Awaited(EntryOfTask(t)) <=>
                    t \in Range(queue) \/ pc[t] # "queued"
           /\ \A e : \A t \in Awaited(e) : \A s \in t :
                 s \in SegmentsOf(e) /\ s \in Segments
<1>1. \A e, t : t \in Awaited(e) <=>
         /\ t \in Tasks /\ EntryOfTask(t) = e
         /\ t \in Range(queue) \/ pc[t] # "queued"
    BY DEF Awaited, TasksOf
<1>2. \A t \in Tasks : t \subseteq SegmentsOf(EntryOfTask(t)) /\ t \subseteq Segments
    BY TaskFacts
<1> QED
    BY <1>1, <1>2

LEMMA AwaitedNext ==
    ASSUME setting' = setting
    PROVE  \A e, t : t \in Awaited(e)' <=>
              /\ t \in Tasks /\ EntryOfTask(t) = e
              /\ t \in Range(queue') \/ pc'[t] # "queued"
<1>1. \A e : TasksOf(e)' = TasksOf(e)
    BY SameSetting
<1>2. \A e : TasksOf(e)' = {t \in Tasks' : EntryOfTask(t) = e}
    BY DEF TasksOf, EntryOfTask
<1>3. \A e : Awaited(e)' = {t \in TasksOf(e)' : t \in Range(queue') \/ pc'[t] # "queued"}
    BY DEF Awaited
<1> QED
    BY <1>1, <1>3 DEF TasksOf

LEMMA AwaitedSame ==
    ASSUME setting' = setting,
           \A t \in Tasks : (t \in Range(queue') \/ pc'[t] # "queued")
                              <=> (t \in Range(queue) \/ pc[t] # "queued")
    PROVE  \A e : Awaited(e)' = Awaited(e)
<1>1. ASSUME NEW e
      PROVE  Awaited(e)' = Awaited(e)
    <2>1. \A t : t \in Awaited(e) <=>
             /\ t \in Tasks /\ EntryOfTask(t) = e
             /\ t \in Range(queue) \/ pc[t] # "queued"
        BY DEF Awaited, TasksOf
    <2> QED
        BY <2>1, AwaitedNext
<1> QED
    BY <1>1

LEMMA BaseFacts ==
    ASSUME BaseInv
    PROVE  /\ SettlingFits
           /\ setting \in Settings
           /\ \A t \in Tasks : pc[t] # "queued" => expected
           /\ writes # <<>> => expected
           /\ expected => up /\ current = None /\ at \notin Segments
           /\ current \in Entries =>
                 ~expected /\ writes = <<>> /\ \A t \in Tasks : pc[t] = "queued"
           /\ \A t \in Tasks : pc[t] # "queued" =>
                 entries[EntryOfTask(t)] \in EntryValues
<1>1. setting \in Settings /\ MediaTypes /\ SessionInv
    BY DEF BaseInv, MediaTypes, DeferredTypes
<1>2. /\ \A t \in Tasks : pc[t] # "queued" => expected
      /\ writes # <<>> => expected
      /\ expected => up /\ current = None /\ at \notin Segments
    BY <1>1 DEF SessionInv, Phases, TestsOver
<1>3. current \in Entries =>
         ~expected /\ writes = <<>> /\ \A t \in Tasks : pc[t] = "queued"
    BY <1>2, NoneFacts
<1>4. ASSUME NEW t \in Tasks, pc[t] # "queued"
      PROVE  entries[EntryOfTask(t)] \in EntryValues
    <2>1. up /\ current = None
        BY <1>2, <1>4
    <2>2. EntryOfTask(t) \in Entries /\ t \in Awaited(EntryOfTask(t))
        BY <1>1, <1>4, TaskFacts, AwaitedFacts
    <2> QED
        BY <1>1, <2>1, <2>2, NoneFacts DEF SessionInv, Begun
<1>5. SettlingFits
    BY <1>1, <1>4 DEF SettlingFits, SessionInv, ReportsFit, Answered
<1> QED
    BY <1>1, <1>2, <1>3, <1>4, <1>5

LEMMA BaseTypes ==
    ASSUME BaseInv, Next
    PROVE  MediaTypes'
BY BaseFacts, TypesStep DEF BaseInv, SessionInv

\* What a step of the teardown has to keep, as nothing is recorded any more.
LEMMA TeardownSession ==
    ASSUME BaseInv, UNCHANGED recording, setting' = setting, up' = up,
           up, expected', current = None, at \notin Segments,
           \A t \in Tasks : (t \in Range(queue') \/ pc'[t] # "queued")
                              <=> (t \in Range(queue) \/ pc[t] # "queued"),
           \A e \in Entries :
              \/ entries'[e] = entries[e]
              \/ entries'[e] \in EntryValues /\ ~entries'[e].incomplete
    PROVE  /\ Phases' /\ Recording' /\ Begun' /\ Alone' /\ IncompleteFits'
<1>1. /\ at' = at /\ current' = current /\ recorded' = recorded
      /\ broken' = broken /\ retain' = retain /\ before' = before
      /\ threw' = threw /\ captured' = captured
    BY DEF recording, session
<1>2. /\ Phases /\ Recording /\ Begun /\ Alone /\ IncompleteFits
    BY DEF BaseInv, SessionInv
<1>3. \A e : Awaited(e)' = Awaited(e)
    BY AwaitedSame
<1>4. recorded = <<>> /\ ~broken /\ retain = None
    BY <1>2 DEF Phases
<1>5. Phases'
    BY <1>1, <1>4 DEF Phases, TestsOver
<1>6. Recording'
    BY <1>1, <1>4 DEF Recording, Range
<1>7. Begun'
    <2>1. EntryValues' = EntryValues
        BY SameSetting
    <2>2. \A e : Past(e)' = Past(e)
        BY <1>1 DEF Past
    <2> QED
        BY <1>1, <1>2, <1>3, <2>1, <2>2 DEF Begun
<1>8. Alone'
    BY <1>2, <1>3, SameSetting DEF Alone
<1>9. IncompleteFits'
    <2>1. EntryValues' = EntryValues
        BY SameSetting
    <2> SUFFICES ASSUME NEW e \in Entries, entries'[e] \in EntryValues,
                        entries'[e].incomplete
                 PROVE  Awaited(e)' = {}
        BY <2>1 DEF IncompleteFits
    <2>2. entries'[e] = entries[e]
        OBVIOUS
    <2> QED
        BY <1>2, <1>3, <2>2 DEF IncompleteFits
<1> QED
    BY <1>5, <1>6, <1>7, <1>8, <1>9

\* The queue is left alone, or a task that starts leaves it.
LEMMA TeardownQueue ==
    ASSUME BaseInv, UNCHANGED recording, setting' = setting, current = None,
           queue' = queue \/ (queue # <<>> /\ queue' = Tail(queue)),
           \A t \in Range(queue') : pc'[t] = pc[t]
    PROVE  Queued'
<1>1. Queued /\ queue \in Seq(Tasks) /\ setting \in Settings
    BY DEF BaseInv, MediaTypes, DeferredTypes, SessionInv
<1>2. at' = at /\ current' = None
    BY DEF recording, session
<1>3. Range(queue') \subseteq Range(queue)
    <2>1. CASE queue # <<>> /\ queue' = Tail(queue)
        <3>1. /\ Len(queue') = Len(queue) - 1 /\ queue' \in Seq(Tasks)
              /\ \A i \in 1 .. Len(queue') : queue'[i] = queue[i + 1]
            BY <1>1, <2>1, HeadTailProperties
        <3>2. Len(queue) \in Nat /\ Len(queue') \in Nat
            BY <1>1, <3>1
        <3>3. \A i \in 1 .. Len(queue') : i + 1 \in 1 .. Len(queue)
            BY <3>1, <3>2
        <3> QED
            BY <1>1, <3>1, <3>3 DEF Range
    <2> QED
        BY <2>1 DEF Range
<1>4. ASSUME NEW i \in DOMAIN queue', NEW j \in DOMAIN queue', i # j
      PROVE  queue'[i] # queue'[j]
    <2>1. CASE queue' = queue
        BY <1>1, <1>4, <2>1 DEF Queued
    <2>2. CASE queue # <<>> /\ queue' = Tail(queue)
        <3>1. /\ Len(queue') = Len(queue) - 1 /\ queue' \in Seq(Tasks)
              /\ \A n \in 1 .. Len(queue') : queue'[n] = queue[n + 1]
            BY <1>1, <2>2, HeadTailProperties
        <3>2. /\ i \in 1 .. Len(queue') /\ j \in 1 .. Len(queue')
              /\ Len(queue) \in Nat /\ DOMAIN queue = 1 .. Len(queue)
            BY <1>1, <3>1
        <3>3. i + 1 \in DOMAIN queue /\ j + 1 \in DOMAIN queue /\ i + 1 # j + 1
            BY <1>4, <3>1, <3>2
        <3> QED
            BY <1>1, <3>1, <3>2, <3>3 DEF Queued
    <2> QED
        BY <2>1, <2>2
<1>5. ASSUME NEW t \in Range(queue')
      PROVE  /\ Deferred' /\ pc'[t] = "queued" /\ \A s \in t : s < at'
             /\ EntryOfTask(t) # current'
    <2>1. t \in Range(queue) /\ t \in Tasks
        BY <1>1, <1>3, RangeOfSeq
    <2>2. EntryOfTask(t) # None
        BY <1>1, <2>1, TaskFacts, NoneFacts
    <2>3. Deferred /\ pc[t] = "queued" /\ \A s \in t : s < at
        BY <1>1, <2>1 DEF Queued
    <2> QED
        BY <1>2, <2>2, <2>3, SameSetting
<1>6. \A t : EntryOfTask(t)' = EntryOfTask(t)
    BY DEF EntryOfTask
<1> QED
    BY <1>4, <1>5, <1>6 DEF Queued

LEMMA FlushSession ==
    ASSUME BaseInv, TestsOver, Flush, UNCHANGED recording
    PROVE  SessionInv'
<1>1. /\ setting' = setting /\ up' = up /\ up /\ queue' = queue
      /\ pc' = pc /\ completion' = completion /\ entries' = entries
      /\ writes' = writes /\ expected'
    BY DEF Flush, journaling
<1>2. /\ Phases' /\ Recording' /\ Begun' /\ Alone' /\ IncompleteFits'
    BY <1>1, TeardownSession DEF TestsOver
<1>3. Queued'
    BY <1>1, TeardownQueue DEF TestsOver
<1>4. Chained'
    BY <1>1 DEF BaseInv, SessionInv, Chained
<1>5. ReportsFit'
    BY <1>1, SameSetting DEF BaseInv, SessionInv, ReportsFit, Answered
<1> QED
    BY <1>2, <1>3, <1>4, <1>5 DEF SessionInv

LEMMA LineFacts ==
    ASSUME MediaTypes
    PROVE  /\ DOMAIN writes = 1 .. Len(writes) /\ Len(writes) \in Nat
           /\ \A i \in DOMAIN writes :
                 writes[i].task \in Tasks /\ writes[i].entry \in EntryValues
<1>1. writes \in Seq([task : Tasks, entry : EntryValues])
    BY DEF MediaTypes, DeferredTypes
<1>2. DOMAIN writes = 1 .. Len(writes) /\ Len(writes) \in Nat
    BY <1>1
<1>3. \A i \in 1 .. Len(writes) : writes[i] \in [task : Tasks, entry : EntryValues]
    BY <1>1, ElementOfSeq
<1> QED
    BY <1>2, <1>3

LEMMA TakeSession ==
    ASSUME BaseInv, Take, UNCHANGED recording
    PROVE  SessionInv'
<1>1. /\ Queued /\ Chained /\ ReportsFit /\ queue \in Seq(Tasks)
      /\ setting \in Settings /\ MediaTypes
    BY DEF BaseInv, SessionInv, MediaTypes, DeferredTypes
<1> PICK t : t = Head(queue)
    OBVIOUS
<1>2. /\ setting' = setting /\ up' = up /\ up /\ expected' /\ expected
      /\ completion' = completion /\ entries' = entries /\ writes' = writes
      /\ queue # <<>> /\ queue' = Tail(queue) /\ queue' \in Seq(Tasks)
      /\ t \in Tasks /\ t \in Range(queue)
      /\ Range(queue) = {t} \union Range(queue')
      /\ pc'[t] \in {"check", "process"}
      /\ \A u \in Tasks \ {t} : pc'[u] = pc[u]
    BY <1>1, TakeFacts
<1>3. pc[t] = "queued"
    BY <1>1, <1>2 DEF Queued
<1>4. t \notin Range(queue')
    <2> SUFFICES ASSUME NEW i \in 1 .. Len(queue')
                 PROVE  queue'[i] # t
        BY <1>2 DEF Range
    <2>1. queue'[i] = queue[i + 1] /\ Len(queue') = Len(queue) - 1
        BY <1>1, <1>2, HeadTailProperties
    <2>2. /\ i + 1 \in DOMAIN queue /\ 1 \in DOMAIN queue /\ i + 1 # 1
          /\ Head(queue) = queue[1]
        BY <1>1, <1>2, <2>1
    <2> QED
        BY <1>1, <2>1, <2>2 DEF Queued
<1>5. current = None /\ at \notin Segments
    BY <1>2, BaseFacts
<1>6. /\ Phases' /\ Recording' /\ Begun' /\ Alone' /\ IncompleteFits'
    BY <1>2, <1>5, TeardownSession
<1>7. \A u \in Range(queue') : pc'[u] = pc[u]
    <2>1. Range(queue') \subseteq Tasks
        BY <1>2, RangeOfSeq
    <2> QED
        BY <1>2, <1>4, <2>1
<1>8. Queued'
    BY <1>2, <1>5, <1>7, TeardownQueue
<1>9. Chained'
    <2>1. \A i \in DOMAIN writes : writes[i].task \in Tasks /\ writes[i].task # t
        BY <1>1, <1>3, LineFacts DEF Chained
    <2> QED
        BY <1>1, <1>2, <2>1 DEF Chained
<1>10. ReportsFit'
    <2>1. Tasks' = Tasks /\ Report' = Report
        BY <1>2, SameSetting
    <2>2. \A u \in Tasks : Answered(u)' => Answered(u)
        BY <1>2 DEF Answered
    <2> QED
        BY <1>1, <1>2, <2>1, <2>2 DEF ReportsFit
<1> QED
    BY <1>6, <1>8, <1>9, <1>10 DEF SessionInv

LEMMA WriteSession ==
    ASSUME BaseInv, Write, UNCHANGED recording
    PROVE  SessionInv'
<1>1. Queued /\ Chained /\ ReportsFit /\ MediaTypes /\ queue \in Seq(Tasks)
      /\ writes \in Seq([task : Tasks, entry : EntryValues])
      /\ pc \in [Tasks -> Locations]
    BY DEF BaseInv, SessionInv, MediaTypes, DeferredTypes
<1> PICK t : t = Head(writes).task
    OBVIOUS
<1>2. /\ setting' = setting /\ up' = up /\ queue' = queue
      /\ expected' = expected /\ completion' = completion /\ entries' = entries
      /\ writes # <<>> /\ writes' = Tail(writes)
      /\ Head(writes) \in [task : Tasks, entry : EntryValues]
      /\ pc' = [pc EXCEPT ![t] = "done"]
    BY <1>1, WriteFacts
<1>3. /\ t \in Tasks /\ pc'[t] = "done"
      /\ \A u \in Tasks \ {t} : pc'[u] = pc[u]
    BY <1>1, <1>2
<1>4. /\ Len(writes) \in Nat \ {0} /\ Head(writes) = writes[1]
      /\ DOMAIN writes = 1 .. Len(writes)
    BY <1>1, <1>2
<1>5. pc[t] = "journaling"
    BY <1>1, <1>4 DEF Chained
<1>6. expected /\ up /\ current = None /\ at \notin Segments
    BY <1>2, BaseFacts
<1>7. /\ Phases' /\ Recording' /\ Begun' /\ Alone' /\ IncompleteFits'
    BY <1>2, <1>3, <1>5, <1>6, TeardownSession
<1>8. Queued'
    <2>1. \A u \in Range(queue) : u \in Tasks /\ u # t
        BY <1>1, <1>5, RangeOfSeq DEF Queued
    <2> QED
        BY <1>2, <1>3, <1>6, <2>1, TeardownQueue
<1>9. Chained'
    <2>1. /\ Len(writes') = Len(writes) - 1
          /\ \A i \in 1 .. Len(writes') : writes'[i] = writes[i + 1]
          /\ writes' \in Seq([task : Tasks, entry : EntryValues])
        BY <1>1, <1>2, HeadTailProperties
    <2>2. DOMAIN writes' = 1 .. Len(writes') /\ Len(writes') \in Nat
        BY <2>1
    <2>3. \A i \in DOMAIN writes' :
             i + 1 \in DOMAIN writes /\ i + 1 # 1 /\ 1 \in DOMAIN writes
        BY <1>4, <2>1, <2>2
    <2>4. ASSUME NEW i \in DOMAIN writes'
          PROVE  pc'[writes'[i].task] = "journaling"
        <3>1. writes'[i] = writes[i + 1] /\ i + 1 \in DOMAIN writes
            BY <2>1, <2>2, <2>3
        <3>2. writes[i + 1].task # t /\ writes[i + 1].task \in Tasks
            BY <1>1, <1>4, <2>3, LineFacts DEF Chained
        <3> QED
            BY <1>1, <1>3, <3>1, <3>2 DEF Chained
    <2>5. ASSUME NEW i \in DOMAIN writes', NEW j \in DOMAIN writes', i # j
          PROVE  writes'[i].task # writes'[j].task
        <3>1. /\ writes'[i] = writes[i + 1] /\ i + 1 \in DOMAIN writes
              /\ writes'[j] = writes[j + 1] /\ j + 1 \in DOMAIN writes
            BY <2>1, <2>2, <2>3
        <3>2. i + 1 # j + 1
            BY <2>2, <2>5
        <3> QED
            BY <1>1, <3>1, <3>2 DEF Chained
    <2> QED
        BY <2>4, <2>5 DEF Chained
<1>10. ReportsFit'
    <2>1. Tasks' = Tasks /\ Report' = Report
        BY <1>2, SameSetting
    <2>2. \A u \in Tasks : Answered(u)' => Answered(u)
        BY <1>3, <1>5 DEF Answered
    <2> QED
        BY <1>1, <1>2, <2>1, <2>2 DEF ReportsFit
<1> QED
    BY <1>7, <1>8, <1>9, <1>10 DEF SessionInv

LEMMA OperationSession ==
    ASSUME BaseInv, NEW t \in Tasks, Operation(t), UNCHANGED recording
    PROVE  SessionInv'
<1>1. Queued /\ Chained /\ ReportsFit /\ MediaTypes /\ queue \in Seq(Tasks)
    BY DEF BaseInv, SessionInv, MediaTypes, DeferredTypes
<1>2. /\ setting' = setting /\ up' = up /\ queue' = queue
      /\ expected' = expected /\ entries' = entries /\ writes' = writes
      /\ pc[t] \in {"check", "process", "published", "cleaned"}
      /\ \A u \in Tasks \ {t} : pc'[u] = pc[u] /\ completion'[u] = completion[u]
      /\ pc'[t] \in Locations \ {"queued", "journaling", "done"}
      /\ pc'[t] = "completing" =>
            /\ completion'[t] \in Report
            /\ completion'[t].decision = "failed" => completion'[t].outcome = "failed"
    BY <1>1, OperationFacts
<1>3. expected /\ up /\ current = None /\ at \notin Segments
    BY <1>2, BaseFacts
<1>4. /\ Phases' /\ Recording' /\ Begun' /\ Alone' /\ IncompleteFits'
    BY <1>2, <1>3, TeardownSession
<1>5. Queued'
    <2>1. \A u \in Range(queue) : u \in Tasks /\ u # t
        BY <1>1, <1>2, RangeOfSeq DEF Queued
    <2> QED
        BY <1>2, <1>3, <2>1, TeardownQueue
<1>6. Chained'
    <2>1. \A i \in DOMAIN writes : writes[i].task \in Tasks \ {t}
        BY <1>1, <1>2, LineFacts DEF Chained
    <2> QED
        BY <1>1, <1>2, <2>1 DEF Chained
<1>7. ReportsFit'
    <2>1. Tasks' = Tasks /\ Report' = Report
        BY <1>2, SameSetting
    <2>2. \A u \in Tasks \ {t} : Answered(u)' => Answered(u)
        BY <1>2 DEF Answered
    <2>3. Answered(t)' => pc'[t] = "completing"
        BY <1>2 DEF Answered
    <2>4. \A u \in Tasks : Answered(u)' =>
             /\ completion'[u] \in Report
             /\ completion'[u].decision = "failed" => completion'[u].outcome = "failed"
        BY <1>1, <1>2, <2>2, <2>3 DEF ReportsFit
    <2> QED
        BY <2>1, <2>4 DEF ReportsFit
<1> QED
    BY <1>4, <1>5, <1>6, <1>7 DEF SessionInv

LEMMA CompleteDeferredSession ==
    ASSUME BaseInv, NEW t \in Tasks, CompleteDeferred(t), UNCHANGED recording
    PROVE  SessionInv'
<1>1. /\ Queued /\ Chained /\ ReportsFit /\ MediaTypes /\ queue \in Seq(Tasks)
      /\ IncompleteFits /\ SettlingFits /\ setting \in Settings
      /\ DeferredTypes /\ writes \in Seq([task : Tasks, entry : EntryValues])
    BY BaseFacts DEF BaseInv, SessionInv, MediaTypes, DeferredTypes
<1> PICK e : e = EntryOfTask(t)
    OBVIOUS
<1> PICK left : left = IF outstanding[e] > 0 THEN outstanding[e] - 1 ELSE 0
    OBVIOUS
<1> PICK updated : updated = Settled(e, entries[e], t, left)
    OBVIOUS
<1> PICK line : line = [task |-> t, entry |-> updated]
    OBVIOUS
<1>2. /\ setting' = setting /\ up' = up /\ queue' = queue
      /\ expected' = expected /\ completion' = completion
      /\ e \in Entries /\ left \in Nat
      /\ completion[t] \in Report /\ entries[e] \in EntryValues
      /\ updated \in EntryValues /\ pc[t] = "completing"
      /\ pc'[t] = "journaling" /\ \A u \in Tasks \ {t} : pc'[u] = pc[u]
      /\ entries'[e] = updated
      /\ \A d \in Entries \ {e} : entries'[d] = entries[d]
      /\ writes' = Append(writes, line)
    BY <1>1, CompleteDeferredFacts
<1>3. expected /\ up /\ current = None /\ at \notin Segments
    BY <1>2, BaseFacts
<1>4. t \in Awaited(e)
    BY <1>1, <1>2, AwaitedFacts
<1>5. ~entries[e].incomplete
    BY <1>1, <1>2, <1>4 DEF IncompleteFits
<1>6. ~updated.incomplete
    <2> PICK existing : existing = entries[e]
        OBVIOUS
    <2>1. existing \in EntryValues /\ updated = Settled(e, existing, t, left)
        BY <1>2
    <2>2. existing.incomplete = FALSE
        BY <1>5, <2>1, EntryFacts
    <2>3. DeferredTypes /\ completion[t] \in Report /\ e \in Entries /\ left \in Nat
        BY <1>1, <1>2
    <2>4. existing.incomplete = FALSE =>
             Settled(e, existing, t, left).incomplete = FALSE
        BY <2>1, <2>3, SettledType, Zenon
    <2> QED
        BY <2>1, <2>2, <2>4
<1>7. /\ Phases' /\ Recording' /\ Begun' /\ Alone' /\ IncompleteFits'
    <2>1. \A u \in Tasks : (u \in Range(queue') \/ pc'[u] # "queued")
                              <=> (u \in Range(queue) \/ pc[u] # "queued")
        BY <1>2
    <2>2. \A d \in Entries :
             \/ entries'[d] = entries[d]
             \/ entries'[d] \in EntryValues /\ ~entries'[d].incomplete
        BY <1>2, <1>6
    <2> QED
        BY <1>2, <1>3, <2>1, <2>2, TeardownSession
<1>8. Queued'
    <2>1. \A u \in Range(queue) : u \in Tasks /\ u # t
        BY <1>1, <1>2, RangeOfSeq DEF Queued
    <2> QED
        BY <1>2, <1>3, <2>1, TeardownQueue
<1>9. Chained'
    <2>1. \A i \in DOMAIN writes : writes[i].task \in Tasks \ {t}
        BY <1>1, <1>2, LineFacts DEF Chained
    <2>2. Len(writes) \in Nat /\ DOMAIN writes = 1 .. Len(writes)
        BY <1>1
    <2>3. line \in [task : Tasks, entry : EntryValues] /\ line.task = t
        BY <1>2
    <2>4. /\ Len(writes') = Len(writes) + 1 /\ DOMAIN writes' = 1 .. Len(writes) + 1
          /\ \A i \in DOMAIN writes : writes'[i] = writes[i]
          /\ writes'[Len(writes) + 1] = line
        BY <1>1, <1>2, <2>2, <2>3, AppendProperties
    <2>5. \A i \in DOMAIN writes' : i \in DOMAIN writes \/ i = Len(writes) + 1
        BY <2>2, <2>4
    <2>6. \A i \in DOMAIN writes' : pc'[writes'[i].task] = "journaling"
        BY <1>1, <1>2, <2>1, <2>3, <2>4, <2>5 DEF Chained
    <2>7. \A i, j \in DOMAIN writes' : i # j => writes'[i].task # writes'[j].task
        BY <1>1, <2>1, <2>3, <2>4, <2>5 DEF Chained
    <2> QED
        BY <2>6, <2>7 DEF Chained
<1>10. ReportsFit'
    <2>1. Tasks' = Tasks /\ Report' = Report
        BY <1>2, SameSetting
    <2>2. \A u \in Tasks : Answered(u)' => Answered(u)
        BY <1>2 DEF Answered
    <2> QED
        BY <1>1, <1>2, <2>1, <2>2 DEF ReportsFit
<1> QED
    BY <1>7, <1>8, <1>9, <1>10 DEF SessionInv

\* While a recording is under way nothing is processed.
LEMMA RecordingStep ==
    ASSUME BaseInv, setting' = setting, pc' = pc, writes' = writes,
           completion' = completion
    PROVE  Chained' /\ ReportsFit'
<1>1. Chained /\ ReportsFit
    BY DEF BaseInv, SessionInv
<1>2. Chained'
    BY <1>1 DEF Chained
<1>3. ReportsFit'
    BY <1>1, SameSetting DEF ReportsFit, Answered
<1> QED
    BY <1>2, <1>3

LEMMA BeginSession ==
    ASSUME BaseInv, Begin
    PROVE  SessionInv'
<1>1. /\ Phases /\ Recording /\ Queued /\ Begun /\ Alone /\ IncompleteFits
      /\ queue \in Seq(Tasks) /\ setting \in Settings /\ at \in Nat
      /\ entries \in [Entries -> EntryValues \union {None}]
    BY DEF BaseInv, SessionInv, MediaTypes, DeferredTypes, SessionTypes
<1> PICK e : e = EntryOf[at]
    OBVIOUS
<1>2. /\ up /\ current = None /\ at \in Segments /\ current' = e
      /\ entries' = [entries EXCEPT ![e] = Interrupted]
      /\ setting' = setting /\ up' = up /\ queue' = queue /\ expected' = expected
      /\ step' = step /\ published' = published /\ pc' = pc
      /\ completion' = completion /\ outstanding' = outstanding
      /\ writes' = writes /\ at' = at /\ recorded' = recorded
      /\ broken' = broken /\ retain' = retain /\ captured' = captured
    BY DEF Begin, flushing
<1>3. e \in Entries /\ at \in SegmentsOf(e) /\ e # None
    BY <1>2, SegmentFacts, NoneFacts DEF SegmentsOf
<1>4. ~expected /\ \A t \in Tasks : pc[t] = "queued"
    BY <1>1, <1>2 DEF Phases, TestsOver
<1>5. recorded = <<>> /\ ~broken /\ retain = None
    BY <1>1, <1>2 DEF Phases
<1>6. ~Past(e)
    BY <1>1, <1>3 DEF Past
<1>7. Awaited(e) = {} /\ captured \intersect SegmentsOf(e) = {}
    BY <1>1, <1>2, <1>3, <1>6 DEF Begun
<1>8. \A d : Awaited(d)' = Awaited(d)
    BY <1>2, AwaitedSame
<1>9. /\ entries'[e] = Interrupted
      /\ \A d \in Entries \ {e} : entries'[d] = entries[d]
    BY <1>1, <1>2, <1>3
<1>10. Phases'
    <2>1. FirstSteps' = FirstSteps /\ Tasks' = Tasks /\ Interrupted' = Interrupted
        BY <1>2, SameSetting DEF Interrupted
    <2> QED
        BY <1>1, <1>2, <1>3, <1>4, <1>9, <2>1 DEF Phases
<1>11. Recording'
    BY <1>2, <1>5 DEF Recording, Range
<1>12. Queued'
    <2>1. \A t \in Range(queue) : EntryOfTask(t) # e
        <3>1. \A t \in Range(queue) : t \in Tasks
            BY <1>1, RangeOfSeq
        <3> QED
            BY <1>1, <1>7, <3>1, AwaitedFacts
    <2>2. \A t : EntryOfTask(t)' = EntryOfTask(t)
        BY DEF EntryOfTask
    <2>3. Deferred' = Deferred
        BY <1>2, SameSetting
    <2> QED
        BY <1>1, <1>2, <2>1, <2>2, <2>3 DEF Queued
<1>13. Begun'
    <2>1. EntryValues' = EntryValues /\ \A d : Past(d)' = Past(d)
        BY <1>2, SameSetting DEF Past
    <2> QED
        BY <1>1, <1>2, <1>3, <1>8, <1>9, <2>1, NoneFacts DEF Begun
<1>14. Alone'
    BY <1>1, <1>2, <1>8, SameSetting DEF Alone
<1>15. IncompleteFits'
    BY <1>1, <1>2, <1>8, <1>9, SameSetting DEF IncompleteFits, Interrupted
<1>16. Chained' /\ ReportsFit'
    BY <1>2, RecordingStep
<1> QED
    BY <1>10, <1>11, <1>12, <1>13, <1>14, <1>15, <1>16 DEF SessionInv

LEMMA StartFinalizeSession ==
    ASSUME BaseInv, StartFinalize
    PROVE  SessionInv'
<1>1. /\ Phases /\ Recording /\ Queued /\ Begun /\ Alone /\ IncompleteFits
      /\ current \in Entries \union {None}
    BY DEF BaseInv, SessionInv, MediaTypes, SessionTypes
<1>2. /\ current # None
      /\ setting' = setting /\ up' = up /\ queue' = queue /\ expected' = expected
      /\ step' = step /\ published' = published /\ pc' = pc /\ entries' = entries
      /\ completion' = completion /\ outstanding' = outstanding
      /\ writes' = writes /\ at' = at /\ recorded' = recorded
      /\ broken' = broken /\ captured' = captured /\ current' = current
    BY DEF StartFinalize, vars, media, manifest, journaling
<1>3. \A d : Awaited(d)' = Awaited(d)
    BY <1>2, AwaitedSame
<1>4. /\ EntryValues' = EntryValues /\ FirstSteps' = FirstSteps /\ Tasks' = Tasks
      /\ Interrupted' = Interrupted /\ Deferred' = Deferred /\ Merge' = Merge
      /\ \A d : Past(d)' = Past(d)
      /\ \A t : EntryOfTask(t)' = EntryOfTask(t)
    BY <1>2, SameSetting DEF Past, Interrupted, EntryOfTask
<1>5. Phases'
    BY <1>1, <1>2, <1>4 DEF Phases, TestsOver
<1>6. Recording'
    BY <1>1, <1>2, <1>4 DEF Recording
<1>7. Queued'
    BY <1>1, <1>2, <1>4 DEF Queued
<1>8. Begun' /\ Alone' /\ IncompleteFits'
    BY <1>1, <1>2, <1>3, <1>4 DEF Begun, Alone, IncompleteFits
<1>9. Chained' /\ ReportsFit'
    BY <1>2, RecordingStep
<1> QED
    BY <1>5, <1>6, <1>7, <1>8, <1>9 DEF SessionInv

LEMMA StopSession ==
    ASSUME BaseInv, NEW s \in Segments, Stop(s)
    PROVE  SessionInv'
<1>1. /\ Phases /\ Recording /\ Queued /\ Begun /\ Alone /\ IncompleteFits
      /\ queue \in Seq(Tasks) /\ setting \in Settings /\ at \in Nat
      /\ recorded \in Seq(Files) /\ MediaTypes
    BY DEF BaseInv, SessionInv, MediaTypes, DeferredTypes, SessionTypes
<1>2. /\ up /\ current \in Entries /\ s = at /\ EntryOf[s] = current
      /\ at' = at + 1 /\ current' = current
      /\ setting' = setting /\ up' = up /\ entries' = entries
      /\ expected' = expected /\ step' = step /\ published' = published
      /\ pc' = pc /\ completion' = completion /\ outstanding' = outstanding
      /\ writes' = writes
      /\ captured' \in {captured, captured \union {s}}
      /\ \/ recorded' = recorded
         \/ recorded' = Append(recorded, Raw(s))
         \/ recorded' = Append(recorded, Final({s})) /\ ~Deferred
      /\ \/ queue' = queue
         \/ /\ queue' = Append(queue, {s}) /\ Deferred /\ ~Merge
            /\ recorded' = Append(recorded, Raw(s))
    BY <1>1, StopFacts
<1>3. /\ current # None /\ ~expected /\ \A t \in Tasks : pc[t] = "queued"
      /\ s \in SegmentsOf(current) /\ s \in Nat
    BY <1>1, <1>2, BaseFacts, NoneFacts, SegmentFacts DEF SegmentsOf
<1>4. /\ Raw(s) \in Files /\ Final({s}) \in Files
      /\ {s} \in Tasks /\ EntryOfTask({s}) = current
    BY <1>1, <1>2, FilesFacts, TaskSetFacts
<1>5. /\ Tasks' = Tasks /\ Deferred' = Deferred /\ Merge' = Merge
      /\ EntryValues' = EntryValues /\ FirstSteps' = FirstSteps
      /\ Interrupted' = Interrupted
      /\ \A t : EntryOfTask(t)' = EntryOfTask(t)
    BY <1>2, SameSetting DEF Interrupted, EntryOfTask
<1>6. DOMAIN recorded = 1 .. Len(recorded) /\ Len(recorded) \in Nat
    BY <1>1
<1>7. ASSUME NEW f \in {Raw(s), Final({s})}, recorded' = Append(recorded, f)
      PROVE  /\ DOMAIN recorded' = 1 .. Len(recorded) + 1
             /\ \A i \in 1 .. Len(recorded) : recorded'[i] = recorded[i]
             /\ recorded'[Len(recorded) + 1] = f
             /\ Range(recorded') = Range(recorded) \union {f}
    <2>1. f \in Files
        BY <1>4
    <2>2. /\ DOMAIN recorded' = 1 .. Len(recorded) + 1
          /\ \A i \in 1 .. Len(recorded) : recorded'[i] = recorded[i]
          /\ recorded'[Len(recorded) + 1] = f
        BY <1>1, <1>7, <2>1, AppendProperties
    <2>3. \A i \in 1 .. Len(recorded) + 1 :
             i \in 1 .. Len(recorded) \/ i = Len(recorded) + 1
        BY <1>6
    <2>4. \A i \in 1 .. Len(recorded) : i \in 1 .. Len(recorded) + 1
        BY <1>6
    <2>5. Len(recorded) + 1 \in 1 .. Len(recorded) + 1
        BY <1>6
    <2> QED
        BY <1>6, <2>2, <2>3, <2>4, <2>5 DEF Range
<1>8. /\ Range(recorded) \subseteq Range(recorded')
      /\ \A f \in Range(recorded') :
            \/ f \in Range(recorded)
            \/ f = Raw(s) \/ (~Deferred /\ f = Final({s}))
      /\ recorded' = Append(recorded, Raw(s)) => Raw(s) \in Range(recorded')
    <2>1. CASE recorded' = recorded
        <3>1. recorded # Append(recorded, Raw(s))
            <4> SUFFICES ASSUME recorded = Append(recorded, Raw(s))
                         PROVE  FALSE
                OBVIOUS
            <4>1. Len(recorded) = Len(recorded) + 1
                BY <1>1, <1>4, AppendProperties
            <4> QED
                BY <1>6, <4>1
        <3> QED
            BY <2>1, <3>1 DEF Range
    <2>2. CASE recorded' = Append(recorded, Raw(s))
        BY <1>7, <2>2
    <2>3. CASE recorded' = Append(recorded, Final({s})) /\ ~Deferred
        <3>1. Range(recorded') = Range(recorded) \union {Final({s})}
            BY <1>7, <2>3
        <3>2. Append(recorded, Final({s})) # Append(recorded, Raw(s))
            <4>1. /\ Append(recorded, Final({s}))[Len(recorded) + 1] = Final({s})
                  /\ Append(recorded, Raw(s))[Len(recorded) + 1] = Raw(s)
                BY <1>1, <1>4, AppendProperties
            <4> QED
                BY <4>1, FileFacts
        <3> QED
            BY <2>3, <3>1, <3>2
    <2> QED
        BY <1>2, <2>1, <2>2, <2>3
<1>9. Recording'
    <2>1. ASSUME NEW f \in Range(recorded')
          PROVE  \E r \in SegmentsOf(current) :
                    r < at + 1 /\ (f = Raw(r) \/ (~Deferred /\ f = Final({r})))
        <3>1. CASE f \in Range(recorded)
            <4>1. PICK r \in SegmentsOf(current) :
                      r < at /\ (f = Raw(r) \/ (~Deferred /\ f = Final({r})))
                BY <1>1, <3>1 DEF Recording
            <4>2. r \in Nat
                BY SegmentFacts DEF SegmentsOf
            <4>3. r < at + 1
                BY <1>1, <4>1, <4>2
            <4> QED
                BY <4>1, <4>3
        <3>2. CASE f = Raw(s) \/ (~Deferred /\ f = Final({s}))
            <4>1. s < at + 1
                BY <1>1, <1>2
            <4> QED
                BY <1>3, <3>2, <4>1
        <3> QED
            BY <1>8, <3>1, <3>2
    <2>2. ASSUME NEW i \in DOMAIN recorded', NEW j \in DOMAIN recorded', i < j,
                 NEW r \in recorded'[i].of, NEW q \in recorded'[j].of
          PROVE  r < q
        <3>1. CASE recorded' = recorded
            BY <1>1, <2>2, <3>1 DEF Recording
        <3>2. ASSUME NEW f \in {Raw(s), Final({s})}, recorded' = Append(recorded, f)
              PROVE  r < q
            <4>1. f.of = {s}
                BY <3>2, FileFacts
            <4>2. /\ DOMAIN recorded' = 1 .. Len(recorded) + 1
                  /\ \A n \in 1 .. Len(recorded) : recorded'[n] = recorded[n]
                  /\ recorded'[Len(recorded) + 1] = f
                BY <1>7, <3>2
            <4>3. i \in 1 .. Len(recorded)
                BY <1>6, <2>2, <4>2
            <4>4. CASE j \in 1 .. Len(recorded)
                <5>1. r \in recorded[i].of /\ q \in recorded[j].of
                    BY <4>2, <4>3, <4>4
                <5> QED
                    BY <1>1, <1>6, <2>2, <4>3, <4>4, <5>1 DEF Recording
            <4>5. CASE j = Len(recorded) + 1
                <5>1. q = at
                    BY <1>2, <4>1, <4>2, <4>5
                <5>2. recorded[i] \in Range(recorded) /\ r \in recorded[i].of
                    BY <1>6, <4>2, <4>3 DEF Range
                <5>3. PICK p \in SegmentsOf(current) :
                          p < at /\ (recorded[i] = Raw(p) \/ recorded[i] = Final({p}))
                    BY <1>1, <5>2 DEF Recording
                <5>4. r = p
                    BY <5>2, <5>3, FileFacts
                <5> QED
                    BY <5>1, <5>3, <5>4
            <4> QED
                BY <1>6, <4>2, <4>4, <4>5
        <3> QED
            BY <1>2, <3>1, <3>2
    <2>3. SegmentsOf(current)' = SegmentsOf(current)
        BY <1>2 DEF SegmentsOf
    <2> QED
        BY <1>2, <1>5, <2>1, <2>2, <2>3 DEF Recording
<1>10. /\ Range(queue) \subseteq Range(queue')
       /\ Range(queue') \subseteq Range(queue) \union {{s}}
       /\ Merge => Range(queue') = Range(queue)
       /\ \A i, j \in DOMAIN queue' : i # j => queue'[i] # queue'[j]
       /\ {s} \in Range(queue') => Deferred /\ ~Merge /\ Raw(s) \in Range(recorded')
    <2>1. {s} \notin Range(queue)
        <3>1. {s} \in Range(queue) => s < at
            BY <1>1 DEF Queued
        <3> QED
            BY <1>1, <1>2, <3>1
    <2>2. CASE queue' = queue
        BY <1>1, <2>1, <2>2 DEF Range, Queued
    <2>3. CASE /\ queue' = Append(queue, {s}) /\ Deferred /\ ~Merge
               /\ recorded' = Append(recorded, Raw(s))
        <3>1. /\ Len(queue) \in Nat /\ DOMAIN queue = 1 .. Len(queue)
              /\ DOMAIN queue' = 1 .. Len(queue) + 1
              /\ \A i \in 1 .. Len(queue) : queue'[i] = queue[i]
              /\ queue'[Len(queue) + 1] = {s}
            BY <1>1, <1>4, <2>3, AppendProperties
        <3>2. \A i \in DOMAIN queue' : i \in DOMAIN queue \/ i = Len(queue) + 1
            BY <3>1
        <3>3. \A i \in DOMAIN queue : i \in DOMAIN queue'
            BY <3>1
        <3>4. \A i, j \in DOMAIN queue' : i # j => queue'[i] # queue'[j]
            <4>1. \A i \in DOMAIN queue : queue[i] # {s}
                BY <2>1 DEF Range
            <4> QED
                BY <1>1, <3>1, <3>2, <4>1 DEF Queued
        <3>5. /\ Range(queue) \subseteq Range(queue')
              /\ Range(queue') \subseteq Range(queue) \union {{s}}
            BY <3>1, <3>2, <3>3 DEF Range
        <3> QED
            BY <1>8, <2>3, <3>4, <3>5
    <2> QED
        BY <1>2, <2>2, <2>3
<1>11. Queued'
    <2>1. ASSUME NEW t \in Range(queue')
          PROVE  /\ Deferred /\ pc'[t] = "queued"
                 /\ \A r \in t : r < at + 1
                 /\ EntryOfTask(t) = current =>
                       ~Merge /\ \E r \in t : Raw(r) \in Range(recorded')
        <3>1. CASE t \in Range(queue)
            <4>1. t \in Tasks /\ t \subseteq Segments
                BY <1>1, <3>1, RangeOfSeq, TaskFacts
            <4>2. \A r \in t : r < at /\ r \in Nat
                BY <1>1, <3>1, <4>1, SegmentFacts DEF Queued
            <4>3. \A r \in t : r < at + 1
                BY <1>1, <4>2
            <4> QED
                BY <1>1, <1>2, <1>8, <3>1, <4>3 DEF Queued
        <3>2. CASE t = {s}
            BY <1>1, <1>2, <1>3, <1>4, <1>10, <3>2
        <3> QED
            BY <1>10, <3>1, <3>2
    <2> QED
        BY <1>2, <1>5, <1>10, <2>1 DEF Queued
<1>12. /\ \A e \in Entries \ {current} : Awaited(e)' = Awaited(e)
       /\ Merge => \A e \in Entries : Awaited(e)' = Awaited(e)
    <2>1. ASSUME NEW e \in Entries, e # current \/ Merge
          PROVE  \A t : t \in Awaited(e)' <=> t \in Awaited(e)
        BY <1>1, <1>2, <1>4, <1>10, <2>1, AwaitedNext, AwaitedFacts
    <2> QED
        BY <2>1
<1>13. Begun'
    <2>1. \A r \in captured' : r < at + 1
        <3>1. \A r \in captured : r < at /\ r \in Nat
            BY <1>1, <1>2, SegmentFacts DEF Begun, MediaTypes, SessionTypes
        <3> QED
            BY <1>1, <1>2, <3>1
    <2>2. ASSUME NEW e \in Entries \ {current},
                 Awaited(e)' # {} \/ captured' \intersect SegmentsOf(e) # {}
          PROVE  Past(e)' /\ entries'[e] \in EntryValues
        <3>1. s \notin SegmentsOf(e)
            BY <1>2 DEF SegmentsOf
        <3>2. Awaited(e) # {} \/ captured \intersect SegmentsOf(e) # {}
            BY <1>2, <1>12, <2>2, <3>1
        <3>3. Past(e) /\ entries[e] \in EntryValues
            BY <1>1, <1>2, <3>2 DEF Begun
        <3>4. Past(e)'
            <4>1. \A r \in SegmentsOf(e) : r < at /\ r \in Nat
                BY <3>3, SegmentFacts DEF Past, SegmentsOf
            <4>2. \A r \in SegmentsOf(e) : r < at + 1
                BY <1>1, <4>1
            <4> QED
                BY <1>2, <4>2 DEF Past, SegmentsOf
        <3> QED
            BY <1>2, <3>3, <3>4
    <2>3. \A e : SegmentsOf(e)' = SegmentsOf(e)
        BY DEF SegmentsOf
    <2> QED
        BY <1>2, <1>5, <2>1, <2>2, <2>3 DEF Begun
<1>14. Alone'
    BY <1>1, <1>5, <1>12 DEF Alone
<1>15. IncompleteFits'
    <2>1. entries[current].incomplete = FALSE
        BY <1>1, <1>3 DEF Phases, Interrupted
    <2> QED
        BY <1>1, <1>2, <1>5, <1>12, <2>1 DEF IncompleteFits
<1>16. Phases'
    BY <1>1, <1>2, <1>3, <1>5 DEF Phases, TestsOver
<1>17. Chained' /\ ReportsFit'
    BY <1>2, RecordingStep
<1> QED
    BY <1>9, <1>11, <1>13, <1>14, <1>15, <1>16, <1>17 DEF SessionInv

\* A recording takes its own tasks along when it drops those of its files.
LEMMA DroppedFacts ==
    ASSUME BaseInv
    PROVE  /\ Dropped \in Seq(Tasks)
           /\ Range(Dropped) \subseteq Range(queue)
           /\ \A i, j \in DOMAIN Dropped : i # j => Dropped[i] # Dropped[j]
           /\ current \in Entries =>
                 \A t \in Range(Dropped) : EntryOfTask(t) # current
<1>1. /\ MediaTypes /\ Queued /\ queue \in Seq(Tasks) /\ setting \in Settings
    BY DEF BaseInv, SessionInv, MediaTypes, DeferredTypes
<1>2. /\ Dropped \in Seq(Tasks)
      /\ Range(Dropped) = {t \in Range(queue) : ~Touches(t, Range(recorded))}
    BY <1>1, DropTasksFacts DEF Dropped
<1>3. \A i, j \in DOMAIN Dropped : i # j => Dropped[i] # Dropped[j]
    BY <1>1, KeepingDistinct DEF Dropped, DropTasksForPaths, Queued
<1>4. ASSUME current \in Entries, NEW t \in Range(queue), EntryOfTask(t) = current
      PROVE  Touches(t, Range(recorded))
    <2>1. PICK s \in t : Raw(s) \in Range(recorded)
        BY <1>1, <1>4 DEF Queued
    <2>2. t \in Tasks
        BY <1>1, RangeOfSeq
    <2>3. Raw(s) \in Range(RawsOf(t))
        BY <1>1, <2>2, RawsOfFacts
    <2> QED
        BY <2>1, <2>3 DEF Touches
<1> QED
    BY <1>2, <1>3, <1>4

\* What completing an entry leaves of the state.
LEMMA CompleteFacts ==
    ASSUME MediaTypes, current \in Entries, NEW entry \in EntryValues,
           Complete(entry)
    PROVE  /\ setting' = setting /\ up' = up /\ lost' = lost
           /\ expected' = expected /\ step' = step /\ published' = published
           /\ pc' = pc /\ completion' = completion
           /\ outstanding' = outstanding /\ writes' = writes /\ at' = at
           /\ current' = None /\ recorded' = <<>> /\ broken' = FALSE
           /\ retain' = None /\ before' = 0 /\ threw' = FALSE
           /\ entries'[current] = entry
           /\ \A e \in Entries \ {current} : entries'[e] = entries[e]
           /\ \A e \in Entries :
                 \/ journal'[e] = journal[e]
                 \/ e = current /\ journal'[e] = entry
<1>1. /\ entries \in [Entries -> EntryValues \union {None}]
      /\ journal \in [Entries -> EntryValues \union {None}] /\ torn \in BOOLEAN
    BY DEF MediaTypes, DeferredTypes
<1>2. /\ setting' = setting /\ up' = up /\ lost' = lost
      /\ expected' = expected /\ step' = step /\ published' = published
      /\ pc' = pc /\ completion' = completion
      /\ outstanding' = outstanding /\ writes' = writes /\ at' = at
      /\ current' = None /\ recorded' = <<>> /\ broken' = FALSE
      /\ retain' = None /\ before' = 0 /\ threw' = FALSE
      /\ entries' = [entries EXCEPT ![current] = entry]
      /\ AppendLine(current, entry)
    BY DEF Complete, flushing
<1>3. /\ entries'[current] = entry
      /\ \A e \in Entries \ {current} : entries'[e] = entries[e]
    BY <1>1, <1>2
<1>4. \A e \in Entries :
         \/ journal'[e] = journal[e]
         \/ e = current /\ journal'[e] = entry
    BY <1>1, <1>2, AppendLineFacts
<1> QED
    BY <1>2, <1>3, <1>4

LEMMA CompletingSession ==
    ASSUME BaseInv,
           FinalizeFailed \/ Discard \/ KeepIncomplete \/ KeepSegments \/ MergeNow
    PROVE  SessionInv'
<1>1. /\ Phases /\ Recording /\ Queued /\ Begun /\ Alone /\ IncompleteFits
      /\ queue \in Seq(Tasks) /\ setting \in Settings /\ at \in Nat
      /\ recorded \in Seq(Files) /\ MediaTypes
    BY DEF BaseInv, SessionInv, MediaTypes, DeferredTypes, SessionTypes
<1>2. /\ Ended /\ current \in Entries
      /\ captured' = captured \/ captured' = captured \ SegmentsOf(current)
      /\ queue' \in Seq(Tasks)
    BY <1>1, Completing
<1>3. PICK entry \in EntryValues :
         /\ Complete(entry)
         /\ \/ queue' = queue /\ ~entry.incomplete
            \/ queue' = Dropped
            \/ /\ queue' = Append(Dropped, Parts) /\ ~entry.incomplete
               /\ Parts \in Tasks /\ EntryOfTask(Parts) = current
               /\ Merge /\ Deferred
    BY <1>1, Completing
<1> PICK parts : parts = Parts
    OBVIOUS
<1>4. /\ setting' = setting /\ up' = up /\ expected' = expected /\ step' = step
      /\ published' = published /\ pc' = pc /\ completion' = completion
      /\ outstanding' = outstanding /\ writes' = writes /\ at' = at
      /\ current' = None /\ recorded' = <<>> /\ broken' = FALSE
      /\ retain' = None
      /\ entries'[current] = entry
      /\ \A e \in Entries \ {current} : entries'[e] = entries[e]
    BY <1>1, <1>2, <1>3, CompleteFacts
<1>5. /\ current # None /\ ~expected /\ \A t \in Tasks : pc[t] = "queued"
    BY <1>2, BaseFacts, NoneFacts
<1>6. /\ Dropped \in Seq(Tasks) /\ Range(Dropped) \subseteq Range(queue)
      /\ \A i, j \in DOMAIN Dropped : i # j => Dropped[i] # Dropped[j]
      /\ \A t \in Range(Dropped) : EntryOfTask(t) # current
    BY <1>2, DroppedFacts
<1>7. /\ Tasks' = Tasks /\ Deferred' = Deferred /\ Merge' = Merge
      /\ EntryValues' = EntryValues /\ FirstSteps' = FirstSteps
      /\ \A t : EntryOfTask(t)' = EntryOfTask(t)
    BY <1>4, SameSetting DEF EntryOfTask
<1>8. \A s \in SegmentsOf(current) : s < at
    <2>1. \A s \in SegmentsOf(current) : s \in Nat /\ ~(s >= at)
        BY <1>2, SegmentFacts DEF Ended, SegmentsToCome, SegmentsOf
    <2> QED
        BY <1>1, <2>1
<1>9. /\ \A i, j \in DOMAIN queue' : i # j => queue'[i] # queue'[j]
      /\ \A t \in Range(queue') :
            \/ t \in Range(queue)
            \/ t = Parts /\ Merge /\ Deferred /\ EntryOfTask(t) = current
      /\ entry.incomplete => \A t \in Range(queue') : EntryOfTask(t) # current
      /\ Merge => \A t \in Range(queue') : EntryOfTask(t) = current => t = Parts
    <2>1. Merge => \A t \in Range(queue) : EntryOfTask(t) # current
        BY <1>1 DEF Queued
    <2>2. CASE queue' = queue /\ ~entry.incomplete
        <3>1. Range(queue') = Range(queue) /\ DOMAIN queue' = DOMAIN queue
            BY <2>2 DEF Range
        <3>2. \A i, j \in DOMAIN queue' : i # j => queue'[i] # queue'[j]
            BY <1>1, <2>2 DEF Queued
        <3> QED
            BY <2>1, <2>2, <3>1, <3>2
    <2>3. CASE queue' = Dropped
        <3>1. Range(queue') = Range(Dropped)
            BY <2>3 DEF Range
        <3> QED
            BY <1>6, <2>3, <3>1
    <2>4. CASE /\ queue' = Append(Dropped, Parts) /\ ~entry.incomplete
               /\ Parts \in Tasks /\ EntryOfTask(Parts) = current
               /\ Merge /\ Deferred
        <3>1. /\ Len(Dropped) \in Nat /\ DOMAIN Dropped = 1 .. Len(Dropped)
              /\ DOMAIN queue' = 1 .. Len(Dropped) + 1
              /\ \A i \in 1 .. Len(Dropped) : queue'[i] = Dropped[i]
              /\ queue'[Len(Dropped) + 1] = Parts
            BY <1>6, <2>4, AppendProperties
        <3>2. \A i \in DOMAIN queue' : i \in DOMAIN Dropped \/ i = Len(Dropped) + 1
            BY <3>1
        <3>3. \A i \in DOMAIN Dropped : Dropped[i] # Parts
            BY <1>6, <2>4 DEF Range
        <3>4. \A i, j \in DOMAIN queue' : i # j => queue'[i] # queue'[j]
            BY <1>6, <3>1, <3>2, <3>3
        <3>5. \A t \in Range(queue') : t \in Range(Dropped) \/ t = Parts
            BY <3>1, <3>2 DEF Range
        <3> QED
            BY <1>6, <2>4, <3>4, <3>5
    <2> QED
        BY <1>3, <2>2, <2>3, <2>4
<1>10. Queued'
    <2>1. ASSUME NEW t \in Range(queue')
          PROVE  /\ Deferred /\ pc'[t] = "queued"
                 /\ \A s \in t : s < at
                 /\ EntryOfTask(t) # None
        <3>1. t \in Tasks /\ EntryOfTask(t) # None
            BY <1>1, <1>2, RangeOfSeq, TaskFacts, NoneFacts
        <3>2. CASE t \in Range(queue)
            BY <1>1, <1>4, <3>1, <3>2 DEF Queued
        <3>3. CASE t = Parts /\ Deferred
            <4>1. t \subseteq SegmentsOf(current)
                BY <1>1, <1>2, <3>3, PartsFacts
            <4> QED
                BY <1>4, <1>5, <1>8, <3>1, <3>3, <4>1
        <3> QED
            BY <1>9, <3>2, <3>3
    <2> QED
        BY <1>4, <1>7, <1>9, <2>1 DEF Queued
<1>11. /\ \A e \in Entries \ {current} : Awaited(e)' \subseteq Awaited(e)
       /\ entry.incomplete => \A e \in Entries : e = current => Awaited(e)' = {}
       /\ Merge => \A e \in Entries : e = current =>
             \A t \in Awaited(e)' : t = parts
    <2>1. \A e, t : t \in Awaited(e)' =>
             t \in Tasks /\ EntryOfTask(t) = e /\ t \in Range(queue')
        BY <1>4, <1>5, AwaitedNext
    <2>2. \A e, t : t \in Tasks /\ EntryOfTask(t) = e /\ t \in Range(queue)
                      => t \in Awaited(e)
        BY <1>1, AwaitedFacts
    <2> QED
        BY <1>2, <1>9, <2>1, <2>2
<1>12. Begun'
    <2>1. \A d : Past(d)' = Past(d) /\ SegmentsOf(d)' = SegmentsOf(d)
        BY <1>4 DEF Past, SegmentsOf
    <2>2. Past(current)
        BY <1>8 DEF Past
    <2>3. captured' \subseteq captured
        BY <1>2
    <2>4. ASSUME NEW e \in Entries,
                 Awaited(e)' # {} \/ captured' \intersect SegmentsOf(e) # {}
          PROVE  Past(e) /\ entries'[e] \in EntryValues
        <3>1. CASE e = current
            BY <1>3, <1>4, <2>2, <3>1
        <3>2. CASE e # current
            <4>1. up
                BY <1>2 DEF Ended
            <4>2. Awaited(e) # {} \/ captured \intersect SegmentsOf(e) # {}
                BY <1>11, <2>3, <2>4, <3>2
            <4>3. Past(e) /\ entries[e] \in EntryValues
                BY <1>1, <3>2, <4>1, <4>2 DEF Begun
            <4> QED
                BY <1>4, <3>2, <4>3
        <3> QED
            BY <3>1, <3>2
    <2>5. \A s \in captured' : s < at
        BY <1>1, <1>2, <2>3 DEF Begun, Ended
    <2> QED
        BY <1>4, <1>7, <2>1, <2>4, <2>5 DEF Begun
<1>13. Alone'
    <2>1. ASSUME Merge, NEW e \in Entries, NEW t \in Awaited(e)', NEW u \in Awaited(e)'
          PROVE  t = u
        <3>1. CASE e = current
            BY <1>11, <2>1, <3>1
        <3>2. CASE e # current
            BY <1>1, <1>11, <2>1, <3>2 DEF Alone
        <3> QED
            BY <3>1, <3>2
    <2> QED
        BY <1>7, <2>1 DEF Alone
<1>14. IncompleteFits'
    <2>1. ASSUME NEW e \in Entries, entries'[e] \in EntryValues,
                 entries'[e].incomplete
          PROVE  Awaited(e)' = {}
        <3>1. CASE e = current
            BY <1>4, <1>11, <2>1, <3>1
        <3>2. CASE e # current
            BY <1>1, <1>4, <1>11, <2>1, <3>2 DEF IncompleteFits
        <3> QED
            BY <3>1, <3>2
    <2> QED
        BY <1>7, <2>1 DEF IncompleteFits
<1>15. Phases'
    BY <1>1, <1>2, <1>4, <1>5, <1>7 DEF Phases, TestsOver, Ended
<1>16. Recording'
    BY <1>4 DEF Recording, Range
<1>17. Chained' /\ ReportsFit'
    BY <1>4, RecordingStep
<1> QED
    BY <1>10, <1>12, <1>13, <1>14, <1>15, <1>16, <1>17 DEF SessionInv

LEMMA KillFacts ==
    ASSUME Kill
    PROVE  /\ queue' = <<>> /\ pc' = [t \in Tasks |-> "queued"] /\ step' = FirstSteps
           /\ published' = [t \in Tasks |-> None]
           /\ completion' = [t \in Tasks |-> None]
           /\ entries' = [e \in Entries |-> None]
           /\ outstanding' = [e \in Entries |-> 0] /\ writes' = <<>>
           /\ setting' = setting /\ files' = files /\ lost' = lost
           /\ journal' = journal /\ torn' = torn /\ captured' = captured
           /\ at' = 1 /\ current' = None /\ recorded' = <<>>
           /\ retain' = None /\ before' = 0
           /\ ~up' /\ ~expected' /\ ~broken' /\ ~threw'
           /\ Range(queue') = {} /\ Range(recorded') = {}
           /\ \A e : Awaited(e)' = {}
<1>1. /\ queue' = <<>> /\ pc' = [t \in Tasks |-> "queued"] /\ step' = FirstSteps
      /\ published' = [t \in Tasks |-> None]
      /\ completion' = [t \in Tasks |-> None]
      /\ entries' = [e \in Entries |-> None]
      /\ outstanding' = [e \in Entries |-> 0] /\ writes' = <<>>
      /\ setting' = setting /\ files' = files /\ lost' = lost
      /\ journal' = journal /\ torn' = torn /\ captured' = captured
      /\ at' = 1 /\ current' = None /\ recorded' = <<>>
      /\ retain' = None /\ before' = 0
    BY DEF Kill, Crash, ForEach, NoEntries
<1>2. ~up' /\ ~expected' /\ ~broken' /\ ~threw'
    BY DEF Kill, Crash
<1>3. Range(queue') = {} /\ Range(recorded') = {}
    BY <1>1 DEF Range
<1>4. \A e, t : t \notin Awaited(e)'
    BY <1>1, <1>3, AwaitedNext
<1> QED
    BY <1>1, <1>2, <1>3, <1>4

LEMMA KillSession ==
    ASSUME BaseInv, Kill
    PROVE  SessionInv'
<1>1. /\ queue' = <<>> /\ pc' = [t \in Tasks |-> "queued"] /\ step' = FirstSteps
      /\ published' = [t \in Tasks |-> None]
      /\ entries' = [e \in Entries |-> None]
      /\ outstanding' = [e \in Entries |-> 0] /\ writes' = <<>>
      /\ setting' = setting /\ captured' = captured
      /\ current' = None /\ recorded' = <<>> /\ retain' = None
      /\ ~up' /\ ~expected' /\ ~broken'
      /\ Range(queue') = {} /\ Range(recorded') = {}
      /\ \A e : Awaited(e)' = {}
    BY KillFacts
<1>2. /\ Tasks' = Tasks /\ Merge' = Merge /\ FirstSteps' = FirstSteps
    BY <1>1, SameSetting
<1>3. Phases'
    BY <1>1, <1>2 DEF Phases
<1>4. Recording'
    BY <1>1 DEF Recording
<1>5. Queued'
    BY <1>1 DEF Queued
<1>6. Begun'
    BY <1>1 DEF Begun
<1>7. Alone'
    BY <1>1 DEF Alone
<1>8. IncompleteFits'
    BY <1>1 DEF IncompleteFits
<1>9. Chained'
    BY <1>1 DEF Chained
<1>10. ReportsFit'
    BY <1>1, <1>2 DEF ReportsFit, Answered
<1> QED
    BY <1>3, <1>4, <1>5, <1>6, <1>7, <1>8, <1>9, <1>10 DEF SessionInv

\* What the session depends on.
LEMMA SessionUntouched ==
    ASSUME SessionInv, setting' = setting, up' = up, expected' = expected,
           queue' = queue, pc' = pc, step' = step, published' = published,
           completion' = completion, entries' = entries, writes' = writes,
           outstanding' = outstanding, UNCHANGED recording
    PROVE  SessionInv'
<1>1. /\ at' = at /\ current' = current /\ recorded' = recorded
      /\ broken' = broken /\ retain' = retain /\ captured' = captured
    BY DEF recording, session
<1>2. /\ EntryValues' = EntryValues /\ FirstSteps' = FirstSteps /\ Tasks' = Tasks
      /\ Interrupted' = Interrupted /\ Deferred' = Deferred /\ Merge' = Merge
      /\ Report' = Report
      /\ \A d : Past(d)' = Past(d)
      /\ \A t : EntryOfTask(t)' = EntryOfTask(t)
      /\ \A e : Awaited(e)' = Awaited(e)
    BY <1>1, SameSetting, AwaitedSame DEF Past, Interrupted, EntryOfTask
<1>3. Phases'
    BY <1>1, <1>2 DEF SessionInv, Phases, TestsOver
<1>4. Recording'
    BY <1>1, <1>2 DEF SessionInv, Recording
<1>5. Queued'
    BY <1>1, <1>2 DEF SessionInv, Queued
<1>6. Begun'
    BY <1>1, <1>2 DEF SessionInv, Begun
<1>7. Alone' /\ IncompleteFits'
    BY <1>2 DEF SessionInv, Alone, IncompleteFits
<1>8. Chained'
    BY DEF SessionInv, Chained
<1>9. ReportsFit'
    BY <1>2 DEF SessionInv, ReportsFit, Answered
<1> QED
    BY <1>3, <1>4, <1>5, <1>6, <1>7, <1>8, <1>9 DEF SessionInv

LEMMA InitSession ==
    ASSUME SegmentInit
    PROVE  SessionInv
<1>1. /\ up /\ queue = <<>> /\ expected = FALSE /\ writes = <<>>
      /\ pc = [t \in Tasks |-> "queued"] /\ step = FirstSteps
      /\ published = [t \in Tasks |-> None]
      /\ entries = [e \in Entries |-> None]
      /\ outstanding = [e \in Entries |-> 0]
      /\ current = None /\ recorded = <<>> /\ broken = FALSE
      /\ retain = None /\ captured = {} /\ setting \in Settings
    BY DEF SegmentInit, Init, ForEach, NoEntries
<1>2. Range(queue) = {} /\ Range(recorded) = {}
    BY <1>1 DEF Range
<1>3. \A e : Awaited(e) = {}
    <2>1. \A e, t : t \notin Awaited(e)
        BY <1>1, <1>2, AwaitedFacts
    <2> QED
        BY <2>1
<1>4. Phases
    BY <1>1 DEF Phases
<1>5. Recording
    BY <1>1, <1>2 DEF Recording
<1>6. Queued
    BY <1>1, <1>2 DEF Queued
<1>7. Begun
    BY <1>1, <1>3 DEF Begun
<1>8. Alone /\ IncompleteFits
    BY <1>3 DEF Alone, IncompleteFits
<1>9. Chained
    BY <1>1 DEF Chained
<1>10. ReportsFit
    BY <1>1 DEF ReportsFit, Answered
<1> QED
    BY <1>4, <1>5, <1>6, <1>7, <1>8, <1>9, <1>10 DEF SessionInv

LEMMA LoseInputFacts ==
    ASSUME MediaTypes, NEW s \in Losable, LoseInput(s)
    PROVE  /\ s \in Segments /\ up /\ Deferred /\ Raw(s) \in files
           /\ \A t \in Tasks : s \in t => pc[t] = "queued"
           /\ setting' = setting /\ up' = up /\ queue' = queue
           /\ expected' = expected /\ step' = step /\ published' = published
           /\ pc' = pc /\ completion' = completion /\ entries' = entries
           /\ outstanding' = outstanding /\ writes' = writes
           /\ journal' = journal /\ torn' = torn
           /\ files' = files \ {Raw(s)} /\ lost' = lost \union {s}
<1>1. s \in Segments
    BY SettingFacts DEF MediaTypes, DeferredTypes
<1> QED
    BY <1>1 DEF LoseInput, manifest, journaling

LEMMA BaseStep ==
    ASSUME BaseInv, [Next]_mediaVars
    PROVE  BaseInv'
<1>1. MediaTypes /\ SessionInv
    BY DEF BaseInv
<1>2. CASE Next
    <2>1. MediaTypes'
        BY <1>2, BaseTypes
    <2>2. SessionInv'
        <3>1. CASE Record
            BY <3>1, BeginSession, StopSession, StartFinalizeSession,
               CompletingSession DEF Record
        <3>2. CASE Teardown
            <4>1. TestsOver /\ UNCHANGED recording
                BY <3>2 DEF Teardown
            <4>2. \/ Flush \/ Take \/ Write
                  \/ \E t \in Tasks : Operation(t) \/ CompleteDeferred(t)
                BY <3>2 DEF Teardown, TaskStep, Operation
            <4> QED
                BY <4>1, <4>2, FlushSession, TakeSession, WriteSession,
                   OperationSession, CompleteDeferredSession
        <3>3. CASE Done
            <4>1. /\ setting' = setting /\ up' = up /\ expected' = expected
                  /\ queue' = queue /\ pc' = pc /\ step' = step
                  /\ published' = published /\ completion' = completion
                  /\ entries' = entries /\ writes' = writes
                  /\ outstanding' = outstanding /\ UNCHANGED recording
                BY <3>3 DEF Done, mediaVars, vars, media, manifest, journaling
            <4> QED
                BY <1>1, <4>1, SessionUntouched
        <3>4. CASE Kill
            BY <3>4, KillSession
        <3>5. ASSUME NEW s \in Losable, LoseInput(s), UNCHANGED recording
              PROVE  SessionInv'
            <4>1. /\ setting' = setting /\ up' = up /\ expected' = expected
                  /\ queue' = queue /\ pc' = pc /\ step' = step
                  /\ published' = published /\ completion' = completion
                  /\ entries' = entries /\ writes' = writes
                  /\ outstanding' = outstanding
                BY <1>1, <3>5, LoseInputFacts
            <4> QED
                BY <1>1, <3>5, <4>1, SessionUntouched
        <3> QED
            BY <1>2, <3>1, <3>2, <3>3, <3>4, <3>5 DEF Next
    <2> QED
        BY <2>1, <2>2 DEF BaseInv
<1>3. CASE UNCHANGED mediaVars
    <2>1. /\ setting' = setting /\ up' = up /\ expected' = expected
          /\ queue' = queue /\ pc' = pc /\ step' = step
          /\ published' = published /\ completion' = completion
          /\ entries' = entries /\ writes' = writes /\ files' = files
          /\ lost' = lost /\ journal' = journal /\ torn' = torn
          /\ outstanding' = outstanding /\ UNCHANGED recording
        BY <1>3 DEF mediaVars, vars, media, manifest, journaling
    <2>2. SessionInv'
        BY <1>1, <2>1, SessionUntouched
    <2>3. DeferredTypes'
        BY <1>1, <2>1, DeferredTypesNext DEF MediaTypes, DeferredTypes
    <2>4. MediaTypes'
        BY <1>1, <2>1, <2>3, SessionUnchanged DEF MediaTypes
    <2> QED
        BY <2>2, <2>4 DEF BaseInv
<1> QED
    BY <1>2, <1>3

\* What is recorded, queued and processed keeps its form: a recording files its
\* segments in order, the tasks of a worker wait until its tests are over, and
\* an entry that is awaited has been completed.
THEOREM BaseHolds == Spec => []BaseInv
<1>1. SegmentInit => BaseInv
    BY InitTypes, InitSession DEF BaseInv
<1>2. BaseInv /\ [Next]_mediaVars => BaseInv'
    BY BaseStep
<1> QED
    BY <1>1, <1>2, PTL DEF Spec

----------------------------------------------------------------------------
(* Segments whose capture failed.                                          *)

LEMMA RangeOfAppend ==
    ASSUME NEW S, NEW list \in Seq(S), NEW x \in S
    PROVE  Range(Append(list, x)) = Range(list) \union {x}
<1>1. /\ Len(list) \in Nat /\ DOMAIN list = 1 .. Len(list)
      /\ DOMAIN Append(list, x) = 1 .. Len(list) + 1
      /\ \A i \in 1 .. Len(list) : Append(list, x)[i] = list[i]
      /\ Append(list, x)[Len(list) + 1] = x
    BY AppendProperties
<1>2. 1 .. Len(list) + 1 = (1 .. Len(list)) \union {Len(list) + 1}
    BY <1>1
<1> QED
    BY <1>1, <1>2 DEF Range

\* The entry of a failed capture, once its recording is over.
Marked(e) ==
    Past(e) /\ entries[e] \in EntryValues /\ entries[e].outcome = "failed"

\* Nothing touches a segment whose capture failed but its deletion: its
\* recording is broken until the entry is marked, and no task contains it.
Unprocessed ==
    /\ \A s \in partial : \A f \in files : s \in f.of => f = Raw(s)
    /\ up => \A f \in files : \A r \in f.of : r < at
    /\ up => \A s \in partial :
          /\ s < at
          /\ EntryOf[s] = current => broken
          /\ EntryOf[s] # current => Marked(EntryOf[s])
          /\ Merge => Awaited(EntryOf[s]) = {}
          /\ \A t \in Awaited(EntryOf[s]) : s \notin t

PartialInv == partial \subseteq Segments /\ Unprocessed

\* Steps that record nothing: those of a task write files of its own segments
\* only, and leave a failed entry failed.
LEMMA PartialKept ==
    ASSUME BaseInv, PartialInv, setting' = setting, up' = up,
           at' = at, current' = current, broken' = broken, partial' = partial,
           \A e : Awaited(e)' \subseteq Awaited(e),
           \A f \in files' : f \in files \/
              (up /\ \E e \in Entries \ {current} : f.of \in Awaited(e)),
           \A e \in Entries : entries'[e] = entries[e] \/
              /\ Awaited(e) # {} /\ entries'[e] \in EntryValues
              /\ ~Merge /\ entries[e].outcome = "failed" =>
                    entries'[e].outcome = "failed"
    PROVE  PartialInv'
<1>1. /\ setting \in Settings /\ Begun
      /\ EntryValues' = EntryValues /\ Merge' = Merge
    BY SameSetting DEF BaseInv, SessionInv, MediaTypes, DeferredTypes
<1>2. \A s \in partial : s \in Segments /\ EntryOf[s] \in Entries
    BY SegmentFacts DEF PartialInv
<1>3. ASSUME NEW f \in files', f \notin files
      PROVE  up /\ \E e \in Entries \ {current} : Past(e) /\ f.of \in Awaited(e)
    BY <1>1, <1>3 DEF Begun
<1>4. ASSUME NEW s \in partial, NEW f \in files', s \in f.of
      PROVE  f = Raw(s)
    <2>1. CASE f \in files
        BY <1>4, <2>1 DEF PartialInv, Unprocessed
    <2>2. CASE f \notin files
        <3>1. PICK e \in Entries : f.of \in Awaited(e)
            BY <1>3, <2>2
        <3>2. e = EntryOf[s]
            BY <1>1, <1>4, <3>1, AwaitedFacts DEF SegmentsOf
        <3> QED
            BY <1>3, <1>4, <2>2, <3>1, <3>2 DEF PartialInv, Unprocessed
    <2> QED
        BY <2>1, <2>2
<1>5. ASSUME up, NEW f \in files', NEW r \in f.of
      PROVE  r < at
    <2>1. CASE f \in files
        BY <1>5, <2>1 DEF PartialInv, Unprocessed
    <2>2. CASE f \notin files
        BY <1>1, <1>3, <1>5, <2>2, AwaitedFacts DEF Past
    <2> QED
        BY <2>1, <2>2
<1>6. ASSUME up, NEW s \in partial, EntryOf[s] # current
      PROVE  entries'[EntryOf[s]] \in EntryValues /\ entries'[EntryOf[s]].outcome = "failed"
    <2>1. Marked(EntryOf[s]) /\ (Merge => Awaited(EntryOf[s]) = {})
        BY <1>6 DEF PartialInv, Unprocessed
    <2> QED
        BY <1>2, <1>6, <2>1 DEF Marked
<1>7. \A e : Past(e)' = Past(e)
    BY DEF Past, SegmentsOf
<1>8. ASSUME up, NEW s \in partial
      PROVE  /\ s < at
             /\ EntryOf[s] = current => broken
             /\ EntryOf[s] # current => Past(EntryOf[s])
             /\ Merge => Awaited(EntryOf[s])' = {}
             /\ \A t \in Awaited(EntryOf[s])' : s \notin t
    BY <1>8 DEF PartialInv, Unprocessed, Marked
<1>9. \A s \in partial : \A f \in files' : s \in f.of => f = Raw(s)'
    BY <1>4 DEF Raw
<1> QED
    BY <1>1, <1>5, <1>6, <1>7, <1>8, <1>9 DEF PartialInv, Unprocessed, Marked

LEMMA BeginPartial ==
    ASSUME BaseInv, PartialInv, Begin
    PROVE  PartialInv'
<1>1. /\ setting \in Settings /\ current = None /\ at \in Segments /\ up
      /\ entries \in [Entries -> EntryValues \union {None}]
    BY DEF BaseInv, MediaTypes, DeferredTypes, Begin
<1>2. /\ setting' = setting /\ up' = up /\ at' = at /\ files' = files
      /\ broken' = broken /\ partial' = partial /\ current' = EntryOf[at]
      /\ queue' = queue /\ pc' = pc
      /\ entries' = [entries EXCEPT ![EntryOf[at]] = Interrupted]
    BY DEF Begin, flushing
<1>3. \A e : Awaited(e)' = Awaited(e)
    BY <1>2, AwaitedSame
<1>4. EntryValues' = EntryValues /\ Merge' = Merge
    BY <1>2, SameSetting
<1>5. \A e : Past(e)' = Past(e)
    BY <1>2 DEF Past, SegmentsOf
<1>6. ASSUME NEW s \in partial
      PROVE  /\ s \in Segments /\ EntryOf[s] \in Entries
             /\ Marked(EntryOf[s]) /\ EntryOf[s] # EntryOf[at]
    <2>1. s \in Segments /\ EntryOf[s] \in Entries
        BY SegmentFacts DEF PartialInv
    <2>2. Marked(EntryOf[s])
        BY <1>1, <2>1, NoneFacts DEF PartialInv, Unprocessed
    <2>3. at \notin SegmentsOf(EntryOf[s])
        BY <1>1, <2>2, SegmentFacts DEF Marked, Past
    <2> QED
        BY <1>1, <2>1, <2>2, <2>3 DEF SegmentsOf
<1>7. ASSUME NEW s \in partial
      PROVE  entries'[EntryOf[s]] = entries[EntryOf[s]]
    BY <1>1, <1>2, <1>6, <1>7
<1>8. \A s : Raw(s)' = Raw(s)
    BY DEF Raw
<1> QED
    BY <1>1, <1>2, <1>3, <1>4, <1>5, <1>6, <1>7, <1>8
       DEF PartialInv, Unprocessed, Marked

\* The segment that stops: when its capture failed, the recording is broken,
\* and nothing is queued or made of it.
LEMMA StopPartial ==
    ASSUME BaseInv, PartialInv, NEW s \in Segments, Stop(s)
    PROVE  PartialInv'
<1>1. /\ setting \in Settings /\ Queued /\ Begun /\ at \in Nat /\ MediaTypes
      /\ broken \in BOOLEAN /\ queue \in Seq(Tasks) /\ files \subseteq Files
    BY DEF BaseInv, SessionInv, MediaTypes, DeferredTypes, SessionTypes
<1>2. /\ up /\ current \in Entries /\ s = at /\ EntryOf[s] = current
      /\ at' = at + 1 /\ current' = current /\ setting' = setting /\ up' = up
      /\ entries' = entries /\ pc' = pc /\ broken' \in BOOLEAN
      /\ \E added \in SUBSET {Raw(s), Final({s})} : files' = files \union added
      /\ \/ queue' = queue
         \/ queue' = Append(queue, {s}) /\ ~Merge
    BY <1>1, StopFacts
<1>3. PICK clean \in BOOLEAN :
         /\ broken' = (broken \/ ~clean)
         /\ partial' = IF clean THEN partial ELSE partial \union {s}
         /\ ~clean => queue' = queue /\ files' \subseteq files \union {Raw(s)}
    BY DEF Stop, Healthy, NoFile, Uninspectable, Empty, Leave
<1>4. /\ EntryValues' = EntryValues /\ Merge' = Merge
      /\ \A r : Raw(r)' = Raw(r)
    BY <1>2, SameSetting DEF Raw
<1>5. /\ \A t \in Tasks : pc[t] = "queued"
      /\ \A t \in Range(queue) : t \in Tasks /\ \A r \in t : r < s
      /\ Merge => \A t \in Range(queue) : EntryOfTask(t) # current
    BY <1>1, <1>2, BaseFacts, RangeOfSeq DEF Queued
<1>6. \A t : t \in Range(queue') => t \in Range(queue) \/ (t = {s} /\ ~Merge)
    <2>1. CASE queue' = Append(queue, {s}) /\ ~Merge
        <3>1. queue \in Seq(Tasks)
            BY <1>1
        <3>2. \A u \in Tasks : Range(Append(queue, u)) = Range(queue) \union {u}
            BY <3>1, RangeOfAppend, Zenon
        <3>3. {s} \in Tasks
            BY <1>1, TaskSetFacts
        <3>4. Range(queue') = Range(queue) \union {{s}}
            BY <2>1, <3>2, <3>3
        <3> QED
            BY <2>1, <3>4
    <2> QED
        BY <1>2, <2>1
<1>7. ASSUME NEW e, NEW t \in Awaited(e)'
      PROVE  t \in Awaited(e) \/ (t = {s} /\ ~Merge /\ clean)
    BY <1>1, <1>2, <1>3, <1>5, <1>6, <1>7, AwaitedNext, AwaitedFacts
<1>8. \A r \in partial : r \in Segments /\ r < s /\ r # s
    BY <1>1, <1>2, SegmentFacts DEF PartialInv, Unprocessed
<1>9. \A f \in files : f.of \subseteq Segments /\ \A r \in f.of : r < s /\ r # s
    <2>1. \A f \in files : f.of \subseteq Segments
        BY <1>1, FilesFacts
    <2> QED
        BY <1>1, <1>2, <2>1, SegmentFacts DEF PartialInv, Unprocessed
<1>10. /\ Raw(s).of = {s} /\ Final({s}).of = {s}
       /\ s \in Nat /\ at = s /\ s < at + 1
       /\ \A r \in Segments : r < s => r < at + 1
    <2>1. s \in Nat /\ at = s /\ s < at + 1
        BY <1>2, SegmentFacts
    <2>2. \A r \in Segments : r \in Nat
        BY SegmentFacts
    <2>3. \A r \in Segments : r < s => r < at + 1
        BY <2>1, <2>2
    <2> QED
        BY <2>1, <2>3 DEF Raw, Final
<1>11. ASSUME NEW r \in partial', NEW f \in files', r \in f.of
       PROVE  f = Raw(r)
    <2>1. CASE f \in files
        BY <1>3, <1>9, <1>11, <2>1 DEF PartialInv, Unprocessed
    <2>2. CASE f \notin files
        <3>1. f.of = {s} /\ (~clean => f = Raw(s))
            BY <1>2, <1>3, <1>10, <1>11, <2>2
        <3>2. r = s
            BY <1>11, <3>1
        <3> QED
            BY <1>3, <1>8, <1>11, <3>1, <3>2
    <2> QED
        BY <2>1, <2>2
<1>12. ASSUME NEW f \in files', NEW r \in f.of
       PROVE  r < at + 1
    <2>1. r = s \/ (r < s /\ r \in Segments)
        BY <1>2, <1>9, <1>10, <1>12
    <2> QED
        BY <1>10, <2>1
<1>13. ASSUME NEW r \in partial
       PROVE  /\ r < at + 1
              /\ EntryOf[r] = current => broken'
              /\ EntryOf[r] # current => Marked(EntryOf[r])'
              /\ Merge => Awaited(EntryOf[r])' = {}
              /\ \A t \in Awaited(EntryOf[r])' : r \notin t
    <2>1. /\ EntryOf[r] = current => broken
          /\ EntryOf[r] # current => Marked(EntryOf[r])
          /\ Merge => Awaited(EntryOf[r]) = {}
          /\ \A t \in Awaited(EntryOf[r]) : r \notin t
        BY <1>2 DEF PartialInv, Unprocessed
    <2>2. r < at + 1
        BY <1>8, <1>10
    <2>3. EntryOf[r] = current => broken'
        BY <1>3, <2>1
    <2>4. ASSUME Past(EntryOf[r])
          PROVE  Past(EntryOf[r])'
        <3>1. \A q \in SegmentsOf(EntryOf[r]) : q \in Nat /\ q < at
            BY <2>4, SegmentFacts DEF Past, SegmentsOf
        <3> QED
            BY <1>1, <1>2, <3>1 DEF Past, SegmentsOf
    <2>5. EntryOf[r] # current => Marked(EntryOf[r])'
        BY <1>2, <1>4, <2>1, <2>4 DEF Marked
    <2>6. Merge => Awaited(EntryOf[r])' = {}
        BY <1>7, <2>1
    <2>7. \A t \in Awaited(EntryOf[r])' : r \notin t
        BY <1>7, <1>8, <2>1
    <2> QED
        BY <2>2, <2>3, <2>5, <2>6, <2>7
<1>14. ASSUME ~clean
       PROVE  /\ s < at + 1 /\ EntryOf[s] = current /\ broken'
              /\ Merge => Awaited(EntryOf[s])' = {}
              /\ \A t \in Awaited(EntryOf[s])' : s \notin t
    <2>1. \A t \in Awaited(EntryOf[s])' : t \in Awaited(EntryOf[s]) /\ t \in Range(queue)
        BY <1>1, <1>5, <1>7, <1>14, AwaitedFacts
    <2>2. Merge => Awaited(EntryOf[s])' = {}
        BY <1>1, <1>2, <1>5, <2>1, AwaitedFacts
    <2>3. \A t \in Awaited(EntryOf[s])' : s \notin t
        BY <1>1, <1>2, <1>5, <2>1
    <2> QED
        BY <1>2, <1>3, <1>10, <1>14, <2>2, <2>3
<1>15. \A r \in partial' : r \in partial \/ (r = s /\ ~clean)
    BY <1>3
<1>16. partial' \subseteq Segments
    BY <1>8, <1>15
<1>17. ASSUME NEW r \in partial'
       PROVE  /\ r < at'
              /\ EntryOf[r] = current' => broken'
              /\ EntryOf[r] # current' => Marked(EntryOf[r])'
              /\ Merge' => Awaited(EntryOf[r])' = {}
              /\ \A t \in Awaited(EntryOf[r])' : r \notin t
    <2>1. CASE r \in partial
        BY <1>2, <1>4, <1>13, <2>1
    <2>2. CASE r = s /\ ~clean
        BY <1>2, <1>4, <1>14, <2>2
    <2> QED
        BY <1>15, <1>17, <2>1, <2>2
<1> QED
    BY <1>2, <1>4, <1>11, <1>12, <1>16, <1>17 DEF PartialInv, Unprocessed

\* A recording that ends marks its entry when a capture failed.
LEMMA EndMarks ==
    ASSUME MediaTypes, Recording,
           FinalizeFailed \/ Discard \/ KeepIncomplete \/ KeepSegments \/ MergeNow
    PROVE  /\ partial' = partial
           /\ broken => /\ entries'[current].outcome = "failed"
                        /\ files' \subseteq files
                        /\ queue' \in {queue, Dropped}
           /\ \A f \in files' : f \in files \/ f.of = Parts
<1>1. /\ current \in Entries
      /\ entries \in [Entries -> EntryValues \union {None}]
    BY Completing DEF MediaTypes, DeferredTypes
<1>2. ASSUME NEW entry, Complete(entry)
      PROVE  partial' = partial /\ entries'[current] = entry
    BY <1>1, <1>2 DEF Complete
<1>3. CASE FinalizeFailed
    BY <1>2, <1>3 DEF FinalizeFailed, Interrupted
<1>4. CASE Discard
    BY <1>2, <1>4 DEF Discard, CompletedEntry, Dropped
<1>5. CASE KeepIncomplete
    BY <1>2, <1>5 DEF KeepIncomplete, CompletedEntry, Dropped
<1>6. CASE KeepSegments
    BY <1>2, <1>6 DEF KeepSegments, Kept
<1>7. CASE MergeNow
    <2>1. ~broken /\ partial' = partial
        BY <1>2, <1>7 DEF MergeNow, Kept
    <2>2. files' \subseteq files \union {Merged(Parts)}
        BY <1>7 DEF MergeNow
    <2> QED
        BY <2>1, <2>2 DEF Merged
<1> QED
    BY <1>3, <1>4, <1>5, <1>6, <1>7

LEMMA CompletingPartial ==
    ASSUME BaseInv, PartialInv,
           FinalizeFailed \/ Discard \/ KeepIncomplete \/ KeepSegments \/ MergeNow
    PROVE  PartialInv'
<1>1. /\ MediaTypes /\ Recording /\ setting \in Settings /\ queue \in Seq(Tasks)
      /\ at \in Nat
    BY DEF BaseInv, SessionInv, MediaTypes, DeferredTypes, SessionTypes
<1>2. /\ Ended /\ current \in Entries
      /\ partial' = partial
      /\ broken => /\ entries'[current].outcome = "failed"
                   /\ files' \subseteq files
                   /\ queue' \in {queue, Dropped}
      /\ \A f \in files' : f \in files \/ f.of = Parts
    BY <1>1, Completing, EndMarks
<1>3. PICK entry \in EntryValues :
         /\ Complete(entry)
         /\ \/ queue' = queue
            \/ queue' = Dropped
            \/ /\ queue' = Append(Dropped, Parts)
               /\ Parts \in Tasks /\ EntryOfTask(Parts) = current
    BY <1>1, Completing
<1>4. /\ setting' = setting /\ up' = up /\ pc' = pc /\ at' = at
      /\ current' = None /\ broken' = FALSE
      /\ entries'[current] = entry
      /\ \A e \in Entries \ {current} : entries'[e] = entries[e]
    BY <1>1, <1>2, <1>3, CompleteFacts
<1>5. /\ EntryValues' = EntryValues /\ Merge' = Merge
      /\ \A r : Raw(r)' = Raw(r)
      /\ \A e : Past(e)' = Past(e)
    BY <1>4, SameSetting DEF Raw, Past, SegmentsOf
<1>6. up /\ Past(current)
    BY <1>1, <1>2, SegmentFacts DEF Ended, SegmentsToCome, Past, SegmentsOf
<1>7. /\ Dropped \in Seq(Tasks) /\ Range(Dropped) \subseteq Range(queue)
    BY DroppedFacts
<1>8. \A t : t \in Range(queue') =>
         t \in Range(queue) \/ (t = Parts /\ EntryOfTask(t) = current /\ ~broken)
    <2>1. CASE queue' \in {queue, Dropped}
        BY <1>7, <2>1
    <2>2. CASE queue' \notin {queue, Dropped}
        <3>1. queue' = Append(Dropped, Parts) /\ Parts \in Tasks
            BY <1>3, <2>2
        <3>2. Range(Append(Dropped, Parts)) = Range(Dropped) \union {Parts}
            BY <1>7, <3>1, RangeOfAppend
        <3> QED
            BY <1>2, <1>3, <1>7, <2>2, <3>1, <3>2
    <2> QED
        BY <2>1, <2>2
<1>9. ASSUME NEW s \in partial, NEW t \in Awaited(EntryOf[s])'
      PROVE  t \in Awaited(EntryOf[s])
    <2>1. EntryOf[s] = current => broken
        BY <1>6 DEF PartialInv, Unprocessed
    <2>2. EntryOfTask(t) = EntryOf[s] /\ t \in Tasks
        BY <1>4, <1>9, AwaitedNext
    <2> QED
        BY <1>1, <1>4, <1>8, <1>9, <2>1, <2>2, AwaitedNext, AwaitedFacts
<1>10. \A s \in partial : s \in Segments /\ EntryOf[s] \in Entries
    BY SegmentFacts DEF PartialInv
<1>11. \A r \in Parts : r \in Segments /\ EntryOf[r] = current /\ r < at
    BY <1>1, <1>2, <1>6, PartsFacts DEF SegmentsOf, Past
<1>12. ASSUME NEW s \in partial, NEW f \in files', s \in f.of
       PROVE  f = Raw(s)
    <2>1. f \in files
        BY <1>2, <1>6, <1>11, <1>12 DEF PartialInv, Unprocessed
    <2> QED
        BY <1>12, <2>1 DEF PartialInv, Unprocessed
<1>13. \A f \in files' : \A r \in f.of : r < at
    BY <1>2, <1>6, <1>11 DEF PartialInv, Unprocessed
<1>14. ASSUME NEW s \in partial
       PROVE  /\ s < at
              /\ EntryOf[s] # None /\ Marked(EntryOf[s])'
              /\ Merge => Awaited(EntryOf[s])' = {}
              /\ \A t \in Awaited(EntryOf[s])' : s \notin t
    <2>1. /\ s < at
          /\ EntryOf[s] = current => broken
          /\ EntryOf[s] # current => Marked(EntryOf[s])
          /\ Merge => Awaited(EntryOf[s]) = {}
          /\ \A t \in Awaited(EntryOf[s]) : s \notin t
        BY <1>6 DEF PartialInv, Unprocessed
    <2>2. Marked(EntryOf[s])'
        <3>1. CASE EntryOf[s] = current
            BY <1>2, <1>3, <1>4, <1>5, <1>6, <2>1, <3>1 DEF Marked
        <3>2. CASE EntryOf[s] # current
            BY <1>4, <1>5, <1>10, <2>1, <3>2 DEF Marked
        <3> QED
            BY <3>1, <3>2
    <2> QED
        BY <1>9, <1>10, <2>1, <2>2, NoneFacts
<1> QED
    BY <1>2, <1>4, <1>5, <1>6, <1>10, <1>12, <1>13, <1>14
       DEF PartialInv, Unprocessed

LEMMA KillPartial ==
    ASSUME PartialInv, Kill
    PROVE  PartialInv'
<1>1. ~up' /\ files' = files /\ partial' = partial
    BY KillFacts DEF Kill
<1> QED
    BY <1>1 DEF PartialInv, Unprocessed, Raw

\* A task publishes what holds its own segments.
LEMMA OperationPublishes ==
    ASSUME NEW t \in Tasks, Operation(t)
    PROVE  \A f \in files' : f \in files \/ f.of = t
<1>1. Output(t).of = t
    BY DEF Output, Merged, Final
<1>2. CASE Process(t)
    BY <1>1, <1>2 DEF Process
<1>3. CASE CheckInput(t) \/ RemoveInputs(t) \/ Finish(t) \/ Throw(t)
    BY <1>3 DEF CheckInput, RemoveInputs, Finish, Throw, media
<1> QED
    BY <1>2, <1>3 DEF Operation

LEMMA TeardownPartial ==
    ASSUME BaseInv, PartialInv, Teardown
    PROVE  PartialInv'
<1>1. /\ MediaTypes /\ SettlingFits /\ setting \in Settings /\ current = None
      /\ \A t \in Tasks : pc[t] # "queued" => up
      /\ pc \in [Tasks -> Locations]
    BY BaseFacts DEF BaseInv, MediaTypes, DeferredTypes, Teardown, TestsOver
<1>2. /\ at' = at /\ current' = current /\ broken' = broken /\ partial' = partial
    BY DEF Teardown, recording, session
<1>3. CASE Flush
    <2>1. /\ setting' = setting /\ up' = up /\ queue' = queue /\ pc' = pc
          /\ files' = files /\ entries' = entries
        BY <1>3 DEF Flush
    <2>2. \A e : Awaited(e)' = Awaited(e)
        BY <2>1, AwaitedSame
    <2> QED
        BY <1>2, <2>1, <2>2, PartialKept
<1>4. CASE Take
    <2>1. /\ setting' = setting /\ up' = up /\ files' = files /\ entries' = entries
          /\ \A t \in Tasks : (t \in Range(queue') \/ pc'[t] # "queued")
                                 => (t \in Range(queue) \/ pc[t] # "queued")
        BY <1>1, <1>4, TakeFacts
    <2>2. \A e : Awaited(e)' \subseteq Awaited(e)
        BY <1>1, <2>1, AwaitedNext, AwaitedFacts
    <2> QED
        BY <1>2, <2>1, <2>2, PartialKept
<1>5. CASE Write
    <2>1. /\ setting' = setting /\ up' = up /\ files' = files /\ entries' = entries
          /\ queue' = queue
        BY <1>1, <1>5, WriteFacts
    <2>2. \A t \in Tasks : pc'[t] # "queued" => pc[t] # "queued"
        <3> PICK u : u = Head(writes).task
            OBVIOUS
        <3>1. writes # <<>> /\ u \in Tasks /\ pc' = [pc EXCEPT ![u] = "done"]
            BY <1>1, <1>5, WriteFacts
        <3>2. 1 \in DOMAIN writes /\ Head(writes) = writes[1]
            BY <1>1, <3>1, LineFacts DEF MediaTypes, DeferredTypes
        <3>3. pc[u] = "journaling"
            BY <3>2 DEF BaseInv, SessionInv, Chained
        <3> QED
            BY <1>1, <3>1, <3>3
    <2>3. \A e : Awaited(e)' \subseteq Awaited(e)
        BY <1>1, <2>1, <2>2, AwaitedNext, AwaitedFacts
    <2> QED
        BY <1>2, <2>1, <2>3, PartialKept
<1>6. ASSUME NEW t \in Tasks, Operation(t)
      PROVE  PartialInv'
    <2>1. /\ setting' = setting /\ up' = up /\ entries' = entries /\ queue' = queue
          /\ pc[t] # "queued" /\ \A u \in Tasks \ {t} : pc'[u] = pc[u]
        BY <1>1, <1>6, OperationFacts
    <2>2. \A e : Awaited(e)' \subseteq Awaited(e)
        BY <1>1, <2>1, AwaitedNext, AwaitedFacts
    <2>3. EntryOfTask(t) \in Entries /\ t \in Awaited(EntryOfTask(t))
        BY <1>1, <2>1, TaskFacts, AwaitedFacts
    <2>4. \A f \in files' : f \in files \/ f.of \in Awaited(EntryOfTask(t))
        BY <1>6, <2>3, OperationPublishes
    <2> QED
        BY <1>1, <1>2, <2>1, <2>2, <2>3, <2>4, NoneFacts, PartialKept
<1>7. ASSUME NEW t \in Tasks, CompleteDeferred(t)
      PROVE  PartialInv'
    <2> PICK e, left, updated :
            /\ e = EntryOfTask(t)
            /\ left = IF outstanding[e] > 0 THEN outstanding[e] - 1 ELSE 0
            /\ updated = Settled(e, entries[e], t, left)
        OBVIOUS
    <2>1. /\ setting' = setting /\ up' = up /\ files' = files /\ queue' = queue
          /\ e \in Entries /\ updated \in EntryValues
          /\ pc[t] = "completing" /\ \A u \in Tasks \ {t} : pc'[u] = pc[u]
          /\ entries'[e] = updated
          /\ \A d \in Entries \ {e} : entries'[d] = entries[d]
        BY <1>1, <1>7, CompleteDeferredFacts
    <2>2. \A d : Awaited(d)' \subseteq Awaited(d)
        BY <1>1, <2>1, AwaitedNext, AwaitedFacts
    <2>3. Awaited(e) # {}
        BY <1>1, <2>1, AwaitedFacts
    <2>4. ~Merge /\ entries[e].outcome = "failed" => updated.outcome = "failed"
        <3>1. left \in Nat /\ completion[t] \in Report /\ entries[e] \in EntryValues
            <4>1. outstanding \in [Entries -> Nat]
                BY <1>1 DEF MediaTypes, DeferredTypes
            <4>2. left \in Nat
                BY <2>1, <4>1
            <4> QED
                BY <1>1, <2>1, <4>2 DEF SettlingFits
        <3>2. DeferredTypes /\ e \in Entries
            BY <1>1, <2>1 DEF MediaTypes
        <3>3. Settled(e, entries[e], t, left).outcome =
                 SettledOutcome(entries[e], t, left)
            BY <3>1, <3>2, SettledType, ZenonT(60)
        <3> QED
            BY <3>3 DEF SettledOutcome, Sticky
    <2> QED
        BY <1>2, <2>1, <2>2, <2>3, <2>4, PartialKept
<1> QED
    BY <1>3, <1>4, <1>5, <1>6, <1>7 DEF Teardown, TaskStep, Operation

LEMMA PartialStep ==
    ASSUME BaseInv, PartialInv, [Next]_mediaVars
    PROVE  PartialInv'
<1>1. MediaTypes /\ setting \in Settings
    BY DEF BaseInv, MediaTypes, DeferredTypes
<1>2. ASSUME setting' = setting, up' = up, queue' = queue, pc' = pc,
             entries' = entries, files' \subseteq files, at' = at,
             current' = current, broken' = broken, partial' = partial
      PROVE  PartialInv'
    <2>1. \A e : Awaited(e)' = Awaited(e)
        BY <1>2, AwaitedSame
    <2> QED
        BY <1>2, <2>1, PartialKept
<1>3. CASE Record
    <2>1. CASE StartFinalize
        BY <1>2, <2>1 DEF StartFinalize, vars, media, manifest
    <2> QED
        BY <1>3, <2>1, BeginPartial, StopPartial, CompletingPartial DEF Record
<1>4. CASE Done \/ UNCHANGED mediaVars
    BY <1>2, <1>4 DEF Done, mediaVars, recording, session, vars, media, manifest
<1>5. ASSUME NEW s \in Losable, LoseInput(s), UNCHANGED recording
      PROVE  PartialInv'
    <2>1. /\ setting' = setting /\ up' = up /\ queue' = queue /\ pc' = pc
          /\ entries' = entries /\ files' = files \ {Raw(s)}
        BY <1>1, <1>5, LoseInputFacts
    <2> QED
        BY <1>2, <1>5, <2>1 DEF recording, session
<1> QED
    BY <1>3, <1>4, <1>5, TeardownPartial, KillPartial DEF Next

\* No segment whose capture failed is processed, whatever its finalization comes
\* to (transcodeSegment and its queue take clean captures only, a failed capture
\* is never merged), its entry shows a failure for good, and finalizeMedia drops
\* the tasks of the healthy segments, unless finalization threw before.
THEOREM IncompleteNotProcessedHolds == Spec => []IncompleteNotProcessed
<1>1. SegmentInit => PartialInv
    BY DEF SegmentInit, Init, PartialInv, Unprocessed
<1>2. BaseInv /\ PartialInv /\ [Next]_mediaVars => PartialInv'
    BY PartialStep
<1>3. BaseInv /\ PartialInv => IncompleteNotProcessed
    <2> SUFFICES ASSUME BaseInv, PartialInv
                 PROVE  IncompleteNotProcessed
        OBVIOUS
    <2>1. \A s \in partial :
             /\ \A f \in files : s \in f.of => f = Raw(s)
             /\ up /\ EntryOf[s] # current =>
                   entries[EntryOf[s]].outcome = "failed"
        BY DEF PartialInv, Unprocessed, Marked
    <2>2. ASSUME NEW e \in Entries, entries[e] # None, entries[e].incomplete
          PROVE  Awaited(e) = {}
        <3>1. entries[e] \in EntryValues
            BY <2>2 DEF BaseInv, MediaTypes, DeferredTypes
        <3> QED
            BY <2>2, <3>1 DEF BaseInv, SessionInv, IncompleteFits
    <2> QED
        BY <2>1, <2>2 DEF IncompleteNotProcessed
<1> QED
    BY <1>1, <1>2, <1>3, BaseHolds, PTL DEF Spec

----------------------------------------------------------------------------
(* The outcome of an entry.                                                *)

LEMMA OpenFacts ==
    ASSUME setting \in Settings
    PROVE  /\ \A e : IsFiniteSet(Open(e)) /\ Open(e) \subseteq Tasks
           /\ \A e, t : t \in Open(e) <=>
                 t \in Awaited(e) /\ pc[t] \notin {"journaling", "done"}
           /\ \A e, t : t \in Reports(e) <=>
                 t \in Awaited(e) /\ pc[t] \in {"journaling", "done"}
<1>1. \A e : Open(e) \subseteq Tasks
    BY AwaitedFacts DEF Open
<1>2. \A e : IsFiniteSet(Open(e))
    BY <1>1, TaskSetFacts, FS_Subset
<1>3. \A e, t : t \in Open(e) <=>
         t \in Awaited(e) /\ pc[t] \notin {"journaling", "done"}
    BY DEF Open, Reported
<1>4. \A e, t : t \in Reports(e) <=>
         t \in Awaited(e) /\ pc[t] \in {"journaling", "done"}
    BY DEF Reports, Reported
<1> QED
    BY <1>1, <1>2, <1>3, <1>4

LEMMA OpenNext ==
    /\ \A e, t : t \in Open(e)' <=>
          t \in Awaited(e)' /\ pc'[t] \notin {"journaling", "done"}
    /\ \A e, t : t \in Reports(e)' <=>
          t \in Awaited(e)' /\ pc'[t] \in {"journaling", "done"}
BY DEF Open, Reports, Reported

\* Steps that settle nothing for an entry.
LEMMA OutcomeUntouched ==
    ASSUME BaseInv, OutcomeInv, setting' = setting, up' = up,
           expected' = expected, current' = current,
           entries' = entries, outstanding' = outstanding,
           \A t \in Tasks : (t \in Range(queue') \/ pc'[t] # "queued")
                              <=> (t \in Range(queue) \/ pc[t] # "queued"),
           \A t \in Tasks : pc'[t] \in {"journaling", "done"}
                              <=> pc[t] \in {"journaling", "done"},
           \A t \in Tasks : pc[t] \in {"journaling", "done"} =>
                              completion'[t] = completion[t]
    PROVE  OutcomeInv'
<1>1. \A e : Awaited(e)' = Awaited(e)
    BY AwaitedSame
<1>2. \A e : Awaited(e) \subseteq Tasks
    BY AwaitedFacts, BaseFacts
<1>3. \A e : Open(e)' = Open(e) /\ Reports(e)' = Reports(e)
    <2>1. \A e, t : (t \in Open(e)' <=> t \in Open(e))
                    /\ (t \in Reports(e)' <=> t \in Reports(e))
        BY <1>1, <1>2, OpenNext, OpenFacts, BaseFacts
    <2> QED
        BY <2>1
<1>4. ASSUME NEW e \in Entries
      PROVE  Failed(e)' <=> Failed(e)
    <2>1. \A t \in Reports(e) : completion'[t] = completion[t]
        BY <1>2, OpenFacts, BaseFacts
    <2> QED
        BY <1>3, <2>1 DEF Failed
<1>5. Counted'
    BY <1>3 DEF OutcomeInv, Counted
<1>6. Outcomes'
    <2>1. Merge' = Merge
        BY SameSetting
    <2> QED
        BY <1>1, <1>3, <1>4, <2>1 DEF OutcomeInv, Outcomes
<1> QED
    BY <1>5, <1>6 DEF OutcomeInv

LEMMA FlushOutcome ==
    ASSUME BaseInv, OutcomeInv, Flush, TestsOver, UNCHANGED recording
    PROVE  OutcomeInv'
<1>1. /\ setting' = setting /\ up' = up /\ queue' = queue /\ ~expected
      /\ pc' = pc /\ completion' = completion /\ entries' = entries
      /\ current' = current /\ current = None /\ setting \in Settings
      /\ outstanding' = [e \in Entries |-> outstanding[e]
            + Cardinality({t \in TasksOf(e) : t \in Range(queue)})]
    BY BaseFacts DEF Flush, recording, session, TestsOver
<1>2. /\ \A t \in Tasks : pc[t] = "queued"
      /\ \A e \in Entries : outstanding[e] = 0
    BY <1>1 DEF BaseInv, SessionInv, Phases
<1>3. \A e : Awaited(e)' = Awaited(e)
    BY <1>1, AwaitedSame
<1>4. \A e : Awaited(e) \subseteq Tasks
    BY <1>1, AwaitedFacts
<1>5. ASSUME NEW e \in Entries
      PROVE  /\ Open(e)' = {t \in TasksOf(e) : t \in Range(queue)}
             /\ Reports(e)' = {} /\ Reports(e) = {}
    <2>1. Reports(e)' = {} /\ Reports(e) = {}
        BY <1>1, <1>2, <1>3, <1>4, OpenNext, OpenFacts
    <2>2. \A t : t \in Open(e)' <=> t \in Awaited(e)
        BY <1>1, <1>2, <1>3, <1>4, OpenNext
    <2>3. \A t : t \in Awaited(e) <=> t \in TasksOf(e) /\ t \in Range(queue)
        BY <1>1, <1>2, AwaitedFacts DEF TasksOf
    <2> QED
        BY <2>1, <2>2, <2>3
<1>6. Counted'
    <2> SUFFICES ASSUME NEW e \in Entries
                 PROVE  outstanding'[e] = Cardinality(Open(e)')
        BY DEF Counted
    <2>1. outstanding'[e] = 0 + Cardinality(Open(e)')
        BY <1>1, <1>2, <1>5
    <2>2. Cardinality(Open(e)') \in Nat
        <3> PICK open : open = Open(e)'
            OBVIOUS
        <3>1. open \subseteq Tasks
            BY <1>5 DEF TasksOf
        <3>2. Cardinality(open) \in Nat
            BY <1>1, <3>1, TaskSetFacts, FS_Subset, FS_CardinalityType
        <3> QED
            BY <3>2
    <2> QED
        BY <2>1, <2>2
<1>7. Outcomes'
    <2>1. Merge' = Merge
        BY <1>1, SameSetting
    <2>2. ASSUME NEW e \in Entries
          PROVE  Failed(e)' <=> Failed(e)
        BY <1>1, <1>5 DEF Failed
    <2> QED
        BY <1>1, <1>3, <1>5, <2>1, <2>2 DEF OutcomeInv, Outcomes
<1> QED
    BY <1>6, <1>7 DEF OutcomeInv

\* An entry has one open task less and one report more.
LEMMA CompleteDeferredOutcome ==
    ASSUME BaseInv, OutcomeInv, NEW t \in Tasks, CompleteDeferred(t),
           UNCHANGED recording
    PROVE  OutcomeInv'
<1>1. /\ MediaTypes /\ DeferredTypes /\ SettlingFits /\ setting \in Settings
      /\ ReportsFit /\ Alone /\ outstanding \in [Entries -> Nat]
      /\ current' = current
    BY BaseFacts DEF BaseInv, SessionInv, MediaTypes, DeferredTypes, recording, session
<1> PICK e : e = EntryOfTask(t)
    OBVIOUS
<1> PICK left : left = IF outstanding[e] > 0 THEN outstanding[e] - 1 ELSE 0
    OBVIOUS
<1> PICK existing : existing = entries[e]
    OBVIOUS
<1> PICK updated : updated = Settled(e, existing, t, left)
    OBVIOUS
<1>2. /\ setting' = setting /\ up' = up /\ queue' = queue
      /\ expected' = expected /\ completion' = completion
      /\ e \in Entries /\ left \in Nat
      /\ completion[t] \in Report /\ existing \in EntryValues
      /\ pc[t] = "completing"
      /\ pc'[t] = "journaling" /\ \A u \in Tasks \ {t} : pc'[u] = pc[u]
      /\ outstanding'[e] = left
      /\ \A d \in Entries \ {e} : outstanding'[d] = outstanding[d]
      /\ entries'[e] = updated
      /\ \A d \in Entries \ {e} : entries'[d] = entries[d]
    BY <1>1, CompleteDeferredFacts
<1>3. expected /\ up /\ current = None
    BY <1>2, BaseFacts
<1>4. \A d : Awaited(d)' = Awaited(d)
    BY <1>2, AwaitedSame
<1>5. t \in Open(e) /\ \A d \in Entries \ {e} : t \notin Awaited(d)
    BY <1>1, <1>2, AwaitedFacts, OpenFacts
<1>6. \A d : Awaited(d) \subseteq Tasks
    BY <1>1, AwaitedFacts
<1>7. /\ Open(e)' = Open(e) \ {t} /\ Reports(e)' = Reports(e) \union {t}
      /\ \A d \in Entries \ {e} : Open(d)' = Open(d) /\ Reports(d)' = Reports(d)
    <2>1. \A d, u : /\ u \in Open(d)' <=>
                          u \in Awaited(d) /\ pc'[u] \notin {"journaling", "done"}
                    /\ u \in Reports(d)' <=>
                          u \in Awaited(d) /\ pc'[u] \in {"journaling", "done"}
        BY <1>4, OpenNext
    <2>2. \A u : /\ u \in Open(e)' <=> u \in Open(e) /\ u # t
                 /\ u \in Reports(e)' <=> u \in Reports(e) \/ u = t
        BY <1>1, <1>2, <1>5, <1>6, <2>1, OpenFacts
    <2>3. \A d \in Entries \ {e} : \A u :
             (u \in Open(d)' <=> u \in Open(d)) /\ (u \in Reports(d)' <=> u \in Reports(d))
        BY <1>1, <1>2, <1>5, <1>6, <2>1, OpenFacts
    <2> QED
        BY <2>2, <2>3
<1>8. Counted'
    <2>1. outstanding[e] = Cardinality(Open(e)) /\ IsFiniteSet(Open(e))
        BY <1>1, <1>2, <1>3, OpenFacts DEF OutcomeInv, Counted
    <2>2. Cardinality(Open(e) \ {t}) = Cardinality(Open(e)) - 1
        BY <1>5, <2>1, FS_RemoveElement
    <2>3. Cardinality(Open(e)) > 0
        <3>1. Cardinality(Open(e)) \in Nat /\ Cardinality(Open(e) \ {t}) \in Nat
            BY <2>1, FS_CardinalityType, FS_Subset
        <3> QED
            BY <2>2, <3>1
    <2>4. outstanding'[e] = Cardinality(Open(e) \ {t})
        BY <1>2, <2>1, <2>2, <2>3
    <2>5. \A d \in Entries : outstanding'[d] = Cardinality(Open(d)')
        BY <1>2, <1>3, <1>7, <2>4 DEF OutcomeInv, Counted
    <2> QED
        BY <2>5 DEF Counted
<1>9. /\ updated.outcome =
           IF ~Merge /\ existing.outcome = "failed" THEN "failed"
           ELSE IF left > 0 /\ completion[t].outcome = "completed"
           THEN "pending" ELSE completion[t].outcome
      /\ updated.decision =
           IF ~Merge /\ existing.outcome = "failed" THEN existing.decision
           ELSE completion[t].decision
    <2>1. DeferredTypes /\ completion[t] \in Report /\ existing \in EntryValues
          /\ left \in Nat /\ e \in Entries
        BY <1>1, <1>2
    <2>2. /\ Settled(e, existing, t, left).outcome = SettledOutcome(existing, t, left)
          /\ Settled(e, existing, t, left).decision = SettledDecision(existing, t)
        BY <2>1, SettledType, ZenonT(60)
    <2> QED
        BY <2>2 DEF SettledOutcome, SettledDecision, Sticky
<1>10. /\ completion[t].outcome \in {"completed", "failed"}
       /\ completion[t].decision = "failed" => completion[t].outcome = "failed"
    BY <1>1, <1>2 DEF ReportsFit, Answered, Report
<1>11. /\ existing.outcome = "failed" <=>
             \/ existing.decision = "failed"
             \/ \E u \in Reports(e) : completion[u].outcome = "failed"
    <2>1. Awaited(e) # {} /\ e \in Entries \ {current}
        BY <1>1, <1>2, <1>3, <1>5, OpenFacts, NoneFacts
    <2>2. entries[e].outcome = "failed" <=> Failed(e)
        BY <1>3, <2>1 DEF OutcomeInv, Outcomes
    <2> QED
        BY <2>2 DEF Failed
<1>12. Merge => Reports(e) = {}
    <2>1. ASSUME Merge, NEW u \in Reports(e)
          PROVE  FALSE
        <3>1. u \in Awaited(e) /\ t \in Awaited(e) /\ u # t
            BY <1>1, <1>5, OpenFacts, <1>2
        <3> QED
            BY <1>1, <1>2, <2>1, <3>1 DEF Alone
    <2> QED
        BY <2>1
<1> DEFINE failed == \/ updated.decision = "failed"
                     \/ \E u \in Reports(e) \union {t} : completion[u].outcome = "failed"
<1>13. /\ updated.outcome = "failed" <=> failed
       /\ ~failed => updated.outcome = IF left > 0 THEN "pending" ELSE "completed"
    <2>1. CASE ~Merge /\ existing.outcome = "failed"
        BY <1>9, <1>11, <2>1
    <2>2. CASE ~(~Merge /\ existing.outcome = "failed")
        <3>1. \A u \in Reports(e) : completion[u].outcome # "failed"
            BY <1>11, <1>12, <2>2
        <3>2. failed <=> completion[t].outcome = "failed"
            BY <1>9, <1>10, <2>2, <3>1
        <3>3. updated.outcome =
                 IF left > 0 /\ completion[t].outcome = "completed"
                 THEN "pending" ELSE completion[t].outcome
            BY <1>9, <2>2
        <3> HIDE DEF failed
        <3> QED
            BY <1>10, <3>2, <3>3
    <2> QED
        BY <2>1, <2>2
<1>14. Failed(e)' <=> failed
    BY <1>2, <1>7 DEF Failed
<1>15. \A d \in Entries \ {e} : Failed(d)' <=> Failed(d)
    BY <1>2, <1>7 DEF Failed
<1>16. Outcomes'
    <2>1. Merge' = Merge
        BY <1>2, SameSetting
    <2>2. /\ entries'[e].outcome = "failed" <=> Failed(e)'
          /\ ~Failed(e)' =>
                entries'[e].outcome = IF outstanding'[e] > 0 THEN "pending" ELSE "completed"
          /\ Reports(e)' # {}
        BY <1>2, <1>7, <1>13, <1>14
    <2> HIDE DEF failed
    <2>3. ASSUME NEW d \in Entries \ {e}, Awaited(d)' # {}
          PROVE  /\ entries'[d].outcome = "failed" <=> Failed(d)'
                 /\ ~Failed(d)' /\ Reports(d)' # {} => entries'[d].outcome =
                       IF outstanding'[d] > 0 THEN "pending" ELSE "completed"
                 /\ Merge /\ Reports(d)' = {} => entries'[d].outcome # "failed"
        <3>1. d \in Entries \ {current} /\ Awaited(d) # {}
            BY <1>3, <1>4, <2>3, NoneFacts
        <3>2. /\ entries[d].outcome = "failed" <=> Failed(d)
              /\ ~Failed(d) /\ Reports(d) # {} => entries[d].outcome =
                    IF outstanding[d] > 0 THEN "pending" ELSE "completed"
              /\ Merge /\ Reports(d) = {} => entries[d].outcome # "failed"
            BY <1>3, <3>1 DEF OutcomeInv, Outcomes
        <3> QED
            BY <1>2, <1>7, <1>15, <3>2
    <2> QED
        BY <2>1, <2>2, <2>3 DEF Outcomes
<1> QED
    BY <1>8, <1>16 DEF OutcomeInv

\* Before the tasks are flushed, no entry has a report.
LEMMA RecordingOutcome ==
    ASSUME BaseInv, OutcomeInv, setting' = setting, pc' = pc, up' = up,
           ~expected, ~expected',
           \A e \in Entries \ {current'} : Awaited(e)' # {} /\ up =>
              \/ /\ e # current /\ entries'[e] = entries[e]
                 /\ Awaited(e) # {}
              \/ /\ entries'[e].outcome = "failed"
                       <=> entries'[e].decision = "failed"
                 /\ Merge => entries'[e].outcome # "failed"
    PROVE  OutcomeInv'
<1>1. \A t \in Tasks : pc[t] = "queued"
    BY DEF BaseInv, SessionInv, Phases
<1>2. /\ \A e, t : t \in Awaited(e) => t \in Tasks
      /\ \A e, t : t \in Awaited(e)' => t \in Tasks
    BY AwaitedFacts, AwaitedNext, BaseFacts
<1>3. \A e : Reports(e) = {} /\ Reports(e)' = {}
    BY <1>1, <1>2, OpenFacts, OpenNext, BaseFacts
<1>4. /\ \A e : Failed(e) <=> entries[e].decision = "failed"
      /\ \A e : Failed(e)' <=> entries'[e].decision = "failed"
    BY <1>3 DEF Failed
<1>5. Counted'
    BY DEF Counted
<1>6. Outcomes'
    <2>1. Merge' = Merge
        BY SameSetting
    <2>2. ASSUME NEW e \in Entries \ {current'}, up, Awaited(e)' # {}
          PROVE  /\ entries'[e].outcome = "failed" <=> entries'[e].decision = "failed"
                 /\ Merge => entries'[e].outcome # "failed"
        <3>1. CASE /\ e # current /\ entries'[e] = entries[e]
                   /\ Awaited(e) # {}
            BY <1>3, <1>4, <2>2, <3>1 DEF OutcomeInv, Outcomes
        <3> QED
            BY <2>2, <3>1
    <2> QED
        BY <1>3, <1>4, <2>1, <2>2 DEF Outcomes
<1> QED
    BY <1>5, <1>6 DEF OutcomeInv

\* The entry a recording becomes, when tasks of its own stay queued.
LEMMA CompletedOutcome ==
    ASSUME BaseInv, NEW e \in Entries, e = current,
           FinalizeFailed \/ Discard \/ KeepIncomplete \/ KeepSegments \/ MergeNow,
           Awaited(e)' # {}
    PROVE  /\ entries'[e].outcome = "failed" <=> entries'[e].decision = "failed"
           /\ Merge => entries'[e].outcome # "failed"
<1>1. /\ MediaTypes /\ Recording /\ Queued /\ setting \in Settings
      /\ broken \in BOOLEAN /\ recorded \in Seq(Files)
      /\ entries \in [Entries -> EntryValues \union {None}]
    BY DEF BaseInv, SessionInv, MediaTypes, DeferredTypes, SessionTypes
<1>2. /\ Ended /\ setting' = setting /\ pc' = pc
    <2>1. PICK entry \in EntryValues : Complete(entry)
        BY <1>1, Completing
    <2> QED
        BY <1>1, <2>1, Completing, CompleteFacts
<1>3. \A t \in Tasks : pc[t] = "queued"
    BY BaseFacts
<1>4. PICK t \in Range(queue') : t \in Tasks /\ EntryOfTask(t) = e
    BY <1>2, <1>3, AwaitedNext
<1>5. ASSUME queue' = queue
      PROVE  ~Merge /\ Deferred /\ Range(recorded) # {}
    BY <1>1, <1>4, <1>5 DEF Queued
<1>6. queue' # Dropped
    BY <1>4, DroppedFacts
<1>7. ASSUME NEW entry, Complete(entry)
      PROVE  entries'[e] = entry
    BY <1>1, <1>7 DEF Complete
<1>8. retain \in BOOLEAN /\ Parts \in SUBSET Segments
    BY <1>1, <1>2, PartsFacts DEF Ended, MediaTypes, SessionTypes
<1>9. CASE FinalizeFailed
    <2>1. entries'[e] = FailedEntry(recorded) /\ queue' = queue
        BY <1>7, <1>9 DEF FinalizeFailed, FailedEntry
    <2> QED
        BY <1>1, <1>5, <2>1, FailedEntryType
<1>10. CASE Discard \/ KeepIncomplete
    BY <1>6, <1>10 DEF Discard, KeepIncomplete, Dropped
<1>11. CASE KeepSegments
    <2>1. /\ entries'[e] = CompletedEntry(recorded, Parts, Len(queue') > before)
          /\ retain /\ ~broken
        BY <1>7, <1>11 DEF KeepSegments, Kept
    <2>2. recorded # <<>>
        <3>1. CASE Mergeable
            BY <3>1 DEF Mergeable
        <3>2. CASE ~Mergeable
            <4>1. Range(recorded) # {}
                BY <1>5, <1>11, <3>2 DEF KeepSegments
            <4> QED
                BY <4>1 DEF Range
        <3> QED
            BY <3>1, <3>2
    <2>3. (Len(queue') > before) \in BOOLEAN
        OBVIOUS
    <2> PICK deferred \in BOOLEAN : deferred = (Len(queue') > before)
        BY <2>3
    <2>4. entries'[e] = CompletedEntry(recorded, Parts, deferred)
        BY <2>1
    <2>5. /\ CompletedEntry(recorded, Parts, deferred).outcome =
                IF broken THEN "failed"
                ELSE IF deferred THEN "pending"
                ELSE IF retain THEN "completed" ELSE "skipped"
          /\ CompletedEntry(recorded, Parts, deferred).decision =
                IF broken THEN "failed" ELSE IF ~retain THEN "discarded"
                ELSE IF recorded = <<>> THEN "failed" ELSE "recorded"
        BY <1>1, <1>8, CompletedEntryType DEF CompletedFits
    <2>6. retain = TRUE /\ broken = FALSE
        BY <1>1, <1>8, <2>1
    <2> QED
        BY <2>2, <2>4, <2>5, <2>6
<1>12. CASE MergeNow
    BY <1>5, <1>12 DEF MergeNow
<1> QED
    BY <1>9, <1>10, <1>11, <1>12

LEMMA BeginOutcome ==
    ASSUME BaseInv, OutcomeInv, Begin
    PROVE  OutcomeInv'
<1> PICK e : e = EntryOf[at]
    OBVIOUS
<1>1. /\ current = None /\ at \in Segments /\ current' = e
      /\ entries' = [entries EXCEPT ![e] = Interrupted]
      /\ setting' = setting /\ up' = up /\ queue' = queue /\ expected' = expected
      /\ pc' = pc
      /\ entries \in [Entries -> EntryValues \union {None}]
    BY DEF Begin, flushing, BaseInv, MediaTypes, DeferredTypes
<1>2. ~expected
    BY <1>1, BaseFacts
<1>3. \A d : Awaited(d)' = Awaited(d)
    BY <1>1, AwaitedSame
<1>4. \A d \in Entries \ {current'} : d # current /\ entries'[d] = entries[d]
    BY <1>1, NoneFacts
<1> QED
    BY <1>1, <1>2, <1>3, <1>4, RecordingOutcome

LEMMA StopOutcome ==
    ASSUME BaseInv, OutcomeInv, NEW s \in Segments, Stop(s)
    PROVE  OutcomeInv'
<1>1. MediaTypes /\ setting \in Settings /\ queue \in Seq(Tasks)
    BY DEF BaseInv, MediaTypes, DeferredTypes
<1>2. /\ setting' = setting /\ up' = up /\ expected' = expected /\ pc' = pc
      /\ current \in Entries /\ current' = current /\ entries' = entries
      /\ EntryOf[s] = current
      /\ queue' = queue \/ (queue' = Append(queue, {s}) /\ ~Merge)
    BY <1>1, StopFacts
<1>3. ~expected
    BY <1>2, BaseFacts
<1>4. Range(queue') \subseteq Range(queue) \union {{s}}
    <2>1. CASE queue' = Append(queue, {s}) /\ ~Merge
        <3>1. {s} \in Tasks
            BY <1>1, TaskSetFacts
        <3>2. \A task \in Tasks :
                 Range(Append(queue, task)) = Range(queue) \union {task}
            BY <1>1, RangeOfAppend
        <3>3. Range(Append(queue, {s})) = Range(queue) \union {{s}}
            BY <3>1, <3>2
        <3> QED
            BY <2>1, <3>3
    <2> QED
        BY <1>2, <2>1
<1>5. EntryOfTask({s}) = current
    BY <1>2 DEF EntryOfTask
<1>6. ASSUME NEW d \in Entries \ {current'}, Awaited(d)' # {}
      PROVE  Awaited(d) # {} /\ d # current /\ entries'[d] = entries[d]
    <2>1. PICK t \in Awaited(d)' : TRUE
        BY <1>6
    <2>2. /\ t \in Tasks /\ EntryOfTask(t) = d
          /\ t \in Range(queue') \/ pc[t] # "queued"
        BY <1>2, <2>1, AwaitedNext
    <2>3. t \in Range(queue) \/ pc[t] # "queued"
        BY <1>2, <1>4, <1>5, <2>2
    <2>4. t \in Awaited(d)
        BY <1>1, <2>2, <2>3, AwaitedFacts
    <2> QED
        BY <1>2, <2>4
<1> QED
    BY <1>2, <1>3, <1>6, RecordingOutcome

LEMMA StartFinalizeOutcome ==
    ASSUME BaseInv, OutcomeInv, StartFinalize
    PROVE  OutcomeInv'
<1>1. /\ setting' = setting /\ up' = up /\ queue' = queue /\ expected' = expected
      /\ pc' = pc /\ entries' = entries /\ completion' = completion
      /\ outstanding' = outstanding /\ current' = current
    BY DEF StartFinalize, vars, media, manifest, journaling
<1> QED
    BY <1>1, OutcomeUntouched

LEMMA CompletingOutcome ==
    ASSUME BaseInv, OutcomeInv,
           FinalizeFailed \/ Discard \/ KeepIncomplete \/ KeepSegments \/ MergeNow
    PROVE  OutcomeInv'
<1>1. /\ MediaTypes /\ Recording /\ setting \in Settings /\ queue \in Seq(Tasks)
    BY DEF BaseInv, SessionInv, MediaTypes, DeferredTypes
<1>2. Ended /\ current \in Entries
    BY <1>1, Completing
<1>3. PICK entry \in EntryValues :
         /\ Complete(entry)
         /\ \/ queue' = queue
            \/ queue' = Dropped
            \/ /\ queue' = Append(Dropped, Parts)
               /\ Parts \in Tasks /\ EntryOfTask(Parts) = current
    BY <1>1, Completing
<1>4. /\ setting' = setting /\ up' = up /\ expected' = expected /\ pc' = pc
      /\ current' = None
      /\ \A d \in Entries \ {current} : entries'[d] = entries[d]
    BY <1>1, <1>2, <1>3, CompleteFacts
<1>5. ~expected
    BY <1>2, BaseFacts
<1> PICK parts : parts = Parts
    OBVIOUS
<1>6. Range(queue') \subseteq Range(queue) \union {t \in Tasks : EntryOfTask(t) = current}
    <2>1. CASE queue' = queue \/ queue' = Dropped
        BY <2>1, DroppedFacts
    <2>2. CASE queue' = Append(Dropped, parts) /\ parts \in Tasks /\ EntryOfTask(parts) = current
        <3>1. Range(queue') = Range(Dropped) \union {parts}
            BY <2>2, DroppedFacts, RangeOfAppend
        <3> QED
            BY <2>2, <3>1, DroppedFacts
    <2> QED
        BY <1>3, <2>1, <2>2
<1>7. ASSUME NEW d \in Entries, d # current, Awaited(d)' # {}
      PROVE  Awaited(d) # {}
    <2>1. PICK t \in Awaited(d)' : TRUE
        BY <1>7
    <2>2. /\ t \in Tasks /\ EntryOfTask(t) = d
          /\ t \in Range(queue') \/ pc[t] # "queued"
        BY <1>4, <2>1, AwaitedNext
    <2>3. t \in Range(queue) \/ pc[t] # "queued"
        BY <1>6, <1>7, <2>2
    <2>4. t \in Awaited(d)
        BY <1>1, <2>2, <2>3, AwaitedFacts
    <2> QED
        BY <2>4
<1>8. ASSUME NEW d \in Entries, Awaited(d)' # {}
      PROVE  \/ /\ d # current /\ entries'[d] = entries[d]
                /\ Awaited(d) # {}
             \/ /\ entries'[d].outcome = "failed"
                      <=> entries'[d].decision = "failed"
                /\ Merge => entries'[d].outcome # "failed"
    <2>1. CASE d = current
        BY <1>8, <2>1, CompletedOutcome
    <2>2. CASE d # current
        BY <1>4, <1>7, <1>8, <2>2
    <2> QED
        BY <2>1, <2>2
<1> QED
    BY <1>4, <1>5, <1>8, RecordingOutcome

\* The steps of the teardown other than a completion settle nothing.
LEMMA TeardownOutcome ==
    ASSUME BaseInv, OutcomeInv, UNCHANGED recording,
           Take \/ Write \/ \E t \in Tasks : Operation(t)
    PROVE  OutcomeInv'
<1>1. /\ MediaTypes /\ setting \in Settings /\ Queued /\ Chained
      /\ current' = current
    BY DEF BaseInv, SessionInv, MediaTypes, DeferredTypes, recording, session
<1>2. CASE Take
    <2> PICK h : h = Head(queue)
        OBVIOUS
    <2>1. /\ setting' = setting /\ up' = up /\ expected' = expected
          /\ entries' = entries /\ outstanding' = outstanding
          /\ completion' = completion
          /\ h \in Tasks /\ h \in Range(queue)
          /\ Range(queue) = {h} \union Range(queue')
          /\ pc'[h] \in {"check", "process"}
          /\ \A u \in Tasks \ {h} : pc'[u] = pc[u]
        BY <1>1, <1>2, TakeFacts
    <2>2. pc[h] = "queued"
        BY <1>1, <2>1 DEF Queued
    <2>3. \A t \in Tasks : (t \in Range(queue') \/ pc'[t] # "queued")
                              <=> (t \in Range(queue) \/ pc[t] # "queued")
        BY <2>1
    <2>4. \A t \in Tasks : pc'[t] \in {"journaling", "done"}
                              <=> pc[t] \in {"journaling", "done"}
        BY <2>1, <2>2
    <2> QED
        BY <1>1, <2>1, <2>3, <2>4, OutcomeUntouched
<1>3. CASE Write
    <2> PICK t : t = Head(writes).task
        OBVIOUS
    <2>1. /\ setting' = setting /\ up' = up /\ expected' = expected
          /\ entries' = entries /\ outstanding' = outstanding
          /\ completion' = completion /\ queue' = queue
          /\ writes # <<>> /\ t \in Tasks
          /\ pc' = [pc EXCEPT ![t] = "done"]
        BY <1>1, <1>3, WriteFacts
    <2>2. pc[t] = "journaling"
        <3>1. 1 \in DOMAIN writes /\ Head(writes) = writes[1]
            BY <1>1, <2>1 DEF MediaTypes, DeferredTypes
        <3> QED
            BY <1>1, <3>1 DEF Chained
    <2>3. pc'[t] = "done" /\ \A u \in Tasks \ {t} : pc'[u] = pc[u]
        BY <1>1, <2>1 DEF MediaTypes, DeferredTypes
    <2>4. \A u \in Tasks : (u \in Range(queue') \/ pc'[u] # "queued")
                              <=> (u \in Range(queue) \/ pc[u] # "queued")
        BY <2>1, <2>2, <2>3
    <2>5. \A u \in Tasks : pc'[u] \in {"journaling", "done"}
                              <=> pc[u] \in {"journaling", "done"}
        BY <2>2, <2>3
    <2> QED
        BY <1>1, <2>1, <2>4, <2>5, OutcomeUntouched
<1>4. ASSUME NEW t \in Tasks, Operation(t)
      PROVE  OutcomeInv'
    <2>1. /\ setting' = setting /\ up' = up /\ expected' = expected
          /\ entries' = entries /\ outstanding' = outstanding /\ queue' = queue
          /\ pc[t] \in {"check", "process", "published", "cleaned"}
          /\ \A u \in Tasks \ {t} :
                pc'[u] = pc[u] /\ completion'[u] = completion[u]
          /\ pc'[t] \in Locations \ {"queued", "journaling", "done"}
        BY <1>1, <1>4, OperationFacts
    <2>2. \A u \in Tasks : (u \in Range(queue') \/ pc'[u] # "queued")
                              <=> (u \in Range(queue) \/ pc[u] # "queued")
        BY <2>1
    <2>3. \A u \in Tasks : pc'[u] \in {"journaling", "done"}
                              <=> pc[u] \in {"journaling", "done"}
        BY <2>1
    <2>4. \A u \in Tasks : pc[u] \in {"journaling", "done"} =>
                              completion'[u] = completion[u]
        BY <2>1
    <2> QED
        BY <1>1, <2>1, <2>2, <2>3, <2>4, OutcomeUntouched
<1> QED
    BY <1>2, <1>3, <1>4

LEMMA KillOutcome ==
    ASSUME Kill
    PROVE  OutcomeInv'
<1>1. ~expected' /\ \A e : Awaited(e)' = {}
    BY KillFacts
<1>2. Counted' /\ Outcomes'
    BY <1>1 DEF Counted, Outcomes
<1> QED
    BY <1>2 DEF OutcomeInv

LEMMA InitOutcome ==
    ASSUME SegmentInit
    PROVE  OutcomeInv
<1>1. /\ ~expected /\ setting \in Settings
      /\ queue = <<>> /\ pc = [t \in Tasks |-> "queued"]
    BY DEF SegmentInit, Init, ForEach
<1>2. Range(queue) = {}
    BY <1>1 DEF Range
<1>3. \A e, t : t \notin Awaited(e)
    BY <1>1, <1>2, AwaitedFacts
<1>4. Counted /\ Outcomes
    BY <1>1, <1>3 DEF Counted, Outcomes
<1> QED
    BY <1>4 DEF OutcomeInv

LEMMA OutcomeStep ==
    ASSUME BaseInv, OutcomeInv, [Next]_mediaVars
    PROVE  OutcomeInv'
<1>1. CASE Record
    BY <1>1, BeginOutcome, StopOutcome, StartFinalizeOutcome,
       CompletingOutcome DEF Record
<1>2. CASE Teardown
    <2>1. TestsOver /\ UNCHANGED recording
        BY <1>2 DEF Teardown
    <2>2. \/ Flush \/ Take \/ Write
          \/ \E t \in Tasks : Operation(t) \/ CompleteDeferred(t)
        BY <1>2 DEF Teardown, TaskStep, Operation
    <2> QED
        BY <2>1, <2>2, FlushOutcome, TeardownOutcome, CompleteDeferredOutcome
<1>3. CASE Done \/ UNCHANGED mediaVars
    <2>1. UNCHANGED mediaVars
        BY <1>3 DEF Done
    <2>2. /\ setting' = setting /\ up' = up /\ expected' = expected
          /\ queue' = queue /\ pc' = pc /\ completion' = completion
          /\ entries' = entries /\ outstanding' = outstanding
          /\ current' = current
        BY <2>1 DEF mediaVars, vars, media, manifest, recording, session
    <2> QED
        BY <2>2, OutcomeUntouched
<1>4. CASE Kill
    BY <1>4, KillOutcome
<1>5. ASSUME NEW s \in Losable, LoseInput(s), UNCHANGED recording
      PROVE  OutcomeInv'
    <2>1. /\ setting' = setting /\ up' = up /\ expected' = expected
          /\ queue' = queue /\ pc' = pc /\ completion' = completion
          /\ entries' = entries /\ outstanding' = outstanding
        BY <1>5, LoseInputFacts DEF BaseInv
    <2>2. current' = current
        BY <1>5 DEF recording, session
    <2> QED
        BY <2>1, <2>2, OutcomeUntouched
<1> QED
    BY <1>1, <1>2, <1>3, <1>4, <1>5 DEF Next

\* When the last task of an entry has reported, the entry waits for none, and
\* is "failed" exactly when one of its tasks or its finalization failed, in
\* whatever order completeDeferred was called for them.
THEOREM OutcomeExactHolds == Spec => []OutcomeExact
<1>1. SegmentInit => BaseInv /\ OutcomeInv
    BY InitTypes, InitSession, InitOutcome DEF BaseInv
<1>2. BaseInv /\ OutcomeInv /\ [Next]_mediaVars => BaseInv' /\ OutcomeInv'
    BY BaseStep, OutcomeStep
<1>3. BaseInv /\ OutcomeInv => OutcomeExact
    <2> SUFFICES ASSUME BaseInv, OutcomeInv, NEW e \in Entries,
                        Awaited(e) # {}, \A t \in Awaited(e) : Reported(t)
                 PROVE  /\ outstanding[e] = 0
                        /\ entries[e].outcome =
                              IF \/ entries[e].decision = "failed"
                                 \/ \E t \in Awaited(e) :
                                       completion[t].outcome = "failed"
                              THEN "failed" ELSE "completed"
        BY DEF OutcomeExact
    <2>1. /\ setting \in Settings
          /\ \A t \in Tasks : pc[t] # "queued" => expected
          /\ expected => up /\ current = None
        BY BaseFacts
    <2>2. \A t \in Awaited(e) : t \in Tasks /\ pc[t] # "queued"
        BY <2>1, AwaitedFacts DEF Reported
    <2>3. expected /\ up /\ e # current
        BY <2>1, <2>2, NoneFacts
    <2>4. Open(e) = {} /\ Reports(e) = Awaited(e)
        BY DEF Open, Reports
    <2>5. outstanding[e] = 0
        BY <2>3, <2>4, FS_EmptySet DEF OutcomeInv, Counted
    <2>6. Failed(e) <=> \/ entries[e].decision = "failed"
                        \/ \E t \in Awaited(e) : completion[t].outcome = "failed"
        BY <2>4 DEF Failed
    <2>7. /\ entries[e].outcome = "failed" <=> Failed(e)
          /\ ~Failed(e) => entries[e].outcome = "completed"
        BY <2>3, <2>4, <2>5 DEF OutcomeInv, Outcomes
    <2> QED
        BY <2>5, <2>6, <2>7
<1> QED
    BY <1>1, <1>2, <1>3, PTL DEF Spec

----------------------------------------------------------------------------
(* The list of an entry.                                                   *)

LEMMA ListedFacts ==
    ASSUME BaseInv, Lists
    PROVE  ListedInOrder
<1>1. \A e \in Entries : entries[e] # None => entries[e] \in EntryValues
    BY DEF BaseInv, MediaTypes, DeferredTypes
<1>2. ASSUME NEW e \in Entries,
             Labelled(Range(entries[e].listed), entries[e].outcome = "failed")
      PROVE  \A i \in DOMAIN entries[e].listed :
                \/ entries[e].listed[i].tabs = InOrder[entries[e].listed[i].file.of]
                \/ /\ entries[e].listed[i].tabs = <<>>
                   /\ entries[e].outcome = "failed"
    BY <1>2 DEF Labelled, Range
<1> QED
    BY <1>1, <1>2 DEF Lists, WellListed, ListedInOrder, Ordered

LEMMA OrderedConcat ==
    ASSUME NEW A \in Seq(Items), NEW B \in Seq(Items), Ordered(A), Ordered(B),
           \A x \in Range(A), y \in Range(B) :
              \A r \in x.file.of : \A s \in y.file.of : r < s
    PROVE  Ordered(A \o B)
<1>1. /\ Len(A) \in Nat /\ Len(B) \in Nat
      /\ DOMAIN A = 1 .. Len(A) /\ DOMAIN B = 1 .. Len(B)
      /\ DOMAIN (A \o B) = 1 .. Len(A) + Len(B)
      /\ \A i \in 1 .. Len(A) : (A \o B)[i] = A[i]
      /\ \A i \in Len(A) + 1 .. Len(A) + Len(B) : (A \o B)[i] = B[i - Len(A)]
    BY ConcatProperties
<1> DEFINE all == A \o B
<1>2. SUFFICES ASSUME NEW i \in 1 .. Len(A) + Len(B), NEW j \in 1 .. Len(A) + Len(B),
                      i < j, NEW r \in all[i].file.of, NEW s \in all[j].file.of
               PROVE  r < s
    BY <1>1 DEF Ordered
<1> HIDE DEF all
<1>3. CASE j <= Len(A)
    <2>1. i \in 1 .. Len(A) /\ j \in 1 .. Len(A)
        BY <1>1, <1>2, <1>3
    <2> QED
        BY <1>1, <1>2, <2>1 DEF Ordered, all
<1>4. CASE i > Len(A)
    <2>1. /\ i \in Len(A) + 1 .. Len(A) + Len(B)
          /\ j \in Len(A) + 1 .. Len(A) + Len(B)
          /\ i - Len(A) \in DOMAIN B /\ j - Len(A) \in DOMAIN B
          /\ i - Len(A) < j - Len(A)
        BY <1>1, <1>2, <1>4
    <2>2. all[i] = B[i - Len(A)] /\ all[j] = B[j - Len(A)]
        BY <1>1, <2>1 DEF all
    <2>3. r \in B[i - Len(A)].file.of /\ s \in B[j - Len(A)].file.of
        BY <1>2, <2>2
    <2> QED
        BY <2>1, <2>3 DEF Ordered
<1>5. CASE i <= Len(A) /\ j > Len(A)
    <2>1. /\ i \in 1 .. Len(A)
          /\ j \in Len(A) + 1 .. Len(A) + Len(B) /\ j - Len(A) \in DOMAIN B
        BY <1>1, <1>2, <1>5
    <2>2. all[i] = A[i] /\ all[j] = B[j - Len(A)]
        BY <1>1, <2>1 DEF all
    <2>3. A[i] \in Range(A) /\ B[j - Len(A)] \in Range(B)
        BY <1>1, <2>1 DEF Range
    <2> QED
        BY <1>2, <2>2, <2>3
<1> QED
    BY <1>1, <1>2, <1>3, <1>4, <1>5

LEMMA OrderedKeeping ==
    ASSUME NEW listed \in Seq(Items), Ordered(listed), NEW some
    PROVE  Ordered(Keeping(listed, some))
<1>1. /\ Keeping(listed, some) \in Seq(Items)
      /\ DOMAIN listed = 1 .. Len(listed)
    BY KeepingRange
<1> SUFFICES ASSUME NEW i \in 1 .. Len(Keeping(listed, some)),
                    NEW j \in 1 .. Len(Keeping(listed, some)), i < j,
                    NEW r \in Keeping(listed, some)[i].file.of,
                    NEW s \in Keeping(listed, some)[j].file.of
             PROVE  r < s
    BY <1>1 DEF Ordered
<1>2. PICK p, q \in 1 .. Len(listed) :
         /\ p < q
         /\ Keeping(listed, some)[i] = listed[p]
         /\ Keeping(listed, some)[j] = listed[q]
    BY KeepingOrder
<1>3. r \in listed[p].file.of /\ s \in listed[q].file.of
    BY <1>2
<1> QED
    BY <1>1, <1>2, <1>3 DEF Ordered

LEMMA OrderedPart ==
    ASSUME NEW listed \in Seq(Items), Ordered(listed),
           NEW m \in 1 .. Len(listed) + 1, NEW n \in 0 .. Len(listed), m <= n + 1
    PROVE  /\ SubSeq(listed, m, n) \in Seq(Items)
           /\ Ordered(SubSeq(listed, m, n))
           /\ \A x \in Range(SubSeq(listed, m, n)) :
                 \E i \in m .. n : i \in 1 .. Len(listed) /\ x = listed[i]
<1> DEFINE part == SubSeq(listed, m, n)
<1>1. Len(listed) \in Nat /\ DOMAIN listed = 1 .. Len(listed)
    OBVIOUS
<1>2. /\ part \in Seq(Items) /\ Len(part) = n + 1 - m
      /\ DOMAIN part = 1 .. n + 1 - m
      /\ \A i \in 1 .. n + 1 - m : part[i] = listed[m + i - 1]
    BY <1>1
<1> HIDE DEF part
<1>3. \A i \in 1 .. n + 1 - m : m + i - 1 \in m .. n /\ m + i - 1 \in 1 .. Len(listed)
    BY <1>1
<1>4. Ordered(part)
    <2> SUFFICES ASSUME NEW i \in 1 .. n + 1 - m, NEW j \in 1 .. n + 1 - m, i < j,
                        NEW r \in part[i].file.of, NEW s \in part[j].file.of
                 PROVE  r < s
        BY <1>2 DEF Ordered
    <2>1. r \in listed[m + i - 1].file.of /\ s \in listed[m + j - 1].file.of
        BY <1>2
    <2>2. m + i - 1 < m + j - 1
        OBVIOUS
    <2> QED
        BY <1>1, <1>3, <2>1, <2>2 DEF Ordered
<1>5. \A x \in Range(part) : \E i \in m .. n : i \in 1 .. Len(listed) /\ x = listed[i]
    BY <1>2, <1>3 DEF Range
<1> QED
    BY <1>2, <1>4, <1>5 DEF part

\* The files produced from one segment take its place in the order.
LEMMA ReplaceOrdered ==
    ASSUME NEW listed \in Seq(Items), NEW produced \in Seq(Items),
           Ordered(listed), Ordered(produced), NEW s \in Segments,
           setting \in Settings, NEW replaced, replaced = {Raw(s)},
           \E i \in 1 .. Len(listed) : listed[i].file = Raw(s),
           \A y \in Range(produced) : y.file.of = {s}
    PROVE  Ordered(ReplaceSegments(listed, replaced, produced))
<1> DEFINE stay == Stay(listed, replaced, produced)
           N == Len(listed)
<1>1. PICK p \in 0 .. N :
         /\ ReplaceSegments(listed, replaced, produced) =
               Keeping(SubSeq(listed, 1, p), stay) \o produced
                  \o Keeping(SubSeq(listed, p + 1, Len(listed)), stay)
         /\ p \in 1 .. N /\ listed[p].file = Raw(s)
    <2>1. PICK p \in 0 .. N :
             /\ ReplaceSegments(listed, replaced, produced) =
                   Keeping(SubSeq(listed, 1, p), stay) \o produced
                      \o Keeping(SubSeq(listed, p + 1, Len(listed)), stay)
             /\ (\E i \in 1 .. Len(listed) : listed[i].file \in replaced) =>
                   p \in 1 .. Len(listed) /\ listed[p].file \in replaced
        BY ReplaceSegmentsParts
    <2>2. \E i \in 1 .. Len(listed) : listed[i].file \in replaced
        OBVIOUS
    <2>3. p \in 1 .. N /\ listed[p].file = Raw(s)
        BY <2>1, <2>2
    <2> QED
        BY <2>1, <2>3
<1>2. N \in Nat /\ DOMAIN listed = 1 .. N
    OBVIOUS
<1> DEFINE first == SubSeq(listed, 1, p)
           last == SubSeq(listed, p + 1, N)
           A == Keeping(first, stay)
           C == Keeping(last, stay)
<1>3. /\ first \in Seq(Items) /\ Ordered(first)
      /\ \A x \in Range(first) : \E i \in 1 .. p : x = listed[i]
    <2>1. 1 \in 1 .. N + 1 /\ p \in 0 .. N /\ 1 <= p + 1
        BY <1>1, <1>2
    <2> QED
        BY <2>1, OrderedPart
<1>4. /\ last \in Seq(Items) /\ Ordered(last)
      /\ \A x \in Range(last) : \E i \in p + 1 .. N : x = listed[i]
    <2>1. p + 1 \in 1 .. N + 1 /\ N \in 0 .. N /\ p + 1 <= N + 1
        BY <1>1, <1>2
    <2> QED
        BY <2>1, OrderedPart
<1> HIDE DEF first, last
<1>5. /\ A \in Seq(Items) /\ Ordered(A) /\ Range(A) = Range(first) \intersect stay
      /\ C \in Seq(Items) /\ Ordered(C) /\ Range(C) = Range(last) \intersect stay
    BY <1>3, <1>4, KeepingRange, OrderedKeeping
<1>6. listed[p].file.of = {s}
    BY <1>1, FileFacts
<1>7. \A x \in stay : x.file # Raw(s)
    BY DEF Stay
<1> HIDE DEF A, C, stay
<1>8. ASSUME NEW x \in Range(A), NEW r \in x.file.of
      PROVE  r < s
    <2>1. PICK i \in 1 .. p : x = listed[i]
        BY <1>3, <1>5, <1>8
    <2>2. i # p
        BY <1>1, <1>5, <1>7, <1>8, <2>1
    <2>3. i \in 1 .. N /\ p \in 1 .. N /\ i < p
        BY <1>1, <1>2, <2>2
    <2> QED
        BY <1>2, <1>6, <1>8, <2>1, <2>3 DEF Ordered
<1>9. ASSUME NEW y \in Range(C), NEW r \in y.file.of
      PROVE  s < r
    <2>1. PICK i \in p + 1 .. N : y = listed[i]
        BY <1>4, <1>5, <1>9
    <2>2. i \in 1 .. N /\ p \in 1 .. N /\ p < i
        BY <1>1, <1>2
    <2> QED
        BY <1>2, <1>6, <1>9, <2>1, <2>2 DEF Ordered
<1>10. \A x \in Items : \A r \in x.file.of : r \in Nat
    <2>1. \A f \in Files : \A r \in f.of : r \in Segments
        BY FilesFacts
    <2>2. \A x \in Items : x.file \in Files
        BY DEF Items
    <2> QED
        BY <2>1, <2>2, SegmentFacts
<1>11. /\ A \o produced \in Seq(Items) /\ Ordered(A \o produced)
       /\ Range(A \o produced) = Range(A) \union Range(produced)
    <2>1. \A x \in Range(A), y \in Range(produced) :
             \A r \in x.file.of : \A q \in y.file.of : r < q
        BY <1>8
    <2> QED
        BY <1>5, <2>1, OrderedConcat, ConcatProperties, RangeConcatenation
<1>12. \A x \in Range(A \o produced), y \in Range(C) :
          \A r \in x.file.of : \A q \in y.file.of : r < q
    <2> SUFFICES ASSUME NEW x \in Range(A \o produced), NEW y \in Range(C),
                        NEW r \in x.file.of, NEW q \in y.file.of
                 PROVE  r < q
        OBVIOUS
    <2>1. s < q /\ (r < s \/ r = s)
        BY <1>8, <1>9, <1>11
    <2>2. x \in Items /\ y \in Items
        BY <1>5, <1>11, RangeOfSeq
    <2>3. r \in Nat /\ q \in Nat /\ s \in Nat
        BY <1>10, <2>2, SegmentFacts
    <2> QED
        BY <2>1, <2>3
<1> DEFINE start == A \o produced
<1> HIDE DEF start
<1>13. Ordered(start \o C)
    <2>1. start \in Seq(Items) /\ Ordered(start)
        BY <1>11 DEF start
    <2>2. \A x \in Range(start), y \in Range(C) :
             \A r \in x.file.of : \A q \in y.file.of : r < q
        BY <1>12 DEF start
    <2> QED
        BY <1>5, <2>1, <2>2, OrderedConcat
<1> QED
    BY <1>1, <1>13 DEF start, A, C, first, last

\* When everything is replaced, what is produced is all there is.
LEMMA ReplaceWhole ==
    ASSUME NEW listed \in Seq(Items), NEW produced \in Seq(Items)
    PROVE  ReplaceSegments(listed, Range(FilesOf(listed)), produced) = produced
<1> DEFINE stay == Stay(listed, Range(FilesOf(listed)), produced)
           N == Len(listed)
<1>1. PICK p \in 0 .. N :
         /\ ReplaceSegments(listed, Range(FilesOf(listed)), produced) =
               Keeping(SubSeq(listed, 1, p), stay) \o produced
                  \o Keeping(SubSeq(listed, p + 1, Len(listed)), stay)
         /\ SubSeq(listed, 1, p) \in Seq(Items)
         /\ SubSeq(listed, p + 1, Len(listed)) \in Seq(Items)
    BY ReplaceSegmentsParts
<1>2. stay = {}
    BY FilesOfFacts DEF Stay
<1> HIDE DEF stay
<1>3. ASSUME NEW list \in Seq(Items)
      PROVE  Keeping(list, stay) = <<>>
    <2>1. /\ Keeping(list, stay) \in Seq(Items)
          /\ Range(Keeping(list, stay)) = {}
        BY <1>2, KeepingRange
    <2>2. \A i \in 1 .. Len(Keeping(list, stay)) :
             Keeping(list, stay)[i] \in Range(Keeping(list, stay))
        BY <2>1 DEF Range
    <2> QED
        BY <2>1, <2>2
<1>4. ReplaceSegments(listed, Range(FilesOf(listed)), produced) =
         <<>> \o produced \o <<>>
    BY <1>1, <1>3
<1> QED
    BY <1>4, ConcatEmptySeq

LEMMA AttachOrdered ==
    ASSUME setting \in Settings, NEW paths \in Seq(Files), Ascends(paths),
           NEW history,
           history.parts \in SUBSET Segments, history.merged \in Seq(Segments)
    PROVE  /\ AttachTabs(paths, history) \in Seq(Items)
           /\ Ordered(AttachTabs(paths, history))
           /\ FilesOf(AttachTabs(paths, history)) = paths
           /\ \A x \in Range(AttachTabs(paths, history)) :
                 x.file \in Range(paths) /\ x.tabs = TabsOf(x.file, history)
<1> DEFINE list == AttachTabs(paths, history)
<1>1. /\ list \in Seq(Items) /\ Len(list) = Len(paths)
      /\ \A i \in 1 .. Len(paths) : list[i].file = paths[i]
      /\ \A i \in 1 .. Len(paths) : list[i].tabs = TabsOf(paths[i], history)
      /\ FilesOf(list) = paths
    BY AttachTabsFacts
<1>2. DOMAIN list = 1 .. Len(paths) /\ DOMAIN paths = 1 .. Len(paths)
    BY <1>1
<1> HIDE DEF list
<1>3. Ordered(list)
    BY <1>1, <1>2 DEF Ordered, Ascends
<1>4. \A x \in Range(list) : x.file \in Range(paths) /\ x.tabs = TabsOf(x.file, history)
    BY <1>1, <1>2 DEF Range
<1> QED
    BY <1>1, <1>3, <1>4 DEF list

LEMMA AscendsKeeping ==
    ASSUME NEW S, NEW list \in Seq(S), Ascends(list), NEW some
    PROVE  Ascends(Keeping(list, some))
<1>1. /\ Keeping(list, some) \in Seq(S) /\ DOMAIN list = 1 .. Len(list)
    BY KeepingRange
<1> SUFFICES ASSUME NEW i \in 1 .. Len(Keeping(list, some)),
                    NEW j \in 1 .. Len(Keeping(list, some)), i < j,
                    NEW r \in Keeping(list, some)[i].of,
                    NEW s \in Keeping(list, some)[j].of
             PROVE  r < s
    BY <1>1 DEF Ascends
<1>2. PICK p, q \in 1 .. Len(list) :
         /\ p < q
         /\ Keeping(list, some)[i] = list[p]
         /\ Keeping(list, some)[j] = list[q]
    BY KeepingOrder
<1>3. r \in list[p].of /\ s \in list[q].of
    BY <1>2
<1> QED
    BY <1>1, <1>2, <1>3 DEF Ascends

LEMMA ReportedPaths ==
    ASSUME setting \in Settings, NEW t \in Tasks, completion[t] \in Report
    PROVE  /\ completion[t].paths \in Seq(Files)
           /\ completion[t].outcome \in {"completed", "failed"}
BY DEF Report

\* The files that a task which merges nothing leaves.
OfTask(paths, t) ==
    \A f \in Range(paths) : (\E s \in t : f = Raw(s)) \/ f = Final(t)

\* One list is the other with the recordings of a task replaced by these files.
Exchanged(new, old, paths, t) ==
    \A f : f \in Range(FilesOf(new)) <=>
        \/ f \in Range(paths)
        \/ f \in Range(FilesOf(old)) /\ \A s \in t : f # Raw(s)

\* A transcoded segment: its file takes the place of the recording.
LEMMA RelistedSegment ==
    ASSUME setting \in Settings, ~Merge, NEW e \in Entries,
           NEW t \in Tasks, completion[t] \in Report,
           Ascends(completion[t].paths), OfTask(completion[t].paths, t),
           NEW existing \in EntryValues, Ordered(existing.listed),
           NEW failed, Labelled(Range(existing.listed), failed),
           Parted(existing), ListsRaws(existing, t)
    PROVE  /\ Relisted(e, existing, t) \in Seq(Items)
           /\ Ordered(Relisted(e, existing, t))
           /\ Labelled(Range(Relisted(e, existing, t)), failed)
           /\ Exchanged(Relisted(e, existing, t), existing.listed,
                        completion[t].paths, t)
<1> PICK s \in Segments : t = {s}
    BY TaskFacts
<1> PICK listed \in Seq(Items) : listed = existing.listed
    BY EntryFacts
<1> PICK history : history = ReadTabHistory(listed)
    OBVIOUS
<1> PICK replaced : replaced = Replaced(e, t)
    OBVIOUS
<1> PICK paths \in Seq(Files) : paths = completion[t].paths
    BY ReportedPaths
<1> PICK produced : produced = AttachTabs(paths, history)
    OBVIOUS
<1> PICK result : result = ReplaceSegments(listed, replaced, produced)
    OBVIOUS
<1>1. replaced = {Raw(s)}
    <2>1. Range(RawsOf(t)) = {Raw(r) : r \in t}
        BY RawsOfFacts
    <2> QED
        BY <2>1 DEF Replaced
<1>2. Relisted(e, existing, t) = result
    BY DEF Relisted
<1>3. /\ history.parts =
           UNION {Range(listed[i].tabs) :
                     i \in {n \in DOMAIN listed : ~IsMergedFile(listed[n].file)}}
      /\ history.parts \in SUBSET Segments
      /\ history.merged \in Seq(Segments)
    BY ReadTabHistoryFacts
<1>4. /\ produced \in Seq(Items) /\ Ordered(produced)
      /\ FilesOf(produced) = paths
      /\ \A x \in Range(produced) :
            x.file \in Range(paths) /\ x.tabs = TabsOf(x.file, history)
    BY <1>3, AttachOrdered
<1>5. \A r \in Segments : ~IsMergedFile(Raw(r)) /\ ~IsMergedFile(Final({r}))
    BY FileFacts DEF IsMergedFile
<1>6. \A x \in Range(produced) :
         x.file.of = {s} /\ (x.file = Raw(s) \/ x.file = Final({s}))
    BY <1>4, FileFacts DEF OfTask
<1>7. PICK q \in 1 .. Len(listed) : listed[q].file = Raw(s)
    BY FilesOfFacts DEF Range, ListsRaws
<1>8. result \in Seq(Items) /\ Ordered(result)
      /\ Range(result) = Stay(listed, replaced, produced) \union Range(produced)
    <2>1. \A made \in Seq(Items) :
             /\ ReplaceSegments(listed, replaced, made) \in Seq(Items)
             /\ Range(ReplaceSegments(listed, replaced, made)) =
                   Stay(listed, replaced, made) \union Range(made)
        BY ReplaceSegmentsFacts
    <2>2. Ordered(listed) /\ Ordered(produced) /\ produced \in Seq(Items)
        BY <1>4
    <2>3. \E i \in 1 .. Len(listed) : listed[i].file = Raw(s)
        BY <1>7
    <2>4. \A y \in Range(produced) : y.file.of = {s}
        BY <1>6
    <2>5. Ordered(ReplaceSegments(listed, replaced, produced))
        BY <1>1, <2>2, <2>3, <2>4, ReplaceOrdered, Zenon
    <2>6. /\ ReplaceSegments(listed, replaced, produced) \in Seq(Items)
          /\ Range(ReplaceSegments(listed, replaced, produced)) =
                Stay(listed, replaced, produced) \union Range(produced)
        BY <2>1, <2>2
    <2>7. /\ ReplaceSegments(listed, replaced, produced) = result
        OBVIOUS
    <2> QED
        BY <2>5, <2>6, <2>7, Zenon
<1>9. ASSUME ~failed
      PROVE  s \in history.parts
    <2>1. q \in DOMAIN listed /\ listed[q] \in Range(listed)
        BY DEF Range
    <2>2. listed[q].tabs = InOrder[{s}]
        BY <1>7, <1>9, <2>1, FileFacts DEF Labelled
    <2>3. Range(listed[q].tabs) = {s}
        BY <2>2, InOrderProperties
    <2>4. ~IsMergedFile(listed[q].file)
        BY <1>5, <1>7
    <2>5. q \in {n \in DOMAIN listed : ~IsMergedFile(listed[n].file)}
        BY <2>1, <2>4
    <2>6. s \in Range(listed[q].tabs)
        BY <2>3
    <2> QED
        BY <1>3, <2>5, <2>6, Zenon
<1>10. ASSUME NEW x \in Range(produced)
       PROVE  x.tabs = InOrder[x.file.of] \/ (x.tabs = <<>> /\ failed)
    <2>1. x.tabs = InOrder[{s} \intersect history.parts]
        BY <1>4, <1>5, <1>6 DEF TabsOf
    <2>2. CASE s \in history.parts
        <3>1. {s} \intersect history.parts = {s}
            BY <2>2
        <3> QED
            BY <1>6, <2>1, <3>1
    <2>3. CASE s \notin history.parts
        <3>1. {s} \intersect history.parts = {}
            BY <2>3
        <3> QED
            BY <1>9, <2>1, <2>3, <3>1, InOrderEmpty
    <2> QED
        BY <2>2, <2>3
<1>11. Labelled(Range(result), failed)
    BY <1>8, <1>10 DEF Labelled, Stay
<1>12. \A f : f \in Range(FilesOf(result)) <=>
          \/ f \in Range(paths)
          \/ f \in Range(FilesOf(listed)) /\ f # Raw(s)
    <2>1. \A f : f \in Range(FilesOf(result)) <=> \E x \in Range(result) : x.file = f
        BY <1>8, FilesOfFacts
    <2>2. \A f : f \in Range(paths) <=> \E x \in Range(produced) : x.file = f
        BY <1>4, FilesOfFacts
    <2>3. \A f : f \in Range(FilesOf(listed)) <=> \E x \in Range(listed) : x.file = f
        BY FilesOfFacts
    <2>4. Stay(listed, replaced, produced) =
             {x \in Range(listed) : x.file # Raw(s) /\ x.file \notin Range(paths)}
        BY <1>1, <1>4 DEF Stay
    <2>5. \A x : x \in Range(result) <=>
             \/ x \in Range(produced)
             \/ x \in Range(listed) /\ x.file # Raw(s) /\ x.file \notin Range(paths)
        BY <1>8, <2>4
    <2>6. ASSUME NEW f, f \in Range(FilesOf(result))
          PROVE  \/ f \in Range(paths)
                 \/ f \in Range(FilesOf(listed)) /\ f # Raw(s)
        <3>1. PICK x \in Range(result) : x.file = f
            BY <2>1, <2>6
        <3> QED
            BY <2>2, <2>3, <2>5, <3>1
    <2>7. ASSUME NEW f \in Range(paths)
          PROVE  f \in Range(FilesOf(result))
        <3>1. PICK x \in Range(produced) : x.file = f
            BY <2>2, <2>7
        <3> QED
            BY <2>1, <2>5, <3>1
    <2>8. ASSUME NEW f \in Range(FilesOf(listed)), f # Raw(s), f \notin Range(paths)
          PROVE  f \in Range(FilesOf(result))
        <3>1. PICK x \in Range(listed) : x.file = f
            BY <2>3, <2>8
        <3> QED
            BY <2>1, <2>5, <2>8, <3>1
    <2> QED
        BY <2>6, <2>7, <2>8
<1> QED
    BY <1>2, <1>8, <1>11, <1>12 DEF Exchanged

\* A merge: what it leaves takes the place of the whole list.
LEMMA RelistedMerge ==
    ASSUME setting \in Settings, Merge, Deferred, NEW e \in Entries,
           NEW t \in Tasks, completion[t] \in Report,
           Ascends(completion[t].paths),
           \A f \in Range(completion[t].paths) :
              (\E s \in t : f = Raw(s)) \/ f = Final(t) \/ f = Merged(t),
           NEW existing \in EntryValues,
           Labelled(Range(existing.listed), FALSE),
           existing = entries[e],
           \A f \in Range(FilesOf(existing.listed)) : \E s \in t : f = Raw(s),
           \A s \in t : Raw(s) \in Range(FilesOf(existing.listed))
    PROVE  /\ Relisted(e, existing, t) \in Seq(Items)
           /\ Ordered(Relisted(e, existing, t))
           /\ Labelled(Range(Relisted(e, existing, t)), FALSE)
           /\ FilesOf(Relisted(e, existing, t)) = completion[t].paths
<1>1. t \in SUBSET Segments /\ t # {}
    BY TaskFacts
<1> PICK listed \in Seq(Items) : listed = existing.listed
    BY EntryFacts
<1> PICK history : history = ReadTabHistory(listed)
    OBVIOUS
<1> PICK paths \in Seq(Files) : paths = completion[t].paths
    BY ReportedPaths
<1> PICK produced : produced = AttachTabs(paths, history)
    OBVIOUS
<1>2. /\ history.parts =
           UNION {Range(listed[i].tabs) :
                     i \in {n \in DOMAIN listed : ~IsMergedFile(listed[n].file)}}
      /\ history.parts \in SUBSET Segments
      /\ history.parts # {} => history.merged = InOrder[history.parts]
      /\ history.merged \in Seq(Segments)
    BY ReadTabHistoryFacts
<1>3. /\ produced \in Seq(Items) /\ Ordered(produced)
      /\ FilesOf(produced) = paths
      /\ \A x \in Range(produced) :
            x.file \in Range(paths) /\ x.tabs = TabsOf(x.file, history)
    BY <1>2, AttachOrdered
<1>4. Relisted(e, existing, t) = produced
    <2>1. Relisted(e, existing, t) =
             ReplaceSegments(listed, Range(FilesOf(listed)), produced)
        BY DEF Relisted, Replaced
    <2> QED
        BY <1>3, <2>1, ReplaceWhole
<1>5. /\ \A r \in Segments : ~IsMergedFile(Raw(r))
      /\ IsMergedFile(Final(t)) /\ IsMergedFile(Merged(t))
    BY FileFacts DEF IsMergedFile
<1>6. ASSUME NEW i \in DOMAIN listed
      PROVE  \E s \in t : /\ listed[i].file = Raw(s) /\ ~IsMergedFile(listed[i].file)
                          /\ Range(listed[i].tabs) = {s}
    <2>1. listed[i] \in Range(listed)
        BY DEF Range
    <2>2. listed[i].file \in Range(FilesOf(listed))
        BY <2>1, FilesOfFacts
    <2>3. PICK s \in t : listed[i].file = Raw(s)
        BY <2>2
    <2>4. listed[i].tabs = InOrder[{s}]
        BY <2>1, <2>3, FileFacts DEF Labelled
    <2>5. Range(listed[i].tabs) = {s}
        BY <1>1, <2>4, InOrderProperties
    <2> QED
        BY <1>1, <1>5, <2>3, <2>5
<1>7. history.parts = t
    <2>1. ASSUME NEW s \in history.parts
          PROVE  s \in t
        <3>1. PICK i \in DOMAIN listed : s \in Range(listed[i].tabs)
            BY <1>2
        <3> QED
            BY <1>6, <3>1
    <2>2. ASSUME NEW s \in t
          PROVE  s \in history.parts
        <3>1. PICK x \in Range(listed) : x.file = Raw(s)
            BY FilesOfFacts
        <3>2. PICK i \in DOMAIN listed : listed[i].file = Raw(s)
            BY <3>1 DEF Range
        <3>3. s \in Range(listed[i].tabs) /\ ~IsMergedFile(listed[i].file)
            <4>1. PICK q \in t : /\ listed[i].file = Raw(q)
                                 /\ ~IsMergedFile(listed[i].file)
                                 /\ Range(listed[i].tabs) = {q}
                BY <1>6
            <4>2. {q} = {s}
                BY <3>2, <4>1, FileFacts
            <4> QED
                BY <4>1, <4>2
        <3>4. i \in {n \in DOMAIN listed : ~IsMergedFile(listed[n].file)}
            BY <3>3
        <3> QED
            BY <1>2, <3>3, <3>4
    <2> QED
        BY <2>1, <2>2
<1>8. ASSUME NEW x \in Range(produced)
      PROVE  x.tabs = InOrder[x.file.of]
    <2>1. CASE \E s \in t : x.file = Raw(s)
        <3>1. PICK s \in t : x.file = Raw(s)
            BY <2>1
        <3>2. ~IsMergedFile(x.file) /\ x.file.of = {s}
            BY <1>1, <1>5, <3>1, FileFacts
        <3>4. x.tabs = InOrder[{s} \intersect t]
            BY <1>3, <1>7, <3>2 DEF TabsOf
        <3>3. {s} \intersect t = {s}
            OBVIOUS
        <3> QED
            BY <3>2, <3>3, <3>4
    <2>2. CASE x.file = Final(t) \/ x.file = Merged(t)
        <3>1. x.tabs = InOrder[t]
            BY <1>1, <1>2, <1>3, <1>5, <1>7, <2>2 DEF TabsOf
        <3> QED
            BY <2>2, <3>1, FileFacts
    <2> QED
        BY <1>3, <2>1, <2>2
<1>9. Labelled(Range(produced), FALSE)
    BY <1>8 DEF Labelled
<1> QED
    BY <1>3, <1>4, <1>9

\* Steps that leave the lists alone.
LEMMA ListsUntouched ==
    ASSUME Lists, setting' = setting, up' = up, current' = current,
           entries' = entries,
           \A e \in Entries \ {current} : Open(e)' \subseteq Open(e)
    PROVE  Lists'
<1>1. Merge' = Merge /\ Deferred' = Deferred /\ EntryValues' = EntryValues
    BY SameSetting
<1> QED
    BY <1>1 DEF Lists

\* The list of an entry once one of its tasks is settled.
LEMMA SettledList ==
    ASSUME BaseInv, OutcomeInv, ListInv, NEW t \in Tasks, CompleteDeferred(t),
           NEW e, e = EntryOfTask(t)
    PROVE  /\ e \in Entries \ {current} /\ t \in Open(e)
           /\ expected /\ up /\ current = None /\ Deferred
           /\ entries[e] \in EntryValues /\ entries'[e] \in EntryValues
           /\ completion[t] \in Report
           /\ entries'[e].outcome = SettledOutcome(entries[e], t, outstanding'[e])
           /\ entries'[e].incomplete = TRUE => entries[e].incomplete = TRUE
           /\ Ordered(entries'[e].listed)
           /\ Labelled(Range(entries'[e].listed), Sticky(entries[e]))
           /\ ~Merge => Exchanged(entries'[e].listed, entries[e].listed,
                                  completion[t].paths, t)
           /\ Merge => /\ FilesOf(entries'[e].listed) = completion[t].paths
                       /\ Awaited(e) = {t} /\ entries[e].outcome # "failed"
<1>1. /\ MediaTypes /\ DeferredTypes /\ SettlingFits /\ setting \in Settings
      /\ Alone
    BY BaseFacts DEF BaseInv, SessionInv, MediaTypes, DeferredTypes
<1> PICK left : left = IF outstanding[e] > 0 THEN outstanding[e] - 1 ELSE 0
    OBVIOUS
<1> PICK existing : existing = entries[e]
    OBVIOUS
<1> PICK updated : updated = Settled(e, existing, t, left)
    OBVIOUS
<1>2. /\ e \in Entries /\ left \in Nat
      /\ completion[t] \in Report /\ existing \in EntryValues
      /\ pc[t] = "completing" /\ outstanding'[e] = left
      /\ entries'[e] = updated
    BY <1>1, CompleteDeferredFacts
<1>3. expected /\ up /\ current = None /\ e # current
    BY <1>2, BaseFacts, NoneFacts
<1>4. t \in Open(e)
    BY <1>1, <1>2, AwaitedFacts, OpenFacts
<1>5. Deferred
    BY <1>3 DEF ListInv, StepsFit
<1> PICK paths : paths = completion[t].paths
    OBVIOUS
<1>6. /\ Ascends(paths)
      /\ \A f \in Range(paths) :
            (\E s \in t : f = Raw(s)) \/ f = Final(t) \/ (Merge /\ f = Merged(t))
    BY <1>2 DEF ListInv, PathsFit, Answered
<1>7. /\ WellListed(existing) /\ (~Merge => Parted(existing))
      /\ ListsRaws(existing, t)
      /\ Merge => OnlyRaws(existing, t)
    BY <1>2, <1>3, <1>4, <1>5 DEF ListInv, Lists
<1>8. /\ updated \in EntryValues
      /\ updated.listed = Relisted(e, existing, t)
      /\ updated.outcome = SettledOutcome(existing, t, left)
      /\ updated.incomplete = TRUE => existing.incomplete = TRUE
    <2>1. /\ DeferredTypes /\ completion[t] \in Report /\ e \in Entries
          /\ existing \in EntryValues /\ left \in Nat
        BY <1>1, <1>2
    <2>2. /\ Settled(e, existing, t, left) \in EntryValues
          /\ Settled(e, existing, t, left).listed = Relisted(e, existing, t)
          /\ Settled(e, existing, t, left).outcome =
                SettledOutcome(existing, t, left)
          /\ existing.incomplete = FALSE =>
                Settled(e, existing, t, left).incomplete = FALSE
        BY <2>1, SettledType, ZenonT(60)
    <2>3. existing.incomplete \in BOOLEAN
        BY <1>2, EntryFacts
    <2> QED
        BY <2>2, <2>3
<1>9. CASE ~Merge
    <2> PICK failed : failed = (existing.outcome = "failed")
        OBVIOUS
    <2>1. /\ Ordered(existing.listed)
          /\ Labelled(Range(existing.listed), failed)
          /\ Parted(existing) /\ ListsRaws(existing, t)
        BY <1>7, <1>9 DEF WellListed
    <2>2. Ascends(completion[t].paths) /\ OfTask(completion[t].paths, t)
        BY <1>6, <1>9 DEF OfTask
    <2>3. /\ setting \in Settings /\ e \in Entries
          /\ completion[t] \in Report /\ existing \in EntryValues
        BY <1>1, <1>2
    <2>4. /\ Ordered(Relisted(e, existing, t))
          /\ Labelled(Range(Relisted(e, existing, t)), failed)
          /\ Exchanged(Relisted(e, existing, t), existing.listed,
                       completion[t].paths, t)
        BY <1>9, <2>1, <2>2, <2>3, RelistedSegment, Zenon
    <2>5. Labelled(Range(updated.listed), Sticky(existing))
        BY <1>8, <1>9, <2>4 DEF Labelled, Sticky
    <2> QED
        BY <1>2, <1>3, <1>4, <1>5, <1>8, <1>9, <2>4, <2>5
<1>10. CASE Merge
    <2>1. \A u \in Awaited(e) : u = t
        BY <1>1, <1>2, <1>4, <1>10, OpenFacts DEF Alone
    <2>2. Awaited(e) = {t} /\ Reports(e) = {}
        BY <1>1, <1>2, <1>4, <2>1, OpenFacts
    <2>3. existing.outcome # "failed"
        BY <1>2, <1>3, <1>10, <2>2 DEF OutcomeInv, Outcomes
    <2>4. Labelled(Range(existing.listed), FALSE)
        BY <1>7, <2>3 DEF WellListed, Labelled
    <2>5. /\ \A f \in Range(FilesOf(existing.listed)) : \E s \in t : f = Raw(s)
          /\ \A s \in t : Raw(s) \in Range(FilesOf(existing.listed))
        BY <1>7, <1>10 DEF OnlyRaws, ListsRaws
    <2>6. /\ Ascends(completion[t].paths)
          /\ \A f \in Range(completion[t].paths) :
                (\E s \in t : f = Raw(s)) \/ f = Final(t) \/ f = Merged(t)
        BY <1>6
    <2>7. /\ Ordered(Relisted(e, existing, t))
          /\ Labelled(Range(Relisted(e, existing, t)), FALSE)
          /\ FilesOf(Relisted(e, existing, t)) = completion[t].paths
        BY <1>1, <1>2, <1>5, <1>10, <2>4, <2>5, <2>6, RelistedMerge, Zenon
    <2>8. Labelled(Range(updated.listed), Sticky(existing))
        BY <1>8, <2>7 DEF Labelled
    <2> QED
        BY <1>2, <1>3, <1>4, <1>5, <1>8, <1>10, <2>2, <2>3, <2>7, <2>8
<1> QED
    BY <1>9, <1>10

LEMMA CompleteDeferredLists ==
    ASSUME BaseInv, OutcomeInv, ListInv, NEW t \in Tasks, CompleteDeferred(t),
           UNCHANGED recording
    PROVE  ListInv'
<1>1. /\ MediaTypes /\ SettlingFits /\ setting \in Settings
      /\ current' = current
    BY BaseFacts DEF BaseInv, MediaTypes, DeferredTypes, recording, session
<1> PICK e : e = EntryOfTask(t)
    OBVIOUS
<1> PICK existing : existing = entries[e]
    OBVIOUS
<1> PICK updated : updated = entries'[e]
    OBVIOUS
<1> PICK paths : paths = completion[t].paths
    OBVIOUS
<1>2. /\ setting' = setting /\ up' = up /\ queue' = queue
      /\ expected' = expected /\ completion' = completion
      /\ step' = step /\ published' = published
      /\ pc[t] = "completing"
      /\ pc'[t] = "journaling" /\ \A u \in Tasks \ {t} : pc'[u] = pc[u]
      /\ \A d \in Entries \ {e} : entries'[d] = entries[d]
    BY <1>1, CompleteDeferredFacts
<1>3. /\ e \in Entries \ {current} /\ t \in Open(e) /\ up /\ Deferred
      /\ existing \in EntryValues /\ updated \in EntryValues
      /\ updated.outcome = SettledOutcome(existing, t, outstanding'[e])
      /\ Ordered(updated.listed)
      /\ Labelled(Range(updated.listed), Sticky(existing))
      /\ ~Merge => Exchanged(updated.listed, existing.listed, paths, t)
      /\ Merge => FilesOf(updated.listed) = paths /\ Awaited(e) = {t}
    BY SettledList
<1>4. Merge' = Merge /\ Deferred' = Deferred /\ EntryValues' = EntryValues
      /\ Tasks' = Tasks /\ Transcode' = Transcode
    BY <1>2, SameSetting
<1>5. \A d \in Entries : Open(d)' \subseteq Open(d) /\ t \notin Open(d)'
    <2>1. \A d : Awaited(d)' = Awaited(d) /\ Awaited(d) \subseteq Tasks
        BY <1>1, <1>2, AwaitedSame, AwaitedFacts
    <2> QED
        BY <1>1, <1>2, <2>1, OpenFacts, OpenNext
<1>6. StepsFit'
    BY <1>2, <1>4 DEF ListInv, StepsFit
<1>7. PathsFit'
    <2>1. \A u \in Tasks : Answered(u)' => Answered(u)
        BY <1>2 DEF Answered
    <2> QED
        BY <1>2, <1>4, <2>1 DEF ListInv, PathsFit
<1>8. WellListed(updated)
    <2>1. Sticky(existing) => updated.outcome = "failed"
        BY <1>3 DEF SettledOutcome
    <2> QED
        BY <1>3, <2>1 DEF WellListed, Labelled
<1>9. t # {} /\ t \subseteq SegmentsOf(e) /\ t \subseteq Segments
      /\ (~Merge => \E s \in Segments : t = {s})
    BY <1>1, TaskFacts
<1>10. \A f \in Range(paths) :
          /\ f.of # {} /\ f.of \subseteq SegmentsOf(e)
          /\ ~Merge => \E s \in Segments : f = Raw(s) \/ f = Final({s})
    <2> SUFFICES ASSUME NEW f \in Range(paths)
                 PROVE  /\ f.of # {} /\ f.of \subseteq SegmentsOf(e)
                        /\ ~Merge => \E s \in Segments : f = Raw(s) \/ f = Final({s})
        OBVIOUS
    <2>1. (\E s \in t : f = Raw(s)) \/ f = Final(t) \/ (Merge /\ f = Merged(t))
        BY <1>2 DEF ListInv, PathsFit, Answered
    <2>2. CASE \E s \in t : f = Raw(s)
        <3>1. PICK s \in t : f = Raw(s)
            BY <2>2
        <3>2. f.of = {s}
            BY <3>1, FileFacts
        <3>3. s \in Segments /\ s \in SegmentsOf(e)
            BY <1>9, <3>1
        <3>4. f.of # {} /\ f.of \subseteq SegmentsOf(e)
            BY <3>2, <3>3
        <3> QED
            BY <3>1, <3>3, <3>4
    <2>3. CASE f = Final(t) \/ (Merge /\ f = Merged(t))
        <3>1. f.of = t
            BY <2>3, FileFacts
        <3>2. ~Merge => f = Final(t) /\ \E s \in Segments : t = {s}
            BY <1>9, <2>3
        <3> QED
            BY <1>9, <3>1, <3>2
    <2> QED
        BY <2>1, <2>2, <2>3
<1>11. OwnFiles(updated, e) /\ (~Merge => Parted(updated))
    <2>1. OwnFiles(existing, e) /\ (~Merge => Parted(existing))
        BY <1>3 DEF ListInv, Lists
    <2> QED
        BY <1>3, <1>10, <2>1 DEF OwnFiles, Parted, Exchanged
<1>12. ASSUME NEW u \in Open(e), u # t
       PROVE  ~Merge /\ ListsRaws(updated, u)
    <2>1. ~Merge
        BY <1>1, <1>3, <1>12, OpenFacts
    <2>2. u \in Tasks /\ ListsRaws(existing, u)
        BY <1>1, <1>3, <1>12, OpenFacts DEF ListInv, Lists
    <2>3. PICK r \in Segments : u = {r}
        BY <1>1, <2>1, <2>2, TaskFacts
    <2>4. r \notin t
        BY <1>9, <1>12, <2>1, <2>3
    <2>5. \A s \in t : Raw(r) # Raw(s)
        BY <2>4, FileFacts
    <2>6. Raw(r) \in Range(FilesOf(existing.listed))
        BY <2>2, <2>3 DEF ListsRaws
    <2>7. Raw(r) \in Range(FilesOf(updated.listed))
        BY <1>3, <2>1, <2>5, <2>6 DEF Exchanged
    <2> QED
        BY <2>1, <2>3, <2>7 DEF ListsRaws
<1>13. \A d \in Entries : entries'[d] \in EntryValues => WellListed(entries'[d])
    BY <1>2, <1>8 DEF ListInv, Lists
<1>14. \A d \in Entries \ {current'} : entries'[d] \in EntryValues =>
          /\ OwnFiles(entries'[d], d)
          /\ Deferred /\ ~Merge => Parted(entries'[d])
    BY <1>1, <1>2, <1>11 DEF ListInv, Lists
<1>15. \A d \in Entries \ {current'} : \A u \in Open(d)' :
          /\ ListsRaws(entries'[d], u)
          /\ Merge => OnlyRaws(entries'[d], u)
    BY <1>1, <1>2, <1>3, <1>5, <1>12 DEF ListInv, Lists
<1>16. Lists'
    BY <1>4, <1>13, <1>14, <1>15 DEF Lists
<1> QED
    BY <1>6, <1>7, <1>16 DEF ListInv

\* An entry that is filed with these files when its recording ends.
Filed(entry, paths, parts) ==
    /\ entry \in EntryValues
    /\ entry.listed = AttachTabs(paths, TabHistory(parts, <<>>))
    /\ parts = Parts \/ (parts = {} /\ entry.outcome = "failed")
    /\ ~(entry.outcome = "completed" /\ entry.timing = "after-worker")

LEMMA FiledEntries ==
    ASSUME MediaTypes, Recording, Ended, current \in Entries
    PROVE  /\ \A paths \in Seq(Files), deferred \in BOOLEAN :
                 Filed(CompletedEntry(paths, Parts, deferred), paths, Parts)
           /\ Filed(FailedEntry(recorded), recorded, {})
<1>1. /\ setting \in Settings /\ recorded \in Seq(Files) /\ broken \in BOOLEAN
      /\ retain \in BOOLEAN /\ Parts \in SUBSET Segments
    BY PartsFacts DEF MediaTypes, DeferredTypes, SessionTypes, Ended
<1>2. ASSUME NEW paths \in Seq(Files), NEW deferred \in BOOLEAN
      PROVE  Filed(CompletedEntry(paths, Parts, deferred), paths, Parts)
    <2> PICK parts \in SUBSET Segments : parts = Parts
        BY <1>1
    <2> PICK entry : entry = CompletedEntry(paths, parts, deferred)
        OBVIOUS
    <2>1. CompletedFits(CompletedEntry(paths, parts, deferred), paths, parts, deferred)
        BY <1>1, CompletedEntryType
    <2>2. Filed(entry, paths, parts)
        BY <2>1 DEF Filed, CompletedFits
    <2> QED
        BY <2>2
<1>3. Filed(FailedEntry(recorded), recorded, {})
    BY <1>1, FailedEntryType DEF Filed
<1> QED
    BY <1>2, <1>3

\* The ways a recording ends: what was recorded is kept, deleted, or merged.
LEMMA CompletingKinds ==
    ASSUME MediaTypes, Recording,
           FinalizeFailed \/ Discard \/ KeepIncomplete \/ KeepSegments \/ MergeNow
    PROVE  \E entry \in EntryValues, paths \in Seq(Files), parts \in SUBSET Segments :
              /\ Complete(entry) /\ Filed(entry, paths, parts)
              /\ \/ /\ paths = recorded /\ files' = files /\ captured' = captured
                    /\ \/ queue' = queue
                       \/ queue' = Dropped
                       \/ /\ queue' = Append(Dropped, Parts)
                          /\ Merge /\ Deferred /\ recorded # <<>>
                 \/ /\ paths = <<>> /\ queue' = Dropped
                    /\ captured' = captured \ SegmentsOf(current)
                    /\ \E gone \in SUBSET Range(recorded) : files' = files \ gone
                 \/ /\ paths \in {recorded, <<Merged(Parts)>>}
                    /\ Merge /\ ~Deferred /\ recorded # <<>>
                    /\ queue' = queue /\ captured' = captured
                    /\ \E gone \in SUBSET Range(recorded) :
                          files' = (files \union {Merged(Parts)}) \ gone
<1>1. /\ setting \in Settings /\ Ended /\ current \in Entries
      /\ recorded \in Seq(Files) /\ queue \in Seq(Tasks)
    BY DEF MediaTypes, DeferredTypes, SessionTypes, FinalizeFailed, Discard,
           KeepIncomplete, KeepSegments, MergeNow, Kept, Ended
<1>2. /\ Parts \in SUBSET Segments /\ {} \in SUBSET Segments
      /\ Merge /\ recorded # <<>> => Parts \in Tasks
    BY <1>1, PartsFacts
<1>3. <<>> \in Seq(Files)
    OBVIOUS
<1>4. /\ \A paths \in Seq(Files), deferred \in BOOLEAN :
             Filed(CompletedEntry(paths, Parts, deferred), paths, Parts)
      /\ Filed(FailedEntry(recorded), recorded, {})
    BY <1>1, FiledEntries
<1>5. \A entry, paths, parts : Filed(entry, paths, parts) => entry \in EntryValues
    BY DEF Filed
<1>6. CASE FinalizeFailed
    <2>1. Complete(FailedEntry(recorded)) /\ UNCHANGED <<files, queue, captured>>
        BY <1>6 DEF FinalizeFailed, FailedEntry
    <2> QED
        BY <1>1, <1>2, <1>4, <1>5, <2>1
<1> DEFINE later == Len(queue') > before
<1>7. later \in BOOLEAN
    OBVIOUS
<1> HIDE DEF later
<1>8. CASE Discard
    <2>1. /\ captured' = captured \ SegmentsOf(current) /\ queue' = Dropped
          /\ \E gone \in SUBSET Range(recorded) : files' = files \ gone
          /\ Complete(CompletedEntry(<<>>, Parts, later))
        BY <1>8 DEF Discard, Dropped, later
    <2> QED
        BY <1>1, <1>2, <1>3, <1>4, <1>5, <1>7, <2>1
<1>9. CASE KeepIncomplete \/ KeepSegments
    <2>1. /\ files' = files /\ captured' = captured
          /\ Complete(CompletedEntry(recorded, Parts, later))
        BY <1>9 DEF KeepIncomplete, KeepSegments, later
    <2>2. \/ queue' = queue
          \/ queue' = Dropped
          \/ /\ queue' = Append(Dropped, Parts)
             /\ Merge /\ Deferred /\ recorded # <<>>
        BY <1>9 DEF KeepIncomplete, KeepSegments, Dropped, Mergeable
    <2>3. /\ Filed(CompletedEntry(recorded, Parts, later), recorded, Parts)
          /\ CompletedEntry(recorded, Parts, later) \in EntryValues
        BY <1>1, <1>4, <1>5, <1>7
    <2> QED
        BY <1>1, <1>2, <2>1, <2>2, <2>3
<1>10. CASE MergeNow
    <2>1. /\ queue' = queue /\ captured' = captured
          /\ Merge /\ ~Deferred /\ recorded # <<>>
        BY <1>10 DEF MergeNow, Mergeable
    <2>2. <<Merged(Parts)>> \in Seq(Files)
        BY <1>1, <1>2, <2>1, FilesFacts
    <2>3. /\ Filed(CompletedEntry(<<Merged(Parts)>>, Parts, FALSE), <<Merged(Parts)>>, Parts)
          /\ Filed(CompletedEntry(recorded, Parts, FALSE), recorded, Parts)
        BY <1>1, <1>4, <2>2
    <2>4. \/ /\ Complete(CompletedEntry(<<Merged(Parts)>>, Parts, FALSE))
             /\ \E gone \in SUBSET Range(recorded) :
                   files' = (files \union {Merged(Parts)}) \ gone
          \/ /\ Complete(CompletedEntry(recorded, Parts, FALSE))
             /\ files' = files
          \/ /\ Complete(FailedEntry(recorded))
             /\ \/ files' = files
                \/ \E gone \in SUBSET Range(recorded) :
                      files' = (files \union {Merged(Parts)}) \ gone
        BY <1>10 DEF MergeNow, FailedEntry
    <2>5. CASE /\ Complete(CompletedEntry(<<Merged(Parts)>>, Parts, FALSE))
               /\ \E gone \in SUBSET Range(recorded) :
                     files' = (files \union {Merged(Parts)}) \ gone
        BY <1>2, <1>5, <2>1, <2>2, <2>3, <2>5
    <2>6. CASE /\ Complete(CompletedEntry(recorded, Parts, FALSE))
               /\ files' = files
        BY <1>1, <1>2, <1>5, <2>1, <2>3, <2>6
    <2>7. CASE /\ Complete(FailedEntry(recorded))
               /\ \/ files' = files
                  \/ \E gone \in SUBSET Range(recorded) :
                        files' = (files \union {Merged(Parts)}) \ gone
        BY <1>1, <1>2, <1>4, <1>5, <2>1, <2>7
    <2> QED
        BY <2>4, <2>5, <2>6, <2>7
<1> QED
    BY <1>6, <1>8, <1>9, <1>10

\* What is filed is in order, and shows the tabs of its segments.
LEMMA FiledLists ==
    ASSUME MediaTypes, Recording, current \in Entries,
           NEW entry, NEW paths \in Seq(Files), NEW parts \in SUBSET Segments,
           Filed(entry, paths, parts),
           \/ paths = recorded
           \/ paths = <<>>
           \/ paths = <<Merged(Parts)>> /\ Merge /\ recorded # <<>>
    PROVE  /\ WellListed(entry) /\ OwnFiles(entry, current)
           /\ ~Merge => Parted(entry)
           /\ FilesOf(entry.listed) = paths
<1> PICK e : e = current
    OBVIOUS
<1>1. /\ setting \in Settings /\ recorded \in Seq(Files)
      /\ Parts \in SUBSET SegmentsOf(e) /\ Parts \in SUBSET Segments
      /\ recorded # <<>> => Parts # {}
    BY PartsFacts DEF MediaTypes, DeferredTypes, SessionTypes
<1> PICK history : history = TabHistory(parts, <<>>)
    OBVIOUS
<1>2. /\ history.parts = parts /\ history.parts \in SUBSET Segments
      /\ history.merged \in Seq(Segments)
      /\ parts # {} => history.merged = InOrder[parts]
    <2>1. <<>> \in Seq(Segments)
        OBVIOUS
    <2>2. /\ TabHistory(parts, <<>>).parts = parts
          /\ TabHistory(parts, <<>>).merged =
                IF parts = {} THEN <<>> ELSE InOrder[parts]
          /\ TabHistory(parts, <<>>).merged \in Seq(Segments)
        BY <2>1, TabHistoryFacts, Zenon
    <2> QED
        BY <2>2
<1> PICK failed : failed = (entry.outcome = "failed")
    OBVIOUS
<1>3. parts = Parts \/ (parts = {} /\ failed)
    BY DEF Filed
<1>4. ASSUME NEW f \in Range(recorded)
      PROVE  \E s \in SegmentsOf(e) :
                f = Raw(s) \/ (~Deferred /\ f = Final({s}))
    BY DEF Recording
<1>5. Ascends(paths)
    <2>1. CASE paths = recorded
        BY <2>1 DEF Recording, Ascends
    <2>2. CASE paths = <<>> \/ paths = <<Merged(Parts)>>
        <3>1. \A i, j \in DOMAIN paths : ~(i < j)
            BY <2>2
        <3> QED
            BY <3>1 DEF Ascends
    <2> QED
        BY <2>1, <2>2
<1> PICK listed : listed = AttachTabs(paths, history)
    OBVIOUS
<1>6. /\ listed \in Seq(Items) /\ Ordered(listed) /\ FilesOf(listed) = paths
      /\ \A x \in Range(listed) :
            x.file \in Range(paths) /\ x.tabs = TabsOf(x.file, history)
    BY <1>1, <1>2, <1>5, AttachOrdered
<1>7. ASSUME NEW x \in Range(listed), x.file \in Range(recorded)
      PROVE  /\ x.tabs = InOrder[x.file.of] \/ (x.tabs = <<>> /\ failed)
             /\ x.file.of # {} /\ x.file.of \subseteq SegmentsOf(e)
             /\ \E s \in Segments : x.file = Raw(s) \/ x.file = Final({s})
    <2>1. PICK s \in SegmentsOf(e) :
             x.file = Raw(s) \/ (~Deferred /\ x.file = Final({s}))
        BY <1>4, <1>7
    <2>2. x.file.of = {s} /\ ~IsMergedFile(x.file) /\ s \in Segments
        BY <2>1, FileFacts DEF IsMergedFile, SegmentsOf
    <2>3. x.tabs = InOrder[{s} \intersect parts]
        BY <1>2, <1>6, <2>2 DEF TabsOf
    <2>4. s \in Parts
        BY <1>7, <2>2 DEF Parts
    <2>5. CASE parts = Parts
        <3>1. {s} \intersect parts = {s}
            BY <2>4, <2>5
        <3> QED
            BY <2>1, <2>2, <2>3, <3>1
    <2>6. CASE parts = {} /\ failed
        <3>1. {s} \intersect parts = {}
            BY <2>6
        <3> QED
            BY <2>1, <2>2, <2>3, <2>6, <3>1, InOrderEmpty
    <2> QED
        BY <1>3, <2>5, <2>6
<1>8. ASSUME NEW x \in Range(listed), paths = <<Merged(Parts)>>, Merge,
             recorded # <<>>
      PROVE  /\ x.tabs = InOrder[x.file.of] \/ (x.tabs = <<>> /\ failed)
             /\ x.file.of # {} /\ x.file.of \subseteq SegmentsOf(e)
    <2>1. x.file = Merged(Parts)
        BY <1>6, <1>8 DEF Range
    <2>2. x.file.of = Parts /\ IsMergedFile(x.file)
        BY <2>1, FileFacts DEF IsMergedFile
    <2>3. x.tabs = history.merged
        BY <1>6, <2>2 DEF TabsOf
    <2>4. CASE parts = Parts
        BY <1>1, <1>2, <1>8, <2>2, <2>3, <2>4
    <2>5. CASE parts = {} /\ failed
        <3>1. history.merged = <<>>
            BY <2>5 DEF TabHistory
        <3> QED
            BY <1>1, <1>8, <2>2, <2>3, <2>5, <3>1
    <2> QED
        BY <1>3, <2>4, <2>5
<1>9. ASSUME NEW x \in Range(listed)
      PROVE  /\ x.tabs = InOrder[x.file.of] \/ (x.tabs = <<>> /\ failed)
             /\ x.file.of # {} /\ x.file.of \subseteq SegmentsOf(e)
             /\ ~Merge => \E s \in Segments : x.file = Raw(s) \/ x.file = Final({s})
    <2>1. CASE paths = recorded
        BY <1>6, <1>7, <2>1
    <2>2. CASE paths = <<>>
        BY <1>6, <2>2 DEF Range
    <2>3. CASE paths = <<Merged(Parts)>> /\ Merge /\ recorded # <<>>
        BY <1>8, <2>3
    <2> QED
        BY <2>1, <2>2, <2>3
<1>10. entry.listed = listed
    BY DEF Filed
<1>11. \A f : f \in Range(FilesOf(listed)) <=> \E x \in Range(listed) : x.file = f
    BY <1>6, FilesOfFacts
<1>12. WellListed(entry)
    BY <1>6, <1>9, <1>10 DEF WellListed, Labelled
<1>13. OwnFiles(entry, e) /\ (~Merge => Parted(entry))
    BY <1>9, <1>10, <1>11 DEF OwnFiles, Parted
<1> QED
    BY <1>6, <1>10, <1>12, <1>13

LEMMA RecordingPaths ==
    ASSUME ListInv, setting' = setting, expected' = expected, pc' = pc,
           completion' = completion, step' = step, published' = published
    PROVE  StepsFit' /\ PathsFit'
<1>1. /\ Merge' = Merge /\ Deferred' = Deferred /\ Tasks' = Tasks
      /\ Transcode' = Transcode
    BY SameSetting
<1>2. StepsFit'
    BY <1>1 DEF ListInv, StepsFit
<1>3. PathsFit'
    BY <1>1 DEF ListInv, PathsFit, Answered
<1> QED
    BY <1>2, <1>3

LEMMA BeginLists ==
    ASSUME BaseInv, ListInv, Begin
    PROVE  ListInv'
<1> PICK e : e = EntryOf[at]
    OBVIOUS
<1>1. /\ current = None /\ at \in Segments /\ current' = e
      /\ entries' = [entries EXCEPT ![e] = Interrupted]
      /\ setting' = setting /\ up' = up /\ queue' = queue /\ expected' = expected
      /\ pc' = pc /\ completion' = completion /\ step' = step
      /\ published' = published
      /\ entries \in [Entries -> EntryValues \union {None}]
    BY DEF Begin, flushing, BaseInv, MediaTypes, DeferredTypes
<1>2. StepsFit' /\ PathsFit'
    BY <1>1, RecordingPaths
<1>3. \A d : Open(d)' = Open(d)
    <2>1. \A d : Awaited(d)' = Awaited(d)
        BY <1>1, AwaitedSame
    <2> QED
        BY <1>1, <2>1 DEF Open, Reported
<1>4. WellListed(Interrupted)
    <2>1. Interrupted.listed = <<>> /\ Range(Interrupted.listed) = {}
        BY DEF Interrupted, Range
    <2> QED
        BY <2>1 DEF WellListed, Ordered, Labelled
<1>5. /\ e \in Entries
      /\ entries'[e] = Interrupted
      /\ \A d \in Entries \ {e} : entries'[d] = entries[d] /\ d # current
    BY <1>1, SegmentFacts, NoneFacts
<1>6. Merge' = Merge /\ Deferred' = Deferred /\ EntryValues' = EntryValues
    BY <1>1, SameSetting
<1>7. \A d \in Entries : entries'[d] \in EntryValues => WellListed(entries'[d])
    BY <1>4, <1>5 DEF ListInv, Lists
<1>8. Lists'
    BY <1>1, <1>3, <1>5, <1>6, <1>7 DEF ListInv, Lists
<1> QED
    BY <1>2, <1>8 DEF ListInv

LEMMA StopLists ==
    ASSUME BaseInv, ListInv, NEW s \in Segments, Stop(s)
    PROVE  ListInv'
<1>1. MediaTypes /\ setting \in Settings /\ queue \in Seq(Tasks)
    BY DEF BaseInv, MediaTypes, DeferredTypes
<1>2. /\ setting' = setting /\ up' = up /\ expected' = expected /\ pc' = pc
      /\ current \in Entries /\ current' = current /\ entries' = entries
      /\ completion' = completion /\ step' = step /\ published' = published
      /\ EntryOf[s] = current
      /\ queue' = queue \/ (queue' = Append(queue, {s}) /\ ~Merge)
    BY <1>1, StopFacts
<1>3. StepsFit' /\ PathsFit'
    BY <1>2, RecordingPaths
<1>4. Range(queue') \subseteq Range(queue) \union {{s}}
    <2>1. CASE queue' = Append(queue, {s}) /\ ~Merge
        <3>1. {s} \in Tasks
            BY <1>1, TaskSetFacts
        <3>2. \A task \in Tasks :
                 Range(Append(queue, task)) = Range(queue) \union {task}
            BY <1>1, RangeOfAppend
        <3>3. Range(Append(queue, {s})) = Range(queue) \union {{s}}
            BY <3>1, <3>2
        <3> QED
            BY <2>1, <3>3
    <2> QED
        BY <1>2, <2>1
<1>5. EntryOfTask({s}) = current
    BY <1>2 DEF EntryOfTask
<1>6. ASSUME NEW d \in Entries \ {current}
      PROVE  Open(d)' \subseteq Open(d)
    <2> SUFFICES ASSUME NEW t \in Open(d)'
                 PROVE  t \in Open(d)
        OBVIOUS
    <2>1. /\ t \in Tasks /\ EntryOfTask(t) = d
          /\ t \in Range(queue') \/ pc[t] # "queued"
          /\ pc[t] \notin {"journaling", "done"}
        BY <1>2, OpenNext, AwaitedNext
    <2>2. t \in Range(queue) \/ pc[t] # "queued"
        BY <1>4, <1>5, <2>1
    <2>3. t \in Awaited(d)
        BY <1>1, <2>1, <2>2, AwaitedFacts
    <2> QED
        BY <1>1, <2>1, <2>3, OpenFacts
<1>7. Lists'
    BY <1>2, <1>6, ListsUntouched DEF ListInv
<1> QED
    BY <1>3, <1>7 DEF ListInv

LEMMA StartFinalizeLists ==
    ASSUME BaseInv, ListInv, StartFinalize
    PROVE  ListInv'
<1>1. /\ setting' = setting /\ up' = up /\ queue' = queue /\ expected' = expected
      /\ pc' = pc /\ entries' = entries /\ completion' = completion
      /\ step' = step /\ published' = published
      /\ outstanding' = outstanding /\ current' = current
    BY DEF StartFinalize, vars, media, manifest, journaling
<1>2. \A d : Open(d)' = Open(d)
    <2>1. \A d : Awaited(d)' = Awaited(d)
        BY <1>1, AwaitedSame
    <2> QED
        BY <1>1, <2>1 DEF Open, Reported
<1>3. StepsFit' /\ PathsFit'
    BY <1>1, RecordingPaths
<1>4. Lists'
    BY <1>1, <1>2, ListsUntouched DEF ListInv
<1> QED
    BY <1>3, <1>4 DEF ListInv

LEMMA CompletingLists ==
    ASSUME BaseInv, ListInv,
           FinalizeFailed \/ Discard \/ KeepIncomplete \/ KeepSegments \/ MergeNow
    PROVE  ListInv'
<1>1. /\ MediaTypes /\ Recording /\ setting \in Settings /\ queue \in Seq(Tasks)
      /\ Queued /\ recorded \in Seq(Files)
    BY DEF BaseInv, SessionInv, MediaTypes, DeferredTypes, SessionTypes
<1>2. current \in Entries
    BY <1>1, Completing
<1> PICK e \in Entries : e = current
    BY <1>2
<1>3. PICK entry \in EntryValues, paths \in Seq(Files), parts \in SUBSET Segments :
         /\ Complete(entry) /\ Filed(entry, paths, parts)
         /\ \/ /\ paths = recorded /\ files' = files /\ captured' = captured
               /\ \/ queue' = queue
                  \/ queue' = Dropped
                  \/ /\ queue' = Append(Dropped, Parts)
                     /\ Merge /\ Deferred /\ recorded # <<>>
            \/ /\ paths = <<>> /\ queue' = Dropped
               /\ captured' = captured \ SegmentsOf(current)
               /\ \E gone \in SUBSET Range(recorded) : files' = files \ gone
            \/ /\ paths \in {recorded, <<Merged(Parts)>>}
               /\ Merge /\ ~Deferred /\ recorded # <<>>
               /\ queue' = queue /\ captured' = captured
               /\ \E gone \in SUBSET Range(recorded) :
                     files' = (files \union {Merged(Parts)}) \ gone
    BY <1>1, CompletingKinds
<1>4. /\ setting' = setting /\ up' = up /\ expected' = expected /\ pc' = pc
      /\ completion' = completion /\ step' = step /\ published' = published
      /\ current' = None /\ entries'[e] = entry
      /\ \A d \in Entries \ {e} : entries'[d] = entries[d]
    BY <1>1, <1>2, <1>3, CompleteFacts
<1>5. StepsFit' /\ PathsFit'
    BY <1>4, RecordingPaths
<1>6. /\ WellListed(entry) /\ OwnFiles(entry, e)
      /\ ~Merge => Parted(entry)
      /\ FilesOf(entry.listed) = paths
    <2>1. \/ paths = recorded
          \/ paths = <<>>
          \/ paths = <<Merged(Parts)>> /\ Merge /\ recorded # <<>>
        BY <1>3
    <2>2. Filed(entry, paths, parts)
        BY <1>3
    <2>3. /\ WellListed(entry) /\ OwnFiles(entry, current)
          /\ ~Merge => Parted(entry)
          /\ FilesOf(entry.listed) = paths
        BY <1>1, <1>2, <2>1, <2>2, FiledLists, Zenon
    <2> QED
        BY <2>3
<1> PICK all : all = Parts
    OBVIOUS
<1>7. \A t \in Tasks : pc[t] = "queued"
    BY <1>2, BaseFacts
<1>8. ASSUME NEW t \in Tasks, t \in Range(queue')
      PROVE  t \in Range(queue) \/ (t = all /\ queue' = Append(Dropped, all))
    <2>1. CASE queue' = queue \/ queue' = Dropped
        BY <1>8, <2>1, DroppedFacts
    <2>2. CASE queue' = Append(Dropped, all) /\ Merge /\ recorded # <<>>
        <3>1. all \in Tasks
            BY <1>1, <1>2, <2>2, PartsFacts
        <3>2. \A task \in Tasks :
                 Range(Append(Dropped, task)) = Range(Dropped) \union {task}
            BY DroppedFacts, RangeOfAppend
        <3>3. Range(queue') = Range(Dropped) \union {all}
            BY <2>2, <3>1, <3>2
        <3> QED
            BY <1>8, <2>2, <3>3, DroppedFacts
    <2> QED
        BY <1>3, <2>1, <2>2
<1>9. ASSUME NEW d \in Entries, d # e
      PROVE  Open(d)' \subseteq Open(d)
    <2> SUFFICES ASSUME NEW t \in Open(d)'
                 PROVE  t \in Open(d)
        OBVIOUS
    <2>1. /\ t \in Tasks /\ EntryOfTask(t) = d
          /\ t \in Range(queue')
          /\ pc[t] \notin {"journaling", "done"}
        BY <1>4, <1>7, OpenNext, AwaitedNext
    <2>2. t \in Range(queue)
        <3>1. CASE t = all /\ queue' = Append(Dropped, all)
            <4>1. (queue' # queue /\ queue' # Dropped) \/ t \in Range(queue)
                BY <2>1, DroppedFacts
            <4>2. CASE Merge /\ recorded # <<>>
                <5>1. EntryOfTask(t) = current
                    BY <1>1, <1>2, <3>1, <4>2, PartsFacts
                <5> QED
                    BY <1>9, <2>1, <5>1
            <4> QED
                BY <1>3, <4>1, <4>2
        <3> QED
            BY <1>8, <2>1, <3>1
    <2>3. t \in Awaited(d)
        BY <1>1, <2>1, <2>2, AwaitedFacts
    <2> QED
        BY <1>1, <2>1, <2>3, OpenFacts
<1>10. ASSUME NEW t \in Open(e)'
       PROVE  ListsRaws(entry, t) /\ (Merge => OnlyRaws(entry, t))
    <2>1. /\ t \in Tasks /\ EntryOfTask(t) = e
          /\ t \in Range(queue')
        BY <1>4, <1>7, OpenNext, AwaitedNext
    <2>2. queue' # Dropped
        BY <2>1, DroppedFacts, <1>2
    <2>3. CASE queue' = queue
        <3>1. ~Merge /\ \E s \in t : Raw(s) \in Range(recorded)
            BY <1>1, <2>1, <2>3 DEF Queued
        <3>2. paths = recorded
            BY <1>3, <2>2, <3>1
        <3>3. PICK s : t = {s}
            BY <1>1, <2>1, <3>1, TaskFacts
        <3> QED
            BY <1>6, <3>1, <3>2, <3>3 DEF ListsRaws
    <2>4. CASE queue' # queue
        <3>1. /\ paths = recorded /\ queue' = Append(Dropped, all)
              /\ Merge /\ Deferred /\ recorded # <<>>
            BY <1>3, <2>2, <2>4
        <3>2. t = all
            <4>1. all \in Tasks
                BY <1>1, <1>2, <3>1, PartsFacts
            <4>2. \A task \in Tasks :
                     Range(Append(Dropped, task)) = Range(Dropped) \union {task}
                BY DroppedFacts, RangeOfAppend
            <4>3. Range(queue') = Range(Dropped) \union {all}
                BY <3>1, <4>1, <4>2
            <4> QED
                BY <1>2, <2>1, <4>3, DroppedFacts
        <3>3. ASSUME NEW f \in Range(recorded)
              PROVE  \E s \in t : f = Raw(s) /\ f.of = {s}
            <4>1. PICK s \in Segments : f = Raw(s)
                BY <1>1, <3>1 DEF Recording, SegmentsOf
            <4>2. f.of = {s}
                BY <4>1, FileFacts
            <4>3. s \in Parts
                BY <4>2 DEF Parts
            <4> QED
                BY <3>2, <4>1, <4>2, <4>3
        <3>4. ASSUME NEW s \in t
              PROVE  Raw(s) \in Range(recorded)
            <4>1. PICK f \in Range(recorded) : s \in f.of
                BY <3>2 DEF Parts
            <4> QED
                BY <3>3, <4>1
        <3> QED
            BY <1>6, <3>1, <3>3, <3>4 DEF ListsRaws, OnlyRaws
    <2> QED
        BY <2>3, <2>4
<1>11. Merge' = Merge /\ Deferred' = Deferred /\ EntryValues' = EntryValues
    BY <1>4, SameSetting
<1>12. \A d \in Entries : entries'[d] \in EntryValues => WellListed(entries'[d])
    BY <1>4, <1>6 DEF ListInv, Lists
<1>13. \A d \in Entries : entries'[d] \in EntryValues =>
          /\ OwnFiles(entries'[d], d)
          /\ Deferred /\ ~Merge => Parted(entries'[d])
    BY <1>4, <1>6 DEF ListInv, Lists
<1>14. up => \A d \in Entries : \A t \in Open(d)' :
          /\ ListsRaws(entries'[d], t)
          /\ Merge => OnlyRaws(entries'[d], t)
    BY <1>4, <1>9, <1>10 DEF ListInv, Lists
<1>15. Lists'
    BY <1>4, <1>11, <1>12, <1>13, <1>14 DEF Lists
<1> QED
    BY <1>5, <1>15 DEF ListInv

LEMMA NoneNoEntry ==
    ASSUME setting \in Settings
    PROVE  None \notin EntryValues
<1> DEFINE held == [kind : {"raw", "merged", "final"}, of : SUBSET Segments]
           shown == [file : held, tabs : Seq(Segments)]
<1>1. Files \subseteq held
    <2>1. \A s \in Segments : Raw(s) \in held
        BY DEF Raw
    <2>2. \A t \in Tasks : Merged(t) \in held /\ Final(t) \in held
        BY TaskFacts DEF Merged, Final
    <2> QED
        BY <2>1, <2>2 DEF Files
<1>2. None \notin EntriesListing(held)
    BY NoneAssumption
<1> HIDE DEF held
<1>3. Items \subseteq shown
    BY <1>1 DEF Items
<1> HIDE DEF shown
<1>4. \A list \in Seq(Items) : list \in Seq(shown)
    BY <1>3, SeqMonotonic
<1>5. EntryValues \subseteq EntriesListing(held)
    BY <1>4, EntryFacts DEF EntriesListing, shown
<1> QED
    BY <1>2, <1>5

LEMMA KillLists ==
    ASSUME BaseInv, Kill
    PROVE  ListInv'
<1>1. /\ setting' = setting /\ ~up' /\ ~expected'
      /\ pc' = [t \in Tasks |-> "queued"] /\ step' = FirstSteps
      /\ published' = [t \in Tasks |-> None]
      /\ entries' = [e \in Entries |-> None]
    BY KillFacts
<1>2. /\ Merge' = Merge /\ Deferred' = Deferred /\ Tasks' = Tasks
      /\ Transcode' = Transcode /\ EntryValues' = EntryValues
    BY <1>1, SameSetting
<1>3. StepsFit'
    BY <1>1, <1>2 DEF StepsFit, FirstSteps, ForEach
<1>4. PathsFit'
    BY <1>1, <1>2 DEF PathsFit, Answered
<1>5. None \notin EntryValues
    BY NoneNoEntry DEF BaseInv, MediaTypes, DeferredTypes
<1>6. Lists'
    BY <1>1, <1>2, <1>5 DEF Lists
<1> QED
    BY <1>3, <1>4, <1>6 DEF ListInv

LEMMA InitLists ==
    ASSUME SegmentInit
    PROVE  ListInv
<1>1. /\ setting \in Settings /\ ~expected
      /\ queue = <<>> /\ pc = [t \in Tasks |-> "queued"] /\ step = FirstSteps
      /\ published = [t \in Tasks |-> None]
      /\ entries = [e \in Entries |-> None]
    BY DEF SegmentInit, Init, ForEach, NoEntries
<1>2. StepsFit
    BY <1>1 DEF StepsFit, FirstSteps, ForEach
<1>3. PathsFit
    BY <1>1 DEF PathsFit, Answered
<1>4. None \notin EntryValues
    BY <1>1, NoneNoEntry
<1>5. \A e, t : t \notin Open(e)
    <2>1. Range(queue) = {}
        BY <1>1 DEF Range
    <2>2. \A e, t : t \notin Awaited(e)
        BY <1>1, <2>1, AwaitedFacts
    <2> QED
        BY <2>2 DEF Open
<1>6. Lists
    BY <1>1, <1>4, <1>5 DEF Lists
<1> QED
    BY <1>2, <1>3, <1>6 DEF ListInv

LEMMA FlushLists ==
    ASSUME BaseInv, ListInv, Flush, UNCHANGED recording
    PROVE  ListInv'
<1>1. /\ setting' = setting /\ up' = up /\ queue' = queue /\ queue # <<>>
      /\ pc' = pc /\ completion' = completion /\ entries' = entries
      /\ step' = step /\ published' = published /\ current' = current
    BY DEF Flush, recording, session
<1>2. Deferred
    <2>1. /\ queue \in Seq(Tasks) /\ Queued
        BY DEF BaseInv, MediaTypes, DeferredTypes, SessionInv
    <2>2. queue[1] \in Range(queue)
        BY <1>1, <2>1, EmptySeq DEF Range
    <2> QED
        BY <2>1, <2>2 DEF Queued
<1>3. /\ Merge' = Merge /\ Deferred' = Deferred /\ Tasks' = Tasks
      /\ Transcode' = Transcode
    BY <1>1, SameSetting
<1>4. StepsFit'
    BY <1>1, <1>2, <1>3 DEF ListInv, StepsFit
<1>5. PathsFit'
    BY <1>1, <1>3 DEF ListInv, PathsFit, Answered
<1>6. \A d : Open(d)' = Open(d)
    <2>1. \A d : Awaited(d)' = Awaited(d)
        BY <1>1, AwaitedSame
    <2> QED
        BY <1>1, <2>1 DEF Open, Reported
<1>7. Lists'
    BY <1>1, <1>6, ListsUntouched DEF ListInv
<1> QED
    BY <1>4, <1>5, <1>7 DEF ListInv

LEMMA TakeLists ==
    ASSUME BaseInv, ListInv, Take, UNCHANGED recording
    PROVE  ListInv'
<1>1. MediaTypes /\ setting \in Settings /\ Queued
    BY DEF BaseInv, SessionInv, MediaTypes, DeferredTypes
<1> PICK h : h = Head(queue)
    OBVIOUS
<1>2. /\ setting' = setting /\ up' = up /\ expected' = expected
      /\ step' = step /\ published' = published
      /\ entries' = entries /\ completion' = completion
      /\ h \in Tasks /\ h \in Range(queue)
      /\ Range(queue) = {h} \union Range(queue')
      /\ pc'[h] \in {"check", "process"}
      /\ \A u \in Tasks \ {h} : pc'[u] = pc[u]
    BY <1>1, TakeFacts
<1>3. pc[h] = "queued" /\ current' = current
    BY <1>1, <1>2 DEF Queued, recording, session
<1>4. /\ Merge' = Merge /\ Deferred' = Deferred /\ Tasks' = Tasks
      /\ Transcode' = Transcode
    BY <1>2, SameSetting
<1>5. StepsFit'
    BY <1>2, <1>4 DEF ListInv, StepsFit
<1>6. PathsFit'
    <2>1. \A u \in Tasks : Answered(u)' => Answered(u)
        BY <1>2 DEF Answered
    <2> QED
        BY <1>2, <1>4, <2>1 DEF ListInv, PathsFit
<1>7. \A d \in Entries \ {current} : Open(d)' \subseteq Open(d)
    <2>1. \A t \in Tasks : (t \in Range(queue') \/ pc'[t] # "queued")
                              <=> (t \in Range(queue) \/ pc[t] # "queued")
        BY <1>2, <1>3
    <2>2. \A d : Awaited(d)' = Awaited(d)
        BY <1>2, <2>1, AwaitedSame
    <2>3. \A d : Awaited(d) \subseteq Tasks
        BY <1>1, AwaitedFacts
    <2>4. \A t \in Tasks : pc'[t] \notin {"journaling", "done"} =>
                              pc[t] \notin {"journaling", "done"}
        BY <1>2, <1>3
    <2> QED
        BY <1>1, <2>2, <2>3, <2>4, OpenFacts, OpenNext
<1>8. Lists'
    BY <1>2, <1>3, <1>7, ListsUntouched DEF ListInv
<1> QED
    BY <1>5, <1>6, <1>8 DEF ListInv

LEMMA WriteLists ==
    ASSUME BaseInv, ListInv, Write, UNCHANGED recording
    PROVE  ListInv'
<1>1. MediaTypes /\ setting \in Settings /\ Chained /\ pc \in [Tasks -> Locations]
    BY DEF BaseInv, SessionInv, MediaTypes, DeferredTypes
<1> PICK t : t = Head(writes).task
    OBVIOUS
<1>2. /\ setting' = setting /\ up' = up /\ expected' = expected
      /\ step' = step /\ published' = published
      /\ entries' = entries /\ completion' = completion /\ queue' = queue
      /\ writes # <<>> /\ t \in Tasks /\ pc' = [pc EXCEPT ![t] = "done"]
    BY <1>1, WriteFacts
<1>3. pc[t] = "journaling"
    <2>1. 1 \in DOMAIN writes /\ Head(writes) = writes[1]
        BY <1>1, <1>2 DEF MediaTypes, DeferredTypes
    <2> QED
        BY <1>1, <2>1 DEF Chained
<1>4. pc'[t] = "done" /\ \A u \in Tasks \ {t} : pc'[u] = pc[u]
    BY <1>1, <1>2
<1>5. current' = current
    BY DEF recording, session
<1>6. /\ Merge' = Merge /\ Deferred' = Deferred /\ Tasks' = Tasks
      /\ Transcode' = Transcode
    BY <1>2, SameSetting
<1>7. StepsFit'
    BY <1>2, <1>6 DEF ListInv, StepsFit
<1>8. PathsFit'
    <2>1. \A u \in Tasks : Answered(u)' => Answered(u)
        BY <1>3, <1>4 DEF Answered
    <2> QED
        BY <1>2, <1>6, <2>1 DEF ListInv, PathsFit
<1>9. \A d \in Entries \ {current} : Open(d)' \subseteq Open(d)
    <2>1. \A u \in Tasks : (u \in Range(queue') \/ pc'[u] # "queued")
                              <=> (u \in Range(queue) \/ pc[u] # "queued")
        BY <1>2, <1>3, <1>4
    <2>2. \A d : Awaited(d)' = Awaited(d)
        BY <1>2, <2>1, AwaitedSame
    <2>3. \A d : Awaited(d) \subseteq Tasks
        BY <1>1, AwaitedFacts
    <2>4. \A u \in Tasks : pc'[u] \notin {"journaling", "done"} =>
                              pc[u] \notin {"journaling", "done"}
        BY <1>3, <1>4
    <2> QED
        BY <1>1, <2>2, <2>3, <2>4, OpenFacts, OpenNext
<1>10. Lists'
    BY <1>2, <1>5, <1>9, ListsUntouched DEF ListInv
<1> QED
    BY <1>7, <1>8, <1>10 DEF ListInv

\* What a task does at each of its steps.
LEMMA OperationKinds ==
    ASSUME MediaTypes, NEW t \in Tasks, Operation(t)
    PROVE  \/ /\ pc[t] = "check" /\ pc'[t] = "process"
              /\ files' = files /\ step' = step /\ published' = published
              /\ Range(Inputs(t)) \subseteq files
           \/ /\ pc[t] = "check" /\ pc'[t] = "completing"
              /\ files' = files /\ step' = step /\ published' = published
              /\ ~(Range(Inputs(t)) \subseteq files)
              /\ completion'[t].paths = Inputs(t)
              /\ completion'[t].outcome = "failed"
           \/ /\ pc[t] = "process" /\ pc'[t] = "published"
              /\ Range(Inputs(t)) \subseteq files
              /\ files' = files \union {Output(t)} /\ step' = step
              /\ published' = [published EXCEPT ![t] = Output(t)]
           \/ /\ pc[t] = "process" /\ pc'[t] = "completing"
              /\ files' = files /\ step' = step /\ published' = published
              /\ completion'[t].paths = Inputs(t)
              /\ completion'[t].outcome = "failed"
           \/ /\ pc[t] = "published" /\ pc'[t] = "cleaned"
              /\ step' = step /\ published' = published
              /\ \E gone \in SUBSET Range(Inputs(t)) : files' = files \ gone
           \/ /\ pc[t] = "cleaned" /\ pc'[t] = "check"
              /\ step[t] = "merge" /\ Transcode
              /\ files' = files /\ step'[t] = "transcode"
              /\ published'[t] = None
           \/ /\ pc[t] = "cleaned" /\ pc'[t] = "completing"
              /\ ~(step[t] = "merge" /\ Transcode)
              /\ files' = files /\ step' = step /\ published' = published
              /\ completion'[t].paths = <<Output(t)>>
           \/ /\ pc[t] \in {"process", "published", "cleaned"}
              /\ pc'[t] = "completing"
              /\ files' = files /\ step' = step /\ published' = published
              /\ completion'[t].outcome = "failed"
              /\ completion'[t].paths =
                    IF published[t] # None /\ published[t] \in files
                    THEN <<published[t]>>
                    ELSE Keeping(Inputs(t), files)
<1>1. /\ pc \in [Tasks -> Locations]
      /\ step \in [Tasks -> {"merge", "transcode"}]
      /\ published \in [Tasks -> Files \union {None}]
    BY DEF MediaTypes, DeferredTypes
<1>2. /\ Inputs(t) \in Seq(Files) /\ <<Output(t)>> \in Seq(Files)
      /\ Keeping(Inputs(t), files) \in Seq(Files)
    BY InputFacts
<1>3. ASSUME NEW outcome \in {"completed", "failed"},
             NEW decision \in {"recorded", "failed"}, NEW paths \in Seq(Files),
             Settle(t, outcome, decision, paths)
      PROVE  /\ pc'[t] = "completing"
             /\ completion'[t].outcome = outcome
             /\ completion'[t].paths = paths
    <2>1. /\ pc' = [pc EXCEPT ![t] = "completing"]
          /\ completion'[t].outcome = outcome
          /\ completion'[t].paths = paths
        BY <1>3, SettleFacts
    <2> QED
        BY <1>1, <2>1
<1>4. \A location : Goto(t, location) => pc'[t] = location
    BY <1>1 DEF Goto
<1>5. CASE CheckInput(t)
    <2>1. /\ pc[t] = "check"
          /\ files' = files /\ step' = step /\ published' = published
          /\ \/ Goto(t, "process") /\ Range(Inputs(t)) \subseteq files
             \/ /\ ~(Range(Inputs(t)) \subseteq files)
                /\ Settle(t, "failed", "failed", Inputs(t))
        BY <1>5 DEF CheckInput, media
    <2>2. CASE Goto(t, "process") /\ Range(Inputs(t)) \subseteq files
        BY <1>4, <2>1, <2>2
    <2>3. CASE /\ ~(Range(Inputs(t)) \subseteq files)
               /\ Settle(t, "failed", "failed", Inputs(t))
        BY <1>2, <1>3, <2>1, <2>3
    <2> QED
        BY <2>1, <2>2, <2>3
<1>6. CASE Process(t)
    <2>1. /\ pc[t] = "process" /\ step' = step
          /\ \/ /\ Range(Inputs(t)) \subseteq files
                /\ files' = files \union {Output(t)}
                /\ published' = [published EXCEPT ![t] = Output(t)]
                /\ Goto(t, "published")
             \/ /\ Settle(t, "failed", "recorded", Inputs(t))
                /\ files' = files /\ published' = published
        BY <1>6 DEF Process
    <2>2. CASE /\ Range(Inputs(t)) \subseteq files
               /\ files' = files \union {Output(t)}
               /\ published' = [published EXCEPT ![t] = Output(t)]
               /\ Goto(t, "published")
        BY <1>4, <2>1, <2>2
    <2>3. CASE /\ Settle(t, "failed", "recorded", Inputs(t))
               /\ files' = files /\ published' = published
        BY <1>2, <1>3, <2>1, <2>3
    <2> QED
        BY <2>1, <2>2, <2>3
<1>7. CASE RemoveInputs(t)
    <2>1. /\ pc[t] = "published" /\ step' = step /\ published' = published
          /\ Goto(t, "cleaned")
          /\ \E gone \in SUBSET Range(Inputs(t)) : files' = files \ gone
        BY <1>7 DEF RemoveInputs
    <2> QED
        BY <1>4, <2>1
<1>8. CASE Finish(t)
    <2>1. /\ pc[t] = "cleaned" /\ files' = files
          /\ \/ /\ step[t] = "merge" /\ Transcode
                /\ step' = [step EXCEPT ![t] = "transcode"]
                /\ published' = [published EXCEPT ![t] = None]
                /\ Goto(t, "check")
             \/ /\ ~(step[t] = "merge" /\ Transcode)
                /\ Settle(t, "completed", "recorded", <<Output(t)>>)
                /\ step' = step /\ published' = published
        BY <1>8 DEF Finish
    <2>2. CASE /\ step[t] = "merge" /\ Transcode
               /\ step' = [step EXCEPT ![t] = "transcode"]
               /\ published' = [published EXCEPT ![t] = None]
               /\ Goto(t, "check")
        <3>1. step'[t] = "transcode" /\ published'[t] = None
            BY <1>1, <2>2
        <3> QED
            BY <1>4, <2>1, <2>2, <3>1
    <2>3. CASE /\ ~(step[t] = "merge" /\ Transcode)
               /\ Settle(t, "completed", "recorded", <<Output(t)>>)
               /\ step' = step /\ published' = published
        BY <1>2, <1>3, <2>1, <2>3
    <2> QED
        BY <2>1, <2>2, <2>3
<1>9. CASE Throw(t)
    <2>1. /\ files' = files /\ step' = step /\ published' = published
          /\ pc[t] \in {"process", "published", "cleaned"}
        BY <1>9 DEF Throw, media
    <2> PICK left : left = IF published[t] # None /\ published[t] \in files
                           THEN <<published[t]>>
                           ELSE Keeping(Inputs(t), files)
        OBVIOUS
    <2>2. left \in Seq(Files)
        <3>1. CASE published[t] # None /\ published[t] \in files
            BY <1>1, <3>1
        <3> QED
            BY <1>2, <3>1
    <2>3. Settle(t, "failed", IF left = <<>> THEN "failed" ELSE "recorded", left)
        BY <1>9 DEF Throw
    <2>4. (IF left = <<>> THEN "failed" ELSE "recorded") \in {"recorded", "failed"}
        OBVIOUS
    <2>5. /\ pc'[t] = "completing"
          /\ completion'[t].outcome = "failed" /\ completion'[t].paths = left
        BY <1>3, <2>2, <2>3, <2>4
    <2> QED
        BY <2>1, <2>5
<1> QED
    BY <1>5, <1>6, <1>7, <1>8, <1>9 DEF Operation

LEMMA OperationLists ==
    ASSUME BaseInv, ListInv, NEW t \in Tasks, Operation(t), UNCHANGED recording
    PROVE  ListInv'
<1>1. MediaTypes /\ setting \in Settings /\ StepsFit /\ PathsFit
      /\ step \in [Tasks -> {"merge", "transcode"}]
      /\ published \in [Tasks -> Files \union {None}]
    BY DEF BaseInv, MediaTypes, DeferredTypes, ListInv
<1>2. /\ setting' = setting /\ up' = up /\ expected' = expected
      /\ entries' = entries /\ queue' = queue
      /\ pc[t] \in {"check", "process", "published", "cleaned"}
      /\ \A u \in Tasks \ {t} :
            /\ pc'[u] = pc[u] /\ step'[u] = step[u]
            /\ published'[u] = published[u] /\ completion'[u] = completion[u]
      /\ pc'[t] \in Locations \ {"queued", "journaling", "done"}
    BY <1>1, OperationFacts
<1>3. /\ Merge' = Merge /\ Deferred' = Deferred /\ Tasks' = Tasks
      /\ Transcode' = Transcode
    BY <1>2, SameSetting
<1>4. Output(t) = Final(t) \/ (Merge /\ Output(t) = Merged(t))
    BY <1>1 DEF Output, StepsFit
<1>5. StepsFit'
    <2>1. /\ step'[t] = step[t] \/ (step[t] = "merge" /\ Transcode /\ step'[t] = "transcode")
          /\ published'[t] \in {published[t], None, Output(t)}
        BY <1>1, OperationKinds
    <2>2. /\ ~Merge => step'[t] = "transcode"
          /\ Merge /\ step'[t] = "transcode" => Transcode
          /\ \/ published'[t] \in {None, Final(t)}
             \/ Merge /\ published'[t] = Merged(t)
        BY <1>1, <1>4, <2>1 DEF StepsFit
    <2> QED
        BY <1>1, <1>2, <1>3, <2>2 DEF StepsFit
<1>6. ASSUME pc'[t] = "completing"
      PROVE  /\ Ascends(completion'[t].paths)
             /\ \A f \in Range(completion'[t].paths) :
                   \/ \E s \in t : f = Raw(s)
                   \/ f = Final(t)
                   \/ (Merge /\ f = Merged(t))
    <2>1. \/ completion'[t].paths \in {Inputs(t), <<Output(t)>>, Keeping(Inputs(t), files)}
          \/ completion'[t].paths = <<published[t]>> /\ published[t] # None
        BY <1>1, <1>6, OperationKinds
    <2>2. \A f : Ascends(<<f>>) /\ Range(<<f>>) = {f}
        <3>1. \A f : \A i, j \in DOMAIN <<f>> : ~(i < j)
            OBVIOUS
        <3> QED
            BY <3>1 DEF Ascends, Range
    <2>3. /\ Ascends(Inputs(t)) /\ Inputs(t) \in Seq(Files)
          /\ Range(Inputs(t)) =
                IF Merge /\ step[t] = "transcode" THEN {Merged(t)}
                ELSE {Raw(s) : s \in t}
          /\ Range(Keeping(Inputs(t), files)) = Range(Inputs(t)) \intersect files
        <3>1. Ascends(Inputs(t))
            BY <1>1, <2>2, RawsOfFacts DEF Inputs
        <3> QED
            BY <1>1, <3>1, InputFacts
    <2>4. Ascends(Keeping(Inputs(t), files))
        BY <2>3, AscendsKeeping
    <2>5. \A f \in Range(Inputs(t)) :
             (\E s \in t : f = Raw(s)) \/ (Merge /\ f = Merged(t))
        BY <2>3
    <2>6. CASE completion'[t].paths = Inputs(t)
        BY <2>3, <2>5, <2>6
    <2>7. CASE completion'[t].paths = Keeping(Inputs(t), files)
        BY <2>3, <2>4, <2>5, <2>7
    <2>8. CASE completion'[t].paths = <<Output(t)>>
        BY <1>4, <2>2, <2>8
    <2>9. CASE completion'[t].paths = <<published[t]>> /\ published[t] # None
        <3>1. published[t] = Final(t) \/ (Merge /\ published[t] = Merged(t))
            BY <1>1, <2>9 DEF StepsFit
        <3> QED
            BY <2>2, <2>9, <3>1
    <2> QED
        BY <2>1, <2>6, <2>7, <2>8, <2>9
<1>7. PathsFit'
    <2>1. ASSUME NEW u \in Tasks, Answered(u)'
          PROVE  /\ Ascends(completion'[u].paths)
                 /\ \A f \in Range(completion'[u].paths) :
                       \/ \E s \in u : f = Raw(s)
                       \/ f = Final(u)
                       \/ (Merge /\ f = Merged(u))
        <3>1. CASE u = t
            <4>1. pc'[t] = "completing"
                BY <1>2, <2>1, <3>1 DEF Answered
            <4> QED
                BY <1>6, <3>1, <4>1
        <3>2. CASE u # t
            <4>1. Answered(u) /\ completion'[u] = completion[u]
                BY <1>2, <2>1, <3>2 DEF Answered
            <4> QED
                BY <1>1, <4>1 DEF PathsFit
        <3> QED
            BY <3>1, <3>2
    <2> QED
        BY <1>3, <2>1 DEF PathsFit
<1>8. \A d \in Entries \ {current} : Open(d)' \subseteq Open(d)
    <2>1. \A u \in Tasks : (u \in Range(queue') \/ pc'[u] # "queued")
                              <=> (u \in Range(queue) \/ pc[u] # "queued")
        BY <1>2
    <2>2. \A d : Awaited(d)' = Awaited(d)
        BY <1>2, <2>1, AwaitedSame
    <2>3. \A d : Awaited(d) \subseteq Tasks
        BY <1>1, AwaitedFacts
    <2>4. \A u \in Tasks : pc'[u] \notin {"journaling", "done"} =>
                              pc[u] \notin {"journaling", "done"}
        BY <1>2
    <2> QED
        BY <1>1, <2>2, <2>3, <2>4, OpenFacts, OpenNext
<1>9. current' = current
    BY DEF recording, session
<1>10. Lists'
    BY <1>2, <1>8, <1>9, ListsUntouched DEF ListInv
<1> QED
    BY <1>5, <1>7, <1>10 DEF ListInv

LEMMA ListStep ==
    ASSUME BaseInv, OutcomeInv, ListInv, [Next]_mediaVars
    PROVE  ListInv'
<1>1. CASE Record
    BY <1>1, BeginLists, StopLists, StartFinalizeLists, CompletingLists DEF Record
<1>2. CASE Teardown
    <2>1. UNCHANGED recording
        BY <1>2 DEF Teardown
    <2>2. \/ Flush \/ Take \/ Write
          \/ \E t \in Tasks : Operation(t) \/ CompleteDeferred(t)
        BY <1>2 DEF Teardown, TaskStep, Operation
    <2> QED
        BY <2>1, <2>2, FlushLists, TakeLists, WriteLists, OperationLists,
           CompleteDeferredLists
<1>3. CASE \/ Done \/ UNCHANGED mediaVars
           \/ \E s \in Losable : LoseInput(s) /\ UNCHANGED recording
    <2>1. /\ setting' = setting /\ up' = up /\ expected' = expected
          /\ queue' = queue /\ pc' = pc /\ completion' = completion
          /\ entries' = entries /\ current' = current
          /\ step' = step /\ published' = published
        <3>1. CASE Done \/ UNCHANGED mediaVars
            BY <3>1 DEF Done, mediaVars, vars, media, manifest, recording, session
        <3>2. CASE \E s \in Losable : LoseInput(s) /\ UNCHANGED recording
            BY <3>2, LoseInputFacts DEF BaseInv, recording, session
        <3> QED
            BY <1>3, <3>1, <3>2
    <2>2. \A d : Open(d)' = Open(d)
        <3>1. \A d : Awaited(d)' = Awaited(d)
            BY <2>1, AwaitedSame
        <3> QED
            BY <2>1, <3>1 DEF Open, Reported
    <2>3. StepsFit' /\ PathsFit'
        BY <2>1, RecordingPaths
    <2>4. Lists'
        BY <2>1, <2>2, ListsUntouched DEF ListInv
    <2> QED
        BY <2>3, <2>4 DEF ListInv
<1>4. CASE Kill
    BY <1>4, KillLists
<1> QED
    BY <1>1, <1>2, <1>3, <1>4 DEF Next

\* An entry lists its segments in part order and none of them twice, though the
\* results of its tasks arrive in any order and replace parts of the same list
\* (replaceSegments), and a file shows the tabs of exactly the segments it
\* holds, unless finalization threw and no tabs are known.
THEOREM ListedInOrderHolds == Spec => []ListedInOrder
<1>1. SegmentInit => BaseInv /\ OutcomeInv /\ ListInv
    BY InitTypes, InitSession, InitOutcome, InitLists DEF BaseInv
<1>2. BaseInv /\ OutcomeInv /\ ListInv /\ [Next]_mediaVars =>
         BaseInv' /\ OutcomeInv' /\ ListInv'
    BY BaseStep, OutcomeStep, ListStep
<1>3. BaseInv /\ ListInv => ListedInOrder
    BY ListedFacts DEF ListInv
<1> QED
    BY <1>1, <1>2, <1>3, PTL DEF Spec

----------------------------------------------------------------------------
(* What an entry says of its processing.                                   *)

LEMMA TrueFacts ==
    ASSUME AllProper
    PROVE  CompletedIsTrue
BY DEF AllProper, Proper, Processed, CompletedIsTrue

\* Only files that no entry needs may go.
Spare(f) == f.kind = "raw" \/ (f.kind = "merged" /\ Transcode)

LEMMA ProperKept ==
    ASSUME setting' = setting, NEW e, Awaited(e)' \subseteq Awaited(e),
           \A f \in files : f \in files' \/ Spare(f),
           NEW v, Proper(v, e)
    PROVE  Proper(v, e)'
<1>1. Transcode' = Transcode
    BY SameSetting
<1> QED
    BY <1>1 DEF Proper, Spare

\* Nothing is processed while tests are recorded.
LEMMA RecordingTrue ==
    ASSUME BaseInv, TrueInv, setting' = setting, up, up' = up, ~expected,
           expected' = expected, pc' = pc, writes' = writes,
           \A e \in Entries :
              /\ entries'[e] = entries[e] \/ ~Processed(entries'[e])
              /\ journal'[e] = journal[e] \/ ~Processed(journal'[e]),
           Deferred /\ ~Merge =>
              \A e \in Entries \ {current'} : entries'[e] \in EntryValues =>
                 \A f \in Range(FilesOf(entries'[e].listed)) :
                    f.kind = "raw" \/ f \in files'
    PROVE  TrueInv'
<1>1. /\ \A t \in Tasks : pc[t] = "queued"
      /\ writes = <<>>
    BY BaseFacts
<1>2. /\ Merge' = Merge /\ Deferred' = Deferred /\ Tasks' = Tasks
      /\ EntryValues' = EntryValues
    BY SameSetting
<1>3. \A e \in Entries : ~Processed(entries'[e]) /\ ~Processed(journal'[e])
    BY DEF TrueInv, NoneProcessed
<1>4. AllProper'
    BY <1>1, <1>3 DEF AllProper, Proper
<1>5. NoneProcessed'
    BY <1>3 DEF NoneProcessed
<1>6. CompletedPaths' /\ PublishedThere'
    BY <1>1, <1>2 DEF CompletedPaths, PublishedThere, Answered
<1>7. \A e, t : t \notin Reports(e)'
    <2>1. \A e, t : t \in Awaited(e)' => t \in Tasks
        BY AwaitedNext
    <2> QED
        BY <1>1, <2>1, OpenNext
<1>8. FinalsThere'
    BY <1>1, <1>2, <1>7 DEF FinalsThere, FinalsIn, Answered
<1> QED
    BY <1>4, <1>5, <1>6, <1>8 DEF TrueInv

LEMMA BeginTrue ==
    ASSUME BaseInv, TrueInv, Begin
    PROVE  TrueInv'
<1> PICK e : e = EntryOf[at]
    OBVIOUS
<1>1. /\ current = None /\ at \in Segments /\ current' = e /\ up
      /\ entries' = [entries EXCEPT ![e] = Interrupted]
      /\ AppendLine(e, Interrupted)
      /\ setting' = setting /\ up' = up /\ expected' = expected
      /\ pc' = pc /\ writes' = writes /\ files' = files
      /\ entries \in [Entries -> EntryValues \union {None}]
      /\ journal \in [Entries -> EntryValues \union {None}]
    BY DEF Begin, flushing, BaseInv, MediaTypes, DeferredTypes
<1>2. /\ e \in Entries /\ entries'[e] = Interrupted
      /\ \A d \in Entries \ {e} : entries'[d] = entries[d] /\ d # current
    BY <1>1, SegmentFacts, NoneFacts
<1>3. ~expected
    BY <1>1, BaseFacts
<1>4. ~Processed(Interrupted)
    BY DEF Processed, Interrupted
<1>5. \A d \in Entries : journal'[d] = journal[d] \/ journal'[d] = Interrupted
    BY <1>1, <1>2 DEF AppendLine
<1>6. \A d \in Entries :
         /\ entries'[d] = entries[d] \/ ~Processed(entries'[d])
         /\ journal'[d] = journal[d] \/ ~Processed(journal'[d])
    BY <1>2, <1>4, <1>5
<1>7. Deferred /\ ~Merge =>
         \A d \in Entries \ {current'} : entries'[d] \in EntryValues =>
            \A f \in Range(FilesOf(entries'[d].listed)) :
               f.kind = "raw" \/ f \in files'
    BY <1>1, <1>2 DEF TrueInv, FinalsThere, FinalsIn
<1> QED
    BY <1>1, <1>3, <1>6, <1>7, RecordingTrue

LEMMA StopTrue ==
    ASSUME BaseInv, TrueInv, NEW s \in Segments, Stop(s)
    PROVE  TrueInv'
<1>1. MediaTypes
    BY DEF BaseInv
<1>2. /\ up /\ current \in Entries /\ current' = current
      /\ setting' = setting /\ up' = up /\ entries' = entries
      /\ expected' = expected /\ pc' = pc /\ writes' = writes
      /\ journal' = journal
      /\ \E added \in SUBSET {Raw(s), Final({s})} : files' = files \union added
    BY <1>1, StopFacts
<1>3. ~expected
    BY <1>2, BaseFacts
<1>4. files \subseteq files'
    BY <1>2
<1>5. Deferred /\ ~Merge =>
         \A d \in Entries \ {current'} : entries'[d] \in EntryValues =>
            \A f \in Range(FilesOf(entries'[d].listed)) :
               f.kind = "raw" \/ f \in files'
    BY <1>2, <1>4 DEF TrueInv, FinalsThere, FinalsIn
<1> QED
    BY <1>2, <1>3, <1>5, RecordingTrue

LEMMA StartFinalizeTrue ==
    ASSUME BaseInv, TrueInv, StartFinalize
    PROVE  TrueInv'
<1>1. /\ setting' = setting /\ up /\ up' = up /\ expected' = expected
      /\ pc' = pc /\ entries' = entries /\ journal' = journal
      /\ writes' = writes /\ files' = files /\ current' = current
      /\ current # None
    BY DEF StartFinalize, vars, media, manifest, journaling
<1>2. ~expected
    BY <1>1, BaseFacts
<1>3. Deferred /\ ~Merge =>
         \A d \in Entries \ {current'} : entries'[d] \in EntryValues =>
            \A f \in Range(FilesOf(entries'[d].listed)) :
               f.kind = "raw" \/ f \in files'
    BY <1>1 DEF TrueInv, FinalsThere, FinalsIn
<1> QED
    BY <1>1, <1>2, <1>3, RecordingTrue

LEMMA CompletingTrue ==
    ASSUME BaseInv, TrueInv,
           FinalizeFailed \/ Discard \/ KeepIncomplete \/ KeepSegments \/ MergeNow
    PROVE  TrueInv'
<1>1. MediaTypes /\ Recording
    BY DEF BaseInv, SessionInv
<1>2. current \in Entries /\ up
    BY <1>1, Completing DEF Ended
<1> PICK e \in Entries : e = current
    BY <1>2
<1>3. PICK entry \in EntryValues, paths \in Seq(Files), parts \in SUBSET Segments :
         /\ Complete(entry) /\ Filed(entry, paths, parts)
         /\ \/ /\ paths = recorded /\ files' = files
            \/ /\ paths = <<>>
               /\ \E gone \in SUBSET Range(recorded) : files' = files \ gone
            \/ /\ paths \in {recorded, <<Merged(Parts)>>}
               /\ Merge /\ ~Deferred /\ recorded # <<>>
               /\ \E gone \in SUBSET Range(recorded) :
                     files' = (files \union {Merged(Parts)}) \ gone
    BY <1>1, CompletingKinds
<1>4. /\ setting' = setting /\ up' = up /\ expected' = expected /\ pc' = pc
      /\ writes' = writes
      /\ current' = None /\ entries'[e] = entry
      /\ \A d \in Entries \ {e} : entries'[d] = entries[d]
      /\ \A d \in Entries : journal'[d] = journal[d] \/ journal'[d] = entry
    BY <1>1, <1>2, <1>3, CompleteFacts
<1>5. ~expected
    BY <1>2, BaseFacts
<1>6. FilesOf(entry.listed) = paths
    <2>1. \/ paths = recorded
          \/ paths = <<>>
          \/ paths = <<Merged(Parts)>> /\ Merge /\ recorded # <<>>
        BY <1>3
    <2>2. Filed(entry, paths, parts)
        BY <1>3
    <2> QED
        BY <1>1, <1>2, <2>1, <2>2, FiledLists, Zenon
<1>7. ~Processed(entry)
    BY <1>3 DEF Filed, Processed
<1>8. ASSUME Deferred, ~Merge
      PROVE  \A d \in Entries : d # None /\ entries'[d] \in EntryValues =>
                \A f \in Range(FilesOf(entries'[d].listed)) :
                   f.kind = "raw" \/ f \in files'
    <2>1. \A f \in Range(recorded) : f.kind = "raw"
        BY <1>1, <1>8, FileFacts DEF Recording
    <2>2. \A f \in files : f \in files' \/ f.kind = "raw"
        BY <1>3, <1>8, <2>1
    <2>3. \A f \in Range(paths) : f.kind = "raw"
        BY <1>3, <1>8, <2>1 DEF Range
    <2>4. ASSUME NEW d \in Entries, d # e, entries[d] \in EntryValues
          PROVE  FinalsIn(FilesOf(entries[d].listed))
        BY <1>2, <1>8, <2>4 DEF TrueInv, FinalsThere
    <2> QED
        BY <1>4, <1>6, <2>2, <2>3, <2>4 DEF FinalsIn
<1>9. \A d \in Entries :
         /\ entries'[d] = entries[d] \/ ~Processed(entries'[d])
         /\ journal'[d] = journal[d] \/ ~Processed(journal'[d])
    BY <1>4, <1>7
<1> QED
    BY <1>2, <1>4, <1>5, <1>8, <1>9, RecordingTrue, NoneFacts

LEMMA KillTrue ==
    ASSUME TrueInv, Kill
    PROVE  TrueInv'
<1>1. /\ setting' = setting /\ ~up' /\ files' = files /\ journal' = journal
      /\ pc' = [t \in Tasks |-> "queued"] /\ writes' = <<>>
      /\ entries' = [e \in Entries |-> None]
      /\ \A e : Awaited(e)' = {}
    BY KillFacts
<1>2. Tasks' = Tasks
    BY <1>1, SameSetting
<1>3. \A e \in Entries : Proper(journal[e], e)'
    <2> SUFFICES ASSUME NEW e \in Entries
                 PROVE  Proper(journal[e], e)'
        OBVIOUS
    <2> PICK v : v = journal[e]
        OBVIOUS
    <2>1. Proper(v, e)
        BY DEF TrueInv, AllProper
    <2>2. Proper(v, e)'
        BY <1>1, <2>1, ProperKept
    <2> QED
        BY <1>1, <2>2
<1>4. \A e \in Entries : Proper(entries[e], e)'
    BY <1>1 DEF Proper, Processed
<1>5. AllProper'
    BY <1>1, <1>3, <1>4 DEF AllProper
<1>6. NoneProcessed' /\ FinalsThere'
    BY <1>1 DEF NoneProcessed, FinalsThere
<1>7. CompletedPaths' /\ PublishedThere'
    BY <1>1, <1>2 DEF CompletedPaths, PublishedThere, Answered
<1> QED
    BY <1>5, <1>6, <1>7 DEF TrueInv

LEMMA InitTrue ==
    ASSUME SegmentInit
    PROVE  TrueInv
<1>1. /\ setting \in Settings /\ pc = [t \in Tasks |-> "queued"]
      /\ queue = <<>> /\ writes = <<>>
      /\ entries = [e \in Entries |-> None] /\ journal = [e \in Entries |-> None]
    BY DEF SegmentInit, Init, ForEach, NoEntries
<1>2. AllProper /\ NoneProcessed
    BY <1>1 DEF AllProper, NoneProcessed, Proper, Processed
<1>3. CompletedPaths /\ PublishedThere
    BY <1>1 DEF CompletedPaths, PublishedThere, Answered
<1>4. \A e, t : t \notin Reports(e)
    BY <1>1, AwaitedFacts, OpenFacts
<1>5. FinalsThere
    BY <1>1, <1>4, NoneNoEntry DEF FinalsThere, Answered
<1> QED
    BY <1>2, <1>3, <1>5 DEF TrueInv

\* Steps that settle nothing and take away recordings at most.
LEMMA TrueKept ==
    ASSUME BaseInv, TrueInv, setting' = setting, up' = up, current' = current,
           entries' = entries, completion' = completion, step' = step,
           published' = published, expected => expected',
           \A f \in files : f \in files' \/ f.kind = "raw",
           \A t \in Tasks :
              /\ (t \in Range(queue') \/ pc'[t] # "queued")
                    <=> (t \in Range(queue) \/ pc[t] # "queued")
              /\ pc'[t] \in {"published", "cleaned"} => pc'[t] = pc[t]
              /\ Answered(t)' => Answered(t)
              /\ Reported(t)' => Reported(t),
           \A e \in Entries : Proper(journal'[e], e),
           \A i \in DOMAIN writes' :
              Proper(writes'[i].entry, EntryOfTask(writes'[i].task)),
           up /\ ~expected => journal' = journal
    PROVE  TrueInv'
<1>1. /\ Merge' = Merge /\ Deferred' = Deferred /\ Tasks' = Tasks
      /\ Transcode' = Transcode /\ EntryValues' = EntryValues
    BY SameSetting
<1>2. \A e : Awaited(e)' = Awaited(e)
    BY AwaitedSame
<1>3. \A f \in files : f \in files' \/ Spare(f)
    BY DEF Spare
<1>4. \A e, v : Proper(v, e) => Proper(v, e)'
    BY <1>2, <1>3, ProperKept
<1>5. AllProper'
    <2>1. ASSUME NEW e \in Entries
          PROVE  Proper(entries[e], e)' /\ Proper(journal[e], e)'
        <3> PICK v : v = entries[e]
            OBVIOUS
        <3> PICK w : w = journal'[e]
            OBVIOUS
        <3>1. Proper(v, e) /\ Proper(w, e)
            BY DEF TrueInv, AllProper
        <3>2. Proper(v, e)' /\ Proper(w, e)'
            BY <1>4, <3>1
        <3> QED
            BY <3>2
    <2>2. ASSUME NEW i \in DOMAIN writes'
          PROVE  Proper(writes[i].entry, EntryOfTask(writes[i].task))'
        <3> PICK v : v = writes'[i].entry
            OBVIOUS
        <3> PICK e : e = EntryOfTask(writes'[i].task)
            OBVIOUS
        <3>1. Proper(v, e)
            OBVIOUS
        <3>2. Proper(v, e)'
            BY <1>4, <3>1
        <3> QED
            BY <3>2
    <2> QED
        BY <2>1, <2>2 DEF AllProper
<1>6. NoneProcessed'
    BY DEF TrueInv, NoneProcessed
<1>7. \A t \in Tasks : Output(t)' = Output(t)
    BY DEF Output, Merged, Final
<1>8. \A t \in Tasks : Output(t).kind # "raw"
    BY FileFacts DEF Output
<1>9. CompletedPaths' /\ PublishedThere'
    BY <1>1, <1>7, <1>8 DEF TrueInv, CompletedPaths, PublishedThere
<1>10. \A e : Reports(e)' \subseteq Reports(e)
    <2>1. \A e : \A t \in Awaited(e) : t \in Tasks
        BY AwaitedFacts DEF BaseInv, MediaTypes, DeferredTypes
    <2> QED
        BY <1>2, <2>1 DEF Reports
<1>11. FinalsThere'
    BY <1>1, <1>10 DEF TrueInv, FinalsThere, FinalsIn
<1> QED
    BY <1>5, <1>6, <1>9, <1>11 DEF TrueInv

LEMMA TeardownTrue ==
    ASSUME BaseInv, TrueInv, UNCHANGED recording,
           \/ Flush \/ Take \/ UNCHANGED mediaVars
           \/ \E s \in Losable : LoseInput(s)
    PROVE  TrueInv'
<1>1. /\ MediaTypes /\ setting \in Settings /\ Queued
      /\ current' = current
    BY DEF BaseInv, SessionInv, MediaTypes, DeferredTypes, recording, session
<1>2. /\ \A e \in Entries : Proper(journal[e], e)
      /\ \A i \in DOMAIN writes : Proper(writes[i].entry, EntryOfTask(writes[i].task))
    BY DEF TrueInv, AllProper
<1>3. CASE Flush \/ UNCHANGED mediaVars
    <2>1. /\ setting' = setting /\ up' = up /\ entries' = entries /\ pc' = pc
          /\ completion' = completion /\ step' = step /\ queue' = queue
          /\ published' = published /\ files' = files
          /\ journal' = journal /\ writes' = writes
          /\ expected => expected'
        BY <1>3 DEF Flush, mediaVars, vars, media, manifest, journaling
    <2>2. \A t \in Tasks : (Answered(t)' => Answered(t)) /\ (Reported(t)' => Reported(t))
        BY <2>1 DEF Answered, Reported
    <2> QED
        BY <1>1, <1>2, <2>1, <2>2, TrueKept
<1>4. CASE \E s \in Losable : LoseInput(s)
    <2>1. PICK s \in Losable : LoseInput(s)
        BY <1>4
    <2>2. /\ setting' = setting /\ up' = up /\ queue' = queue
          /\ expected' = expected /\ step' = step /\ published' = published
          /\ pc' = pc /\ completion' = completion /\ entries' = entries
          /\ writes' = writes /\ journal' = journal
          /\ files' = files \ {Raw(s)}
        BY <1>1, <2>1, LoseInputFacts
    <2>3. \A f \in files : f \in files' \/ f.kind = "raw"
        BY <2>2, FileFacts
    <2>4. \A t \in Tasks : (Answered(t)' => Answered(t)) /\ (Reported(t)' => Reported(t))
        BY <2>2 DEF Answered, Reported
    <2> QED
        BY <1>1, <1>2, <2>2, <2>3, <2>4, TrueKept
<1>5. CASE Take
    <2> PICK h : h = Head(queue)
        OBVIOUS
    <2>1. /\ setting' = setting /\ up' = up /\ expected' = expected
          /\ entries' = entries /\ completion' = completion /\ step' = step
          /\ published' = published /\ files' = files
          /\ journal' = journal /\ writes' = writes
          /\ h \in Tasks /\ h \in Range(queue)
          /\ Range(queue) = {h} \union Range(queue')
          /\ pc'[h] \in {"check", "process"}
          /\ \A u \in Tasks \ {h} : pc'[u] = pc[u]
        BY <1>1, <1>5, TakeFacts
    <2>2. pc[h] = "queued"
        BY <1>1, <2>1 DEF Queued
    <2>3. \A t \in Tasks :
              /\ (t \in Range(queue') \/ pc'[t] # "queued")
                    <=> (t \in Range(queue) \/ pc[t] # "queued")
              /\ pc'[t] \in {"published", "cleaned"} => pc'[t] = pc[t]
              /\ Answered(t)' => Answered(t)
              /\ Reported(t)' => Reported(t)
        BY <2>1, <2>2 DEF Answered, Reported
    <2> QED
        BY <1>1, <1>2, <2>1, <2>3, TrueKept
<1> QED
    BY <1>3, <1>4, <1>5

LEMMA WriteTrue ==
    ASSUME BaseInv, TrueInv, Write, UNCHANGED recording
    PROVE  TrueInv'
<1>1. /\ MediaTypes /\ setting \in Settings /\ Chained /\ pc \in [Tasks -> Locations]
      /\ current' = current
      /\ writes \in Seq([task : Tasks, entry : EntryValues])
      /\ journal \in [Entries -> EntryValues \union {None}]
    BY DEF BaseInv, SessionInv, MediaTypes, DeferredTypes, recording, session
<1>2. /\ \A e \in Entries : Proper(journal[e], e)
      /\ \A i \in DOMAIN writes : Proper(writes[i].entry, EntryOfTask(writes[i].task))
    BY DEF TrueInv, AllProper
<1> PICK line : line = Head(writes)
    OBVIOUS
<1> PICK t : t = line.task
    OBVIOUS
<1> PICK e : e = EntryOfTask(t)
    OBVIOUS
<1>3. /\ setting' = setting /\ up' = up /\ expected' = expected
      /\ step' = step /\ published' = published /\ files' = files
      /\ entries' = entries /\ completion' = completion /\ queue' = queue
      /\ writes # <<>> /\ writes' = Tail(writes) /\ t \in Tasks
      /\ e \in Entries /\ AppendLine(e, line.entry)
      /\ pc' = [pc EXCEPT ![t] = "done"]
    BY <1>1, WriteFacts
<1>4. 1 \in DOMAIN writes /\ line = writes[1]
    BY <1>1, <1>3
<1>5. pc[t] = "journaling"
    BY <1>1, <1>4 DEF Chained
<1>6. pc'[t] = "done" /\ \A u \in Tasks \ {t} : pc'[u] = pc[u]
    BY <1>1, <1>3
<1>7. \A u \in Tasks :
         /\ (u \in Range(queue') \/ pc'[u] # "queued")
               <=> (u \in Range(queue) \/ pc[u] # "queued")
         /\ pc'[u] \in {"published", "cleaned"} => pc'[u] = pc[u]
         /\ Answered(u)' => Answered(u)
         /\ Reported(u)' => Reported(u)
    BY <1>3, <1>5, <1>6 DEF Answered, Reported
<1>8. Proper(line.entry, e)
    BY <1>2, <1>4
<1>9. \A d \in Entries : Proper(journal'[d], d)
    <2>1. \A d \in Entries :
             journal'[d] = journal[d] \/ (d = e /\ journal'[d] = line.entry)
        BY <1>1, <1>3 DEF AppendLine
    <2> QED
        BY <1>2, <1>8, <2>1
<1>10. \A i \in DOMAIN writes' :
          Proper(writes'[i].entry, EntryOfTask(writes'[i].task))
    <2>1. \A i \in DOMAIN writes' : i + 1 \in DOMAIN writes /\ writes'[i] = writes[i + 1]
        BY <1>1, <1>3
    <2> QED
        BY <1>2, <2>1
<1>11. expected
    BY <1>3, BaseFacts
<1> QED
    BY <1>1, <1>3, <1>7, <1>9, <1>10, <1>11, TrueKept

\* An operation takes away its own inputs only, once its output is there.
LEMMA OperationFiles ==
    ASSUME MediaTypes, StepsFit, NEW t \in Tasks, Operation(t)
    PROVE  /\ \A f \in files : f \in files' \/ (f \in Range(Inputs(t)) /\ pc[t] = "published")
           /\ \A f \in Range(Inputs(t)) : Spare(f) /\ (~Merge => f.kind = "raw")
           /\ \A u \in Tasks : step[u] = step[t] \/ u # t => Output(u) \notin Range(Inputs(t))
<1>1. /\ Range(Inputs(t)) =
            IF Merge /\ step[t] = "transcode" THEN {Merged(t)}
            ELSE {Raw(s) : s \in t}
      /\ step \in [Tasks -> {"merge", "transcode"}]
    BY InputFacts DEF MediaTypes, DeferredTypes
<1>2. \A f \in files : f \in files' \/ (f \in Range(Inputs(t)) /\ pc[t] = "published")
    BY OperationKinds
<1>3. \A f \in Range(Inputs(t)) : Spare(f) /\ (~Merge => f.kind = "raw")
    BY <1>1, FileFacts DEF Spare, StepsFit
<1>4. ASSUME NEW u \in Tasks
      PROVE  Output(u) \notin Range(Inputs(t))
    <2>1. CASE Merge /\ step[t] = "transcode"
        BY <1>1, <2>1, FileFacts DEF Output
    <2>2. CASE ~(Merge /\ step[t] = "transcode")
        BY <1>1, <2>2, FileFacts DEF Output
    <2> QED
        BY <2>1, <2>2
<1> QED
    BY <1>2, <1>3, <1>4

LEMMA OperationTrue ==
    ASSUME BaseInv, ListInv, TrueInv, NEW t \in Tasks, Operation(t),
           UNCHANGED recording
    PROVE  TrueInv'
<1>1. MediaTypes /\ setting \in Settings /\ StepsFit
      /\ step \in [Tasks -> {"merge", "transcode"}]
      /\ published \in [Tasks -> Files \union {None}]
    BY DEF BaseInv, MediaTypes, DeferredTypes, ListInv
<1>2. /\ setting' = setting /\ up' = up /\ expected' = expected
      /\ entries' = entries /\ queue' = queue
      /\ journal' = journal /\ writes' = writes
      /\ pc[t] \in {"check", "process", "published", "cleaned"}
      /\ \A u \in Tasks \ {t} :
            /\ pc'[u] = pc[u] /\ step'[u] = step[u]
            /\ published'[u] = published[u] /\ completion'[u] = completion[u]
      /\ pc'[t] \in Locations \ {"queued", "journaling", "done"}
    BY <1>1, OperationFacts
<1>3. /\ Merge' = Merge /\ Deferred' = Deferred /\ Tasks' = Tasks
      /\ Transcode' = Transcode /\ EntryValues' = EntryValues
    BY <1>2, SameSetting
<1>4. /\ \A f \in files : f \in files' \/ (f \in Range(Inputs(t)) /\ pc[t] = "published")
      /\ \A f \in Range(Inputs(t)) : Spare(f) /\ (~Merge => f.kind = "raw")
      /\ \A u \in Tasks : step[u] = step[t] \/ u # t => Output(u) \notin Range(Inputs(t))
    BY <1>1, OperationFiles
<1>5. expected /\ current' = current
    BY <1>2, BaseFacts DEF recording, session
<1>6. \A d : Awaited(d)' = Awaited(d)
    <2>1. \A u \in Tasks : (u \in Range(queue') \/ pc'[u] # "queued")
                              <=> (u \in Range(queue) \/ pc[u] # "queued")
        BY <1>2
    <2> QED
        BY <1>2, <2>1, AwaitedSame
<1>7. AllProper'
    <2>1. \A e, v : Proper(v, e) => Proper(v, e)'
        BY <1>2, <1>4, <1>6, ProperKept
    <2>2. ASSUME NEW e \in Entries
          PROVE  Proper(entries[e], e)' /\ Proper(journal[e], e)'
        <3> PICK v : v = entries[e]
            OBVIOUS
        <3> PICK w : w = journal[e]
            OBVIOUS
        <3>1. Proper(v, e) /\ Proper(w, e)
            BY DEF TrueInv, AllProper
        <3>2. Proper(v, e)' /\ Proper(w, e)'
            BY <2>1, <3>1
        <3> QED
            BY <1>2, <3>2
    <2>3. ASSUME NEW i \in DOMAIN writes
          PROVE  Proper(writes[i].entry, EntryOfTask(writes[i].task))'
        <3> PICK v : v = writes[i].entry
            OBVIOUS
        <3> PICK e : e = EntryOfTask(writes[i].task)
            OBVIOUS
        <3>1. Proper(v, e)
            BY DEF TrueInv, AllProper
        <3>2. Proper(v, e)'
            BY <2>1, <3>1
        <3> QED
            BY <1>2, <3>2
    <2> QED
        BY <1>2, <2>2, <2>3 DEF AllProper
<1>8. NoneProcessed'
    BY <1>2, <1>5 DEF NoneProcessed
<1>9. \A u \in Tasks : step'[u] = step[u] => Output(u)' = Output(u)
    BY DEF Output, Merged, Final
<1>10. \A u \in Tasks : Output(u) \in files => Output(u) \in files'
    BY <1>4
<1>11. CompletedPaths'
    <2>1. ASSUME pc'[t] = "completing", completion'[t].outcome = "completed"
          PROVE  /\ completion'[t].paths = <<Output(t)>> /\ Output(t) \in files'
                 /\ step'[t] = step[t] /\ (step[t] = "merge" => ~Transcode)
        <3>1. /\ pc[t] = "cleaned" /\ step'[t] = step[t] /\ files' = files
              /\ ~(step[t] = "merge" /\ Transcode)
              /\ completion'[t].paths = <<Output(t)>>
            BY <1>1, <2>1, OperationKinds
        <3> QED
            BY <3>1 DEF TrueInv, PublishedThere
    <2>2. ASSUME NEW u \in Tasks, Answered(u)', completion'[u].outcome = "completed"
          PROVE  /\ completion'[u].paths = <<Output(u)'>> /\ Output(u)' \in files'
                 /\ step'[u] = "merge" => ~Transcode
        <3>1. CASE u = t
            <4>1. pc'[t] = "completing"
                BY <1>2, <2>2, <3>1 DEF Answered
            <4> QED
                BY <1>9, <2>1, <2>2, <3>1, <4>1
        <3>2. CASE u # t
            <4>1. Answered(u) /\ completion'[u] = completion[u] /\ step'[u] = step[u]
                BY <1>2, <2>2, <3>2 DEF Answered
            <4> QED
                BY <1>9, <1>10, <2>2, <4>1 DEF TrueInv, CompletedPaths
        <3> QED
            BY <3>1, <3>2
    <2> QED
        BY <1>3, <2>2 DEF CompletedPaths
<1>12. PublishedThere'
    <2>1. ASSUME pc'[t] \in {"published", "cleaned"}
          PROVE  /\ Output(t) \in files' /\ published'[t] = Output(t)
                 /\ step'[t] = step[t]
        <3>1. CASE pc'[t] = "published"
            <4>1. /\ files' = files \union {Output(t)} /\ step' = step
                  /\ published' = [published EXCEPT ![t] = Output(t)]
                BY <1>1, <3>1, OperationKinds
            <4> QED
                BY <1>1, <4>1
        <3>2. CASE pc'[t] = "cleaned"
            <4>1. pc[t] = "published" /\ step' = step /\ published' = published
                BY <1>1, <3>2, OperationKinds
            <4> QED
                BY <1>10, <4>1 DEF TrueInv, PublishedThere
        <3> QED
            BY <2>1, <3>1, <3>2
    <2>2. ASSUME NEW u \in Tasks, pc'[u] \in {"published", "cleaned"}
          PROVE  Output(u)' \in files' /\ published'[u] = Output(u)'
        <3>1. CASE u = t
            BY <1>9, <2>1, <2>2, <3>1
        <3>2. CASE u # t
            BY <1>2, <1>9, <1>10, <2>2, <3>2 DEF TrueInv, PublishedThere
        <3> QED
            BY <3>1, <3>2
    <2> QED
        BY <1>3, <2>2 DEF PublishedThere
<1>13. FinalsThere'
    <2> SUFFICES ASSUME Deferred, ~Merge, up
                 PROVE  FinalsThere'
        BY <1>2, <1>3 DEF FinalsThere
    <2>1. \A paths : FinalsIn(paths) =>
              \A f \in Range(paths) : f.kind = "raw" \/ f \in files'
        BY <1>4 DEF FinalsIn
    <2>2. ASSUME pc'[t] = "completing", NEW f \in Range(completion'[t].paths)
          PROVE  f.kind = "raw" \/ f \in files'
        <3>1. \A g : Range(<<g>>) = {g}
            BY DEF Range
        <3>2. Range(Keeping(Inputs(t), files)) = Range(Inputs(t)) \intersect files
            BY <1>1, InputFacts
        <3>3. \/ completion'[t].paths \in {Inputs(t), Keeping(Inputs(t), files)}
              \/ /\ completion'[t].paths = <<Output(t)>>
                 /\ Output(t) \in files /\ files' = files
              \/ /\ completion'[t].paths = <<published[t]>>
                 /\ published[t] \in files /\ files' = files
            BY <1>1, <2>2, OperationKinds DEF TrueInv, PublishedThere
        <3> QED
            BY <1>4, <2>2, <3>1, <3>2, <3>3
    <2>3. ASSUME NEW u \in Tasks, Answered(u)', NEW f \in Range(completion'[u].paths)
          PROVE  f.kind = "raw" \/ f \in files'
        <3>1. CASE u = t
            <4>1. pc'[t] = "completing"
                BY <1>2, <2>3, <3>1 DEF Answered
            <4> QED
                BY <2>2, <2>3, <3>1, <4>1
        <3>2. CASE u # t
            <4>1. Answered(u) /\ completion'[u] = completion[u]
                BY <1>2, <2>3, <3>2 DEF Answered
            <4> QED
                BY <2>1, <2>3, <4>1 DEF TrueInv, FinalsThere
        <3> QED
            BY <3>1, <3>2
    <2>4. \A d \in Entries \ {current} : entries[d] \in EntryValues =>
             \A f \in Range(FilesOf(entries[d].listed)) : f.kind = "raw" \/ f \in files'
        BY <2>1 DEF TrueInv, FinalsThere
    <2>5. \A d : \A u \in Reports(d)' : u \in Reports(d) /\ completion'[u] = completion[u]
        <3>1. \A d : \A u \in Awaited(d) : u \in Tasks
            BY <1>1, AwaitedFacts
        <3> QED
            BY <1>1, <1>2, <1>6, <3>1, OpenFacts, OpenNext
    <2>6. \A d \in Entries \ {current} : \A u \in Reports(d)' :
             completion'[u].outcome = "completed" =>
                \A s \in u : Raw(s) \notin Range(FilesOf(entries[d].listed))
        BY <2>5 DEF TrueInv, FinalsThere
    <2> QED
        BY <1>2, <1>3, <1>5, <2>3, <2>4, <2>6 DEF FinalsThere, FinalsIn
<1> QED
    BY <1>7, <1>8, <1>11, <1>12, <1>13 DEF TrueInv

LEMMA CompleteDeferredTrue ==
    ASSUME BaseInv, OutcomeInv, ListInv, TrueInv, NEW t \in Tasks,
           CompleteDeferred(t), UNCHANGED recording
    PROVE  TrueInv'
<1>1. /\ MediaTypes /\ SettlingFits /\ setting \in Settings /\ ReportsFit
      /\ current' = current
    BY BaseFacts DEF BaseInv, SessionInv, MediaTypes, DeferredTypes, recording, session
<1> PICK e : e = EntryOfTask(t)
    OBVIOUS
<1> PICK existing : existing = entries[e]
    OBVIOUS
<1> PICK updated : updated = entries'[e]
    OBVIOUS
<1> PICK paths : paths = completion[t].paths
    OBVIOUS
<1> PICK left : left = outstanding'[e]
    OBVIOUS
<1>2. /\ setting' = setting /\ up' = up /\ queue' = queue /\ files' = files
      /\ expected' = expected /\ completion' = completion
      /\ step' = step /\ published' = published /\ journal' = journal
      /\ pc[t] = "completing"
      /\ pc'[t] = "journaling" /\ \A u \in Tasks \ {t} : pc'[u] = pc[u]
      /\ \A d \in Entries \ {e} : entries'[d] = entries[d]
      /\ left = IF outstanding[e] > 0 THEN outstanding[e] - 1 ELSE 0
      /\ writes' = Append(writes, [task |-> t, entry |-> updated])
      /\ writes \in Seq([task : Tasks, entry : EntryValues])
      /\ outstanding[e] \in Nat
    <2>1. /\ outstanding \in [Entries -> Nat]
          /\ writes \in Seq([task : Tasks, entry : EntryValues])
        BY <1>1 DEF MediaTypes, DeferredTypes
    <2>2. e \in Entries
        BY <1>1, TaskFacts
    <2> QED
        BY <1>1, <2>1, <2>2, CompleteDeferredFacts
<1>3. /\ e \in Entries \ {current} /\ t \in Open(e) /\ up /\ expected /\ Deferred
      /\ existing \in EntryValues /\ updated \in EntryValues
      /\ updated.outcome = SettledOutcome(existing, t, left)
      /\ ~Merge => Exchanged(updated.listed, existing.listed, paths, t)
      /\ Merge => FilesOf(updated.listed) = paths /\ Awaited(e) = {t}
    BY SettledList
<1>4. /\ Merge' = Merge /\ Deferred' = Deferred /\ EntryValues' = EntryValues
      /\ Tasks' = Tasks /\ Transcode' = Transcode
    BY <1>2, SameSetting
<1>5. \A d : Awaited(d)' = Awaited(d) /\ Awaited(d) \subseteq Tasks
    BY <1>1, <1>2, AwaitedSame, AwaitedFacts
<1>6. /\ Answered(t)
      /\ completion[t].outcome = "completed" =>
            /\ paths = <<Output(t)>> /\ Output(t) \in files
            /\ step[t] = "merge" => ~Transcode
    BY <1>2 DEF Answered, TrueInv, CompletedPaths
<1>7. /\ Range(<<Output(t)>>) = {Output(t)} /\ Output(t).kind # "raw"
      /\ Output(t).kind = "merged" => step[t] = "merge"
    BY FileFacts DEF Output, Range
<1>8. ~Merge => Parted(existing)
    BY <1>3 DEF ListInv, Lists
<1>9. Proper(updated, e)
    <2> SUFFICES ASSUME updated.outcome = "completed",
                        NEW f \in Range(FilesOf(updated.listed))
                 PROVE  IF f.kind = "raw" THEN f.of \notin Awaited(e)
                        ELSE f \in files /\ (f.kind = "merged" => ~Transcode)
        BY DEF Proper, Processed
    <2>1. ~Sticky(existing) /\ completion[t].outcome = "completed" /\ ~(left > 0)
        BY <1>3 DEF SettledOutcome
    <2>2. CASE f \in Range(paths)
        BY <1>6, <1>7, <2>1, <2>2
    <2>3. CASE f \notin Range(paths)
        <3>1. ~Merge /\ f \in Range(FilesOf(existing.listed)) /\ \A s \in t : f # Raw(s)
            BY <1>3, <2>3 DEF Exchanged
        <3>2. PICK r \in Segments : f = Raw(r) \/ f = Final({r})
            BY <1>8, <3>1 DEF Parted
        <3>3. CASE f = Final({r})
            <4>1. f.kind = "final"
                BY <3>3, FileFacts
            <4>2. FinalsIn(FilesOf(existing.listed))
                BY <1>3, <3>1 DEF TrueInv, FinalsThere
            <4> QED
                BY <3>1, <4>1, <4>2 DEF FinalsIn
        <3>4. CASE f = Raw(r)
            <4> PICK u : u = {r}
                OBVIOUS
            <4>1. f.kind = "raw" /\ f.of = u
                BY <3>4, FileFacts
            <4>2. ASSUME u \in Awaited(e)
                  PROVE  FALSE
                <5>1. u # t /\ u \in Tasks
                    BY <1>5, <3>1, <3>4, <4>2
                <5>2. u \notin Open(e)
                    <6>1. /\ outstanding[e] = Cardinality(Open(e))
                          /\ IsFiniteSet(Open(e))
                        BY <1>1, <1>3, OpenFacts DEF OutcomeInv, Counted
                    <6>2. outstanding[e] <= 1
                        BY <1>2, <2>1
                    <6>3. /\ Cardinality(Open(e) \ {t}) = Cardinality(Open(e)) - 1
                          /\ IsFiniteSet(Open(e) \ {t})
                        BY <1>3, <6>1, FS_RemoveElement
                    <6>4. Cardinality(Open(e) \ {t}) \in Nat
                        BY <6>3, FS_CardinalityType
                    <6>5. Cardinality(Open(e) \ {t}) = 0
                        BY <1>2, <6>1, <6>2, <6>3, <6>4
                    <6>6. Open(e) \ {t} = {}
                        BY <6>3, <6>5, FS_EmptySet
                    <6> QED
                        BY <5>1, <6>6
                <5>3. u \in Reports(e)
                    BY <1>1, <4>2, <5>2, OpenFacts
                <5>4. ~Failed(e)
                    <6>1. existing.outcome # "failed"
                        BY <2>1, <3>1 DEF Sticky
                    <6> QED
                        BY <1>3, <4>2, <6>1 DEF OutcomeInv, Outcomes
                <5>5. completion[u].outcome = "completed"
                    <6>1. Answered(u)
                        BY <1>1, <5>3, OpenFacts DEF Answered
                    <6> QED
                        BY <1>1, <5>1, <5>3, <5>4, <6>1 DEF ReportsFit, Report, Failed
                <5>6. Raw(r) \notin Range(FilesOf(existing.listed))
                    BY <1>3, <3>1, <5>3, <5>5 DEF TrueInv, FinalsThere
                <5> QED
                    BY <3>1, <3>4, <5>6
            <4> QED
                BY <4>1, <4>2
        <3> QED
            BY <3>2, <3>3, <3>4
    <2> QED
        BY <2>2, <2>3
<1>10. AllProper'
    <2>1. \A d, v : Proper(v, d) => Proper(v, d)'
        BY <1>2, <1>5, ProperKept
    <2>2. ASSUME NEW d \in Entries
          PROVE  Proper(entries[d], d)' /\ Proper(journal[d], d)'
        <3> PICK v : v = IF d = e THEN updated ELSE entries[d]
            OBVIOUS
        <3> PICK w : w = journal[d]
            OBVIOUS
        <3>1. Proper(v, d) /\ Proper(w, d)
            BY <1>9 DEF TrueInv, AllProper
        <3>2. Proper(v, d)' /\ Proper(w, d)'
            BY <2>1, <3>1
        <3> QED
            BY <1>2, <3>2
    <2>3. ASSUME NEW i \in DOMAIN writes'
          PROVE  Proper(writes[i].entry, EntryOfTask(writes[i].task))'
        <3> PICK line : line = writes'[i]
            OBVIOUS
        <3> PICK d : d = EntryOfTask(line.task)
            OBVIOUS
        <3>1. \/ i \in DOMAIN writes /\ line = writes[i]
              \/ line = [task |-> t, entry |-> updated]
            BY <1>2
        <3>2. Proper(line.entry, d)
            <4>1. CASE i \in DOMAIN writes /\ line = writes[i]
                BY <4>1 DEF TrueInv, AllProper
            <4>2. CASE line = [task |-> t, entry |-> updated]
                BY <1>9, <4>2
            <4> QED
                BY <3>1, <4>1, <4>2
        <3> PICK v : v = line.entry
            OBVIOUS
        <3>3. Proper(v, d)'
            BY <2>1, <3>2
        <3> QED
            BY <3>3
    <2> QED
        BY <2>2, <2>3 DEF AllProper
<1>11. NoneProcessed'
    BY <1>2, <1>3 DEF NoneProcessed
<1>12. CompletedPaths' /\ PublishedThere'
    <2>1. \A u \in Tasks : Output(u)' = Output(u)
        BY <1>2 DEF Output, Merged, Final
    <2>2. \A u \in Tasks :
             /\ Answered(u)' => Answered(u)
             /\ pc'[u] \in {"published", "cleaned"} => pc'[u] = pc[u]
        BY <1>2 DEF Answered
    <2> QED
        BY <1>2, <1>4, <2>1, <2>2 DEF TrueInv, CompletedPaths, PublishedThere
<1>13. FinalsThere'
    <2> SUFFICES ASSUME ~Merge
                 PROVE  FinalsThere'
        BY <1>4 DEF FinalsThere
    <2>1. \A u \in Tasks : Answered(u)' => Answered(u)
        BY <1>2 DEF Answered
    <2>2. \A u \in Tasks : Answered(u) => FinalsIn(completion[u].paths)
        BY <1>3 DEF TrueInv, FinalsThere
    <2>3. FinalsIn(FilesOf(updated.listed))
        <3>1. FinalsIn(FilesOf(existing.listed)) /\ FinalsIn(paths)
            BY <1>3, <1>6, <2>2 DEF TrueInv, FinalsThere
        <3> QED
            BY <1>3, <3>1 DEF FinalsIn, Exchanged
    <2>4. \A d \in Entries \ {current} : entries'[d] \in EntryValues =>
             FinalsIn(FilesOf(entries'[d].listed))
        BY <1>2, <1>3, <2>3 DEF TrueInv, FinalsThere
    <2>5. \A d : \A u \in Reports(d)' : u \in Reports(d) \/ (u = t /\ d = e)
        <3>1. \A d : t \in Awaited(d) => d = e
            BY <1>1, AwaitedFacts
        <3> QED
            BY <1>1, <1>2, <1>5, <3>1, OpenFacts, OpenNext
    <2>6. ASSUME NEW d \in Entries \ {current}, NEW u \in Reports(d)',
                 completion[u].outcome = "completed", NEW s \in u
          PROVE  Raw(s) \notin Range(FilesOf(entries'[d].listed))
        <3>1. CASE d # e
            <4>1. u \in Reports(d)
                BY <2>5, <2>6, <3>1
            <4> QED
                BY <1>2, <1>3, <2>6, <3>1, <4>1 DEF TrueInv, FinalsThere
        <3>2. CASE d = e /\ u = t
            <4>1. Raw(s) \notin Range(paths)
                BY <1>6, <1>7, <2>6, <3>2, FileFacts
            <4> QED
                BY <1>3, <2>6, <3>2, <4>1 DEF Exchanged
        <3>3. CASE d = e /\ u # t
            <4>1. u \in Reports(e)
                BY <2>5, <2>6, <3>3
            <4>2. Raw(s) \notin Range(FilesOf(existing.listed))
                BY <1>3, <2>6, <3>3, <4>1 DEF TrueInv, FinalsThere
            <4>3. u \in Tasks
                BY <1>1, <1>5, <4>1, OpenFacts
            <4>4. s \notin t
                <5>1. PICK r, q : t = {r} /\ u = {q}
                    BY <1>1, <4>3, TaskFacts
                <5> QED
                    BY <2>6, <3>3, <5>1
            <4>5. Raw(s) \notin Range(paths)
                <5>1. \A f \in Range(paths) : (\E r \in t : f = Raw(r)) \/ f = Final(t)
                    BY <1>6 DEF ListInv, PathsFit
                <5> QED
                    BY <4>4, <5>1, FileFacts
            <4> QED
                BY <1>3, <3>3, <4>2, <4>5 DEF Exchanged
        <3> QED
            BY <3>1, <3>2, <3>3
    <2> QED
        BY <1>1, <1>2, <1>3, <1>4, <2>1, <2>2, <2>4, <2>6 DEF FinalsThere, FinalsIn
<1> QED
    BY <1>10, <1>11, <1>12, <1>13 DEF TrueInv

LEMMA TrueStep ==
    ASSUME BaseInv, OutcomeInv, ListInv, TrueInv, [Next]_mediaVars
    PROVE  TrueInv'
<1>1. CASE Record
    BY <1>1, BeginTrue, StopTrue, StartFinalizeTrue, CompletingTrue DEF Record
<1>2. CASE Teardown
    <2>1. UNCHANGED recording
        BY <1>2 DEF Teardown
    <2>2. \/ Flush \/ Take \/ Write
          \/ \E t \in Tasks : Operation(t) \/ CompleteDeferred(t)
        BY <1>2 DEF Teardown, TaskStep, Operation
    <2> QED
        BY <2>1, <2>2, TeardownTrue, WriteTrue, OperationTrue, CompleteDeferredTrue
<1>3. CASE Done \/ UNCHANGED mediaVars
    <2>1. UNCHANGED mediaVars
        BY <1>3 DEF Done
    <2>2. UNCHANGED recording
        BY <2>1 DEF mediaVars
    <2> QED
        BY <2>1, <2>2, TeardownTrue
<1>4. CASE Kill
    BY <1>4, KillTrue
<1>5. CASE \E s \in Losable : LoseInput(s) /\ UNCHANGED recording
    BY <1>5, TeardownTrue
<1> QED
    BY <1>1, <1>2, <1>3, <1>4, <1>5 DEF Next

\* An entry whose deferred processing is "completed", in memory or in the
\* journal that a killed worker leaves, lists files that exist and are
\* processed, and of the captures only those that never had a task.
THEOREM CompletedIsTrueHolds == Spec => []CompletedIsTrue
<1>1. SegmentInit => BaseInv /\ OutcomeInv /\ ListInv /\ TrueInv
    BY InitTypes, InitSession, InitOutcome, InitLists, InitTrue DEF BaseInv
<1>2. BaseInv /\ OutcomeInv /\ ListInv /\ TrueInv /\ [Next]_mediaVars =>
         BaseInv' /\ OutcomeInv' /\ ListInv' /\ TrueInv'
    BY BaseStep, OutcomeStep, ListStep, TrueStep
<1>3. TrueInv => CompletedIsTrue
    BY TrueFacts DEF TrueInv
<1> QED
    BY <1>1, <1>2, <1>3, PTL DEF Spec

----------------------------------------------------------------------------
(* What holds the content of the captured segments.                        *)

LEMMA TasksHoldAll ==
    MediaTypes /\ TasksHold /\ PublishedThere /\ up /\ Deferred => AllHeld
<1> SUFFICES ASSUME MediaTypes, TasksHold, PublishedThere, up, Deferred,
                    NEW s \in captured \ lost
             PROVE  Holding(s, files)
    BY DEF AllHeld
<1>1. setting \in Settings /\ s \in Segments /\ pc \in [Tasks -> Locations]
    BY DEF MediaTypes, DeferredTypes, SessionTypes
<1>2. \A f \in files : s \in f.of => Holding(s, files)
    BY DEF Holding
<1>3. CASE \A t \in Awaited(EntryOf[s]) : s \notin t
    BY <1>2, <1>3, FileFacts DEF TasksHold
<1>4. CASE \E t \in Awaited(EntryOf[s]) : s \in t
    <2>1. PICK t \in Awaited(EntryOf[s]) : s \in t
        BY <1>4
    <2>2. Held(t, s) /\ t \in Tasks
        BY <1>1, <2>1, AwaitedFacts DEF TasksHold
    <2>3. CASE pc[t] \in {"queued", "check", "process"}
        BY <1>2, <2>1, <2>2, <2>3, FileFacts DEF Held
    <2>4. CASE pc[t] \in {"published", "cleaned"}
        BY <1>2, <2>1, <2>2, <2>4, FileFacts DEF PublishedThere, Output
    <2>5. CASE Answered(t)
        BY <2>2, <2>5 DEF Held, Holding
    <2> QED
        BY <1>1, <2>2, <2>3, <2>4, <2>5 DEF Locations, Answered
<1> QED
    BY <1>3, <1>4

LEMMA TasksHoldAllNext ==
    MediaTypes' /\ TasksHold' /\ PublishedThere' /\ up' /\ Deferred' => AllHeld'
BY TasksHoldAll, PTL

\* While tests are recorded, the recordings are there and listed.
RecordingHeld ==
    \A s \in captured :
        /\ s \notin lost => Raw(s) \in files
        /\ EntryOf[s] = current => Raw(s) \in Range(recorded)
        /\ EntryOf[s] # current => Raw(s) \in Range(FilesOf(entries[EntryOf[s]].listed))
        /\ Merge => \A t \in Awaited(EntryOf[s]) : s \in t

LEMMA HeldRecording ==
    ASSUME BaseInv, ListInv, TasksHold, up, Deferred, ~expected
    PROVE  RecordingHeld
<1>1. /\ setting \in Settings
      /\ \A t \in Tasks : pc[t] = "queued" /\ step = FirstSteps
      /\ captured \subseteq Segments
    BY DEF BaseInv, MediaTypes, DeferredTypes, SessionTypes, SessionInv, Phases
<1> SUFFICES ASSUME NEW s \in captured
             PROVE  /\ s \notin lost => Raw(s) \in files
                    /\ EntryOf[s] = current => Raw(s) \in Range(recorded)
                    /\ EntryOf[s] # current =>
                          Raw(s) \in Range(FilesOf(entries[EntryOf[s]].listed))
                    /\ Merge => \A t \in Awaited(EntryOf[s]) : s \in t
    BY DEF RecordingHeld
<1>2. /\ EntryOf[s] = current => Raw(s) \in Range(recorded)
      /\ Merge => \A t \in Awaited(EntryOf[s]) : s \in t
    BY DEF TasksHold
<1>3. CASE \A t \in Awaited(EntryOf[s]) : s \notin t
    BY <1>2, <1>3 DEF TasksHold
<1>4. CASE \E t \in Awaited(EntryOf[s]) : s \in t
    <2>1. PICK t \in Awaited(EntryOf[s]) : s \in t
        BY <1>4
    <2>2. t \in Tasks /\ pc[t] = "queued" /\ step[t] = IF Merge THEN "merge" ELSE "transcode"
        BY <1>1, <2>1, AwaitedFacts DEF FirstSteps, ForEach
    <2>3. s \notin lost => Raw(s) \in files
        <3>1. s \notin lost => Held(t, s)
            BY <2>1 DEF TasksHold
        <3>2. pc[t] \in {"queued", "check", "process"}
              /\ ~(Merge /\ step[t] = "transcode")
            BY <2>2
        <3> QED
            BY <3>1, <3>2 DEF Held
    <2>4. t \in Open(EntryOf[s])
        BY <1>1, <2>1, <2>2, OpenFacts
    <2>5. EntryOf[s] \in Entries
        BY <1>1, SegmentFacts
    <2>6. EntryOf[s] # current => ListsRaws(entries[EntryOf[s]], t)
        BY <2>4, <2>5 DEF ListInv, Lists
    <2> QED
        BY <1>2, <2>1, <2>3, <2>6 DEF ListsRaws
<1> QED
    BY <1>3, <1>4

\* No task has been started.
Untouched == step = FirstSteps /\ \A t \in Tasks : pc[t] = "queued"

LEMMA RecordingHolds == MediaTypes /\ RecordingHeld /\ Untouched => TasksHold
<1> SUFFICES ASSUME MediaTypes, RecordingHeld, step = FirstSteps,
                    \A t \in Tasks : pc[t] = "queued"
             PROVE  TasksHold
    BY DEF Untouched
<1>1. \A e : \A t \in Awaited(e) : t \in Tasks
    BY AwaitedFacts DEF MediaTypes, DeferredTypes
<1>2. \A t \in Tasks : ~Answered(t) /\ ~Reported(t)
    BY DEF Answered, Reported
<1>3. \A t \in Tasks : ~(Merge /\ step[t] = "transcode")
    BY DEF FirstSteps, ForEach
<1>4. ASSUME NEW s \in captured, s \notin lost, NEW t \in Awaited(EntryOf[s])
      PROVE  Held(t, s)
    BY <1>1, <1>2, <1>3, <1>4 DEF Held, RecordingHeld
<1>5. \A s \in captured :
         /\ s \notin lost => Raw(s) \in files
         /\ EntryOf[s] = current => Raw(s) \in Range(recorded)
         /\ EntryOf[s] # current => Raw(s) \in Range(FilesOf(entries[EntryOf[s]].listed))
         /\ Merge => \A t \in Awaited(EntryOf[s]) : s \in t
    BY DEF RecordingHeld
<1> QED
    BY <1>4, <1>5 DEF TasksHold

LEMMA RecordingHoldsPrimed ==
    MediaTypes' /\ RecordingHeld' /\ Untouched' => TasksHold'
BY RecordingHolds, PTL

\* So it is after a step of the recording.
LEMMA RecordingHoldsNext ==
    ASSUME BaseInv, BaseInv', TrueInv', ~expected, setting' = setting, up' = up,
           expected' = expected, pc' = pc, step' = step,
           up /\ Deferred => RecordingHeld', up /\ ~Deferred => AllHeld', up
    PROVE  HeldInv'
<1>1. Deferred' = Deferred /\ Tasks' = Tasks /\ FirstSteps' = FirstSteps
    BY SameSetting
<1>2. step = FirstSteps /\ \A t \in Tasks : pc[t] = "queued"
    BY DEF BaseInv, SessionInv, Phases
<1>3. CASE ~Deferred
    BY <1>1, <1>3 DEF HeldInv, TasksHold
<1>4. CASE Deferred
    <2>1. MediaTypes' /\ RecordingHeld'
        BY <1>4 DEF BaseInv
    <2>2. Untouched'
        BY <1>1, <1>2 DEF Untouched
    <2>3. TasksHold'
        BY <2>1, <2>2, RecordingHoldsPrimed
    <2>4. AllHeld'
        BY <1>1, <1>4, <2>1, <2>3, TasksHoldAllNext DEF TrueInv
    <2> QED
        BY <2>3, <2>4 DEF HeldInv
<1> QED
    BY <1>3, <1>4

LEMMA BeginHeld ==
    ASSUME BaseInv, BaseInv', ListInv, TrueInv', HeldInv, Begin
    PROVE  HeldInv'
<1> PICK e : e = EntryOf[at]
    OBVIOUS
<1>1. /\ current = None /\ at \in Segments /\ current' = e /\ up
      /\ entries' = [entries EXCEPT ![e] = Interrupted]
      /\ setting' = setting /\ up' = up /\ expected' = expected /\ lost' = lost
      /\ pc' = pc /\ step' = step /\ files' = files /\ queue' = queue
      /\ captured' = captured /\ setting \in Settings
      /\ entries \in [Entries -> EntryValues \union {None}]
      /\ captured \subseteq Segments
    BY DEF Begin, flushing, BaseInv, MediaTypes, DeferredTypes, SessionTypes
<1>2. /\ e \in Entries
      /\ \A d \in Entries \ {e} : entries'[d] = entries[d]
      /\ \A s \in captured : EntryOf[s] \in Entries /\ EntryOf[s] # None
    BY <1>1, SegmentFacts, NoneFacts
<1>3. ~expected
    BY <1>1, BaseFacts
<1>4. \A s \in captured : EntryOf[s] # e
    <2> SUFFICES ASSUME NEW s \in captured, EntryOf[s] = e
                 PROVE  FALSE
        OBVIOUS
    <2>1. s \in captured \intersect SegmentsOf(e)
        BY <1>1 DEF SegmentsOf
    <2>2. Past(e)
        BY <1>1, <1>2, <2>1 DEF BaseInv, SessionInv, Begun
    <2>3. at < at
        BY <1>1, <2>2 DEF Past, SegmentsOf
    <2> QED
        BY <1>1, <2>3, SegmentFacts
<1>5. up /\ ~Deferred => AllHeld'
    BY <1>1 DEF HeldInv, AllHeld, Holding
<1>6. ASSUME Deferred
      PROVE  RecordingHeld'
    <2>1. RecordingHeld
        BY <1>1, <1>3, <1>6, HeldRecording DEF HeldInv
    <2>2. Merge' = Merge /\ \A d : Awaited(d)' = Awaited(d)
        BY <1>1, AwaitedSame, SameSetting
    <2> QED
        BY <1>1, <1>2, <1>4, <2>1, <2>2 DEF RecordingHeld
<1> QED
    BY <1>1, <1>3, <1>5, <1>6, RecordingHoldsNext

LEMMA StopHeld ==
    ASSUME BaseInv, BaseInv', ListInv, TrueInv', HeldInv, NEW r \in Segments, Stop(r)
    PROVE  HeldInv'
<1>1. MediaTypes /\ setting \in Settings /\ recorded \in Seq(Files)
    BY DEF BaseInv, MediaTypes, DeferredTypes, SessionTypes
<1>2. /\ up /\ current \in Entries /\ EntryOf[r] = current
      /\ current' = current
      /\ setting' = setting /\ up' = up /\ lost' = lost /\ entries' = entries
      /\ expected' = expected /\ step' = step /\ pc' = pc
      /\ captured' \in {captured, captured \union {r}}
      /\ \/ recorded' = recorded
         \/ recorded' = Append(recorded, Raw(r))
         \/ recorded' = Append(recorded, Final({r})) /\ ~Deferred
      /\ \E added \in SUBSET {Raw(r), Final({r})} : files' = files \union added
      /\ queue' = queue \/ ~Merge
      /\ r \in captured' \ captured /\ Deferred =>
            recorded' = Append(recorded, Raw(r)) /\ Raw(r) \in files'
      /\ r \in captured' \ captured => \E f \in files' : r \in f.of
    BY <1>1, StopFacts
<1>3. ~expected /\ files \subseteq files'
    BY <1>2, BaseFacts
<1>4. up /\ ~Deferred => AllHeld'
    BY <1>2, <1>3 DEF HeldInv, AllHeld, Holding
<1>5. ASSUME Deferred
      PROVE  RecordingHeld'
    <2>1. RecordingHeld
        BY <1>2, <1>3, <1>5, HeldRecording DEF HeldInv
    <2>2. Merge' = Merge
        BY <1>2, SameSetting
    <2>3. Merge => \A d : Awaited(d)' = Awaited(d)
        BY <1>2, AwaitedSame
    <2>4. Raw(r) \in Files
        BY <1>1, FilesFacts
    <2>5. Range(Append(recorded, Raw(r))) = Range(recorded) \union {Raw(r)}
        BY <1>1, <2>4, RangeOfAppend
    <2>6. Range(recorded) \subseteq Range(recorded')
        BY <1>2, <1>5, <2>5
    <2>7. Merge => Awaited(current) = {}
        <3>1. \A t \in Tasks : pc[t] = "queued"
            BY <1>2, BaseFacts
        <3> QED
            BY <1>1, <3>1, AwaitedFacts DEF BaseInv, SessionInv, Queued
    <2>8. ASSUME NEW s \in captured
          PROVE  /\ s \notin lost' => Raw(s) \in files'
                 /\ EntryOf[s] = current' => Raw(s) \in Range(recorded')
                 /\ EntryOf[s] # current' =>
                       Raw(s) \in Range(FilesOf(entries'[EntryOf[s]].listed))
                 /\ Merge' => \A t \in Awaited(EntryOf[s])' : s \in t
        BY <1>2, <1>3, <2>1, <2>2, <2>3, <2>6 DEF RecordingHeld
    <2>9. ASSUME r \in captured' \ captured
          PROVE  /\ r \notin lost' => Raw(r) \in files'
                 /\ EntryOf[r] = current' => Raw(r) \in Range(recorded')
                 /\ EntryOf[r] # current' =>
                       Raw(r) \in Range(FilesOf(entries'[EntryOf[r]].listed))
                 /\ Merge' => \A t \in Awaited(EntryOf[r])' : r \in t
        <3>1. Merge => Awaited(EntryOf[r])' = {}
            BY <1>2, <2>3, <2>7
        <3> QED
            BY <1>2, <1>5, <2>2, <2>5, <2>9, <3>1
    <2> QED
        BY <1>2, <2>8, <2>9 DEF RecordingHeld
<1> QED
    BY <1>2, <1>3, <1>4, <1>5, RecordingHoldsNext

LEMMA StartFinalizeHeld ==
    ASSUME BaseInv, BaseInv', ListInv, TrueInv', HeldInv, StartFinalize
    PROVE  HeldInv'
<1>1. /\ current # None /\ up
      /\ setting' = setting /\ up' = up /\ lost' = lost /\ entries' = entries
      /\ expected' = expected /\ step' = step /\ pc' = pc
      /\ captured' = captured /\ recorded' = recorded
      /\ files' = files /\ queue' = queue /\ current' = current
    BY DEF StartFinalize, vars, media, manifest, journaling
<1>2. ~expected
    BY <1>1, BaseFacts
<1>3. up /\ ~Deferred => AllHeld'
    BY <1>1 DEF HeldInv, AllHeld, Holding
<1>4. ASSUME Deferred
      PROVE  RecordingHeld'
    <2>1. RecordingHeld
        BY <1>1, <1>2, <1>4, HeldRecording DEF HeldInv
    <2>2. Merge' = Merge /\ \A d : Awaited(d)' = Awaited(d)
        BY <1>1, AwaitedSame, SameSetting
    <2> QED
        BY <1>1, <2>1, <2>2 DEF RecordingHeld
<1> QED
    BY <1>1, <1>2, <1>3, <1>4, RecordingHoldsNext

LEMMA CompletingHeld ==
    ASSUME BaseInv, BaseInv', ListInv, TrueInv', HeldInv,
           FinalizeFailed \/ Discard \/ KeepIncomplete \/ KeepSegments \/ MergeNow
    PROVE  HeldInv'
<1>1. MediaTypes /\ Recording /\ setting \in Settings /\ captured \subseteq Segments
      /\ queue \in Seq(Tasks)
    BY DEF BaseInv, SessionInv, MediaTypes, DeferredTypes, SessionTypes
<1>2. current \in Entries /\ up
    BY <1>1, Completing DEF Ended
<1> PICK e \in Entries : e = current
    BY <1>2
<1>3. PICK entry \in EntryValues, paths \in Seq(Files), parts \in SUBSET Segments :
         /\ Complete(entry) /\ Filed(entry, paths, parts)
         /\ \/ /\ paths = recorded /\ files' = files /\ captured' = captured
               /\ \/ queue' = queue
                  \/ queue' = Dropped
                  \/ queue' = Append(Dropped, Parts) /\ Merge /\ recorded # <<>>
            \/ /\ paths = <<>> /\ queue' = Dropped
               /\ captured' = captured \ SegmentsOf(e)
               /\ \E gone \in SUBSET Range(recorded) : files' = files \ gone
            \/ /\ paths \in {recorded, <<Merged(Parts)>>}
               /\ Merge /\ ~Deferred /\ recorded # <<>>
               /\ captured' = captured
               /\ \E gone \in SUBSET Range(recorded) :
                     files' = (files \union {Merged(Parts)}) \ gone
    BY <1>1, CompletingKinds
<1>4. /\ setting' = setting /\ up' = up /\ expected' = expected /\ pc' = pc
      /\ step' = step /\ lost' = lost
      /\ current' = None /\ entries'[e] = entry
      /\ \A d \in Entries \ {e} : entries'[d] = entries[d]
    BY <1>1, <1>2, <1>3, CompleteFacts
<1>5. ~expected /\ \A t \in Tasks : pc[t] = "queued"
    BY <1>2, BaseFacts
<1>6. \A f \in Range(recorded) : \E r \in SegmentsOf(e) :
         f = Raw(r) \/ (~Deferred /\ f = Final({r}))
    BY <1>1 DEF Recording
<1>7. \A f \in Range(recorded) :
         f.of \subseteq Parts /\ \A s \in f.of : s \in SegmentsOf(e)
    <2>1. ASSUME NEW f \in Range(recorded)
          PROVE  \A s \in f.of : s \in SegmentsOf(e)
        <3>1. PICK r \in SegmentsOf(e) : f = Raw(r) \/ f = Final({r})
            BY <1>6
        <3>2. f.of = {r}
            BY <3>1 DEF Raw, Final
        <3> QED
            BY <3>2
    <2> QED
        BY <2>1 DEF Parts
<1>8. ASSUME ~Deferred, NEW s \in captured' \ lost
      PROVE  Holding(s, files)'
    <2>1. PICK f \in files : s \in f.of
        BY <1>3, <1>8 DEF HeldInv, AllHeld, Holding
    <2>2. CASE f \in files'
        BY <2>1, <2>2 DEF Holding
    <2>3. CASE f \notin files'
        <3>1. f \in Range(recorded)
            BY <1>3, <2>3
        <3>2. s \in SegmentsOf(e) /\ s \in Parts
            BY <1>7, <2>1, <3>1
        <3>3. PICK gone \in SUBSET Range(recorded) :
                 files' = (files \union {Merged(Parts)}) \ gone
            BY <1>3, <1>8, <2>3, <3>2
        <3>4. Merged(Parts) \notin Range(recorded)
            <4> PICK m : m = Merged(Parts)
                OBVIOUS
            <4>1. m.kind = "merged"
                BY DEF Merged
            <4>2. \A g \in Range(recorded) : g.kind # "merged"
                BY <1>6 DEF Raw, Final
            <4> QED
                BY <4>1, <4>2
        <3>5. Merged(Parts) \in files' /\ s \in Merged(Parts).of
            BY <3>2, <3>3, <3>4, FileFacts
        <3> QED
            BY <3>5 DEF Holding
    <2> QED
        BY <2>2, <2>3
<1>9. up /\ ~Deferred => AllHeld'
    BY <1>4, <1>8 DEF AllHeld
<1>10. ASSUME Deferred
       PROVE  RecordingHeld'
    <2>1. RecordingHeld
        BY <1>2, <1>5, <1>10, HeldRecording DEF HeldInv
    <2>2. Merge' = Merge
        BY <1>4, SameSetting
    <2>3. FilesOf(entry.listed) = paths
        <3>1. paths = recorded \/ paths = <<>>
            BY <1>3, <1>10
        <3> QED
            BY <1>1, <1>2, <1>3, <3>1, FiledLists
    <2>4. \A f \in Range(recorded) : \E r \in SegmentsOf(e) : f = Raw(r)
        BY <1>6, <1>10
    <2>5. ASSUME NEW s \in captured', Raw(s) \in files
          PROVE  Raw(s) \in files'
        <3>1. CASE files' = files
            BY <2>5, <3>1
        <3>2. CASE captured' = captured \ SegmentsOf(e)
                   /\ \E gone \in SUBSET Range(recorded) : files' = files \ gone
            <4>1. Raw(s) \notin Range(recorded)
                BY <2>4, <3>2, FileFacts
            <4> QED
                BY <2>5, <3>2, <4>1
        <3> QED
            BY <1>3, <1>10, <3>1, <3>2
    <2>6. ASSUME NEW s \in captured'
          PROVE  Raw(s) \in Range(FilesOf(entries'[EntryOf[s]].listed))
        <3>1. s \in captured /\ EntryOf[s] \in Entries /\ s \in Segments
            BY <1>1, <1>3, SegmentFacts
        <3>2. CASE EntryOf[s] = e
            <4>1. Raw(s) \in Range(recorded)
                BY <2>1, <3>1, <3>2 DEF RecordingHeld
            <4>2. paths = recorded
                <5>1. s \in SegmentsOf(e)
                    BY <3>1, <3>2 DEF SegmentsOf
                <5> QED
                    BY <1>3, <1>10, <5>1
            <4> QED
                BY <1>4, <2>3, <3>2, <4>1, <4>2
        <3>3. CASE EntryOf[s] # e
            <4>1. entries'[EntryOf[s]] = entries[EntryOf[s]]
                BY <1>4, <3>1, <3>3
            <4>2. Raw(s) \in Range(FilesOf(entries[EntryOf[s]].listed))
                BY <2>1, <3>1, <3>3 DEF RecordingHeld
            <4> QED
                BY <4>1, <4>2
        <3> QED
            BY <3>2, <3>3
    <2>7. ASSUME Merge, NEW s \in captured', NEW t \in Awaited(EntryOf[s])'
          PROVE  s \in t
        <3>1. s \in captured /\ EntryOf[s] \in Entries
            BY <1>1, <1>3, SegmentFacts
        <3>2. t \in Tasks /\ EntryOfTask(t) = EntryOf[s] /\ t \in Range(queue')
            BY <1>4, <1>5, <2>7, AwaitedNext
        <3>3. CASE t \in Range(queue)
            <4>1. t \in Awaited(EntryOf[s])
                BY <1>1, <3>2, <3>3, AwaitedFacts
            <4> QED
                BY <2>1, <2>7, <3>1, <4>1 DEF RecordingHeld
        <3>4. CASE t \notin Range(queue)
            <4>1. Dropped \in Seq(Tasks) /\ Range(Dropped) \subseteq Range(queue)
                BY DroppedFacts
            <4>2. queue' = Append(Dropped, Parts) /\ recorded # <<>> /\ paths = recorded
                BY <1>3, <1>10, <3>2, <3>4, <4>1
            <4>3. Parts \in Tasks /\ EntryOfTask(Parts) = e
                BY <1>1, <1>2, <2>7, <4>2, PartsFacts
            <4>4. Range(queue') = Range(Dropped) \union {Parts}
                <5> PICK p : p = Parts
                    OBVIOUS
                <5>1. Range(Append(Dropped, p)) = Range(Dropped) \union {p}
                    BY <4>1, <4>3, RangeOfAppend
                <5> QED
                    BY <4>2, <5>1
            <4>5. t = Parts
                BY <3>2, <3>4, <4>1, <4>4
            <4>6. Raw(s) \in Range(recorded)
                BY <2>1, <3>1, <3>2, <4>3, <4>5 DEF RecordingHeld
            <4> QED
                BY <1>7, <4>5, <4>6, FileFacts
        <3> QED
            BY <3>3, <3>4
    <2>8. \A s \in captured' : s \in captured /\ EntryOf[s] # None
        BY <1>1, <1>3, SegmentFacts, NoneFacts
    <2>9. \A s \in captured' : s \notin lost' => Raw(s) \in files'
        BY <1>4, <2>1, <2>5, <2>8 DEF RecordingHeld
    <2> QED
        BY <1>4, <2>2, <2>6, <2>7, <2>8, <2>9 DEF RecordingHeld
<1> QED
    BY <1>2, <1>4, <1>5, <1>9, <1>10, RecordingHoldsNext

LEMMA KillHeld ==
    ASSUME HeldInv, Kill
    PROVE  HeldInv'
<1>1. /\ files' = files /\ captured' = captured /\ lost' = lost /\ ~up'
    BY KillFacts
<1>2. AllHeld'
    BY <1>1 DEF HeldInv, AllHeld, Holding
<1> QED
    BY <1>1, <1>2 DEF HeldInv, TasksHold

LEMMA InitHeld ==
    ASSUME SegmentInit
    PROVE  HeldInv
BY DEF SegmentInit, HeldInv, AllHeld, TasksHold

\* Steps that touch no file and settle nothing.
LEMMA HeldKept ==
    ASSUME BaseInv, HeldInv, setting' = setting, up' = up, files' = files,
           lost' = lost, entries' = entries, completion' = completion,
           step' = step, UNCHANGED recording,
           \A t \in Tasks :
              /\ (t \in Range(queue') \/ pc'[t] # "queued")
                    <=> (t \in Range(queue) \/ pc[t] # "queued")
              /\ pc'[t] \in {"queued", "check", "process"} =>
                    pc[t] \in {"queued", "check", "process"}
              /\ Answered(t)' => Answered(t)
              /\ Reported(t)' => Reported(t)
    PROVE  HeldInv'
<1>1. /\ Merge' = Merge /\ Deferred' = Deferred
      /\ captured' = captured /\ current' = current /\ recorded' = recorded
    BY SameSetting DEF recording, session
<1>2. \A d : Awaited(d)' = Awaited(d) /\ Awaited(d) \subseteq Tasks
    BY AwaitedSame, AwaitedFacts DEF BaseInv, MediaTypes, DeferredTypes
<1>3. \A s, among : Holding(s, among)' <=> Holding(s, among)
    BY DEF Holding
<1>4. AllHeld'
    BY <1>1 DEF HeldInv, AllHeld, Holding
<1>5. ASSUME NEW s, NEW t \in Tasks, Held(t, s)
      PROVE  Held(t, s)'
    <2>1. pc'[t] \in {"queued", "check", "process"} =>
             IF Merge' /\ step'[t] = "transcode" THEN Merged(t) \in files'
             ELSE Raw(s) \in files'
        BY <1>1, <1>5 DEF Held
    <2>2. Answered(t)' => Holding(s, Range(completion[t].paths))'
        BY <1>5 DEF Held, Holding
    <2>3. Reported(t)' => Holding(s, Range(FilesOf(entries[EntryOf[s]].listed)))'
        BY <1>5 DEF Held, Holding
    <2> QED
        BY <2>1, <2>2, <2>3 DEF Held
<1>6. TasksHold'
    BY <1>1, <1>2, <1>5 DEF HeldInv, TasksHold
<1> QED
    BY <1>4, <1>6 DEF HeldInv

LEMMA TeardownHeld ==
    ASSUME BaseInv, HeldInv, UNCHANGED recording,
           Flush \/ Take \/ Write \/ UNCHANGED mediaVars
    PROVE  HeldInv'
<1>1. /\ MediaTypes /\ setting \in Settings /\ Queued /\ Chained
      /\ pc \in [Tasks -> Locations]
      /\ writes \in Seq([task : Tasks, entry : EntryValues])
    BY DEF BaseInv, SessionInv, MediaTypes, DeferredTypes
<1>2. CASE Flush \/ UNCHANGED mediaVars
    <2>1. /\ setting' = setting /\ up' = up /\ entries' = entries /\ pc' = pc
          /\ completion' = completion /\ step' = step /\ queue' = queue
          /\ files' = files /\ lost' = lost
        BY <1>2 DEF Flush, mediaVars, vars, media, manifest, journaling
    <2>2. \A t \in Tasks : (Answered(t)' => Answered(t)) /\ (Reported(t)' => Reported(t))
        BY <2>1 DEF Answered, Reported
    <2> QED
        BY <2>1, <2>2, HeldKept
<1>3. CASE Take
    <2> PICK h : h = Head(queue)
        OBVIOUS
    <2>1. /\ setting' = setting /\ up' = up /\ lost' = lost
          /\ entries' = entries /\ completion' = completion /\ step' = step
          /\ files' = files
          /\ h \in Tasks /\ h \in Range(queue)
          /\ Range(queue) = {h} \union Range(queue')
          /\ pc'[h] \in {"check", "process"}
          /\ \A u \in Tasks \ {h} : pc'[u] = pc[u]
        BY <1>1, <1>3, TakeFacts
    <2>2. pc[h] = "queued"
        BY <1>1, <2>1 DEF Queued
    <2>3. \A t \in Tasks :
              /\ (t \in Range(queue') \/ pc'[t] # "queued")
                    <=> (t \in Range(queue) \/ pc[t] # "queued")
              /\ pc'[t] \in {"queued", "check", "process"} =>
                    pc[t] \in {"queued", "check", "process"}
              /\ Answered(t)' => Answered(t)
              /\ Reported(t)' => Reported(t)
        BY <2>1, <2>2 DEF Answered, Reported
    <2> QED
        BY <2>1, <2>3, HeldKept
<1>4. CASE Write
    <2> PICK t : t = Head(writes).task
        OBVIOUS
    <2>1. /\ setting' = setting /\ up' = up /\ lost' = lost
          /\ step' = step /\ files' = files
          /\ entries' = entries /\ completion' = completion /\ queue' = queue
          /\ writes # <<>> /\ t \in Tasks
          /\ pc' = [pc EXCEPT ![t] = "done"]
        BY <1>1, <1>4, WriteFacts
    <2>2. 1 \in DOMAIN writes /\ t = writes[1].task
        BY <1>1, <2>1
    <2>3. pc[t] = "journaling"
        BY <1>1, <2>2 DEF Chained
    <2>4. pc'[t] = "done" /\ \A u \in Tasks \ {t} : pc'[u] = pc[u]
        BY <1>1, <2>1
    <2>5. \A u \in Tasks :
              /\ (u \in Range(queue') \/ pc'[u] # "queued")
                    <=> (u \in Range(queue) \/ pc[u] # "queued")
              /\ pc'[u] \in {"queued", "check", "process"} =>
                    pc[u] \in {"queued", "check", "process"}
              /\ Answered(u)' => Answered(u)
              /\ Reported(u)' => Reported(u)
        BY <2>1, <2>3, <2>4 DEF Answered, Reported
    <2> QED
        BY <2>1, <2>5, HeldKept
<1> QED
    BY <1>2, <1>3, <1>4

\* Somebody else's removal takes what is not counted afterwards.
LEMMA LoseInputHeld ==
    ASSUME BaseInv, BaseInv', TrueInv', HeldInv, UNCHANGED recording,
           NEW r \in Losable, LoseInput(r)
    PROVE  HeldInv'
<1>1. /\ MediaTypes /\ setting \in Settings
      /\ captured' = captured /\ current' = current /\ recorded' = recorded
    BY DEF BaseInv, MediaTypes, DeferredTypes, recording, session
<1>2. /\ up /\ Deferred /\ setting' = setting /\ up' = up /\ queue' = queue
      /\ step' = step /\ pc' = pc /\ completion' = completion /\ entries' = entries
      /\ files' = files \ {Raw(r)} /\ lost' = lost \union {r}
      /\ \A t \in Tasks : r \in t => pc[t] = "queued"
    BY <1>1, LoseInputFacts
<1>3. Merge' = Merge /\ Deferred' = Deferred
      /\ \A d : Awaited(d)' = Awaited(d) /\ Awaited(d) \subseteq Tasks
    BY <1>1, <1>2, SameSetting, AwaitedSame, AwaitedFacts
<1>4. \A s : s # r /\ Raw(s) \in files => Raw(s) \in files'
    BY <1>2, FileFacts
<1>5. \A t : Merged(t) \in files => Merged(t) \in files'
    BY <1>2, FileFacts
<1>6. ASSUME NEW s, NEW among, s # r, Holding(s, among)
      PROVE  \E f \in files' \intersect among : s \in f.of
    <2>1. PICK f \in files \intersect among : s \in f.of
        BY <1>6 DEF Holding
    <2>2. f # Raw(r)
        BY <1>6, <2>1 DEF Raw
    <2> QED
        BY <1>2, <2>1, <2>2
<1>7. ASSUME NEW s, NEW t \in Tasks, s # r, Held(t, s)
      PROVE  Held(t, s)'
    <2>1. pc'[t] \in {"queued", "check", "process"} =>
             IF Merge' /\ step'[t] = "transcode" THEN Merged(t) \in files'
             ELSE Raw(s) \in files'
        BY <1>2, <1>3, <1>4, <1>5, <1>7 DEF Held
    <2>2. Answered(t)' => Holding(s, Range(completion[t].paths))'
        <3>1. Answered(t)' => Holding(s, Range(completion[t].paths))
            BY <1>2, <1>7 DEF Held, Answered
        <3> QED
            BY <1>2, <1>6, <1>7, <3>1 DEF Holding
    <2>3. Reported(t)' => Holding(s, Range(FilesOf(entries[EntryOf[s]].listed)))'
        <3>1. Reported(t)' => Holding(s, Range(FilesOf(entries[EntryOf[s]].listed)))
            BY <1>2, <1>7 DEF Held, Reported
        <3> QED
            BY <1>2, <1>6, <1>7, <3>1 DEF Holding
    <2> QED
        BY <2>1, <2>2, <2>3 DEF Held
<1>8. TasksHold'
    <2> SUFFICES ASSUME NEW s \in captured
                 PROVE  /\ EntryOf[s] = current => Raw(s) \in Range(recorded)
                        /\ Merge => \A t \in Awaited(EntryOf[s]) : s \in t
                        /\ \A t \in Awaited(EntryOf[s]) :
                              s \in t /\ s \notin lost' => Held(t, s)'
                        /\ (\A t \in Awaited(EntryOf[s]) : s \notin t) =>
                              /\ s \notin lost' => Raw(s) \in files'
                              /\ EntryOf[s] # current =>
                                    Raw(s) \in Range(FilesOf(entries[EntryOf[s]].listed))
        BY <1>1, <1>2, <1>3 DEF TasksHold
    <2>1. s \notin lost' => s \notin lost /\ s # r
        BY <1>2
    <2> QED
        BY <1>2, <1>3, <1>4, <1>7, <2>1 DEF HeldInv, TasksHold
<1> QED
    BY <1>2, <1>3, <1>8, TasksHoldAllNext DEF HeldInv, BaseInv, TrueInv

\* Overlapping awaited tasks are the same task.
LEMMA Disjoint ==
    ASSUME BaseInv, NEW s, NEW e \in Entries, NEW t \in Awaited(e),
           NEW u \in Awaited(e), s \in t, s \in u
    PROVE  t = u
<1>1. setting \in Settings /\ Alone
    BY DEF BaseInv, SessionInv, MediaTypes, DeferredTypes
<1>2. t \in Tasks /\ u \in Tasks
    BY <1>1, AwaitedFacts
<1>3. CASE Merge
    BY <1>1, <1>3 DEF Alone
<1>4. CASE ~Merge
    <2>1. PICK r, q : t = {r} /\ u = {q}
        BY <1>1, <1>2, <1>4, TaskFacts
    <2> QED
        BY <2>1
<1> QED
    BY <1>3, <1>4

\* What an operation of a task leaves of its own segments.
LEMMA OperationHolds ==
    ASSUME BaseInv, ListInv, TrueInv, NEW t \in Tasks, Operation(t),
           NEW s \in t, Held(t, s)
    PROVE  Held(t, s)'
<1>1. /\ MediaTypes /\ setting \in Settings /\ StepsFit
      /\ step \in [Tasks -> {"merge", "transcode"}]
    BY DEF BaseInv, MediaTypes, DeferredTypes, ListInv
<1>2. /\ setting' = setting /\ entries' = entries
      /\ pc'[t] \in Locations \ {"queued", "journaling", "done"}
    BY <1>1, OperationFacts
<1>3. Merge' = Merge
    BY <1>2, SameSetting
<1>4. /\ Range(Inputs(t)) =
            IF Merge /\ step[t] = "transcode" THEN {Merged(t)} ELSE {Raw(q) : q \in t}
      /\ Range(Keeping(Inputs(t), files)) = Range(Inputs(t)) \intersect files
      /\ Range(<<Output(t)>>) = {Output(t)} /\ Output(t) \in Files
    BY <1>1, InputFacts
<1>5. pc[t] \in {"check", "process"} =>
         \E f \in files : f \in Range(Inputs(t)) /\ s \in f.of
    <2>1. pc[t] \in {"check", "process"} =>
             IF Merge /\ step[t] = "transcode" THEN Merged(t) \in files
             ELSE Raw(s) \in files
        BY DEF Held
    <2> QED
        BY <1>4, <2>1, FileFacts
<1>6. pc[t] \in {"published", "cleaned"} =>
         /\ Output(t) \in files /\ published[t] = Output(t)
         /\ Output(t) # None /\ s \in Output(t).of
    BY <1>1, <1>4, FilesFacts, FileFacts DEF TrueInv, PublishedThere, Output
<1>7. pc'[t] \in {"queued", "check", "process"} =>
         IF Merge' /\ step'[t] = "transcode" THEN Merged(t) \in files'
         ELSE Raw(s) \in files'
    <2>1. CASE pc'[t] = "process"
        <3>1. pc[t] = "check" /\ files' = files /\ step' = step
            BY <1>1, <2>1, OperationKinds
        <3> QED
            BY <1>3, <3>1 DEF Held
    <2>2. CASE pc'[t] = "check"
        <3>1. /\ pc[t] = "cleaned" /\ files' = files
              /\ step[t] = "merge" /\ step'[t] = "transcode"
            BY <1>1, <2>2, OperationKinds
        <3>2. Merge
            BY <1>1, <3>1 DEF StepsFit
        <3> QED
            BY <1>3, <1>6, <3>1, <3>2 DEF Output
    <2> QED
        BY <1>2, <2>1, <2>2
<1>8. ASSUME pc'[t] = "completing"
      PROVE  \E f \in files' : f \in Range(completion'[t].paths) /\ s \in f.of
    <2>1. CASE pc[t] \in {"check", "process"} /\ completion'[t].paths = Inputs(t)
               /\ files' = files
        BY <1>5, <2>1
    <2>2. CASE pc[t] = "cleaned" /\ completion'[t].paths = <<Output(t)>>
               /\ files' = files
        BY <1>4, <1>6, <2>2
    <2>3. CASE /\ pc[t] \in {"process", "published", "cleaned"} /\ files' = files
               /\ completion'[t].paths =
                     IF published[t] # None /\ published[t] \in files
                     THEN <<published[t]>> ELSE Keeping(Inputs(t), files)
        <3>1. CASE published[t] # None /\ published[t] \in files
            <4> PICK f : f = published[t]
                OBVIOUS
            <4>1. f \in {Final(t), Merged(t)}
                BY <1>1, <3>1 DEF StepsFit
            <4>2. s \in f.of
                BY <4>1, FileFacts
            <4>3. Range(<<f>>) = {f}
                BY DEF Range
            <4> QED
                BY <2>3, <3>1, <4>2, <4>3
        <3>2. CASE ~(published[t] # None /\ published[t] \in files)
            <4>1. pc[t] = "process"
                BY <1>6, <2>3, <3>2
            <4> QED
                BY <1>4, <1>5, <2>3, <3>2, <4>1
        <3> QED
            BY <3>1, <3>2
    <2> QED
        BY <1>1, <1>8, <2>1, <2>2, <2>3, OperationKinds
<1>9. ~Reported(t)' /\ (Answered(t)' => pc'[t] = "completing")
    BY <1>2 DEF Reported, Answered
<1>10. Answered(t)' => Holding(s, Range(completion[t].paths))'
    BY <1>8, <1>9 DEF Holding
<1> QED
    BY <1>7, <1>9, <1>10 DEF Held

LEMMA OperationHeld ==
    ASSUME BaseInv, BaseInv', ListInv, TrueInv, TrueInv', HeldInv, NEW t \in Tasks,
           Operation(t), UNCHANGED recording
    PROVE  HeldInv'
<1>1. /\ MediaTypes /\ setting \in Settings /\ StepsFit
      /\ step \in [Tasks -> {"merge", "transcode"}] /\ captured \subseteq Segments
      /\ captured' = captured /\ current' = current /\ recorded' = recorded
    BY DEF BaseInv, MediaTypes, DeferredTypes, SessionTypes, ListInv, recording, session
<1>2. /\ setting' = setting /\ up' = up /\ expected' = expected /\ lost' = lost
      /\ entries' = entries /\ queue' = queue
      /\ pc[t] # "queued" /\ pc'[t] # "queued"
      /\ \A u \in Tasks \ {t} :
            /\ pc'[u] = pc[u] /\ step'[u] = step[u] /\ completion'[u] = completion[u]
    BY <1>1, OperationFacts
<1>3. Merge' = Merge /\ Deferred' = Deferred /\ Deferred /\ up
    BY <1>1, <1>2, SameSetting, BaseFacts DEF StepsFit
<1>4. \A d : Awaited(d)' = Awaited(d) /\ Awaited(d) \subseteq Tasks
    <2>1. \A u \in Tasks : (u \in Range(queue') \/ pc'[u] # "queued")
                              <=> (u \in Range(queue) \/ pc[u] # "queued")
        BY <1>2
    <2> QED
        BY <1>1, <1>2, <2>1, AwaitedSame, AwaitedFacts
<1>5. t \in Awaited(EntryOfTask(t)) /\ \A s \in t : EntryOf[s] = EntryOfTask(t)
    BY <1>1, <1>2, AwaitedFacts, TaskFacts
<1>6. \A f \in files : f \in files' \/ (f.of \subseteq t /\ f \in Range(Inputs(t)))
    <2>1. \A f \in files : f \in files' \/ f \in Range(Inputs(t))
        BY <1>1, OperationFiles
    <2>2. Range(Inputs(t)) =
             IF Merge /\ step[t] = "transcode" THEN {Merged(t)} ELSE {Raw(q) : q \in t}
        BY <1>1, InputFacts
    <2>3. \A f \in Range(Inputs(t)) : f.of \subseteq t
        BY <2>2, FileFacts
    <2> QED
        BY <2>1, <2>3
<1>7. ASSUME NEW s, NEW u \in Tasks, s \in u, s \notin t, Held(u, s)
      PROVE  Held(u, s)'
    <2>1. u # t
        BY <1>7
    <2>2. pc'[u] = pc[u] /\ step'[u] = step[u] /\ completion'[u] = completion[u]
        BY <1>2, <2>1
    <2>3. \A f \in files : s \in f.of => f \in files'
        BY <1>6, <1>7
    <2>4. s \in Raw(s).of /\ s \in Merged(u).of
        BY <1>7, FileFacts
    <2>5. pc'[u] \in {"queued", "check", "process"} =>
             IF Merge' /\ step'[u] = "transcode" THEN Merged(u) \in files'
             ELSE Raw(s) \in files'
        BY <1>3, <1>7, <2>2, <2>3, <2>4 DEF Held
    <2>6. Answered(u)' => Holding(s, Range(completion[u].paths))'
        <3>1. Answered(u)' => Holding(s, Range(completion[u].paths))
            BY <1>7, <2>2 DEF Held, Answered
        <3> QED
            BY <2>2, <2>3, <3>1 DEF Holding
    <2>7. Reported(u)' => Holding(s, Range(FilesOf(entries[EntryOf[s]].listed)))'
        <3>1. Reported(u)' => Holding(s, Range(FilesOf(entries[EntryOf[s]].listed)))
            BY <1>7, <2>2 DEF Held, Reported
        <3> QED
            BY <1>2, <2>3, <3>1 DEF Holding
    <2> QED
        BY <2>5, <2>6, <2>7 DEF Held
<1>8. ASSUME NEW s \in captured
      PROVE  /\ EntryOf[s] = current => Raw(s) \in Range(recorded)
             /\ Merge => \A u \in Awaited(EntryOf[s]) : s \in u
             /\ \A u \in Awaited(EntryOf[s]) : s \in u /\ s \notin lost => Held(u, s)'
             /\ (\A u \in Awaited(EntryOf[s]) : s \notin u) =>
                   /\ s \notin lost => Raw(s) \in files'
                   /\ EntryOf[s] # current =>
                         Raw(s) \in Range(FilesOf(entries[EntryOf[s]].listed))
    <2>1. /\ EntryOf[s] = current => Raw(s) \in Range(recorded)
          /\ Merge => \A u \in Awaited(EntryOf[s]) : s \in u
          /\ \A u \in Awaited(EntryOf[s]) : s \in u /\ s \notin lost => Held(u, s)
          /\ (\A u \in Awaited(EntryOf[s]) : s \notin u) =>
                /\ s \notin lost => Raw(s) \in files
                /\ EntryOf[s] # current =>
                      Raw(s) \in Range(FilesOf(entries[EntryOf[s]].listed))
        BY <1>3 DEF HeldInv, TasksHold
    <2>2. EntryOf[s] \in Entries
        BY <1>1, SegmentFacts
    <2>3. ASSUME NEW u \in Awaited(EntryOf[s]), s \in u, s \notin lost
          PROVE  Held(u, s)'
        <3>1. Held(u, s) /\ u \in Tasks
            BY <1>4, <2>1, <2>3
        <3>2. CASE s \in t
            <4>1. t = u
                BY <1>5, <2>2, <2>3, <3>2, Disjoint
            <4> QED
                BY <3>1, <3>2, <4>1, OperationHolds
        <3>3. CASE s \notin t
            BY <1>7, <2>3, <3>1, <3>3
        <3> QED
            BY <3>2, <3>3
    <2>4. ASSUME \A u \in Awaited(EntryOf[s]) : s \notin u, Raw(s) \in files
          PROVE  Raw(s) \in files'
        <3>1. s \notin t
            BY <1>5, <2>4
        <3>2. Raw(s).of = {s}
            BY FileFacts
        <3> QED
            BY <1>6, <2>4, <3>1, <3>2
    <2> QED
        BY <2>1, <2>3, <2>4
<1>9. TasksHold'
    BY <1>1, <1>2, <1>3, <1>4, <1>8 DEF TasksHold
<1> QED
    BY <1>2, <1>3, <1>9, TasksHoldAllNext DEF HeldInv, BaseInv, TrueInv

LEMMA CompleteDeferredHeld ==
    ASSUME BaseInv, BaseInv', OutcomeInv, ListInv, TrueInv', HeldInv, NEW t \in Tasks,
           CompleteDeferred(t), UNCHANGED recording
    PROVE  HeldInv'
<1>1. /\ MediaTypes /\ SettlingFits /\ setting \in Settings /\ captured \subseteq Segments
      /\ captured' = captured /\ current' = current /\ recorded' = recorded
    BY BaseFacts DEF BaseInv, MediaTypes, DeferredTypes, SessionTypes, recording, session
<1> PICK e : e = EntryOfTask(t)
    OBVIOUS
<1> PICK old : old = entries[e].listed
    OBVIOUS
<1> PICK new : new = entries'[e].listed
    OBVIOUS
<1> PICK paths : paths = completion[t].paths
    OBVIOUS
<1>2. /\ setting' = setting /\ up' = up /\ files' = files /\ lost' = lost
      /\ queue' = queue /\ completion' = completion /\ step' = step
      /\ pc[t] = "completing"
      /\ pc'[t] = "journaling" /\ \A u \in Tasks \ {t} : pc'[u] = pc[u]
      /\ \A d \in Entries \ {e} : entries'[d] = entries[d]
    BY <1>1, CompleteDeferredFacts
<1>3. /\ e \in Entries \ {current} /\ t \in Open(e) /\ up /\ Deferred
      /\ ~Merge => Exchanged(new, old, paths, t)
      /\ Merge => FilesOf(new) = paths /\ Awaited(e) = {t}
    BY SettledList
<1>4. /\ Merge' = Merge /\ Deferred' = Deferred
      /\ \A d : Awaited(d)' = Awaited(d) /\ Awaited(d) \subseteq Tasks
    BY <1>1, <1>2, SameSetting, AwaitedSame, AwaitedFacts
<1>5. t \in Awaited(e) /\ Range(paths) \subseteq Range(FilesOf(new))
    BY <1>1, <1>3, OpenFacts DEF Exchanged
<1>6. \A s, among : Holding(s, among)' <=> \E f \in files \intersect among' : s \in f.of
    BY <1>2 DEF Holding
<1>7. ASSUME NEW s \in captured, EntryOf[s] = e, s \notin t,
             \A u \in Awaited(e) : Merge => s \in u
      PROVE  \A f : f \in Range(FilesOf(old)) /\ s \in f.of => f \in Range(FilesOf(new))
    <2>1. ~Merge
        BY <1>5, <1>7
    <2>2. \A r \in t : s \notin Raw(r).of
        BY <1>7, FileFacts
    <2> QED
        BY <1>3, <2>1, <2>2 DEF Exchanged
<1>8. ASSUME NEW s \in captured, NEW u \in Awaited(EntryOf[s]), s \in u, Held(u, s),
             \A v \in Awaited(EntryOf[s]) : Merge => s \in v
      PROVE  Held(u, s)'
    <2>1. u \in Tasks /\ EntryOf[s] \in Entries
        BY <1>1, <1>4, SegmentFacts
    <2>2. pc'[u] \in {"queued", "check", "process"} => pc'[u] = pc[u]
        BY <1>2, <2>1
    <2>3. pc'[u] \in {"queued", "check", "process"} =>
             IF Merge' /\ step'[u] = "transcode" THEN Merged(u) \in files'
             ELSE Raw(s) \in files'
        BY <1>2, <1>4, <1>8, <2>2 DEF Held
    <2>4. Answered(u)' => Answered(u) /\ (u # t /\ Reported(u)' => Reported(u))
        BY <1>2, <2>1 DEF Answered, Reported
    <2>5. Answered(u) => \E f \in files : f \in Range(completion[u].paths) /\ s \in f.of
        BY <1>8 DEF Held, Holding
    <2>6. Answered(u)' => Holding(s, Range(completion[u].paths))'
        BY <1>2, <2>4, <2>5 DEF Holding
    <2>7. ASSUME Reported(u)'
          PROVE  \E f \in files : f \in Range(FilesOf(entries'[EntryOf[s]].listed)) /\ s \in f.of
        <3>1. CASE u = t
            <4>1. Answered(t) /\ EntryOf[s] = e
                BY <1>1, <1>2, <1>8, <3>1, TaskFacts DEF Answered
            <4> QED
                BY <1>5, <2>5, <3>1, <4>1
        <3>2. CASE u # t
            <4>1. Reported(u)
                BY <1>2, <2>1, <2>7, <3>2 DEF Reported
            <4>2. PICK f \in files : f \in Range(FilesOf(entries[EntryOf[s]].listed)) /\ s \in f.of
                BY <1>8, <4>1 DEF Held, Holding
            <4>3. CASE EntryOf[s] # e
                BY <1>2, <2>1, <4>2, <4>3
            <4>4. CASE EntryOf[s] = e
                <5>1. s \notin t
                    BY <1>5, <1>8, <2>1, <3>2, <4>4, Disjoint
                <5> QED
                    BY <1>7, <1>8, <4>2, <4>4, <5>1
            <4> QED
                BY <4>3, <4>4
        <3> QED
            BY <3>1, <3>2
    <2>8. Reported(u)' => Holding(s, Range(FilesOf(entries[EntryOf[s]].listed)))'
        BY <1>2, <2>7 DEF Holding
    <2> QED
        BY <2>3, <2>6, <2>8 DEF Held
<1>9. ASSUME NEW s \in captured
      PROVE  /\ EntryOf[s] = current => Raw(s) \in Range(recorded)
             /\ Merge => \A u \in Awaited(EntryOf[s]) : s \in u
             /\ \A u \in Awaited(EntryOf[s]) : s \in u /\ s \notin lost => Held(u, s)'
             /\ (\A u \in Awaited(EntryOf[s]) : s \notin u) =>
                   /\ s \notin lost => Raw(s) \in files
                   /\ EntryOf[s] # current =>
                         Raw(s) \in Range(FilesOf(entries'[EntryOf[s]].listed))
    <2>1. /\ EntryOf[s] = current => Raw(s) \in Range(recorded)
          /\ Merge => \A u \in Awaited(EntryOf[s]) : s \in u
          /\ \A u \in Awaited(EntryOf[s]) : s \in u /\ s \notin lost => Held(u, s)
          /\ (\A u \in Awaited(EntryOf[s]) : s \notin u) =>
                /\ s \notin lost => Raw(s) \in files
                /\ EntryOf[s] # current =>
                      Raw(s) \in Range(FilesOf(entries[EntryOf[s]].listed))
        BY <1>3 DEF HeldInv, TasksHold
    <2>2. EntryOf[s] \in Entries
        BY <1>1, SegmentFacts
    <2>3. \A u \in Awaited(EntryOf[s]) : s \in u /\ s \notin lost => Held(u, s)'
        BY <1>8, <2>1
    <2>4. ASSUME \A u \in Awaited(EntryOf[s]) : s \notin u, EntryOf[s] # current
          PROVE  Raw(s) \in Range(FilesOf(entries'[EntryOf[s]].listed))
        <3>1. CASE EntryOf[s] # e
            BY <1>2, <2>1, <2>2, <2>4, <3>1
        <3>2. CASE EntryOf[s] = e
            <4>1. s \notin t /\ s \in Raw(s).of
                BY <1>5, <2>4, <3>2, FileFacts
            <4> QED
                BY <1>7, <2>1, <2>4, <3>2, <4>1
        <3> QED
            BY <3>1, <3>2
    <2> QED
        BY <2>1, <2>3, <2>4
<1>10. TasksHold'
    BY <1>1, <1>2, <1>4, <1>9 DEF TasksHold
<1> QED
    BY <1>2, <1>3, <1>4, <1>10, TasksHoldAllNext DEF HeldInv, BaseInv, TrueInv

LEMMA HeldStep ==
    ASSUME BaseInv, BaseInv', OutcomeInv, ListInv, TrueInv, TrueInv', HeldInv,
           [Next]_mediaVars
    PROVE  HeldInv'
<1>1. CASE Record
    BY <1>1, BeginHeld, StopHeld, StartFinalizeHeld, CompletingHeld DEF Record
<1>2. CASE Teardown
    <2>1. UNCHANGED recording
        BY <1>2 DEF Teardown
    <2>2. \/ Flush \/ Take \/ Write
          \/ \E t \in Tasks : Operation(t) \/ CompleteDeferred(t)
        BY <1>2 DEF Teardown, TaskStep, Operation
    <2> QED
        BY <2>1, <2>2, TeardownHeld, OperationHeld, CompleteDeferredHeld
<1>3. CASE Done \/ UNCHANGED mediaVars
    <2>1. UNCHANGED mediaVars
        BY <1>3 DEF Done
    <2>2. UNCHANGED recording
        BY <2>1 DEF mediaVars
    <2> QED
        BY <2>1, <2>2, TeardownHeld
<1>4. CASE Kill
    BY <1>4, KillHeld
<1>5. CASE \E s \in Losable : LoseInput(s) /\ UNCHANGED recording
    BY <1>5, LoseInputHeld
<1> QED
    BY <1>1, <1>2, <1>3, <1>4, <1>5 DEF Next

LEMMA HeldFacts ==
    ASSUME BaseInv, HeldInv
    PROVE  NothingLost
<1>1. setting \in Settings /\ captured \subseteq Segments
    BY DEF BaseInv, MediaTypes, DeferredTypes, SessionTypes
<1> SUFFICES ASSUME NEW s \in captured \ lost, NEW e, e = EntryOf[s]
             PROVE  \E f \in files :
                       /\ s \in f.of
                       /\ Deferred /\ up /\ e # current
                             /\ (\A t \in Awaited(e) : Reported(t))
                          => f \in Range(FilesOf(entries[e].listed))
    BY DEF NothingLost
<1>2. \E f \in files : s \in f.of
    BY DEF HeldInv, AllHeld, Holding
<1>3. ASSUME Deferred, up, e # current, \A t \in Awaited(e) : Reported(t)
      PROVE  \E f \in files : s \in f.of /\ f \in Range(FilesOf(entries[e].listed))
    <2>1. CASE \A t \in Awaited(e) : s \notin t
        BY <1>3, <2>1, FileFacts DEF HeldInv, TasksHold
    <2>2. CASE \E t \in Awaited(e) : s \in t
        <3>1. PICK t \in Awaited(e) : s \in t
            BY <2>2
        <3>2. Held(t, s)
            BY <1>3, <3>1 DEF HeldInv, TasksHold
        <3> QED
            BY <1>3, <3>1, <3>2 DEF Held, Holding
    <2> QED
        BY <2>1, <2>2
<1> QED
    BY <1>2, <1>3

\* No captured content is lost: whatever order the tasks of the entries run and
\* settle in and wherever they throw, some file holds each retained segment
\* that nobody else removed, and once its tasks have reported its entry lists
\* such a file.
THEOREM NothingLostHolds == Spec => []NothingLost
<1>1. SegmentInit => BaseInv /\ OutcomeInv /\ ListInv /\ TrueInv /\ HeldInv
    BY InitTypes, InitSession, InitOutcome, InitLists, InitTrue, InitHeld DEF BaseInv
<1>2. BaseInv /\ OutcomeInv /\ ListInv /\ TrueInv /\ HeldInv /\ [Next]_mediaVars =>
         BaseInv' /\ OutcomeInv' /\ ListInv' /\ TrueInv' /\ HeldInv'
    <2> SUFFICES ASSUME BaseInv, OutcomeInv, ListInv, TrueInv, HeldInv,
                        [Next]_mediaVars
                 PROVE  BaseInv' /\ OutcomeInv' /\ ListInv' /\ TrueInv' /\ HeldInv'
        OBVIOUS
    <2>1. BaseInv' /\ OutcomeInv' /\ ListInv' /\ TrueInv'
        BY BaseStep, OutcomeStep, ListStep, TrueStep
    <2> QED
        BY <2>1, HeldStep
<1>3. BaseInv /\ HeldInv => NothingLost
    BY HeldFacts
<1> QED
    BY <1>1, <1>2, <1>3, PTL DEF Spec

=============================================================================

--------------------------- MODULE QueueOrder_proofs ---------------------------
(***************************************************************************)
(* What the sort of the queues' pending lists does, for every list: it     *)
(* returns the same items, each as often, and in order.                    *)
(*                                                                         *)
(* StandsBefore is a strict total order on the positions of a list, so the *)
(* positions that stand before j are a proper subset of those that stand   *)
(* before k when j stands before k; counting them gives every position a   *)
(* place of its own, and as many places as positions.                      *)
(***************************************************************************)
EXTENDS QueueOrder, Integers, FiniteSets, Sequences, FiniteSetTheorems,
        SequenceTheorems, TLAPS

\* A list of items that compareQueueItems compares.
IsList(s, T) ==
    /\ s \in Seq(T)
    /\ \A i \in T : i.priority \in Nat /\ i.enqueuedAt \in Nat

\* The positions that stand before k in the sorted list, and k.
UpTo(s, k) == {j \in DOMAIN s : j = k \/ StandsBefore(s, j, k)}

\* The positions of a list are totally ordered by StandsBefore.
LEMMA StandsBeforeIsTotalOrder ==
    ASSUME NEW T, NEW s, IsList(s, T)
    PROVE  /\ \A j, k \in DOMAIN s : j = k \/ StandsBefore(s, j, k) \/ StandsBefore(s, k, j)
           /\ \A j, k \in DOMAIN s : StandsBefore(s, j, k) => ~StandsBefore(s, k, j)
           /\ \A j \in DOMAIN s : ~StandsBefore(s, j, j)
           /\ \A i, j, k \in DOMAIN s :
                  StandsBefore(s, i, j) /\ StandsBefore(s, j, k) => StandsBefore(s, i, k)
<1>1. \A k \in DOMAIN s : k \in Int /\ s[k].priority \in Int /\ s[k].enqueuedAt \in Int
    BY DEF IsList
<1>2. QED
    BY <1>1, SMTT(30) DEF StandsBefore, Before

\* Every position has a place of its own.
LEMMA PlaceIsInjective ==
    ASSUME NEW T, NEW s, IsList(s, T)
    PROVE  /\ \A k \in DOMAIN s : Place(s, k) \in 1..Len(s)
           /\ \A j, k \in DOMAIN s : StandsBefore(s, j, k) <=> Place(s, j) < Place(s, k)
           /\ \A j, k \in DOMAIN s : Place(s, j) = Place(s, k) => j = k
<1>1. /\ DOMAIN s = 1..Len(s)
      /\ Len(s) \in Nat
    BY LenProperties DEF IsList
<1>2. /\ IsFiniteSet(DOMAIN s)
      /\ Cardinality(DOMAIN s) = Len(s)
    <2>1. /\ IsFiniteSet(1..Len(s))
          /\ Cardinality(1..Len(s)) = IF 1 > Len(s) THEN 0 ELSE Len(s) - 1 + 1
        BY <1>1, FS_Interval
    <2>2. QED
        BY <1>1, <2>1
<1>3. \A j \in DOMAIN s : j \in UpTo(s, j)
    BY DEF UpTo
<1>4. ASSUME NEW k \in DOMAIN s
      PROVE  /\ IsFiniteSet(UpTo(s, k))
             /\ Cardinality(UpTo(s, k)) \in 1..Len(s)
    <2>1. UpTo(s, k) \in SUBSET DOMAIN s
        BY DEF UpTo
    <2>2. /\ IsFiniteSet(UpTo(s, k))
          /\ Cardinality(UpTo(s, k)) <= Len(s)
          /\ Cardinality(UpTo(s, k)) \in Nat
        BY <2>1, <1>2, FS_Subset, FS_CardinalityType
    <2>3. Cardinality(UpTo(s, k)) # 0
        BY <1>3, <2>2, FS_EmptySet
    <2>4. QED
        BY <2>2, <2>3, <1>1
<1>5. ASSUME NEW j \in DOMAIN s, NEW k \in DOMAIN s, StandsBefore(s, j, k)
      PROVE  Cardinality(UpTo(s, j)) < Cardinality(UpTo(s, k))
    <2>1. UpTo(s, j) \in SUBSET UpTo(s, k)
        BY <1>5, StandsBeforeIsTotalOrder DEF UpTo
    <2>2. k \in UpTo(s, k) \ UpTo(s, j)
        BY <1>5, StandsBeforeIsTotalOrder DEF UpTo
    <2>3. /\ Cardinality(UpTo(s, j)) <= Cardinality(UpTo(s, k))
          /\ Cardinality(UpTo(s, j)) # Cardinality(UpTo(s, k))
        BY <2>1, <2>2, <1>4, FS_Subset
    <2>4. QED
        BY <2>3, <1>4
<1>6. \A k \in DOMAIN s : Place(s, k) = Cardinality(UpTo(s, k))
    BY DEF Place, UpTo
<1>7. \A k \in DOMAIN s : Place(s, k) \in 1..Len(s)
    BY <1>4, <1>6
<1>8. \A j, k \in DOMAIN s : StandsBefore(s, j, k) => Place(s, j) < Place(s, k)
    BY <1>5, <1>6
<1>9. \A j, k \in DOMAIN s : Place(s, j) < Place(s, k) => StandsBefore(s, j, k)
    <2> TAKE j, k \in DOMAIN s
    <2>1. /\ Place(s, j) \in Nat
          /\ Place(s, k) \in Nat
        BY <1>7
    <2>2. CASE j = k
        BY <2>1, <2>2
    <2>3. CASE StandsBefore(s, k, j)
        BY <2>1, <2>3, <1>8
    <2>4. QED
        BY <2>2, <2>3, StandsBeforeIsTotalOrder
<1>10. \A j, k \in DOMAIN s : Place(s, j) = Place(s, k) => j = k
    <2> TAKE j, k \in DOMAIN s
    <2>1. /\ Place(s, j) \in Nat
          /\ Place(s, k) \in Nat
        BY <1>7
    <2>2. QED
        BY <2>1, <1>8, StandsBeforeIsTotalOrder
<1>11. QED
    BY <1>7, <1>8, <1>9, <1>10

\* Every place of the list is taken by a position.
LEMMA PlaceIsOnto ==
    ASSUME NEW T, NEW s, IsList(s, T)
    PROVE  \A n \in DOMAIN s : \E k \in DOMAIN s : Place(s, k) = n
<1> DEFINE D == DOMAIN s
           f == [k \in D |-> Place(s, k)]
<1>1. /\ D = 1..Len(s)
      /\ Len(s) \in Nat
    BY LenProperties DEF IsList
<1>2. IsFiniteSet(D)
    BY <1>1, FS_Interval
<1>3. f \in Injection(D, D)
    <2>1. f \in [D -> D]
        BY <1>1, PlaceIsInjective
    <2>2. \A j, k \in D : f[j] = f[k] => j = k
        BY PlaceIsInjective
    <2>3. QED
        BY <2>1, <2>2 DEF Injection, IsInjective
<1> HIDE DEF D
<1>4. f \in Surjection(D, D)
    BY <1>2, <1>3, FS_Injection
<1>5. \A n \in D : \E k \in D : f[k] = n
    BY <1>4 DEF Surjection
<1>6. QED
    BY <1>5 DEF D

\* The sort returns a list of the same items, each as often as before and each
\* at the place its position has: Array.prototype.sort of either queue drops
\* and doubles nothing.
THEOREM SortedIsPermutation ==
    ASSUME NEW T, NEW s, IsList(s, T)
    PROVE  /\ Sorted(s) \in Seq(T)
           /\ Len(Sorted(s)) = Len(s)
           /\ \A k \in DOMAIN s : Sorted(s)[Place(s, k)] = s[k]
           /\ Items(Sorted(s)) = Items(s)
<1> DEFINE at(n) == CHOOSE k \in DOMAIN s : Place(s, k) = n
<1>1. /\ DOMAIN s = 1..Len(s)
      /\ Len(s) \in Nat
      /\ \A k \in DOMAIN s : s[k] \in T
    BY LenProperties DEF IsList
<1>2. \A n \in DOMAIN s : at(n) \in DOMAIN s /\ Place(s, at(n)) = n
    BY PlaceIsOnto
<1>3. /\ DOMAIN Sorted(s) = DOMAIN s
      /\ \A n \in DOMAIN s : Sorted(s)[n] = s[at(n)]
    <2>1. \A n \in DOMAIN s :
              (CHOOSE k \in DOMAIN s : [j \in DOMAIN s |-> Place(s, j)][k] = n) = at(n)
        OBVIOUS
    <2>2. QED
        BY <2>1 DEF Sorted
<1>4. \A k \in DOMAIN s : Place(s, k) \in DOMAIN s /\ at(Place(s, k)) = k
    <2> TAKE k \in DOMAIN s
    <2>1. Place(s, k) \in DOMAIN s
        BY <1>1, PlaceIsInjective
    <2>2. at(Place(s, k)) \in DOMAIN s /\ Place(s, at(Place(s, k))) = Place(s, k)
        BY <2>1, <1>2
    <2>3. QED
        BY <2>1, <2>2, PlaceIsInjective
<1> HIDE DEF at
<1>5. Sorted(s) \in Seq(T) /\ Len(Sorted(s)) = Len(s)
    <2>1. Sorted(s) = [n \in 1..Len(s) |-> Sorted(s)[n]]
        BY <1>1, <1>3 DEF Sorted
    <2>2. \A n \in 1..Len(s) : Sorted(s)[n] \in T
        BY <1>1, <1>2, <1>3
    <2>3. QED
        BY <1>1, <2>1, <2>2
<1>6. \A k \in DOMAIN s : Sorted(s)[Place(s, k)] = s[k]
    BY <1>3, <1>4
<1>7. Items(Sorted(s)) = Items(s)
    BY <1>2, <1>3, <1>4, <1>6 DEF Items
<1>8. QED
    BY <1>5, <1>6, <1>7

\* The sorted list is in order: no later item compares smaller than an earlier
\* one, so the head that drain takes is the smallest.
THEOREM SortedIsInOrder ==
    ASSUME NEW T, NEW s, IsList(s, T)
    PROVE  InOrder(Sorted(s))
<1>1. /\ DOMAIN s = 1..Len(s)
      /\ Len(s) \in Nat
      /\ DOMAIN Sorted(s) = DOMAIN s
    BY LenProperties DEF IsList, Sorted
<1>2. SUFFICES ASSUME NEW m \in DOMAIN s, NEW n \in DOMAIN s, m < n
               PROVE  ~Before(Sorted(s)[n], Sorted(s)[m])
    BY <1>1 DEF InOrder
<1>3. PICK j \in DOMAIN s : Place(s, j) = m
    BY PlaceIsOnto
<1>4. PICK k \in DOMAIN s : Place(s, k) = n
    BY PlaceIsOnto
<1>5. Sorted(s)[m] = s[j] /\ Sorted(s)[n] = s[k]
    BY <1>3, <1>4, SortedIsPermutation
<1>6. StandsBefore(s, j, k)
    BY <1>2, <1>3, <1>4, PlaceIsInjective
<1>7. ~StandsBefore(s, k, j)
    BY <1>6, StandsBeforeIsTotalOrder
<1>8. ~Before(s[k], s[j])
    BY <1>7 DEF StandsBefore
<1>9. QED
    BY <1>5, <1>8

\* What the sort is given after a push: a list again.
LEMMA AppendIsList ==
    ASSUME NEW T, NEW s, IsList(s, T), NEW i \in T
    PROVE  /\ IsList(Append(s, i), T)
           /\ Items(Append(s, i)) = Items(s) \cup {i}
           /\ Len(Append(s, i)) = Len(s) + 1
<1>1. /\ DOMAIN s = 1..Len(s)
      /\ DOMAIN Append(s, i) = 1..(Len(s) + 1)
      /\ Len(s) \in Nat
      /\ Append(s, i) \in Seq(T)
      /\ Len(Append(s, i)) = Len(s) + 1
    BY AppendProperties, LenProperties DEF IsList
<1>2. /\ \A k \in 1..Len(s) : Append(s, i)[k] = s[k]
      /\ Append(s, i)[Len(s) + 1] = i
    BY AppendProperties DEF IsList
<1>3. 1..(Len(s) + 1) = 1..Len(s) \cup {Len(s) + 1}
    BY <1>1
<1> DEFINE t == Append(s, i)
<1>a. ASSUME NEW x \in Items(t)
      PROVE  x \in Items(s) \cup {i}
    <2>1. PICK k \in 1..(Len(s) + 1) : x = t[k]
        BY <1>a, <1>1 DEF Items
    <2>2. CASE k = Len(s) + 1
        BY <2>1, <2>2, <1>2
    <2>3. CASE k \in 1..Len(s)
        BY <2>1, <2>3, <1>1, <1>2 DEF Items
    <2> QED
        BY <1>3, <2>2, <2>3
<1>b. ASSUME NEW x \in Items(s) \cup {i}
      PROVE  x \in Items(t)
    <2>1. CASE x \in Items(s)
        <3>1. PICK k \in 1..Len(s) : x = s[k]
            BY <2>1, <1>1 DEF Items
        <3>2. k \in DOMAIN t /\ t[k] = x
            BY <3>1, <1>1, <1>2, <1>3
        <3> QED
            BY <3>2 DEF Items
    <2>2. CASE x = i
        <3>1. Len(s) + 1 \in DOMAIN t /\ t[Len(s) + 1] = i
            BY <1>1, <1>2, <1>3
        <3> QED
            BY <2>2, <3>1 DEF Items
    <2> QED
        BY <1>b, <2>1, <2>2
<1> HIDE DEF t
<1>4. Items(Append(s, i)) = Items(s) \cup {i}
    BY <1>a, <1>b DEF t
<1>5. QED
    BY <1>1, <1>4 DEF IsList

\* Ranks number the positions of a set K of positions from one, upwards.
LEMMA RankIsMonotonic ==
    ASSUME NEW N \in Nat, NEW K \in SUBSET (1..N)
    PROVE  /\ Cardinality(K) \in 0..N
           /\ \A k \in K : Rank(K, k) \in 1..Cardinality(K)
           /\ \A j, k \in K : j < k <=> Rank(K, j) < Rank(K, k)
           /\ \A j, k \in K : Rank(K, j) = Rank(K, k) => j = k
<1> DEFINE upTo(k) == {j \in K : j <= k}
<1>1. /\ IsFiniteSet(1..N)
      /\ Cardinality(1..N) = N
    <2>1. /\ IsFiniteSet(1..N)
          /\ Cardinality(1..N) = IF 1 > N THEN 0 ELSE N - 1 + 1
        BY FS_Interval
    <2>2. QED
        BY <2>1
<1>2. IsFiniteSet(K) /\ Cardinality(K) \in 0..N
    <2>1. IsFiniteSet(K) /\ Cardinality(K) <= N
        BY <1>1, FS_Subset
    <2>2. Cardinality(K) \in Nat
        BY <2>1, FS_CardinalityType
    <2>3. QED
        BY <2>1, <2>2
<1>3. ASSUME NEW k \in K
      PROVE  /\ IsFiniteSet(upTo(k))
             /\ Cardinality(upTo(k)) \in 1..Cardinality(K)
    <2>1. /\ IsFiniteSet(upTo(k))
          /\ Cardinality(upTo(k)) <= Cardinality(K)
          /\ Cardinality(upTo(k)) \in Nat
        BY <1>2, FS_Subset, FS_CardinalityType
    <2>2. k \in upTo(k)
        OBVIOUS
    <2>3. Cardinality(upTo(k)) # 0
        BY <2>1, <2>2, FS_EmptySet
    <2>4. QED
        BY <2>1, <2>3, <1>2
<1>4. ASSUME NEW j \in K, NEW k \in K, j < k
      PROVE  Cardinality(upTo(j)) < Cardinality(upTo(k))
    <2>1. upTo(j) \in SUBSET upTo(k) /\ k \in upTo(k) \ upTo(j)
        <3>1. \A i \in K : i \in Int
            OBVIOUS
        <3>2. \A i \in K : i <= j => i <= k
            BY <1>4, <3>1
        <3>3. k <= k /\ ~(k <= j)
            BY <1>4, <3>1
        <3>4. QED
            BY <3>2, <3>3
    <2>2. /\ Cardinality(upTo(j)) <= Cardinality(upTo(k))
          /\ Cardinality(upTo(j)) # Cardinality(upTo(k))
        BY <2>1, <1>3, FS_Subset
    <2>3. QED
        BY <2>2, <1>3
<1>5. \A k \in K : Rank(K, k) = Cardinality(upTo(k)) /\ Rank(K, k) \in 1..Cardinality(K)
    BY <1>3 DEF Rank
<1> HIDE DEF upTo
<1>6. \A j, k \in K : j < k => Rank(K, j) < Rank(K, k)
    BY <1>4, <1>5
<1>7. \A k \in K : k \in Int /\ Rank(K, k) \in Int
    BY <1>5, <1>2
<1>8. QED
    BY <1>2, <1>5, <1>6, <1>7

\* The n-th position is defined for every n up to the size of K.
LEMMA NthIsMonotonic ==
    ASSUME NEW N \in Nat, NEW K \in SUBSET (1..N)
    PROVE  /\ \A n \in 1..Cardinality(K) : Nth(K, n) \in K
           /\ \A m, n \in 1..Cardinality(K) : m < n => Nth(K, m) < Nth(K, n)
           /\ \A k \in K : \E n \in 1..Cardinality(K) : Nth(K, n) = k
<1> DEFINE C == 1..Cardinality(K)
           f == [k \in K |-> Rank(K, k)]
<1>1. /\ Cardinality(K) \in 0..N
      /\ \A k \in K : Rank(K, k) \in C
      /\ \A j, k \in K : j < k <=> Rank(K, j) < Rank(K, k)
      /\ \A j, k \in K : Rank(K, j) = Rank(K, k) => j = k
    BY RankIsMonotonic
<1>2. IsFiniteSet(C) /\ Cardinality(C) = Cardinality(K)
    <2>1. /\ IsFiniteSet(C)
          /\ Cardinality(C) = IF 1 > Cardinality(K) THEN 0 ELSE Cardinality(K) - 1 + 1
        <3>1. 1 \in Int /\ Cardinality(K) \in Int
            BY <1>1
        <3>2. QED
            BY <3>1, FS_Interval
    <2>2. QED
        BY <1>1, <2>1
<1> HIDE DEF C
<1>3. f \in Injection(K, C)
    <2>1. f \in [K -> C]
        BY <1>1
    <2>2. \A j, k \in K : f[j] = f[k] => j = k
        BY <1>1
    <2>3. QED
        BY <2>1, <2>2 DEF Injection, IsInjective
<1>4. f \in Surjection(K, C)
    BY <1>2, <1>3, FS_Injection
<1>5. \A n \in C : \E k \in K : f[k] = n
    BY <1>4 DEF Surjection
<1>6. \A n \in C : \E k \in K : Rank(K, k) = n
    BY <1>5
<1>7. \A n \in C : Nth(K, n) \in K /\ Rank(K, Nth(K, n)) = n
    BY <1>6 DEF Nth
<1>8. \A k \in K : Nth(K, Rank(K, k)) = k
    BY <1>1, <1>7
<1>9. \A m, n \in C : m < n => Nth(K, m) < Nth(K, n)
    BY <1>1, <1>7
<1>10. QED
    BY <1>1, <1>7, <1>8, <1>9 DEF C

\* The filter returns the items at the kept positions, in their order: what
\* cancelSong leaves is neither dropped, doubled nor moved.
THEOREM KeptIsSubsequence ==
    ASSUME NEW T, NEW s \in Seq(T), NEW K \in SUBSET DOMAIN s
    PROVE  /\ Kept(s, K) \in Seq(T)
           /\ Len(Kept(s, K)) = Cardinality(K)
           /\ Items(Kept(s, K)) = {s[k] : k \in K}
           /\ InOrder(s) => InOrder(Kept(s, K))
           /\ \A n \in DOMAIN Kept(s, K) : /\ Nth(K, n) \in K
                                           /\ Kept(s, K)[n] = s[Nth(K, n)]
           /\ \A m, n \in DOMAIN Kept(s, K) : m < n => Nth(K, m) < Nth(K, n)
<1>1. /\ DOMAIN s = 1..Len(s)
      /\ Len(s) \in Nat
      /\ \A k \in DOMAIN s : s[k] \in T
    BY LenProperties
<1>2. /\ \A n \in 1..Cardinality(K) : Nth(K, n) \in K
      /\ \A m, n \in 1..Cardinality(K) : m < n => Nth(K, m) < Nth(K, n)
      /\ \A k \in K : \E n \in 1..Cardinality(K) : Nth(K, n) = k
    BY <1>1, NthIsMonotonic
<1>3. Cardinality(K) \in Nat
    BY <1>1, RankIsMonotonic
<1>4. /\ DOMAIN Kept(s, K) = 1..Cardinality(K)
      /\ \A n \in 1..Cardinality(K) : Kept(s, K)[n] = s[Nth(K, n)]
    BY DEF Kept
<1>5. Kept(s, K) \in Seq(T) /\ Len(Kept(s, K)) = Cardinality(K)
    <2>1. \A n \in 1..Cardinality(K) : s[Nth(K, n)] \in T
        BY <1>1, <1>2
    <2>2. QED
        BY <1>3, <2>1 DEF Kept
<1>6. Items(Kept(s, K)) = {s[k] : k \in K}
    <2>1. Items(Kept(s, K)) = {Kept(s, K)[n] : n \in 1..Cardinality(K)}
        BY <1>4 DEF Items
    <2>2. \A n \in 1..Cardinality(K) : Kept(s, K)[n] \in {s[k] : k \in K}
        BY <1>2, <1>4
    <2>3. \A k \in K : s[k] \in {Kept(s, K)[n] : n \in 1..Cardinality(K)}
        BY <1>2, <1>4
    <2>4. QED
        BY <2>1, <2>2, <2>3
<1>7. InOrder(s) => InOrder(Kept(s, K))
    BY <1>1, <1>2, <1>4 DEF InOrder
<1>8. QED
    BY <1>2, <1>4, <1>5, <1>6, <1>7

-------------------------------------------------------------------------------
\* The items of both queues.
ItemOf(R) == [request : R, priority : Nat, enqueuedAt : Nat]

\* No request has two items in the list.
OncePending(p) ==
    \A j, k \in DOMAIN p : p[j].request = p[k].request => j = k

\* Lists of items are lists that compareQueueItems can order.
LEMMA ItemsAreList ==
    ASSUME NEW R, NEW p \in Seq(ItemOf(R))
    PROVE  /\ IsList(p, ItemOf(R))
           /\ DOMAIN p = 1..Len(p)
           /\ Len(p) \in Nat
           /\ \A k \in 1..Len(p) : p[k] \in ItemOf(R) /\ p[k].request \in R
<1>1. \A i \in ItemOf(R) : i.priority \in Nat /\ i.enqueuedAt \in Nat /\ i.request \in R
    BY DEF ItemOf
<1>2. /\ DOMAIN p = 1..Len(p)
      /\ Len(p) \in Nat
      /\ \A k \in 1..Len(p) : p[k] \in ItemOf(R)
    BY LenProperties
<1>3. QED
    BY <1>1, <1>2 DEF IsList

\* Sorting a list keeps its items and gives no request a second one.
LEMMA SortKeepsItems ==
    ASSUME NEW R, NEW p \in Seq(ItemOf(R)), OncePending(p)
    PROVE  /\ Sorted(p) \in Seq(ItemOf(R))
           /\ DOMAIN Sorted(p) = DOMAIN p
           /\ InOrder(Sorted(p))
           /\ OncePending(Sorted(p))
           /\ Items(Sorted(p)) = Items(p)
<1>1. IsList(p, ItemOf(R))
    BY ItemsAreList
<1>2. /\ Sorted(p) \in Seq(ItemOf(R))
      /\ Items(Sorted(p)) = Items(p)
      /\ \A k \in DOMAIN p : Sorted(p)[Place(p, k)] = p[k]
    BY <1>1, SortedIsPermutation
<1>3. DOMAIN Sorted(p) = DOMAIN p
    BY DEF Sorted
<1>4. OncePending(Sorted(p))
    <2> SUFFICES ASSUME NEW m \in DOMAIN p, NEW n \in DOMAIN p,
                        Sorted(p)[m].request = Sorted(p)[n].request
                 PROVE  m = n
        BY <1>3 DEF OncePending
    <2>1. PICK j \in DOMAIN p : Place(p, j) = m
        BY <1>1, PlaceIsOnto
    <2>2. PICK k \in DOMAIN p : Place(p, k) = n
        BY <1>1, PlaceIsOnto
    <2>3. p[j].request = p[k].request
        BY <1>2, <2>1, <2>2
    <2>4. QED
        BY <2>1, <2>2, <2>3 DEF OncePending
<1>5. InOrder(Sorted(p))
    BY <1>1, SortedIsInOrder
<1>6. QED
    BY <1>2, <1>3, <1>4, <1>5

\* Pushing an item of a request that has none, then sorting.
LEMMA PushKeepsItems ==
    ASSUME NEW R, NEW p \in Seq(ItemOf(R)), OncePending(p), NEW i \in ItemOf(R),
           i.request \notin Requested(Items(p))
    PROVE  /\ Sorted(Append(p, i)) \in Seq(ItemOf(R))
           /\ InOrder(Sorted(Append(p, i)))
           /\ OncePending(Sorted(Append(p, i)))
           /\ Items(Sorted(Append(p, i))) = Items(p) \cup {i}
<1>1. IsList(p, ItemOf(R))
    BY ItemsAreList
<1>2. /\ Append(p, i) \in Seq(ItemOf(R))
      /\ Items(Append(p, i)) = Items(p) \cup {i}
      /\ Len(Append(p, i)) = Len(p) + 1
    BY <1>1, AppendIsList DEF IsList
<1>3. OncePending(Append(p, i))
    <2>1. /\ DOMAIN p = 1..Len(p)
          /\ Len(p) \in Nat
          /\ DOMAIN Append(p, i) = 1..(Len(p) + 1)
          /\ \A k \in 1..Len(p) : Append(p, i)[k] = p[k]
          /\ Append(p, i)[Len(p) + 1] = i
        BY <1>2, AppendProperties, LenProperties
    <2>2. \A k \in DOMAIN p : p[k].request # i.request
        BY DEF Items, Requested
    <2>3. \A k \in DOMAIN Append(p, i) : k \in DOMAIN p \/ k = Len(p) + 1
        BY <2>1
    <2>4. QED
        BY <2>1, <2>2, <2>3 DEF OncePending
<1>4. QED
    BY <1>2, <1>3, SortKeepsItems

\* Giving an item another priority, then sorting.
LEMMA RepriceKeepsRequests ==
    ASSUME NEW R, NEW p \in Seq(ItemOf(R)), OncePending(p),
           NEW k \in DOMAIN p, NEW q \in Nat
    PROVE  LET repriced == [p EXCEPT ![k].priority = q]
           IN  /\ Sorted(repriced) \in Seq(ItemOf(R))
               /\ InOrder(Sorted(repriced))
               /\ OncePending(Sorted(repriced))
               /\ Requested(Items(Sorted(repriced))) = Requested(Items(p))
               /\ Items(Sorted(repriced)) = (Items(p) \ {p[k]}) \cup {[p[k] EXCEPT !.priority = q]}
<1> DEFINE repriced == [p EXCEPT ![k].priority = q]
           item == [p[k] EXCEPT !.priority = q]
<1>1. /\ DOMAIN p = 1..Len(p)
      /\ \A j \in DOMAIN p : p[j] \in ItemOf(R)
    BY ItemsAreList
<1>2. item \in ItemOf(R) /\ item.request = p[k].request
    BY <1>1 DEF ItemOf
<1>3. repriced = [p EXCEPT ![k] = item]
    OBVIOUS
<1> HIDE DEF item, repriced
<1>4. /\ repriced \in Seq(ItemOf(R))
      /\ Len(repriced) = Len(p)
      /\ \A j \in 1..Len(p) : repriced[j] = IF j = k THEN item ELSE p[j]
    BY <1>1, <1>2, <1>3, ExceptSeq
<1>5. DOMAIN repriced = DOMAIN p
    BY <1>1, <1>4, LenProperties
<1>6. \A j \in DOMAIN p : repriced[j].request = p[j].request
    BY <1>1, <1>2, <1>4
<1>7. OncePending(repriced)
    BY <1>5, <1>6 DEF OncePending
<1>8. Items(Sorted(repriced)) = Items(repriced)
    BY <1>4, <1>7, SortKeepsItems
<1>9. Requested(Items(Sorted(repriced))) = Requested(Items(p))
    <2>1. Requested(Items(repriced)) = {repriced[j].request : j \in DOMAIN p}
        BY <1>5 DEF Requested, Items
    <2>2. Requested(Items(p)) = {p[j].request : j \in DOMAIN p}
        BY DEF Requested, Items
    <2>3. QED
        BY <1>6, <1>8, <2>1, <2>2
<1>10. Items(repriced) = (Items(p) \ {p[k]}) \cup {item}
    <2>1. \A j \in DOMAIN p : j # k => p[j] # p[k]
        BY DEF OncePending
    <2>2. \A j \in DOMAIN p : repriced[j] = IF j = k THEN item ELSE p[j]
        BY <1>1, <1>4
    <2>3. QED
        BY <1>5, <2>1, <2>2 DEF Items
<1>11. QED
    BY <1>4, <1>7, <1>8, <1>9, <1>10, SortKeepsItems DEF repriced, item

\* Filtering an ordered list.
LEMMA FilterKeepsItems ==
    ASSUME NEW R, NEW p \in Seq(ItemOf(R)), OncePending(p), InOrder(p),
           NEW K \in SUBSET DOMAIN p
    PROVE  /\ Kept(p, K) \in Seq(ItemOf(R))
           /\ InOrder(Kept(p, K))
           /\ OncePending(Kept(p, K))
           /\ Items(Kept(p, K)) = {p[k] : k \in K}
           /\ p = <<>> => Kept(p, K) = <<>>
<1>1. DOMAIN p = 1..Len(p) /\ Len(p) \in Nat
    BY ItemsAreList
<1>2. /\ Kept(p, K) \in Seq(ItemOf(R))
      /\ Len(Kept(p, K)) = Cardinality(K)
      /\ Items(Kept(p, K)) = {p[k] : k \in K}
      /\ InOrder(Kept(p, K))
      /\ \A n \in DOMAIN Kept(p, K) : Nth(K, n) \in K /\ Kept(p, K)[n] = p[Nth(K, n)]
      /\ \A m, n \in DOMAIN Kept(p, K) : m < n => Nth(K, m) < Nth(K, n)
    BY KeptIsSubsequence
<1>3. OncePending(Kept(p, K))
    <2> SUFFICES ASSUME NEW m \in DOMAIN Kept(p, K), NEW n \in DOMAIN Kept(p, K),
                        Kept(p, K)[m].request = Kept(p, K)[n].request
                 PROVE  m = n
        BY DEF OncePending
    <2>1. Nth(K, m) = Nth(K, n)
        BY <1>2 DEF OncePending
    <2>2. Nth(K, m) \in Int /\ Nth(K, n) \in Int
        BY <1>1, <1>2
    <2>3. ~(m < n) /\ ~(n < m)
        BY <1>2, <2>1, <2>2
    <2>4. m \in Int /\ n \in Int
        BY <1>2, LenProperties
    <2>5. QED
        BY <2>3, <2>4
<1>4. p = <<>> => Kept(p, K) = <<>>
    <2>1. SUFFICES ASSUME p = <<>>
                   PROVE  Kept(p, K) = <<>>
        OBVIOUS
    <2>2. K = {}
        BY <1>1, <2>1, EmptySeq
    <2>3. Len(Kept(p, K)) = 0
        BY <1>2, <2>2, FS_EmptySet
    <2>4. QED
        BY <1>2, <2>3, EmptySeq
<1>5. QED
    BY <1>2, <1>3, <1>4
================================================================================

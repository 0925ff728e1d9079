---------------------- MODULE RequestResponseQueue_proofs ----------------------
(***************************************************************************)
(* The safety properties of the LLM and image queues, for every set of     *)
(* requests and songs, every priority and every limit.                     *)
(*                                                                         *)
(* Four of the six events end in drain, which works on the list, the map   *)
(* and the running set the event has prepared.  So the invariant is first  *)
(* stated of any such triple (Ready), one lemma says what drain makes of a *)
(* Ready triple (DrainKeepsReady), and every event is left with showing    *)
(* that what it hands to drain is Ready.                                   *)
(***************************************************************************)
EXTENDS RequestResponseQueue, QueueOrder_proofs

\* No request has two running items.
OnceRunning(run) == \A i, j \in run : i.request = j.request => i = j

\* Every entry of the map is that of a running request of its song, and of
\* songs outside dbl the map knows every running request.
MapFits(act, run, dbl) ==
    /\ \A s \in Songs : act[s] # NoRequest =>
           act[s] \in Requested(run) /\ SongOf[act[s]] = s
    /\ \A s \in Songs \ dbl : \A r \in Requests :
           act[s] = r <=> r \in Requested(run) /\ SongOf[r] = s

\* What drain may be called on.
Ready(p, act, run, dbl) ==
    /\ p \in Seq(Item)
    /\ InOrder(p)
    /\ OncePending(p)
    /\ act \in [Songs -> Requests \cup {NoRequest}]
    /\ run \in SUBSET Item
    /\ OnceRunning(run)
    /\ Requested(Items(p)) \cap Requested(run) = {}
    /\ dbl \in SUBSET Songs
    /\ MapFits(act, run, dbl)

\* The inductive invariant.
IInv ==
    /\ TypeOK
    /\ Ready(pending, active, running, doubled)
    /\ NoLostRequest
    /\ NoIdleCapacity

-------------------------------------------------------------------------------
\* Lists of items are lists that compareQueueItems can order.
LEMMA ItemsAreSortable ==
    ASSUME NEW p \in Seq(Item)
    PROVE  /\ IsList(p, Item)
           /\ DOMAIN p = 1..Len(p)
           /\ Len(p) \in Nat
           /\ \A k \in 1..Len(p) : /\ p[k] \in Item
                                   /\ p[k].request \in Requests
                                   /\ SongOf[p[k].request] \in Songs
<1>1. \A i \in Item : /\ i.priority \in Nat
                       /\ i.enqueuedAt \in Nat
                       /\ i.request \in Requests
                       /\ SongOf[i.request] \in Songs
    BY SongOfAssumption DEF Item
<1>2. /\ DOMAIN p = 1..Len(p)
      /\ Len(p) \in Nat
      /\ \A k \in 1..Len(p) : p[k] \in Item
    BY LenProperties
<1>3. QED
    BY <1>1, <1>2 DEF IsList

\* How many songs have an entry in the map once the first n items of p have one.
Occupied(p, act, n) == Cardinality(ActiveSongs(act) \cup SongsOf(First(p, n)))

\* The map grows as items are taken.
LEMMA OccupiedGrows ==
    ASSUME NEW p \in Seq(Item), NEW act
    PROVE  /\ \A n \in 0..Len(p) :
                  /\ IsFiniteSet(ActiveSongs(act) \cup SongsOf(First(p, n)))
                  /\ Occupied(p, act, n) \in Nat
           /\ \A m, n \in 0..Len(p) : m <= n => Occupied(p, act, m) <= Occupied(p, act, n)
<1>1. /\ Len(p) \in Nat
      /\ \A k \in 1..Len(p) : SongOf[p[k].request] \in Songs
    BY ItemsAreSortable
<1>2. ASSUME NEW n \in 0..Len(p)
      PROVE  /\ IsFiniteSet(ActiveSongs(act) \cup SongsOf(First(p, n)))
             /\ Occupied(p, act, n) \in Nat
    <2>1. \A k \in 1..n : SongOf[p[k].request] \in Songs
        BY <1>1
    <2>2. SongsOf(First(p, n)) \subseteq Songs
        BY <2>1 DEF SongsOf, First
    <2>3. ActiveSongs(act) \cup SongsOf(First(p, n)) \in SUBSET Songs
        BY <2>2 DEF ActiveSongs
    <2>4. IsFiniteSet(ActiveSongs(act) \cup SongsOf(First(p, n)))
        BY <2>3, RequestsAssumption, FS_Subset
    <2>5. QED
        BY <2>4, FS_CardinalityType DEF Occupied
<1>3. ASSUME NEW m \in 0..Len(p), NEW n \in 0..Len(p), m <= n
      PROVE  Occupied(p, act, m) <= Occupied(p, act, n)
    <2>1. \A k \in 1..m : k \in 1..n
        BY <1>1, <1>3
    <2>2. First(p, m) \subseteq First(p, n)
        BY <2>1 DEF First
    <2>3. ActiveSongs(act) \cup SongsOf(First(p, m))
              \in SUBSET (ActiveSongs(act) \cup SongsOf(First(p, n)))
        BY <2>2 DEF SongsOf
    <2>4. QED
        BY <2>3, <1>2, FS_Subset DEF Occupied
<1>4. QED
    BY <1>2, <1>3

\* drain stops at the first item for which the map has no room: the last item
\* taken still found room, and the first one left does not.
LEMMA DrainStopsAtTheLimit ==
    ASSUME NEW p \in Seq(Item), NEW act, NEW limit \in Nat \ {0},
           NEW n, n = DrainCount(p, act, limit)
    PROVE  /\ n \in 0..Len(p)
           /\ n > 0 => Occupied(p, act, n - 1) < limit
           /\ n < Len(p) => Occupied(p, act, n) >= limit
<1> DEFINE K == {k \in DOMAIN p : Occupied(p, act, k - 1) < limit}
<1>1. /\ DOMAIN p = 1..Len(p)
      /\ Len(p) \in Nat
    BY ItemsAreSortable
<1>2. n = Cardinality(K)
    BY DEF DrainCount, Occupied
<1>3. ASSUME NEW N \in 0..Len(p)
      PROVE  IsFiniteSet(1..N) /\ Cardinality(1..N) = N
    <2>1. /\ IsFiniteSet(1..N)
          /\ Cardinality(1..N) = IF 1 > N THEN 0 ELSE N - 1 + 1
        BY <1>1, FS_Interval
    <2>2. QED
        BY <2>1
<1>4. IsFiniteSet(K) /\ n \in 0..Len(p)
    <2>1. K \in SUBSET (1..Len(p))
        BY <1>1
    <2>2. IsFiniteSet(K) /\ Cardinality(K) <= Len(p)
        BY <1>1, <1>3, <2>1, FS_Subset
    <2>3. Cardinality(K) \in Nat
        BY <2>2, FS_CardinalityType
    <2>4. QED
        BY <1>1, <1>2, <2>2, <2>3
<1>5. ASSUME NEW k \in K, NEW j \in 1..k
      PROVE  j \in K
    <2>1. j \in DOMAIN p /\ j - 1 \in 0..Len(p) /\ k - 1 \in 0..Len(p) /\ j - 1 <= k - 1
        BY <1>1
    <2>2. /\ Occupied(p, act, j - 1) <= Occupied(p, act, k - 1)
          /\ Occupied(p, act, j - 1) \in Nat
          /\ Occupied(p, act, k - 1) \in Nat
        BY <2>1, OccupiedGrows
    <2>3. QED
        BY <2>1, <2>2
<1>6. ASSUME n > 0
      PROVE  Occupied(p, act, n - 1) < limit
    <2>1. SUFFICES ASSUME n \notin K
                   PROVE  FALSE
        OBVIOUS
    <2>2. \A k \in K : k \in 1..(n - 1)
        <3>1. SUFFICES ASSUME NEW k \in K, ~(k \in 1..(n - 1))
                       PROVE  FALSE
            OBVIOUS
        <3>2. n \in 1..k
            BY <1>1, <1>4, <1>6, <3>1
        <3>3. QED
            BY <1>5, <2>1, <3>2
    <2>3. n - 1 \in 0..Len(p)
        BY <1>1, <1>4, <1>6
    <2>4. Cardinality(K) <= n - 1
        BY <1>3, <2>2, <2>3, FS_Subset
    <2>5. QED
        BY <1>2, <1>4, <2>4
<1>7. ASSUME n < Len(p)
      PROVE  Occupied(p, act, n) >= limit
    <2>1. SUFFICES ASSUME Occupied(p, act, n) < limit
                   PROVE  FALSE
        <3>1. Occupied(p, act, n) \in Nat
            BY <1>4, OccupiedGrows
        <3>2. QED
            BY <3>1
    <2>2. n + 1 \in K
        BY <1>1, <1>4, <1>7, <2>1
    <2>3. 1..(n + 1) \in SUBSET K
        BY <1>5, <2>2
    <2>4. n + 1 \in 0..Len(p)
        BY <1>1, <1>4, <1>7
    <2>5. n + 1 <= Cardinality(K)
        <3>1. Cardinality(1..(n + 1)) <= Cardinality(K)
            BY <1>4, <2>3, FS_Subset
        <3>2. Cardinality(1..(n + 1)) = n + 1
            BY <1>3, <2>4
        <3>3. QED
            BY <3>1, <3>2
    <2>6. QED
        BY <1>2, <1>4, <2>5
<1>8. QED
    BY <1>4, <1>6, <1>7

-------------------------------------------------------------------------------
\* The song whose entry drain overwrites last names one of the items taken.
LEMMA EnteredIsLast ==
    ASSUME NEW p \in Seq(Item), NEW n \in 0..Len(p),
           NEW act \in [Songs -> Requests \cup {NoRequest}]
    PROVE  /\ Entered(p, act, n) \in [Songs -> Requests \cup {NoRequest}]
           /\ \A s \in Songs \ SongsOf(First(p, n)) : Entered(p, act, n)[s] = act[s]
           /\ \A s \in SongsOf(First(p, n)) : \E i \in First(p, n) :
                  SongOf[i.request] = s /\ Entered(p, act, n)[s] = i.request
<1>1. /\ Len(p) \in Nat
      /\ \A k \in 1..Len(p) : p[k].request \in Requests
    BY ItemsAreSortable
<1>2. ASSUME NEW s \in SongsOf(First(p, n))
      PROVE  \E k \in 1..n : /\ SongOf[p[k].request] = s
                              /\ \A j \in (k + 1)..n : SongOf[p[j].request] # s
    <2> DEFINE Of == {k \in 1..n : SongOf[p[k].request] = s}
    <2>1. PICK k0 \in Of : TRUE
        BY <1>2 DEF SongsOf, First
    <2>2. Of \in SUBSET (1..Len(p))
        BY <1>1
    <2> HIDE DEF Of
    <2>3. /\ Cardinality(Of) \in Nat
          /\ Rank(Of, k0) \in 1..Cardinality(Of)
        BY <1>1, <2>1, <2>2, RankIsMonotonic
    <2>4. Cardinality(Of) \in 1..Cardinality(Of)
        BY <2>3
    <2>5. /\ Nth(Of, Cardinality(Of)) \in Of
          /\ \A k \in Of : \E m \in 1..Cardinality(Of) : Nth(Of, m) = k
          /\ \A l, m \in 1..Cardinality(Of) : l < m => Nth(Of, l) < Nth(Of, m)
        BY <1>1, <2>2, <2>4, NthIsMonotonic
    <2> DEFINE last == Nth(Of, Cardinality(Of))
    <2> HIDE DEF last
    <2>6. ASSUME NEW j \in (last + 1)..n, SongOf[p[j].request] = s
          PROVE  FALSE
        <3>1. last \in 1..n
            BY <2>5 DEF Of, last
        <3>2. j \in Of /\ last < j
            BY <1>1, <2>6, <3>1 DEF Of
        <3>3. PICK m \in 1..Cardinality(Of) : Nth(Of, m) = j
            BY <2>5, <3>2
        <3>4. m = Cardinality(Of) \/ m < Cardinality(Of)
            BY <2>3, <3>3
        <3>5. j = last \/ j < last
            BY <2>4, <2>5, <3>3, <3>4 DEF last
        <3>6. j \in Int /\ last \in Int
            BY <1>1, <3>1
        <3>7. QED
            BY <3>2, <3>5, <3>6
    <2>7. last \in 1..n /\ SongOf[p[last].request] = s
        BY <2>5 DEF Of, last
    <2>8. QED
        BY <2>6, <2>7
<1>3. ASSUME NEW s \in SongsOf(First(p, n))
      PROVE  \E i \in First(p, n) :
                 SongOf[i.request] = s /\ (s \in Songs => Entered(p, act, n)[s] = i.request)
    <2> DEFINE last == CHOOSE k \in 1..n :
                           /\ SongOf[p[k].request] = s
                           /\ \A j \in (k + 1)..n : SongOf[p[j].request] # s
    <2>1. last \in 1..n /\ SongOf[p[last].request] = s
        BY <1>2
    <2>2. s \in Songs => Entered(p, act, n)[s] = p[last].request
        BY DEF Entered
    <2> HIDE DEF last
    <2>3. p[last] \in First(p, n)
        BY <2>1 DEF First
    <2>4. QED
        BY <2>1, <2>2, <2>3
<1>4. \A i \in First(p, n) : i.request \in Requests /\ SongOf[i.request] \in Songs
    BY <1>1, SongOfAssumption DEF First
<1>5. \A s \in SongsOf(First(p, n)) : s \in Songs
    BY <1>4 DEF SongsOf
<1>6. \A s \in Songs \ SongsOf(First(p, n)) : Entered(p, act, n)[s] = act[s]
    BY DEF Entered
<1>7. \A s \in Songs : Entered(p, act, n)[s] \in Requests \cup {NoRequest}
    BY <1>3, <1>4, <1>6
<1>8. Entered(p, act, n) = [s \in Songs |-> Entered(p, act, n)[s]]
    BY DEF Entered
<1>9. Entered(p, act, n) \in [Songs -> Requests \cup {NoRequest}]
    BY <1>7, <1>8
<1>10. QED
    BY <1>3, <1>5, <1>6, <1>9

\* drain splits the list: the items it takes are those that stood first, the
\* rest keeps its order.
LEMMA SplitKeepsItems ==
    ASSUME NEW p \in Seq(Item), NEW n \in 0..Len(p)
    PROVE  /\ After(p, n) \in Seq(Item)
           /\ DOMAIN After(p, n) = 1..(Len(p) - n)
           /\ After(p, n) # <<>> <=> n < Len(p)
           /\ \A k \in DOMAIN After(p, n) : After(p, n)[k] = p[n + k] /\ n + k \in DOMAIN p
           /\ Items(p) = First(p, n) \cup Items(After(p, n))
           /\ First(p, n) \subseteq Item
<1> DEFINE rest == After(p, n)
<1>1. /\ DOMAIN p = 1..Len(p)
      /\ Len(p) \in Nat
      /\ \A k \in 1..Len(p) : p[k] \in Item
      /\ n \in Nat /\ n <= Len(p)
    BY ItemsAreSortable
<1>2. \A k \in (n + 1)..Len(p) : p[k] \in Item
    BY <1>1
<1>3. n + 1 \in Int /\ Len(p) \in Int
    BY <1>1
<1>4. /\ rest \in Seq(Item)
      /\ Len(rest) = IF n + 1 <= Len(p) THEN Len(p) - (n + 1) + 1 ELSE 0
      /\ \A k \in 1..(Len(p) - (n + 1) + 1) : rest[k] = p[(n + 1) + k - 1]
    BY <1>2, <1>3, SubSeqProperties DEF After
<1> HIDE DEF rest
<1>5. /\ DOMAIN rest = 1..(Len(p) - n)
      /\ Len(rest) = Len(p) - n
    <2>1. DOMAIN rest = 1..Len(rest)
        BY <1>4, LenProperties
    <2>2. n \in Int /\ n <= Len(p)
        BY <1>1
    <2>3. (IF n + 1 <= Len(p) THEN Len(p) - (n + 1) + 1 ELSE 0) = Len(p) - n
        BY <1>3, <2>2
    <2>4. QED
        BY <1>4, <2>1, <2>3
<1>6. \A k \in DOMAIN rest : rest[k] = p[n + k] /\ n + k \in DOMAIN p
    <2> TAKE k \in DOMAIN rest
    <2>1. k \in Int /\ 1 <= k /\ k <= Len(p) - n
        BY <1>1, <1>5
    <2>2. /\ k \in 1..(Len(p) - (n + 1) + 1)
          /\ (n + 1) + k - 1 = n + k
          /\ n + k \in 1..Len(p)
        BY <1>1, <2>1
    <2>3. QED
        BY <1>1, <1>4, <2>2
<1>7. rest # <<>> <=> n < Len(p)
    <2>1. rest = <<>> => Len(rest) = 0
        BY EmptySeq
    <2>2. rest # <<>> => Len(rest) \in Nat \ {0}
        BY <1>4, EmptySeq
    <2>3. QED
        <3> DEFINE N == Len(p)
        <3>1. N - n # 0 <=> n < N
            <4>1. N \in Int /\ n \in Int /\ n <= N
                BY <1>1
            <4> HIDE DEF N
            <4>2. QED
                BY <4>1
        <3>2. Len(rest) # 0 <=> n < Len(p)
            BY <1>5, <3>1
        <3>3. QED
            BY <2>1, <2>2, <3>2
<1>8. Items(p) = First(p, n) \cup Items(rest)
    <2>1. \A k \in 1..n : k \in DOMAIN p
        BY <1>1
    <2>2. First(p, n) \cup Items(rest) \subseteq Items(p)
        BY <1>6, <2>1 DEF First, Items
    <2>3. ASSUME NEW k \in DOMAIN p
          PROVE  p[k] \in First(p, n) \cup Items(rest)
        <3>1. CASE k <= n
            BY <1>1, <3>1 DEF First
        <3>2. CASE k > n
            <4>1. k - n \in 1..(Len(p) - n) /\ n + (k - n) = k
                BY <1>1, <3>2
            <4>2. p[k] = rest[k - n]
                BY <1>5, <1>6, <4>1
            <4>3. QED
                BY <1>5, <4>1, <4>2 DEF Items
        <3>3. QED
            BY <1>1, <3>1, <3>2
    <2>4. Items(p) \subseteq First(p, n) \cup Items(rest)
        BY <2>3 DEF Items
    <2>5. QED
        BY <2>2, <2>4
<1>9. First(p, n) \subseteq Item
    BY <1>1 DEF First
<1>10. QED
    BY <1>4, <1>5, <1>6, <1>7, <1>8, <1>9 DEF rest

\* A song that has two running requests is noted, so outside the noted songs
\* running requests of a song are the same.
LEMMA UndoubledIsOne ==
    ASSUME NEW run \in SUBSET Item, NEW s \in Songs \ DoubledSongs(run),
           NEW i \in run, NEW j \in run, SongOf[i.request] = s, SongOf[j.request] = s
    PROVE  i.request = j.request
BY DEF DoubledSongs

\* What drain makes of the map fits what it makes of the running set.
LEMMA EnteredFits ==
    ASSUME NEW p, NEW act, NEW run, NEW dbl, Ready(p, act, run, dbl),
           NEW n \in 0..Len(p)
    PROVE  MapFits(Entered(p, act, n), run \cup First(p, n),
                   dbl \cup DoubledSongs(run \cup First(p, n)))
<1> DEFINE entered == Entered(p, act, n)
           run2 == run \cup First(p, n)
<1>1. /\ p \in Seq(Item)
      /\ act \in [Songs -> Requests \cup {NoRequest}]
      /\ run \in SUBSET Item
      /\ MapFits(act, run, dbl)
    BY DEF Ready
<1>2. run2 \in SUBSET Item
    BY <1>1, SplitKeepsItems
<1>3. /\ \A s \in Songs \ SongsOf(First(p, n)) : entered[s] = act[s]
      /\ \A s \in SongsOf(First(p, n)) : \E i \in First(p, n) :
             SongOf[i.request] = s /\ entered[s] = i.request
    BY <1>1, EnteredIsLast
<1> HIDE DEF entered
<1>4. ASSUME NEW s \in Songs, entered[s] # NoRequest
      PROVE  entered[s] \in Requested(run2) /\ SongOf[entered[s]] = s
    <2>1. CASE s \in SongsOf(First(p, n))
        BY <1>3, <2>1 DEF Requested
    <2>2. CASE s \notin SongsOf(First(p, n))
        BY <1>1, <1>3, <1>4, <2>2 DEF MapFits, Requested
    <2>3. QED
        BY <2>1, <2>2
<1>5. ASSUME NEW s \in Songs \ (dbl \cup DoubledSongs(run2)), NEW r \in Requests,
             r \in Requested(run2), SongOf[r] = s
      PROVE  entered[s] = r
    <2>1. PICK i \in run2 : i.request = r
        BY <1>5 DEF Requested
    <2>2. CASE s \in SongsOf(First(p, n))
        <3>1. PICK j \in First(p, n) : SongOf[j.request] = s /\ entered[s] = j.request
            BY <1>3, <2>2
        <3>2. j.request = i.request
            BY <1>2, <1>5, <2>1, <3>1, UndoubledIsOne
        <3>3. QED
            BY <2>1, <3>1, <3>2
    <2>3. CASE s \notin SongsOf(First(p, n))
        <3>1. i \in run
            BY <1>5, <2>1, <2>3 DEF SongsOf
        <3>2. r \in Requested(run)
            BY <2>1, <3>1 DEF Requested
        <3>3. act[s] = r
            BY <1>1, <1>5, <3>2 DEF MapFits
        <3>4. QED
            BY <1>3, <2>3, <3>3
    <2>4. QED
        BY <2>2, <2>3
<1>6. ASSUME NEW s \in Songs, NEW r \in Requests, entered[s] = r
      PROVE  r \in Requested(run2) /\ SongOf[r] = s
    BY <1>4, <1>6, NoRequestAssumption
<1>7. QED
    BY <1>4, <1>5, <1>6, Zenon DEF MapFits, entered

\* The songs in the map after drain are those it had and those of the items taken.
LEMMA EnteredSongs ==
    ASSUME NEW p \in Seq(Item), NEW n \in 0..Len(p),
           NEW act \in [Songs -> Requests \cup {NoRequest}]
    PROVE  ActiveSongs(Entered(p, act, n)) = ActiveSongs(act) \cup SongsOf(First(p, n))
<1>1. First(p, n) \subseteq Item
    BY SplitKeepsItems
<1>2. \A i \in First(p, n) : i.request # NoRequest /\ SongOf[i.request] \in Songs
    BY <1>1, NoRequestAssumption, SongOfAssumption DEF Item
<1>3. /\ \A s \in Songs \ SongsOf(First(p, n)) : Entered(p, act, n)[s] = act[s]
      /\ \A s \in SongsOf(First(p, n)) : Entered(p, act, n)[s] # NoRequest
    BY <1>2, EnteredIsLast
<1>4. SongsOf(First(p, n)) \subseteq Songs
    BY <1>2 DEF SongsOf
<1>5. QED
    BY <1>3, <1>4 DEF ActiveSongs

\* drain turns a Ready triple into a Ready triple, moves requests from the list
\* to the running set and loses none.
LEMMA DrainKeepsReady ==
    ASSUME NEW p, NEW act, NEW run, Ready(p, act, run, doubled),
           NEW limit \in Nat \ {0}, Drain(p, act, run, limit)
    PROVE  /\ Ready(pending', active', running', doubled')
           /\ Requested(Items(pending')) \cup Requested(running')
                = Requested(Items(p)) \cup Requested(run)
           /\ run \subseteq running'
<1>1. PICK n : n = DrainCount(p, act, limit) /\ Drain(p, act, run, limit)!(n)
    BY DEF Drain
<1>2. /\ pending' = After(p, n)
      /\ active' = Entered(p, act, n)
      /\ running' = run \cup First(p, n)
      /\ doubled' = doubled \cup DoubledSongs(run \cup First(p, n))
    BY <1>1
<1>3. /\ p \in Seq(Item)
      /\ act \in [Songs -> Requests \cup {NoRequest}]
      /\ run \in SUBSET Item
      /\ n \in 0..Len(p)
    BY <1>1, DrainStopsAtTheLimit DEF Ready
<1>4. /\ DOMAIN p = 1..Len(p)
      /\ Len(p) \in Nat
    BY <1>3, ItemsAreSortable
<1>5. /\ pending' \in Seq(Item)
      /\ \A k \in DOMAIN pending' : pending'[k] = p[n + k] /\ n + k \in DOMAIN p
      /\ DOMAIN pending' = 1..(Len(p) - n)
      /\ Items(p) = First(p, n) \cup Items(pending')
      /\ First(p, n) \subseteq Item
    BY <1>2, <1>3, SplitKeepsItems
<1>6. InOrder(pending') /\ OncePending(pending')
    <2>1. \A k \in DOMAIN pending' : k \in Int
        BY <1>5
    <2>2. n \in Int
        BY <1>3, <1>4
    <2>3. \A j, k \in DOMAIN pending' : j < k => n + j < n + k
        BY <2>1, <2>2
    <2>4. ASSUME NEW j \in DOMAIN pending', NEW k \in DOMAIN pending', n + j = n + k
          PROVE  j = k
        <3>1. j \in Int /\ k \in Int
            BY <2>1
        <3>2. \A a, b, c \in Int : a + b = a + c => b = c
            OBVIOUS
        <3>3. QED
            BY <2>2, <2>4, <3>1, <3>2
    <2>5. InOrder(pending')
        BY <1>5, <2>3 DEF Ready, InOrder
    <2>6. OncePending(pending')
        BY <1>5, <2>4 DEF Ready, OncePending
    <2>7. QED
        BY <2>5, <2>6
<1>7. \A i \in First(p, n), k \in DOMAIN pending' : i.request # pending'[k].request
    <2> SUFFICES ASSUME NEW m \in 1..n, NEW k \in DOMAIN pending'
                 PROVE  p[m].request # pending'[k].request
        BY DEF First
    <2>1. m \in DOMAIN p /\ n + k \in DOMAIN p /\ m # n + k
        BY <1>3, <1>4, <1>5
    <2>2. QED
        BY <1>5, <2>1 DEF Ready, OncePending
<1>8. OnceRunning(running')
    <2> SUFFICES ASSUME NEW i \in run \cup First(p, n), NEW j \in run \cup First(p, n),
                        i.request = j.request
                 PROVE  i = j
        BY <1>2 DEF OnceRunning
    <2>1. \A h \in First(p, n) : h.request \notin Requested(run)
        BY <1>5 DEF Ready, Requested
    <2>2. CASE i \in run /\ j \in run
        BY <2>2 DEF Ready, OnceRunning
    <2>3. CASE i \in First(p, n) /\ j \in First(p, n)
        <3>1. PICK l \in 1..n : i = p[l]
            BY <2>3 DEF First
        <3>2. PICK m \in 1..n : j = p[m]
            BY <2>3 DEF First
        <3>3. l \in DOMAIN p /\ m \in DOMAIN p
            BY <1>3, <1>4
        <3>4. QED
            BY <3>1, <3>2, <3>3 DEF Ready, OncePending
    <2>4. CASE i \in run /\ j \in First(p, n)
        BY <2>1, <2>4 DEF Requested
    <2>5. CASE i \in First(p, n) /\ j \in run
        BY <2>1, <2>5 DEF Requested
    <2>6. QED
        BY <2>2, <2>3, <2>4, <2>5
<1>9. Requested(Items(pending')) \cap Requested(running') = {}
    <2>1. ASSUME NEW k \in DOMAIN pending', NEW i \in running'
          PROVE  pending'[k].request # i.request
        <3>1. CASE i \in First(p, n)
            BY <1>7, <3>1
        <3>2. CASE i \in run
            <4>1. pending'[k] \in Items(p)
                BY <1>5 DEF Items
            <4>2. pending'[k].request \in Requested(Items(p)) /\ i.request \in Requested(run)
                BY <3>2, <4>1 DEF Requested
            <4>3. QED
                BY <4>2 DEF Ready
        <3>3. QED
            BY <1>2, <3>1, <3>2
    <2>2. QED
        BY <2>1 DEF Requested, Items
<1>10. /\ active' \in [Songs -> Requests \cup {NoRequest}]
       /\ MapFits(active', running', doubled')
    BY <1>2, <1>3, EnteredIsLast, EnteredFits
<1>11. running' \in SUBSET Item /\ doubled' \in SUBSET Songs
    BY <1>2, <1>3, <1>5 DEF DoubledSongs, Ready
<1>12. Requested(Items(pending')) \cup Requested(running')
          = Requested(Items(p)) \cup Requested(run)
    BY <1>2, <1>5 DEF Requested
<1>13. Ready(pending', active', running', doubled')
    BY <1>5, <1>6, <1>8, <1>9, <1>10, <1>11 DEF Ready
<1>14. QED
    BY <1>2, <1>12, <1>13

\* drain leaves no item waiting while the map has room.
LEMMA DrainLeavesNoRoom ==
    ASSUME NEW p, NEW act, NEW run, Ready(p, act, run, doubled),
           NEW limit \in Nat \ {0}, Drain(p, act, run, limit)
    PROVE  pending' # <<>> => Cardinality(ActiveSongs(active')) >= limit
<1>1. PICK n : n = DrainCount(p, act, limit) /\ Drain(p, act, run, limit)!(n)
    BY DEF Drain
<1>2. /\ pending' = After(p, n)
      /\ active' = Entered(p, act, n)
    BY <1>1
<1>3. /\ p \in Seq(Item)
      /\ act \in [Songs -> Requests \cup {NoRequest}]
      /\ n \in 0..Len(p)
      /\ n < Len(p) => Occupied(p, act, n) >= limit
    BY <1>1, DrainStopsAtTheLimit DEF Ready
<1>4. pending' # <<>> => n < Len(p)
    BY <1>2, <1>3, SplitKeepsItems
<1>5. Cardinality(ActiveSongs(active')) = Occupied(p, act, n)
    BY <1>2, <1>3, EnteredSongs DEF Occupied
<1>6. QED
    BY <1>3, <1>4, <1>5

\* drain takes the smallest items: none that stays compares smaller than one
\* that was taken.
LEMMA DrainTakesSmallest ==
    ASSUME NEW p, NEW act, NEW run, Ready(p, act, run, doubled),
           NEW limit \in Nat \ {0}, Drain(p, act, run, limit)
    PROVE  \A i \in running' \ run : \A j \in Items(pending') : ~Before(j, i)
<1>1. PICK n : n = DrainCount(p, act, limit) /\ Drain(p, act, run, limit)!(n)
    BY DEF Drain
<1>2. /\ pending' = After(p, n)
      /\ running' = run \cup First(p, n)
    BY <1>1
<1>3. p \in Seq(Item) /\ InOrder(p) /\ n \in 0..Len(p)
    BY <1>1, DrainStopsAtTheLimit DEF Ready
<1>4. DOMAIN p = 1..Len(p) /\ Len(p) \in Nat
    BY <1>3, ItemsAreSortable
<1>5. /\ \A k \in DOMAIN pending' : pending'[k] = p[n + k] /\ n + k \in DOMAIN p
      /\ DOMAIN pending' = 1..(Len(p) - n)
    BY <1>2, <1>3, SplitKeepsItems
<1>6. ASSUME NEW m \in 1..n, NEW k \in DOMAIN pending'
      PROVE  ~Before(pending'[k], p[m])
    <2>1. m \in DOMAIN p /\ n + k \in DOMAIN p /\ m < n + k
        BY <1>3, <1>4, <1>5
    <2>2. QED
        BY <1>3, <1>5, <2>1 DEF InOrder
<1>7. QED
    BY <1>2, <1>6 DEF First, Items

\* If drain takes anything, the requests then running, those of doubled songs
\* apart, are within the limit: the map held fewer songs than the limit before
\* the last item was taken, and outside the doubled songs it counts requests.
LEMMA DrainStartsWithinLimit ==
    ASSUME NEW p, NEW act, NEW run, Ready(p, act, run, doubled),
           NEW limit \in Nat \ {0}, Drain(p, act, run, limit), running' # run
    PROVE  Cardinality({i \in running' : SongOf[i.request] \notin doubled'}) <= limit
<1> DEFINE Single == {i \in running' : SongOf[i.request] \notin doubled'}
           song == [i \in Single |-> SongOf[i.request]]
<1>1. PICK n : n = DrainCount(p, act, limit) /\ Drain(p, act, run, limit)!(n)
    BY DEF Drain
<1>2. /\ active' = Entered(p, act, n)
      /\ running' = run \cup First(p, n)
    BY <1>1
<1>3. /\ p \in Seq(Item)
      /\ act \in [Songs -> Requests \cup {NoRequest}]
      /\ n \in 0..Len(p)
      /\ Len(p) \in Nat
      /\ n > 0 => Occupied(p, act, n - 1) < limit
    BY <1>1, DrainStopsAtTheLimit, ItemsAreSortable DEF Ready
<1>4. n > 0 /\ n - 1 \in 0..Len(p)
    <2>1. n # 0
        <3>1. SUFFICES ASSUME n = 0
                       PROVE  FALSE
            OBVIOUS
        <3>2. First(p, n) = {}
            BY <3>1 DEF First
        <3>3. QED
            BY <1>2, <3>2
    <2>2. QED
        BY <1>3, <2>1
<1>5. /\ IsFiniteSet(ActiveSongs(active'))
      /\ Cardinality(ActiveSongs(active')) <= limit
    <2> DEFINE before == ActiveSongs(act) \cup SongsOf(First(p, n - 1))
               last == SongOf[p[n].request]
    <2>1. ActiveSongs(active') = before \cup {last}
        <3>1. 1..n = 1..(n - 1) \cup {n}
            BY <1>3, <1>4
        <3>2. First(p, n) = First(p, n - 1) \cup {p[n]}
            BY <3>1 DEF First
        <3>3. SongsOf(First(p, n)) = SongsOf(First(p, n - 1)) \cup {last}
            BY <3>2 DEF SongsOf
        <3>4. QED
            BY <1>2, <1>3, <3>3, EnteredSongs
    <2>2. IsFiniteSet(before) /\ Cardinality(before) \in Nat /\ Cardinality(before) < limit
        BY <1>3, <1>4, OccupiedGrows DEF Occupied
    <2> HIDE DEF before, last
    <2>3. /\ IsFiniteSet(before \cup {last})
          /\ Cardinality(before \cup {last}) = IF last \in before THEN Cardinality(before)
                                               ELSE Cardinality(before) + 1
        BY <2>2, FS_AddElement
    <2>4. Cardinality(before \cup {last}) <= limit
        BY <2>2, <2>3
    <2>5. QED
        BY <2>1, <2>3, <2>4
<1>6. Ready(pending', active', running', doubled')
    BY DrainKeepsReady
<1>7. song \in Injection(Single, ActiveSongs(active'))
    <2>1. ASSUME NEW i \in Single
          PROVE  /\ SongOf[i.request] \in Songs \ doubled'
                 /\ active'[SongOf[i.request]] = i.request
                 /\ i.request # NoRequest
        <3>1. i.request \in Requests /\ i.request \in Requested(running')
            BY <1>6 DEF Ready, Item, Requested
        <3>2. QED
            BY <1>6, <3>1, SongOfAssumption, NoRequestAssumption DEF Ready, MapFits
    <2>2. song \in [Single -> ActiveSongs(active')]
        BY <2>1 DEF ActiveSongs
    <2>3. \A i, j \in Single : song[i] = song[j] => i = j
        <3>1. \A i, j \in Single : song[i] = song[j] => i.request = j.request
            BY <2>1
        <3>2. QED
            BY <1>6, <3>1 DEF Ready, OnceRunning
    <2>4. QED
        BY <2>2, <2>3 DEF Injection, IsInjective
<1> HIDE DEF song, Single
<1>8. IsFiniteSet(Single) /\ Cardinality(Single) <= Cardinality(ActiveSongs(active'))
    BY <1>5, <1>7, FS_Injection
<1>9. Cardinality(Single) \in Nat /\ Cardinality(ActiveSongs(active')) \in Nat
    BY <1>5, <1>8, FS_CardinalityType
<1>10. QED
    BY <1>5, <1>8, <1>9 DEF Single

-------------------------------------------------------------------------------
\* The queue's items are those of its requests.
LEMMA ItemIsItemOf == Item = ItemOf(Requests)
BY DEF Item, ItemOf

\* What enqueue hands to drain.
LEMMA PushKeepsReady ==
    ASSUME NEW p, NEW act, NEW run, NEW dbl, Ready(p, act, run, dbl),
           NEW i \in Item, i.request \notin Requested(Items(p)) \cup Requested(run)
    PROVE  /\ Ready(Sorted(Append(p, i)), act, run, dbl)
           /\ Requested(Items(Sorted(Append(p, i)))) = Requested(Items(p)) \cup {i.request}
<1>1. /\ Sorted(Append(p, i)) \in Seq(Item)
      /\ InOrder(Sorted(Append(p, i)))
      /\ OncePending(Sorted(Append(p, i)))
      /\ Items(Sorted(Append(p, i))) = Items(p) \cup {i}
    BY ItemIsItemOf, PushKeepsItems DEF Ready
<1>2. Requested(Items(Sorted(Append(p, i)))) = Requested(Items(p)) \cup {i.request}
    BY <1>1 DEF Requested
<1>3. QED
    BY <1>1, <1>2 DEF Ready

\* What updatePendingPriority leaves.
LEMMA RepriceKeepsReady ==
    ASSUME NEW p, NEW act, NEW run, NEW dbl, Ready(p, act, run, dbl),
           NEW k \in DOMAIN p, NEW q \in Nat
    PROVE  LET sorted == Sorted([p EXCEPT ![k].priority = q])
           IN  /\ Ready(sorted, act, run, dbl)
               /\ Requested(Items(sorted)) = Requested(Items(p))
<1> DEFINE sorted == Sorted([p EXCEPT ![k].priority = q])
<1>1. /\ sorted \in Seq(Item)
      /\ InOrder(sorted)
      /\ OncePending(sorted)
      /\ Requested(Items(sorted)) = Requested(Items(p))
    BY ItemIsItemOf, RepriceKeepsRequests DEF Ready
<1> HIDE DEF sorted
<1>2. Ready(sorted, act, run, dbl)
    BY <1>1 DEF Ready
<1>3. QED
    BY <1>1, <1>2 DEF sorted

\* What cancelSong leaves of the list.
LEMMA FilterKeepsReady ==
    ASSUME NEW p, NEW act, NEW run, NEW dbl, Ready(p, act, run, dbl),
           NEW K \in SUBSET DOMAIN p
    PROVE  /\ Ready(Kept(p, K), act, run, dbl)
           /\ Items(Kept(p, K)) = {p[k] : k \in K}
           /\ p = <<>> => Kept(p, K) = <<>>
<1>1. /\ Kept(p, K) \in Seq(Item)
      /\ InOrder(Kept(p, K))
      /\ OncePending(Kept(p, K))
      /\ Items(Kept(p, K)) = {p[k] : k \in K}
      /\ p = <<>> => Kept(p, K) = <<>>
    BY ItemIsItemOf, FilterKeepsItems DEF Ready
<1>2. Items(Kept(p, K)) \subseteq Items(p)
    BY <1>1 DEF Items
<1>3. Requested(Items(Kept(p, K))) \cap Requested(run) = {}
    BY <1>2 DEF Ready, Requested
<1>4. QED
    BY <1>1, <1>3 DEF Ready

\* What the end of a request hands to drain: the entry its song had, if the
\* song is not doubled, was its own.
LEMMA ReleaseKeepsReady ==
    ASSUME NEW p, NEW act, NEW run, NEW dbl, Ready(p, act, run, dbl), NEW i \in run
    PROVE  /\ Ready(p, [act EXCEPT ![SongOf[i.request]] = NoRequest], run \ {i}, dbl)
           /\ Requested(run \ {i}) = Requested(run) \ {i.request}
<1> DEFINE song == SongOf[i.request]
           freed == [act EXCEPT ![song] = NoRequest]
<1>1. /\ act \in [Songs -> Requests \cup {NoRequest}]
      /\ run \in SUBSET Item
      /\ OnceRunning(run)
      /\ MapFits(act, run, dbl)
    BY DEF Ready
<1>2. i.request \in Requests /\ song \in Songs
    BY <1>1, SongOfAssumption DEF Item
<1>3. Requested(run \ {i}) = Requested(run) \ {i.request}
    BY <1>1 DEF Requested, OnceRunning
<1>4. /\ freed \in [Songs -> Requests \cup {NoRequest}]
      /\ freed[song] = NoRequest
      /\ \A s \in Songs \ {song} : freed[s] = act[s]
    BY <1>1, <1>2
<1> HIDE DEF freed
<1>5. MapFits(freed, run \ {i}, dbl)
    <2>1. ASSUME NEW s \in Songs, freed[s] # NoRequest
          PROVE  freed[s] \in Requested(run \ {i}) /\ SongOf[freed[s]] = s
        <3>1. s # song /\ freed[s] = act[s]
            BY <1>4, <2>1
        <3>2. act[s] \in Requested(run) /\ SongOf[act[s]] = s
            BY <1>1, <2>1, <3>1 DEF MapFits
        <3>3. QED
            BY <1>3, <3>1, <3>2
    <2>2. ASSUME NEW s \in Songs \ dbl, NEW r \in Requests,
                 r \in Requested(run \ {i}), SongOf[r] = s
          PROVE  freed[s] = r
        <3>1. act[s] = r
            BY <1>1, <1>3, <2>2 DEF MapFits
        <3>2. s # song
            <4>1. SUFFICES ASSUME s = song
                           PROVE  FALSE
                OBVIOUS
            <4>2. i.request \in Requested(run)
                BY DEF Requested
            <4>3. act[s] = i.request
                BY <1>1, <1>2, <2>2, <4>1, <4>2 DEF MapFits
            <4>4. QED
                BY <1>3, <2>2, <3>1, <4>3
        <3>3. QED
            BY <1>4, <2>2, <3>1, <3>2
    <2>3. ASSUME NEW s \in Songs, NEW r \in Requests, freed[s] = r
          PROVE  r \in Requested(run \ {i}) /\ SongOf[r] = s
        BY <2>1, <2>3, NoRequestAssumption
    <2>4. QED
        BY <2>1, <2>2, <2>3, Zenon DEF MapFits
<1>6. OnceRunning(run \ {i})
    BY <1>1 DEF OnceRunning
<1>7. Requested(Items(p)) \cap Requested(run \ {i}) = {}
    BY <1>3 DEF Ready
<1>8. QED
    BY <1>3, <1>4, <1>5, <1>6, <1>7 DEF Ready, freed

-------------------------------------------------------------------------------
LEMMA InitEstablishesIInv == Init => IInv
<1> SUFFICES ASSUME Init
             PROVE  IInv
    OBVIOUS
<1>1. /\ pending = <<>> /\ running = {} /\ aborted = {} /\ doubled = {}
      /\ active = [s \in Songs |-> NoRequest]
      /\ promise = [r \in Requests |-> "none"]
      /\ clock = 0
      /\ maxConcurrency \in Limits
    BY DEF Init
<1>2. /\ pending \in Seq(Item)
      /\ DOMAIN pending = {}
      /\ Items(pending) = {}
      /\ Requested(Items(pending)) = {}
      /\ Requested(running) = {}
    BY <1>1, EmptySeq, LenProperties DEF Items, Requested
<1>3. TypeOK
    BY <1>1, <1>2, NumbersAssumption DEF TypeOK
<1>4. MapFits(active, running, doubled)
    BY <1>1, <1>2, NoRequestAssumption DEF MapFits
<1>5. InOrder(pending) /\ OncePending(pending) /\ OnceRunning(running)
    BY <1>1, <1>2 DEF InOrder, OncePending, OnceRunning
<1>6. Ready(pending, active, running, doubled)
    BY <1>1, <1>2, <1>3, <1>4, <1>5 DEF Ready, TypeOK
<1>7. NoLostRequest /\ NoIdleCapacity
    BY <1>1, <1>2 DEF NoLostRequest, NoIdleCapacity
<1>8. QED
    BY <1>3, <1>6, <1>7 DEF IInv

\* An event that hands a Ready triple to drain re-establishes what the
\* invariant says of the list, the map and the running set.
LEMMA DrainEstablishes ==
    ASSUME NEW p, NEW act, NEW run, Ready(p, act, run, doubled),
           NEW limit \in Nat \ {0}, Drain(p, act, run, limit),
           maxConcurrency' = limit
    PROVE  /\ Ready(pending', active', running', doubled')
           /\ Requested(Items(pending')) \cup Requested(running')
                = Requested(Items(p)) \cup Requested(run)
           /\ Requested(Items(pending')) \cap Requested(running') = {}
           /\ run \subseteq running'
           /\ NoIdleCapacity'
BY DrainKeepsReady, DrainLeavesNoRoom DEF NoIdleCapacity, Ready

LEMMA EnqueueStep ==
    ASSUME IInv, NEW r \in Requests, NEW p \in Priorities, Enqueue(r, p)
    PROVE  IInv'
<1> DEFINE item == [request |-> r, priority |-> p, enqueuedAt |-> clock]
           list == Sorted(Append(pending, item))
<1>1. /\ promise[r] = "none"
      /\ promise' = [promise EXCEPT ![r] = "waiting"]
      /\ Drain(list, active, running, maxConcurrency)
      /\ UNCHANGED <<maxConcurrency, clock, aborted>>
    BY DEF Enqueue
<1>2. item \in Item /\ item.request = r
    BY NumbersAssumption DEF IInv, TypeOK, Item
<1> HIDE DEF item
<1>3. r \notin Requested(Items(pending)) \cup Requested(running)
    BY <1>1 DEF IInv, NoLostRequest
<1>4. /\ Ready(list, active, running, doubled)
      /\ Requested(Items(list)) = Requested(Items(pending)) \cup {r}
    BY <1>2, <1>3, PushKeepsReady DEF IInv
<1> HIDE DEF list
<1>5. maxConcurrency \in Nat \ {0}
    BY DEF IInv, TypeOK
<1>6. /\ Ready(pending', active', running', doubled')
      /\ Requested(Items(pending')) \cup Requested(running')
           = Requested(Items(list)) \cup Requested(running)
      /\ Requested(Items(pending')) \cap Requested(running') = {}
      /\ running \subseteq running'
      /\ NoIdleCapacity'
    BY <1>1, <1>4, <1>5, DrainEstablishes
<1>7. NoLostRequest'
    BY <1>1, <1>4, <1>6 DEF IInv, TypeOK, NoLostRequest
<1>8. aborted' \subseteq Requested(running')
    BY <1>1, <1>6 DEF IInv, TypeOK, Requested
<1>9. TypeOK'
    BY <1>1, <1>6, <1>8 DEF IInv, TypeOK, Ready
<1>10. QED
    BY <1>6, <1>7, <1>9 DEF IInv

LEMMA FinishStep ==
    ASSUME IInv, NEW i \in running, Finish(i)
    PROVE  IInv'
<1> DEFINE freed == [active EXCEPT ![SongOf[i.request]] = NoRequest]
<1>1. /\ promise' = [promise EXCEPT ![i.request] = "settled"]
      /\ aborted' = aborted \ {i.request}
      /\ Drain(pending, freed, running \ {i}, maxConcurrency)
      /\ UNCHANGED <<maxConcurrency, clock>>
    BY DEF Finish
<1>2. /\ Ready(pending, freed, running \ {i}, doubled)
      /\ Requested(running \ {i}) = Requested(running) \ {i.request}
    <2>1. Ready(pending, active, running, doubled)
        BY DEF IInv
    <2>2. QED
        BY <2>1, ReleaseKeepsReady
<1> HIDE DEF freed
<1>3. maxConcurrency \in Nat \ {0}
    BY DEF IInv, TypeOK
<1>4. /\ Ready(pending', active', running', doubled')
      /\ Requested(Items(pending')) \cup Requested(running')
           = Requested(Items(pending)) \cup Requested(running \ {i})
      /\ Requested(Items(pending')) \cap Requested(running') = {}
      /\ running \ {i} \subseteq running'
      /\ NoIdleCapacity'
    BY <1>1, <1>2, <1>3, DrainEstablishes
<1>5. i.request \in Requests /\ i.request \in Requested(running)
    BY DEF IInv, Ready, Item, Requested
<1>6. i.request \notin Requested(Items(pending))
    BY <1>5 DEF IInv, Ready
<1>7. NoLostRequest'
    BY <1>1, <1>2, <1>4, <1>5, <1>6 DEF IInv, TypeOK, NoLostRequest
<1>8. aborted' \subseteq Requested(running')
    <2>1. Requested(running \ {i}) \subseteq Requested(running')
        BY <1>4 DEF Requested
    <2>2. QED
        BY <1>1, <1>2, <2>1 DEF IInv, TypeOK
<1>9. TypeOK'
    BY <1>1, <1>4, <1>5, <1>8 DEF IInv, TypeOK, Ready
<1>10. QED
    BY <1>4, <1>7, <1>9 DEF IInv

LEMMA CancelSongStep ==
    ASSUME IInv, NEW s \in Songs, CancelSong(s)
    PROVE  IInv'
<1> DEFINE Cancelled == {r \in Requested(Items(pending)) : SongOf[r] = s}
<1>1. /\ pending' = Kept(pending, NotOf(s))
      /\ promise' = [r \in Requests |->
                        IF r \in Cancelled THEN "cancelled" ELSE promise[r]]
      /\ aborted' = aborted \cup ({active[s]} \ {NoRequest})
      /\ UNCHANGED <<active, maxConcurrency, running, clock, doubled>>
    BY DEF CancelSong
<1>2. /\ Ready(pending', active, running, doubled)
      /\ Items(pending') = {pending[k] : k \in NotOf(s)}
    BY <1>1, FilterKeepsReady DEF IInv, NotOf
<1>3. Requested(Items(pending')) = Requested(Items(pending)) \ Cancelled
    BY <1>2 DEF NotOf, Requested, Items
<1>4. Requested(Items(pending)) \cap Requested(running) = {}
    BY DEF IInv, Ready
<1> HIDE DEF Cancelled
<1>5. NoLostRequest'
    <2>1. Cancelled \subseteq Requested(Items(pending))
        BY DEF Cancelled
    <2>2. ASSUME NEW r \in Requests
          PROVE  promise'[r] = "waiting" <=>
                     r \in Requested(Items(pending')) \cup Requested(running')
        BY <1>1, <1>3, <1>4, <2>1 DEF IInv, NoLostRequest
    <2>3. QED
        BY <1>1, <1>3, <1>4, <2>2 DEF NoLostRequest
<1>6. NoIdleCapacity'
    <2>1. pending = <<>> => pending' = <<>>
        BY <1>1, FilterKeepsReady DEF IInv, NotOf
    <2>2. QED
        BY <1>1, <2>1 DEF IInv, NoIdleCapacity
<1>7. aborted' \subseteq Requested(running')
    BY <1>1 DEF IInv, TypeOK, Ready, MapFits
<1>8. TypeOK'
    BY <1>1, <1>2, <1>7 DEF IInv, TypeOK, Ready
<1>9. QED
    BY <1>1, <1>2, <1>5, <1>6, <1>8 DEF IInv

LEMMA RefreshConcurrencyStep ==
    ASSUME IInv, NEW limit \in Limits, RefreshConcurrency(limit)
    PROVE  IInv'
<1>1. /\ maxConcurrency' = limit
      /\ Drain(pending, active, running, limit)
      /\ UNCHANGED <<clock, aborted, promise>>
      /\ limit \in Nat \ {0}
    BY NumbersAssumption DEF RefreshConcurrency
<1>2. /\ Ready(pending', active', running', doubled')
      /\ Requested(Items(pending')) \cup Requested(running')
           = Requested(Items(pending)) \cup Requested(running)
      /\ Requested(Items(pending')) \cap Requested(running') = {}
      /\ running \subseteq running'
      /\ NoIdleCapacity'
    BY <1>1, DrainEstablishes DEF IInv
<1>3. NoLostRequest'
    BY <1>1, <1>2 DEF IInv, NoLostRequest
<1>4. aborted' \subseteq Requested(running')
    BY <1>1, <1>2 DEF IInv, TypeOK, Requested
<1>5. TypeOK'
    BY <1>1, <1>2, <1>4 DEF IInv, TypeOK, Ready
<1>6. QED
    BY <1>2, <1>3, <1>5 DEF IInv

LEMMA UpdatePendingPriorityStep ==
    ASSUME IInv, NEW s \in Songs, NEW p \in Priorities, UpdatePendingPriority(s, p)
    PROVE  IInv'
<1>1. PICK k \in DOMAIN pending :
          /\ pending' = Sorted([pending EXCEPT ![k].priority = p])
          /\ UNCHANGED <<active, maxConcurrency, clock, running, aborted,
                         promise, doubled>>
    BY DEF UpdatePendingPriority
<1>2. p \in Nat
    BY NumbersAssumption
<1>3. /\ Ready(pending', active, running, doubled)
      /\ Requested(Items(pending')) = Requested(Items(pending))
    BY <1>1, <1>2, RepriceKeepsReady DEF IInv
<1>4. NoLostRequest'
    BY <1>1, <1>3 DEF IInv, NoLostRequest
<1>5. NoIdleCapacity'
    <2>1. pending # <<>>
        BY <1>1, EmptySeq, LenProperties DEF IInv, Ready
    <2>2. QED
        BY <1>1, <2>1 DEF IInv, NoIdleCapacity
<1>6. TypeOK'
    BY <1>1, <1>3 DEF IInv, TypeOK, Ready
<1>7. QED
    BY <1>1, <1>3, <1>4, <1>5, <1>6 DEF IInv

LEMMA IdleStep ==
    ASSUME IInv, Tick \/ UNCHANGED vars
    PROVE  IInv'
<1>1. /\ UNCHANGED <<pending, active, maxConcurrency, running, aborted, promise, doubled>>
      /\ clock' = clock \/ clock' = clock + 1
    BY DEF Tick, vars
<1>2. clock' \in Nat
    BY <1>1 DEF IInv, TypeOK
<1>3. QED
    BY <1>1, <1>2 DEF IInv, TypeOK, NoLostRequest, NoIdleCapacity

\* The invariant of the queue: what TypeOK, NoLostRequest, MapIsExact and
\* NoIdleCapacity need to hold after every event, and the order of the list.
THEOREM Invariance == Spec => []IInv
<1>1. Init => IInv
    BY InitEstablishesIInv
<1>2. IInv /\ [Next]_vars => IInv'
    <2> SUFFICES ASSUME IInv, [Next]_vars
                 PROVE  IInv'
        OBVIOUS
    <2>1. CASE \E r \in Requests, p \in Priorities : Enqueue(r, p)
        BY <2>1, EnqueueStep
    <2>2. CASE \E i \in running : Finish(i)
        BY <2>2, FinishStep
    <2>3. CASE \E s \in Songs : CancelSong(s)
        BY <2>3, CancelSongStep
    <2>4. CASE \E l \in Limits : RefreshConcurrency(l)
        BY <2>4, RefreshConcurrencyStep
    <2>5. CASE \E s \in Songs, p \in Priorities : UpdatePendingPriority(s, p)
        BY <2>5, UpdatePendingPriorityStep
    <2>6. CASE Tick \/ UNCHANGED vars
        BY <2>6, IdleStep
    <2>7. QED
        BY <2>1, <2>2, <2>3, <2>4, <2>5, <2>6 DEF Next
<1>3. QED
    BY <1>1, <1>2, PTL DEF Spec

\* The state of the queue is always well-formed; only running requests have an
\* AbortController that fired.
THEOREM TypeCorrect == Spec => []TypeOK
<1>1. IInv => TypeOK
    BY DEF IInv
<1>2. QED
    BY <1>1, Invariance, PTL

\* Whatever is enqueued, cancelled, reprioritised or limited, a caller waits
\* exactly while its request is in the list or running, and never in both.
THEOREM NothingIsLost == Spec => []NoLostRequest
<1>1. IInv => NoLostRequest
    BY DEF IInv
<1>2. QED
    BY <1>1, Invariance, PTL

\* No item waits while the map has room.
THEOREM NothingIdles == Spec => []NoIdleCapacity
<1>1. IInv => NoIdleCapacity
    BY DEF IInv
<1>2. QED
    BY <1>1, Invariance, PTL

\* For every song that never had two running requests at once the map names
\* its running request, if it has one: cancelSong reaches it.
THEOREM MapIsAlwaysExact == Spec => []MapIsExact
<1>1. IInv => MapIsExact
    BY DEF IInv, Ready, MapFits, MapIsExact
<1>2. QED
    BY <1>1, Invariance, PTL

\* Every event that starts items starts the smallest ones.
THEOREM StartsInOrder == Spec => PriorityRespected
<1>1. IInv /\ [Next]_vars =>
          [\A i \in running' \ running : \A j \in Items(pending') : ~Before(j, i)]_vars
    <2> SUFFICES ASSUME IInv, Next
                 PROVE  \A i \in running' \ running : \A j \in Items(pending') : ~Before(j, i)
        OBVIOUS
    <2>1. Ready(pending, active, running, doubled) /\ maxConcurrency \in Nat \ {0}
        BY DEF IInv, TypeOK
    <2>2. ASSUME NEW r \in Requests, NEW p \in Priorities, Enqueue(r, p)
          PROVE  \A i \in running' \ running : \A j \in Items(pending') : ~Before(j, i)
        <3> DEFINE item == [request |-> r, priority |-> p, enqueuedAt |-> clock]
        <3>1. Drain(Sorted(Append(pending, item)), active, running, maxConcurrency)
            BY <2>2 DEF Enqueue
        <3>2. item \in Item /\ item.request \notin Requested(Items(pending)) \cup Requested(running)
            BY <2>2, NumbersAssumption DEF Enqueue, IInv, TypeOK, NoLostRequest, Item
        <3> HIDE DEF item
        <3>3. Ready(Sorted(Append(pending, item)), active, running, doubled)
            BY <2>1, <3>2, PushKeepsReady
        <3>4. QED
            BY <2>1, <3>1, <3>3, DrainTakesSmallest
    <2>3. ASSUME NEW i \in running, Finish(i)
          PROVE  \A h \in running' \ running : \A j \in Items(pending') : ~Before(j, h)
        <3> DEFINE freed == [active EXCEPT ![SongOf[i.request]] = NoRequest]
        <3>1. Drain(pending, freed, running \ {i}, maxConcurrency)
            BY <2>3 DEF Finish
        <3>2. Ready(pending, freed, running \ {i}, doubled)
            BY <2>1, ReleaseKeepsReady
        <3> HIDE DEF freed
        <3>3. \A h \in running' \ (running \ {i}) : \A j \in Items(pending') : ~Before(j, h)
            BY <2>1, <3>1, <3>2, DrainTakesSmallest
        <3>4. QED
            BY <3>3
    <2>4. ASSUME NEW limit \in Limits, RefreshConcurrency(limit)
          PROVE  \A i \in running' \ running : \A j \in Items(pending') : ~Before(j, i)
        <3>1. Drain(pending, active, running, limit) /\ limit \in Nat \ {0}
            BY <2>4, NumbersAssumption DEF RefreshConcurrency
        <3>2. QED
            BY <2>1, <3>1, DrainTakesSmallest
    <2>5. ASSUME \/ \E s \in Songs : CancelSong(s)
                 \/ \E s \in Songs, p \in Priorities : UpdatePendingPriority(s, p)
                 \/ Tick
          PROVE  \A i \in running' \ running : \A j \in Items(pending') : ~Before(j, i)
        <3>1. running' = running
            BY <2>5 DEF CancelSong, UpdatePendingPriority, Tick
        <3>2. QED
            BY <3>1
    <2>6. QED
        BY <2>2, <2>3, <2>4, <2>5 DEF Next
<1>2. QED
    BY <1>1, Invariance, PTL DEF Spec, PriorityRespected

\* An event that starts items keeps the running requests, those of doubled
\* songs apart, within the provider's limit.
THEOREM StartsKeepTheLimit == Spec => StartsWithinLimit
<1> DEFINE Single == {i \in running' : SongOf[i.request] \notin doubled'}
           Within == running' \subseteq running \/ Cardinality(Single) <= maxConcurrency'
<1>1. IInv /\ [Next]_vars => [Within]_vars
    <2> SUFFICES ASSUME IInv, Next
                 PROVE  Within
        OBVIOUS
    <2>1. Ready(pending, active, running, doubled) /\ maxConcurrency \in Nat \ {0}
        BY DEF IInv, TypeOK
    <2>2. ASSUME NEW r \in Requests, NEW p \in Priorities, Enqueue(r, p)
          PROVE  Within
        <3> DEFINE item == [request |-> r, priority |-> p, enqueuedAt |-> clock]
        <3>1. /\ Drain(Sorted(Append(pending, item)), active, running, maxConcurrency)
              /\ maxConcurrency' = maxConcurrency
            BY <2>2 DEF Enqueue
        <3>2. item \in Item /\ item.request \notin Requested(Items(pending)) \cup Requested(running)
            BY <2>2, NumbersAssumption DEF Enqueue, IInv, TypeOK, NoLostRequest, Item
        <3> HIDE DEF item
        <3>3. Ready(Sorted(Append(pending, item)), active, running, doubled)
            BY <2>1, <3>2, PushKeepsReady
        <3>4. running' # running => Cardinality(Single) <= maxConcurrency
            BY <2>1, <3>1, <3>3, DrainStartsWithinLimit
        <3>5. QED
            BY <3>1, <3>4
    <2>3. ASSUME NEW i \in running, Finish(i)
          PROVE  Within
        <3> DEFINE freed == [active EXCEPT ![SongOf[i.request]] = NoRequest]
        <3>1. /\ Drain(pending, freed, running \ {i}, maxConcurrency)
              /\ maxConcurrency' = maxConcurrency
            BY <2>3 DEF Finish
        <3>2. Ready(pending, freed, running \ {i}, doubled)
            BY <2>1, ReleaseKeepsReady
        <3> HIDE DEF freed
        <3>3. running' # running \ {i} => Cardinality(Single) <= maxConcurrency
            BY <2>1, <3>1, <3>2, DrainStartsWithinLimit
        <3>4. QED
            BY <3>1, <3>3
    <2>4. ASSUME NEW limit \in Limits, RefreshConcurrency(limit)
          PROVE  Within
        <3>1. /\ Drain(pending, active, running, limit)
              /\ limit \in Nat \ {0}
              /\ maxConcurrency' = limit
            BY <2>4, NumbersAssumption DEF RefreshConcurrency
        <3>2. running' # running => Cardinality(Single) <= limit
            BY <2>1, <3>1, DrainStartsWithinLimit
        <3>3. QED
            BY <3>1, <3>2
    <2>5. ASSUME \/ \E s \in Songs : CancelSong(s)
                 \/ \E s \in Songs, p \in Priorities : UpdatePendingPriority(s, p)
                 \/ Tick
          PROVE  Within
        <3>1. running' = running
            BY <2>5 DEF CancelSong, UpdatePendingPriority, Tick
        <3>2. QED
            BY <3>1
    <2>6. QED
        BY <2>2, <2>3, <2>4, <2>5 DEF Next
<1>2. QED
    BY <1>1, Invariance, PTL DEF Spec, StartsWithinLimit
-------------------------------------------------------------------------------
(* What the workers see of it: a service of requests.                      *)

\* drain begins a request for each item it takes.
LEMMA DrainBegins ==
    ASSUME NEW p, NEW act, NEW run, Ready(p, act, run, doubled),
           NEW limit \in Nat \ {0}, Drain(p, act, run, limit)
    PROVE  Service!Begin(Items(p), Requested(run))
<1>1. PICK n : n = DrainCount(p, act, limit) /\ Drain(p, act, run, limit)!(n)
    BY DEF Drain
<1>2. /\ pending' = After(p, n)
      /\ running' = run \cup First(p, n)
    BY <1>1
<1>3. p \in Seq(Item) /\ InOrder(p) /\ OncePending(p) /\ n \in 0..Len(p)
    BY <1>1, DrainStopsAtTheLimit DEF Ready
<1>4. DOMAIN p = 1..Len(p) /\ Len(p) \in Nat
    BY <1>3, ItemsAreSortable
<1>5. /\ DOMAIN pending' = 1..(Len(p) - n)
      /\ \A k \in DOMAIN pending' : pending'[k] = p[n + k] /\ n + k \in DOMAIN p
      /\ Items(p) = First(p, n) \cup Items(pending')
    BY <1>2, <1>3, SplitKeepsItems
<1>6. ASSUME NEW m \in 1..n, NEW k \in DOMAIN pending'
      PROVE  p[m] # pending'[k] /\ ~Before(pending'[k], p[m])
    <2>1. m \in DOMAIN p /\ n + k \in DOMAIN p /\ m < n + k /\ pending'[k] = p[n + k]
        BY <1>3, <1>4, <1>5
    <2>2. p[m] # p[n + k]
        BY <1>3, <2>1 DEF OncePending
    <2>3. ~Before(p[n + k], p[m])
        BY <1>3, <2>1 DEF InOrder
    <2>4. QED
        BY <2>1, <2>2, <2>3
<1>7. Items(pending') = Items(p) \ First(p, n)
    <2>1. First(p, n) \cap Items(pending') = {}
        BY <1>6 DEF First, Items
    <2>2. QED
        BY <1>5, <2>1
<1>8. \A i \in First(p, n), j \in Items(pending') : ~Before(j, i)
    BY <1>6 DEF First, Items
<1>9. Requested(running') = Requested(run) \cup {i.request : i \in First(p, n)}
    BY <1>2 DEF Requested
<1>10. First(p, n) \in SUBSET Items(p)
    BY <1>5
<1>11. QED
    BY <1>7, <1>8, <1>9, <1>10 DEF Service!Begin, Service!Before, Before

\* An event that takes nothing begins nothing.
LEMMA NoneBegins == Service!Begin(Items(pending'), Requested(running'))
<1>1. {} \in SUBSET Items(pending')
    OBVIOUS
<1>2. /\ Items(pending') = Items(pending') \ {}
      /\ Requested(running') = Requested(running') \cup {i.request : i \in {}}
    OBVIOUS
<1>3. QED
    BY <1>1, <1>2 DEF Service!Begin

LEMMA InitIsService == Init => Service!ServiceInit
<1> SUFFICES ASSUME Init
             PROVE  Service!ServiceInit
    OBVIOUS
<1>1. pending = <<>> /\ running = {} /\ promise = [r \in Requests |-> "none"]
    BY DEF Init
<1>2. Items(pending) = {} /\ Requested(running) = {}
    BY <1>1, EmptySeq, LenProperties DEF Items, Requested
<1>3. QED
    BY <1>1, <1>2 DEF Service!ServiceInit

LEMMA EnqueueAsks ==
    ASSUME IInv, clock \in 0..MaxClock, NEW r \in Requests, NEW p \in Priorities, Enqueue(r, p)
    PROVE  Service!Ask(r)
<1> DEFINE item == [request |-> r, priority |-> p, enqueuedAt |-> clock]
           list == Sorted(Append(pending, item))
<1>1. /\ promise[r] = "none"
      /\ promise' = [promise EXCEPT ![r] = "waiting"]
      /\ Drain(list, active, running, maxConcurrency)
    BY DEF Enqueue
<1>2. item \in Item /\ item.request = r
    BY NumbersAssumption DEF IInv, TypeOK, Item
<1>3. item.request \notin Requested(Items(pending)) \cup Requested(running)
    BY <1>1, <1>2 DEF IInv, NoLostRequest
<1> HIDE DEF item
<1>4. /\ Ready(list, active, running, doubled)
      /\ Items(list) = Items(pending) \cup {item}
    <2>1. Ready(pending, active, running, doubled)
        BY DEF IInv
    <2>2. pending \in Seq(ItemOf(Requests)) /\ OncePending(pending) /\ item \in ItemOf(Requests)
        BY <1>2, <2>1, ItemIsItemOf DEF Ready
    <2>3. Items(list) = Items(pending) \cup {item}
        BY <1>2, <1>3, <2>2, PushKeepsItems
    <2>4. QED
        BY <1>2, <1>3, <2>1, <2>3, PushKeepsReady
<1> HIDE DEF list
<1>5. maxConcurrency \in Nat \ {0}
    BY DEF IInv, TypeOK
<1>6. Service!Begin(Items(pending) \cup {item}, Requested(running))
    BY <1>1, <1>4, <1>5, DrainBegins
<1>7. QED
    BY <1>1, <1>6 DEF Service!Ask, item

LEMMA FinishSettles ==
    ASSUME IInv, NEW i \in running, Finish(i)
    PROVE  i.request \in Requests /\ Service!Settle(i.request)
<1> DEFINE freed == [active EXCEPT ![SongOf[i.request]] = NoRequest]
<1>1. /\ promise' = [promise EXCEPT ![i.request] = "settled"]
      /\ Drain(pending, freed, running \ {i}, maxConcurrency)
    BY DEF Finish
<1>2. /\ Ready(pending, freed, running \ {i}, doubled)
      /\ Requested(running \ {i}) = Requested(running) \ {i.request}
    <2>1. Ready(pending, active, running, doubled)
        BY DEF IInv
    <2>2. QED
        BY <2>1, ReleaseKeepsReady
<1> HIDE DEF freed
<1>3. maxConcurrency \in Nat \ {0}
    BY DEF IInv, TypeOK
<1>4. Service!Begin(Items(pending), Requested(running) \ {i.request})
    BY <1>1, <1>2, <1>3, DrainBegins
<1>5. i.request \in Requests /\ i.request \in Requested(running)
    BY DEF IInv, Ready, Item, Requested
<1>6. QED
    BY <1>1, <1>4, <1>5 DEF Service!Settle

LEMMA CancelSongWithdraws ==
    ASSUME IInv, NEW s \in Songs, CancelSong(s)
    PROVE  \E R \in SUBSET Requests : Service!Withdraw(R)
<1> DEFINE Cancelled == {r \in Requested(Items(pending)) : SongOf[r] = s}
<1>1. /\ pending' = Kept(pending, NotOf(s))
      /\ promise' = [r \in Requests |->
                        IF r \in Cancelled THEN "cancelled" ELSE promise[r]]
      /\ running' = running
    BY DEF CancelSong
<1>2. /\ Items(pending') = {pending[k] : k \in NotOf(s)}
      /\ Requested(Items(pending)) \cap Requested(running) = {}
    BY <1>1, FilterKeepsReady DEF IInv, NotOf, Ready
<1>3. Items(pending') = {i \in Items(pending) : i.request \notin Cancelled}
    BY <1>2 DEF NotOf, Items, Requested
<1>4. /\ Requested(running') = Requested(running) \ Cancelled
      /\ Cancelled \subseteq Requested(running) \cup {i.request : i \in Items(pending)}
    BY <1>1, <1>2 DEF Requested
<1>5. Cancelled \in SUBSET Requests
    <2>1. \A k \in DOMAIN pending : pending[k].request \in Requests
        BY ItemIsItemOf, ItemsAreList DEF IInv, TypeOK
    <2>2. QED
        BY <2>1 DEF Requested, Items
<1> HIDE DEF Cancelled
<1>6. Service!Begin({i \in Items(pending) : i.request \notin Cancelled}, Requested(running) \ Cancelled)
    BY <1>3, <1>4, NoneBegins
<1>7. Service!Withdraw(Cancelled)
    BY <1>1, <1>4, <1>6 DEF Service!Withdraw
<1>8. QED
    BY <1>5, <1>7

LEMMA UpdatePendingPriorityReprioritises ==
    ASSUME IInv, NEW s \in Songs, NEW p \in Priorities, UpdatePendingPriority(s, p)
    PROVE  \E i \in Items(pending) : Service!Reprioritise(i, p)
<1>1. PICK k \in DOMAIN pending :
          /\ pending' = Sorted([pending EXCEPT ![k].priority = p])
          /\ UNCHANGED <<running, promise>>
    BY DEF UpdatePendingPriority
<1>2. pending \in Seq(ItemOf(Requests)) /\ OncePending(pending) /\ p \in Nat
    BY ItemIsItemOf, NumbersAssumption DEF IInv, Ready
<1>3. Items(pending') = (Items(pending) \ {pending[k]}) \cup {[pending[k] EXCEPT !.priority = p]}
    BY <1>1, <1>2, RepriceKeepsRequests
<1>4. pending[k] \in Items(pending)
    BY DEF Items
<1>5. Service!Reprioritise(pending[k], p)
    BY <1>1, <1>3 DEF Service!Reprioritise
<1>6. QED
    BY <1>4, <1>5

LEMMA RefreshGoesOn ==
    ASSUME IInv, NEW limit \in Limits, RefreshConcurrency(limit)
    PROVE  Service!GoOn
<1>1. /\ Drain(pending, active, running, limit)
      /\ promise' = promise
      /\ limit \in Nat \ {0}
    BY NumbersAssumption DEF RefreshConcurrency
<1>2. Service!Begin(Items(pending), Requested(running))
    BY <1>1, DrainBegins DEF IInv
<1>3. QED
    BY <1>1, <1>2 DEF Service!GoOn

\* Every event is a step the service may take, whatever the map has lost: each
\* call is begun once at most, in order, and its promise settles or is
\* rejected once.
THEOREM QueueIsAService == Spec => ImplementsService
<1>1. Init => Service!ServiceInit
    BY InitIsService
<1>2. Init => clock \in 0..MaxClock
    BY NumbersAssumption DEF Init
<1>3. clock \in 0..MaxClock /\ [Next]_vars => (clock \in 0..MaxClock)'
    <2>1. Tick => clock < MaxClock /\ clock' = clock + 1
        BY DEF Tick
    <2>2. \A r \in Requests, p \in Priorities : Enqueue(r, p) => clock' = clock
        BY DEF Enqueue
    <2>3. \A i \in running : Finish(i) => clock' = clock
        BY DEF Finish
    <2>4. \A s \in Songs : CancelSong(s) => clock' = clock
        BY DEF CancelSong
    <2>5. \A l \in Limits : RefreshConcurrency(l) => clock' = clock
        BY DEF RefreshConcurrency
    <2>6. \A s \in Songs, p \in Priorities : UpdatePendingPriority(s, p) => clock' = clock
        BY DEF UpdatePendingPriority
    <2>7. [Next]_vars => clock' = clock \/ Tick
        BY <2>2, <2>3, <2>4, <2>5, <2>6 DEF Next, vars
    <2>8. QED
        BY <2>1, <2>7, NumbersAssumption
<1>4. IInv /\ clock \in 0..MaxClock /\ [Next]_vars => [Service!ServiceNext]_(Service!service)
    <2> SUFFICES ASSUME IInv, clock \in 0..MaxClock, [Next]_vars
                 PROVE  [Service!ServiceNext]_(Service!service)
        OBVIOUS
    <2>1. CASE \E r \in Requests, p \in Priorities : Enqueue(r, p)
        BY <2>1, EnqueueAsks DEF Service!ServiceNext
    <2>2. CASE \E i \in running : Finish(i)
        BY <2>2, FinishSettles DEF Service!ServiceNext
    <2>3. CASE \E s \in Songs : CancelSong(s)
        BY <2>3, CancelSongWithdraws DEF Service!ServiceNext
    <2>4. CASE \E l \in Limits : RefreshConcurrency(l)
        BY <2>4, RefreshGoesOn DEF Service!ServiceNext
    <2>5. CASE \E s \in Songs, p \in Priorities : UpdatePendingPriority(s, p)
        BY <2>5, UpdatePendingPriorityReprioritises DEF Service!ServiceNext
    <2>6. CASE Tick \/ UNCHANGED vars
        <3>1. UNCHANGED <<pending, running, promise>>
            BY <2>6 DEF Tick, vars
        <3>2. QED
            BY <3>1 DEF Service!service, Items, Requested
    <2>7. QED
        BY <2>1, <2>2, <2>3, <2>4, <2>5, <2>6 DEF Next
<1>5. QED
    BY <1>1, <1>2, <1>3, <1>4, Invariance, PTL DEF Spec, ImplementsService, Service!ServiceSpec
================================================================================

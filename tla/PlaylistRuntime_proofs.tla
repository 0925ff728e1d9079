--------------------------- MODULE PlaylistRuntime_proofs ---------------------------
(***********************************************************************************)
(* For any number of songs, any size of the buffer and any number of crashes.      *)
(*                                                                                 *)
(* None of the properties is inductive: each speaks of a playlist that is at rest, *)
(* and IInv says what there is until then.                                         *)
(*   - Tracked, for NoSongForgotten: a song that can go on has its worker, or the  *)
(*     event that will start one is on its way.  Ends adds what an end of the      *)
(*     playlist leaves: the event that stops the workers, and nothing while the    *)
(*     server is down.                                                             *)
(*   - ClosingGoesOn, for ClosingHasWork: a closing playlist waits for a song in   *)
(*     flight, for an answer, or for an event that leads to its end.  Such an      *)
(*     event may find the playlist closing no more: ToldReopened says what follows *)
(*     it then.                                                                    *)
(*   - Kept, for BufferKept: the buffer lacks no more than lost says, or something *)
(*     on its way leads to a check (Coming).  The check is left out while another  *)
(*     one holds the lock: CheckCovers says that this one makes up for what is     *)
(*     missing, counting what it has decided to create and not created yet.        *)
(*   - CreatesFit, for BufferBounded: what is ahead and what the holder of the     *)
(*     lock has decided to create fit into the buffer together, unless a room has  *)
(*     added songs since (primed).  Locks says who holds the lock, and that only   *)
(*     the holder has anything to create.                                          *)
(*   - WatchedInv and OnlyOneshots, for WatchedStaysOpen: while somebody looks at  *)
(*     the playlist no decision to close it is under way.                          *)
(*   - NewRows, for SongsAsPromised: the worker that "created" starts finds a song *)
(*     that is not done.  Moves says what a step makes of each song.               *)
(*                                                                                 *)
(* Every question about the order of the events in a mail is asked with In,        *)
(* FillFirst and Reopens, and answered by the lemmas of the first part; every      *)
(* question about the number of songs by the lemmas on Ahead and Deficit.          *)
(***********************************************************************************)
EXTENDS PlaylistRuntime, FiniteSetTheorems, SequenceTheorems, TLAPS

-------------------------------------------------------------------------------
(* Events under way. *)

In(e, q) == \E k \in DOMAIN q : q[k] = e

\* Only the event that is being handled can be at its check.
FillFirst(q) == \A k \in DOMAIN q : q[k] = "fill" => k = 1

\* Behind "closing" the playlist is told that it is open again.
Reopens(q) == \A k \in DOMAIN q :
    q[k] = "closing" => \E j \in DOMAIN q : j > k /\ q[j] = "reopened"

LEMMA NothingIn ==
    /\ \A e : ~In(e, <<>>)
    /\ FillFirst(<<>>) /\ Reopens(<<>>)
BY DEF In, FillFirst, Reopens

LEMMA AppendKeeps ==
    ASSUME NEW S, NEW q \in Seq(S), NEW x \in S
    PROVE  /\ Append(q, x) \in Seq(S) /\ Append(q, x) # <<>>
           /\ \A e : In(e, Append(q, x)) <=> In(e, q) \/ e = x
           /\ FillFirst(q) /\ x # "fill" => FillFirst(Append(q, x))
           /\ Reopens(q) /\ x # "closing" => Reopens(Append(q, x))
           /\ x = "reopened" => Reopens(Append(q, x))
<1> DEFINE r == Append(q, x)
           n == Len(q)
<1>1. /\ n \in Nat /\ DOMAIN q = 1..n /\ r \in Seq(S) /\ Len(r) = n + 1
      /\ \A k \in 1..n : r[k] = q[k]
      /\ r[n + 1] = x
    BY LenProperties, AppendProperties
<1>2. DOMAIN r = 1..(n + 1)
    BY <1>1, LenProperties
<1>3. r # <<>>
    BY <1>1, EmptySeq
<1> HIDE DEF r, n
<1>4. n + 1 \in DOMAIN r /\ r[n + 1] = x /\ \A k \in DOMAIN q : n + 1 > k
    BY <1>1, <1>2
<1>5. \A k \in DOMAIN r : k = n + 1 \/ (k \in DOMAIN q /\ r[k] = q[k])
    BY <1>1, <1>2
<1>6. \A k \in DOMAIN q : k \in DOMAIN r /\ r[k] = q[k]
    BY <1>1, <1>2
<1>7. \A e : In(e, r) <=> In(e, q) \/ e = x
    BY <1>4, <1>5, <1>6 DEF In
<1>8. FillFirst(q) /\ x # "fill" => FillFirst(r)
    BY <1>4, <1>5 DEF FillFirst
<1>9. Reopens(q) /\ x # "closing" => Reopens(r)
    BY <1>4, <1>5, <1>6 DEF Reopens
<1>10. x = "reopened" => Reopens(r)
    BY <1>4, <1>5 DEF Reopens
<1> QED
    BY <1>1, <1>3, <1>7, <1>8, <1>9, <1>10 DEF r

LEMMA TailKeeps ==
    ASSUME NEW S, NEW q \in Seq(S), q # <<>>
    PROVE  /\ Tail(q) \in Seq(S) /\ Head(q) \in S
           /\ \A e : In(e, q) <=> e = Head(q) \/ In(e, Tail(q))
           /\ FillFirst(q) => FillFirst(Tail(q)) /\ ~In("fill", Tail(q))
           /\ Reopens(q) => Reopens(Tail(q))
           /\ Reopens(q) /\ Head(q) = "closing" => In("reopened", Tail(q))
<1> DEFINE t == Tail(q)
           n == Len(q)
<1>1. /\ n \in Nat \ {0} /\ DOMAIN q = 1..n /\ t \in Seq(S) /\ Len(t) = n - 1
      /\ \A k \in 1..Len(t) : t[k] = q[k + 1]
      /\ Head(q) = q[1] /\ Head(q) \in S
    BY LenProperties, HeadTailProperties, EmptySeq
<1>2. DOMAIN t = 1..(n - 1)
    BY <1>1, LenProperties
<1> HIDE DEF t, n
<1>3. 1 \in DOMAIN q /\ q[1] = Head(q)
    BY <1>1
<1>4. \A k \in DOMAIN t : k + 1 \in DOMAIN q /\ q[k + 1] = t[k] /\ k + 1 # 1
    BY <1>1, <1>2
<1>5. \A k \in DOMAIN q : k = 1 \/ (k - 1 \in DOMAIN t /\ t[k - 1] = q[k])
    BY <1>1, <1>2
<1>6. \A e : In(e, q) <=> e = Head(q) \/ In(e, t)
    BY <1>3, <1>4, <1>5 DEF In
<1>7. FillFirst(q) => FillFirst(t) /\ ~In("fill", t)
    BY <1>4 DEF In, FillFirst
<1>8. ASSUME Reopens(q), NEW k \in DOMAIN t, t[k] = "closing"
      PROVE  \E j \in DOMAIN t : j > k /\ t[j] = "reopened"
    <2>1. PICK j \in DOMAIN q : j > k + 1 /\ q[j] = "reopened"
        BY <1>4, <1>8 DEF Reopens
    <2>2. j - 1 \in DOMAIN t /\ t[j - 1] = q[j] /\ j - 1 > k
        BY <1>1, <1>2, <1>8, <2>1
    <2> QED
        BY <2>1, <2>2
<1>9. ASSUME Reopens(q), Head(q) = "closing"
      PROVE  In("reopened", t)
    <2>1. PICK j \in DOMAIN q : j > 1 /\ q[j] = "reopened"
        BY <1>3, <1>9 DEF Reopens
    <2> QED
        BY <1>5, <2>1 DEF In
<1> QED
    BY <1>1, <1>6, <1>7, <1>8, <1>9 DEF t, Reopens

\* The handler of the first event goes on as x.
LEMMA HeadKeeps ==
    ASSUME NEW S, NEW q \in Seq(S), q # <<>>, NEW x \in S
    PROVE  LET r == [q EXCEPT ![1] = x]
           IN  /\ r \in Seq(S) /\ r # <<>>
               /\ \A e : In(e, r) <=> e = x \/ In(e, Tail(q))
               /\ FillFirst(q) => FillFirst(r)
               /\ Reopens(q) /\ x # "closing" => Reopens(r)
<1> DEFINE r == [q EXCEPT ![1] = x]
           t == Tail(q)
           n == Len(q)
<1>1. /\ n \in Nat \ {0} /\ DOMAIN q = 1..n /\ t \in Seq(S) /\ Len(t) = n - 1
      /\ \A k \in 1..Len(t) : t[k] = q[k + 1]
    BY LenProperties, HeadTailProperties, EmptySeq
<1>2. 1 \in 1..n
    BY <1>1
<1>3. /\ r \in Seq(S) /\ Len(r) = n
      /\ \A k \in 1..n : r[k] = IF k = 1 THEN x ELSE q[k]
    BY <1>2, ExceptSeq
<1>4. DOMAIN t = 1..(n - 1) /\ DOMAIN r = 1..n
    BY <1>1, <1>3, LenProperties
<1>5. r # <<>>
    BY <1>1, <1>3, EmptySeq
<1> HIDE DEF r, t, n
<1>6. \A k \in DOMAIN t : k + 1 \in DOMAIN r /\ r[k + 1] = t[k]
    BY <1>1, <1>3, <1>4
<1>7. \A k \in DOMAIN r : k = 1 \/ (k - 1 \in DOMAIN t /\ t[k - 1] = r[k])
    BY <1>1, <1>3, <1>4
<1>8. 1 \in DOMAIN r /\ r[1] = x /\ DOMAIN r = DOMAIN q /\ \A k \in DOMAIN r : k # 1 => r[k] = q[k]
    BY <1>1, <1>3, <1>4
<1>9. \A e : In(e, r) <=> e = x \/ In(e, t)
    BY <1>6, <1>7, <1>8 DEF In
<1>10. FillFirst(q) => FillFirst(r)
    BY <1>8 DEF FillFirst
<1>11. ASSUME Reopens(q), x # "closing"
       PROVE  Reopens(r)
    <2> SUFFICES ASSUME NEW k \in DOMAIN r, r[k] = "closing"
                 PROVE  \E j \in DOMAIN r : j > k /\ r[j] = "reopened"
        BY DEF Reopens
    <2>1. k # 1 /\ k \in DOMAIN q /\ q[k] = "closing"
        BY <1>8, <1>11
    <2>2. PICK j \in DOMAIN q : j > k /\ q[j] = "reopened"
        BY <1>11, <2>1 DEF Reopens
    <2>3. j # 1
        BY <1>1, <2>1, <2>2
    <2> QED
        BY <1>8, <2>2, <2>3
<1> QED
    BY <1>3, <1>5, <1>9, <1>10, <1>11 DEF r, t

LEMMA BeforeKeeps ==
    ASSUME NEW S, NEW q \in Seq(S), NEW x \in S
    PROVE  /\ <<x>> \o q \in Seq(S)
           /\ \A e : In(e, <<x>> \o q) <=> e = x \/ In(e, q)
           /\ ~In("fill", q) => FillFirst(<<x>> \o q)
           /\ Reopens(q) /\ x # "closing" => Reopens(<<x>> \o q)
<1> DEFINE r == <<x>> \o q
           n == Len(q)
<1>1. /\ n \in Nat /\ DOMAIN q = 1..n /\ <<x>> \in Seq(S) /\ Len(<<x>>) = 1 /\ <<x>>[1] = x
    BY LenProperties
<1>2. /\ r \in Seq(S) /\ Len(r) = 1 + n
      /\ \A k \in 1..(1 + n) : r[k] = IF k <= 1 THEN <<x>>[k] ELSE q[k - 1]
    BY <1>1, ConcatProperties
<1>3. DOMAIN r = 1..(n + 1)
    BY <1>1, <1>2, LenProperties
<1> HIDE DEF r, n
<1>4. \A k \in DOMAIN q : k + 1 \in DOMAIN r /\ r[k + 1] = q[k]
    BY <1>1, <1>2, <1>3
<1>5. \A k \in DOMAIN r : k = 1 \/ (k - 1 \in DOMAIN q /\ q[k - 1] = r[k])
    BY <1>1, <1>2, <1>3
<1>6. 1 \in DOMAIN r /\ r[1] = x
    BY <1>1, <1>2, <1>3
<1>7. \A e : In(e, r) <=> e = x \/ In(e, q)
    BY <1>4, <1>5, <1>6 DEF In
<1>8. ~In("fill", q) => FillFirst(r)
    BY <1>5 DEF In, FillFirst
<1>9. ASSUME Reopens(q), x # "closing"
      PROVE  Reopens(r)
    <2> SUFFICES ASSUME NEW k \in DOMAIN r, r[k] = "closing"
                 PROVE  \E j \in DOMAIN r : j > k /\ r[j] = "reopened"
        BY DEF Reopens
    <2>1. k - 1 \in DOMAIN q /\ q[k - 1] = "closing"
        BY <1>5, <1>6, <1>9
    <2>2. PICK j \in DOMAIN q : j > k - 1 /\ q[j] = "reopened"
        BY <1>9, <2>1 DEF Reopens
    <2>3. j + 1 \in DOMAIN r /\ r[j + 1] = q[j] /\ j + 1 > k
        BY <1>1, <1>3, <1>4, <2>2
    <2> QED
        BY <2>2, <2>3
<1> QED
    BY <1>2, <1>7, <1>8, <1>9 DEF r

\* heartbeat() of a playlist that closes
LEMMA TwoKeep ==
    ASSUME NEW S, NEW q \in Seq(S), NEW x \in S, NEW y \in S
    PROVE  q \o <<x, y>> = Append(Append(q, x), y)
<1>1. /\ Len(q) \in Nat /\ <<x, y>> \in Seq(S) /\ Len(<<x, y>>) = 2
      /\ <<x, y>>[1] = x /\ <<x, y>>[2] = y
    BY LenProperties
<1>2. /\ q \o <<x, y>> \in Seq(S) /\ Len(q \o <<x, y>>) = Len(q) + 2
      /\ \A i \in 1..(Len(q) + 2) :
             (q \o <<x, y>>)[i] = IF i <= Len(q) THEN q[i] ELSE <<x, y>>[i - Len(q)]
    BY <1>1, ConcatProperties
<1>3. /\ Append(q, x) \in Seq(S) /\ Len(Append(q, x)) = Len(q) + 1
      /\ \A i \in 1..Len(q) : Append(q, x)[i] = q[i]
      /\ Append(q, x)[Len(q) + 1] = x
    BY AppendProperties
<1> DEFINE r == Append(q, x)
<1> HIDE DEF r
<1>4. /\ Append(r, y) \in Seq(S) /\ Len(Append(r, y)) = Len(r) + 1
      /\ \A i \in 1..Len(r) : Append(r, y)[i] = r[i]
      /\ Append(r, y)[Len(r) + 1] = y
    BY <1>3, AppendProperties DEF r
<1> DEFINE v == q \o <<x, y>>
           w == Append(r, y)
<1> HIDE DEF v, w
<1>5. Len(r) = Len(q) + 1 /\ Len(w) = Len(v) /\ v \in Seq(S) /\ w \in Seq(S) /\ Len(v) = Len(q) + 2
    BY <1>1, <1>2, <1>3, <1>4 DEF r, v, w
<1>6. \A i \in 1..Len(q) : v[i] = q[i] /\ w[i] = q[i]
    <2> TAKE i \in 1..Len(q)
    <2>1. i \in 1..(Len(q) + 2) /\ i <= Len(q) /\ i \in 1..Len(r)
        BY <1>1, <1>5
    <2> QED
        BY <1>2, <1>3, <1>4, <2>1 DEF r, v, w
<1>7. v[Len(q) + 1] = x /\ w[Len(q) + 1] = x
    <2>1. /\ Len(q) + 1 \in 1..(Len(q) + 2) /\ ~(Len(q) + 1 <= Len(q)) /\ Len(q) + 1 - Len(q) = 1
          /\ Len(q) + 1 \in 1..Len(r)
        BY <1>1, <1>5
    <2>2. v[Len(q) + 1] = <<x, y>>[1]
        BY <1>2, <2>1 DEF v
    <2>3. w[Len(q) + 1] = r[Len(q) + 1]
        BY <1>4, <2>1 DEF w
    <2> QED
        BY <1>1, <1>3, <2>2, <2>3 DEF r
<1>8. v[Len(q) + 2] = y /\ w[Len(q) + 2] = y
    <2>1. /\ Len(q) + 2 \in 1..(Len(q) + 2) /\ ~(Len(q) + 2 <= Len(q)) /\ Len(q) + 2 - Len(q) = 2
          /\ Len(r) + 1 = Len(q) + 2
        BY <1>1, <1>5
    <2>2. v[Len(q) + 2] = <<x, y>>[2]
        BY <1>2, <2>1 DEF v
    <2> QED
        BY <1>1, <1>4, <2>1, <2>2 DEF w
<1>9. \A i \in 1..Len(v) : v[i] = w[i]
    <2>1. \A i \in 1..Len(v) : i \in 1..Len(q) \/ i = Len(q) + 1 \/ i = Len(q) + 2
        BY <1>1, <1>5
    <2> QED
        BY <1>6, <1>7, <1>8, <2>1
<1>10. v = w
    BY <1>5, <1>9, SeqEqual
<1> QED
    BY <1>10 DEF v, w, r

\* What the actor was sent before it is stopped is dropped.
LEMMA DropKeeps ==
    ASSUME NEW S, NEW q \in Seq(S), NEW n \in 1..Len(q)
    PROVE  /\ SubSeq(q, n + 1, Len(q)) \in Seq(S)
           /\ \A e : In(e, SubSeq(q, n + 1, Len(q))) => In(e, q)
           /\ FillFirst(q) => ~In("fill", SubSeq(q, n + 1, Len(q)))
<1> DEFINE r == SubSeq(q, n + 1, Len(q))
           m == Len(q)
<1>1. m \in Nat /\ DOMAIN q = 1..m /\ n \in Nat /\ n >= 1 /\ n <= m
    BY LenProperties
<1>2. \A i \in (n + 1)..m : q[i] \in S
    BY <1>1, ElementOfSeq
<1>3. /\ r \in Seq(S) /\ Len(r) = IF n + 1 <= m THEN m - (n + 1) + 1 ELSE 0
      /\ \A i \in 1..(m - (n + 1) + 1) : r[i] = q[n + 1 + i - 1]
    <2>1. n + 1 \in Int /\ m \in Int
        BY <1>1
    <2> HIDE DEF m
    <2> QED
        BY <1>2, <2>1, SubSeqProperties DEF m
<1>4. DOMAIN r = 1..Len(r)
    BY <1>3, LenProperties
<1> HIDE DEF r, m
<1>5. ASSUME NEW k \in DOMAIN r
      PROVE  n + k \in DOMAIN q /\ r[k] = q[n + k] /\ n + k # 1
    <2>1. m - (n + 1) + 1 = m - n /\ DOMAIN r \subseteq 1..(m - n)
        BY <1>1, <1>3, <1>4
    <2>2. k \in 1..(m - n) /\ n + 1 + k - 1 = n + k
        BY <1>1, <2>1
    <2> QED
        BY <1>1, <1>3, <2>1, <2>2
<1> QED
    BY <1>3, <1>5 DEF r, m, In, FillFirst

-------------------------------------------------------------------------------
(* Rows and what is counted of them. *)

LEMMA RowForms ==
    /\ None \in Row /\ New \in Row /\ [New EXCEPT !.asked = TRUE] \in Row
    /\ \A row \in Row :
           /\ row = None <=> row.status = "none"
           /\ \A to \in {"pending", "flight", "meta", "ready", "gone"} :
                  row # None => /\ [row EXCEPT !.status = to] \in Row
                                /\ [row EXCEPT !.status = to].status = to
                                /\ [row EXCEPT !.status = to] # None
                                /\ [row EXCEPT !.status = to].ahead = row.ahead
                                /\ [row EXCEPT !.status = to].fresh = row.fresh
           /\ \A b \in BOOLEAN :
                  row # None \/ b = FALSE => /\ [row EXCEPT !.ahead = b] \in Row
                                             /\ [row EXCEPT !.ahead = b].status = row.status
                                      /\ [row EXCEPT !.ahead = b].fresh = row.fresh
           /\ [row EXCEPT !.fresh = FALSE] \in Row
           /\ [row EXCEPT !.fresh = FALSE].status = row.status
           /\ ~[row EXCEPT !.fresh = FALSE].fresh
<1>1. None \in Row /\ New \in Row /\ [New EXCEPT !.asked = TRUE] \in Row
    BY DEF Row, None, New
<1> SUFFICES ASSUME NEW row \in Row
             PROVE  /\ row = None <=> row.status = "none"
                    /\ \A to \in {"pending", "flight", "meta", "ready", "gone"} :
                           row # None => /\ [row EXCEPT !.status = to] \in Row
                                         /\ [row EXCEPT !.status = to].status = to
                                         /\ [row EXCEPT !.status = to] # None
                                         /\ [row EXCEPT !.status = to].ahead = row.ahead
                                         /\ [row EXCEPT !.status = to].fresh = row.fresh
                    /\ \A b \in BOOLEAN :
                           row # None \/ b = FALSE => /\ [row EXCEPT !.ahead = b] \in Row
                                               /\ [row EXCEPT !.ahead = b].status = row.status
                                               /\ [row EXCEPT !.ahead = b].fresh = row.fresh
                    /\ [row EXCEPT !.fresh = FALSE] \in Row
                    /\ [row EXCEPT !.fresh = FALSE].status = row.status
                    /\ ~[row EXCEPT !.fresh = FALSE].fresh
    BY <1>1
<1>2. CASE row = None
    <2>1. [None EXCEPT !.fresh = FALSE] = None /\ [None EXCEPT !.ahead = FALSE] = None
        <3> DEFINE R == [ status : {"none"}, ahead : {FALSE}, fresh : {FALSE}, asked : {FALSE} ]
        <3>1. None \in R
            BY DEF None
        <3>2. [None EXCEPT !.fresh = FALSE] \in R /\ [None EXCEPT !.ahead = FALSE] \in R
            BY <3>1
        <3>3. \A x \in R : x = [ status |-> x.status, ahead |-> x.ahead, fresh |-> x.fresh,
                                 asked |-> x.asked ]
            OBVIOUS
        <3>4. \A x \in R : x.status = "none" /\ x.ahead = FALSE /\ x.fresh = FALSE
                           /\ x.asked = FALSE
            OBVIOUS
        <3>5. \A x \in R : x = None
            BY <3>3, <3>4 DEF None
        <3> QED
            BY <3>1, <3>2, <3>5
    <2>2. None.status = "none" /\ ~None.fresh
        BY DEF None
    <2> QED
        BY <1>1, <1>2, <2>1, <2>2
<1>3. CASE row # None
    <2> DEFINE Full == [ status : {"pending", "flight", "meta", "ready", "gone"},
                         ahead : BOOLEAN, fresh : BOOLEAN, asked : BOOLEAN ]
    <2>1. row \in Full
        BY <1>3 DEF Row
    <2>2. row.status \in {"pending", "flight", "meta", "ready", "gone"}
        BY <2>1
    <2>3. \A to \in {"pending", "flight", "meta", "ready", "gone"} :
              /\ [row EXCEPT !.status = to] \in Full
              /\ [row EXCEPT !.status = to].status = to
              /\ [row EXCEPT !.status = to].ahead = row.ahead
              /\ [row EXCEPT !.status = to].fresh = row.fresh
        BY <2>1
    <2>4. \A b \in BOOLEAN : /\ [row EXCEPT !.ahead = b] \in Full
                              /\ [row EXCEPT !.ahead = b].status = row.status
                              /\ [row EXCEPT !.ahead = b].fresh = row.fresh
        BY <2>1
    <2>5. /\ [row EXCEPT !.fresh = FALSE] \in Full
          /\ [row EXCEPT !.fresh = FALSE].status = row.status
          /\ ~[row EXCEPT !.fresh = FALSE].fresh
        BY <2>1
    <2>6. Full \subseteq Row
        BY DEF Row
    <2>7. None.status = "none"
        BY DEF None
    <2> HIDE DEF Full
    <2> QED
        BY <1>3, <2>2, <2>3, <2>4, <2>5, <2>6, <2>7
<1> QED
    BY <1>2, <1>3

\* What a new status and a new mark make of a row.
LEMMA StatusForm ==
    ASSUME NEW row \in Row, row # None,
           NEW to \in {"pending", "flight", "meta", "ready", "gone"}
    PROVE  [row EXCEPT !.status = to] \in Row /\ [row EXCEPT !.status = to].status = to
BY DEF Row, None

LEMMA AheadForm ==
    ASSUME NEW row \in Row, NEW b \in BOOLEAN, row # None \/ b = FALSE
    PROVE  [row EXCEPT !.ahead = b] \in Row
BY RowForms, Zenon

LEMMA Counted ==
    ASSUME NEW rows
    PROVE  /\ Ahead(rows) \in Nat /\ Total(rows) \in Nat
           /\ Deficit(rows) \in 0..BufferSize
           /\ Deficit(rows) + Ahead(rows) >= BufferSize
           /\ Deficit(rows) > 0 => Deficit(rows) + Ahead(rows) = BufferSize
<1>1. \A S \in SUBSET Songs : Cardinality(S) \in Nat
    BY SongsAssumption, FS_Subset, FS_CardinalityType
<1>2. Ahead(rows) \in Nat /\ Total(rows) \in Nat
    BY <1>1 DEF Ahead, Total
<1> QED
    BY <1>2, BoundsAssumption DEF Deficit

LEMMA Sizes ==
    /\ \A S \in SUBSET Songs : IsFiniteSet(S) /\ Cardinality(S) \in Nat
    /\ \A S, T \in SUBSET Songs :
           /\ S \subseteq T => Cardinality(S) <= Cardinality(T)
           /\ Cardinality(S \cup T) <= Cardinality(S) + Cardinality(T)
           /\ S \cap T = {} => Cardinality(S \cup T) = Cardinality(S) + Cardinality(T)
<1>1. \A S \in SUBSET Songs : IsFiniteSet(S) /\ Cardinality(S) \in Nat
    BY SongsAssumption, FS_Subset, FS_CardinalityType
<1> SUFFICES ASSUME NEW S \in SUBSET Songs, NEW T \in SUBSET Songs
             PROVE  /\ S \subseteq T => Cardinality(S) <= Cardinality(T)
                    /\ Cardinality(S \cup T) <= Cardinality(S) + Cardinality(T)
                    /\ S \cap T = {} => Cardinality(S \cup T) = Cardinality(S) + Cardinality(T)
    BY <1>1
<1>2. S \subseteq T => Cardinality(S) <= Cardinality(T)
    BY <1>1, FS_Subset
<1>3. /\ Cardinality(S \cup T) = Cardinality(S) + Cardinality(T) - Cardinality(S \cap T)
      /\ Cardinality(S \cap T) \in Nat
    BY <1>1, FS_Union
<1>4. S \cap T = {} => Cardinality(S \cap T) = 0
    BY FS_EmptySet
<1> QED
    BY <1>1, <1>2, <1>3, <1>4

-------------------------------------------------------------------------------
(* Types. *)

SongEvents == {"created", "ready", "fill", "settled"}
Dues == [create : 0..BufferSize, close : BOOLEAN]

TypeList ==
    /\ mode \in Modes /\ status \in {"active", "closing", "closed", "deleted"}
    /\ songs \in [Songs -> Row]
    /\ worker \in [Songs -> {"none", "new", "busy"}]
    /\ mail \in Seq(Events) /\ songMail \in [Songs -> Seq(SongEvents)]
    /\ lock \in Checkers \cup {"free"} /\ due \in [Checkers -> Dues]
    /\ seen \in BOOLEAN /\ timer \in BOOLEAN /\ planning \in BOOLEAN /\ question \in BOOLEAN
    /\ present \in BOOLEAN /\ vanished \in BOOLEAN /\ belated \in BOOLEAN
    /\ phase \in {"up", "starting"} /\ crashes \in 0..MaxCrashes
    /\ wish \in {"open", "shut"} /\ lost \in 0..BufferSize

LEMMA Listed == TypeOK <=> TypeList /\ primed \in BOOLEAN
BY DEF TypeOK, TypeList, SongEvents, Dues

LEMMA Sent ==
    ASSUME TypeOK
    PROVE  \A x \in Events :
               /\ Append(mail, x) \in Seq(Events) /\ Append(mail, x) # <<>>
               /\ \A e : In(e, Append(mail, x)) <=> In(e, mail) \/ e = x
               /\ FillFirst(mail) /\ x # "fill" => FillFirst(Append(mail, x))
               /\ Reopens(mail) /\ x # "closing" => Reopens(Append(mail, x))
               /\ x = "reopened" => Reopens(Append(mail, x))
BY AppendKeeps DEF TypeOK

LEMMA Taken ==
    ASSUME TypeOK, mail # <<>>
    PROVE  /\ Tail(mail) \in Seq(Events) /\ Head(mail) \in Events
           /\ \A e : In(e, mail) <=> e = Head(mail) \/ In(e, Tail(mail))
           /\ FillFirst(mail) => FillFirst(Tail(mail)) /\ ~In("fill", Tail(mail))
           /\ Reopens(mail) => Reopens(Tail(mail))
           /\ Reopens(mail) /\ Head(mail) = "closing" => In("reopened", Tail(mail))
           /\ \A x \in Events :
                  /\ Append(Tail(mail), x) \in Seq(Events)
                  /\ \A e : In(e, Append(Tail(mail), x)) <=> In(e, Tail(mail)) \/ e = x
                  /\ FillFirst(mail) /\ x # "fill" => FillFirst(Append(Tail(mail), x))
                  /\ Reopens(mail) /\ x # "closing" => Reopens(Append(Tail(mail), x))
           /\ \A x \in Events :
                  LET r == [mail EXCEPT ![1] = x]
                  IN  /\ r \in Seq(Events)
                      /\ \A e : In(e, r) <=> e = x \/ In(e, Tail(mail))
                      /\ FillFirst(mail) => FillFirst(r)
                      /\ Reopens(mail) /\ x # "closing" => Reopens(r)
<1>1. mail \in Seq(Events)
    BY DEF TypeOK
<1>2. /\ Tail(mail) \in Seq(Events) /\ Head(mail) \in Events
      /\ \A e : In(e, mail) <=> e = Head(mail) \/ In(e, Tail(mail))
      /\ FillFirst(mail) => FillFirst(Tail(mail)) /\ ~In("fill", Tail(mail))
      /\ Reopens(mail) => Reopens(Tail(mail))
      /\ Reopens(mail) /\ Head(mail) = "closing" => In("reopened", Tail(mail))
    BY <1>1, TailKeeps
<1>3. \A x \in Events :
          /\ Append(Tail(mail), x) \in Seq(Events)
          /\ \A e : In(e, Append(Tail(mail), x)) <=> In(e, Tail(mail)) \/ e = x
          /\ FillFirst(mail) /\ x # "fill" => FillFirst(Append(Tail(mail), x))
          /\ Reopens(mail) /\ x # "closing" => Reopens(Append(Tail(mail), x))
    <2> DEFINE t == Tail(mail)
    <2>1. t \in Seq(Events) /\ (FillFirst(mail) => FillFirst(t)) /\ (Reopens(mail) => Reopens(t))
        BY <1>2
    <2> HIDE DEF t
    <2> TAKE x \in Events
    <2>2. /\ Append(t, x) \in Seq(Events)
          /\ \A e : In(e, Append(t, x)) <=> In(e, t) \/ e = x
          /\ FillFirst(t) /\ x # "fill" => FillFirst(Append(t, x))
          /\ Reopens(t) /\ x # "closing" => Reopens(Append(t, x))
        BY <2>1, AppendKeeps
    <2> QED
        BY <2>1, <2>2 DEF t
<1>4. \A x \in Events :
          LET r == [mail EXCEPT ![1] = x]
          IN  /\ r \in Seq(Events)
              /\ \A e : In(e, r) <=> e = x \/ In(e, Tail(mail))
              /\ FillFirst(mail) => FillFirst(r)
              /\ Reopens(mail) /\ x # "closing" => Reopens(r)
    BY <1>1, HeadKeeps
<1> QED
    BY <1>2, <1>3, <1>4

LEMMA SongSent ==
    ASSUME TypeOK, NEW s \in Songs
    PROVE  \A x \in SongEvents :
               /\ Append(songMail[s], x) \in Seq(SongEvents)
               /\ \A e : In(e, Append(songMail[s], x)) <=> In(e, songMail[s]) \/ e = x
               /\ FillFirst(songMail[s]) /\ x # "fill" => FillFirst(Append(songMail[s], x))
<1>1. songMail[s] \in Seq(SongEvents)
    BY DEF TypeOK, SongEvents
<1> QED
    BY <1>1, AppendKeeps

LEMMA SongTaken ==
    ASSUME TypeOK, NEW s \in Songs, songMail[s] # <<>>
    PROVE  /\ Tail(songMail[s]) \in Seq(SongEvents) /\ Head(songMail[s]) \in SongEvents
           /\ \A e : In(e, songMail[s]) <=> e = Head(songMail[s]) \/ In(e, Tail(songMail[s]))
           /\ FillFirst(songMail[s]) => /\ FillFirst(Tail(songMail[s]))
                                        /\ ~In("fill", Tail(songMail[s]))
           /\ \A x \in SongEvents :
                  LET r == [songMail[s] EXCEPT ![1] = x]
                  IN  /\ r \in Seq(SongEvents)
                      /\ \A e : In(e, r) <=> e = x \/ In(e, Tail(songMail[s]))
                      /\ FillFirst(songMail[s]) => FillFirst(r)
<1>1. songMail[s] \in Seq(SongEvents)
    BY DEF TypeOK, SongEvents
<1> DEFINE q == songMail[s]
<1>2. q \in Seq(SongEvents) /\ q # <<>>
    BY <1>1
<1> HIDE DEF q
<1>3. /\ Tail(q) \in Seq(SongEvents) /\ Head(q) \in SongEvents
      /\ \A e : In(e, q) <=> e = Head(q) \/ In(e, Tail(q))
      /\ FillFirst(q) => FillFirst(Tail(q)) /\ ~In("fill", Tail(q))
    BY <1>2, TailKeeps
<1>4. \A x \in SongEvents :
          LET r == [q EXCEPT ![1] = x]
          IN  /\ r \in Seq(SongEvents)
              /\ \A e : In(e, r) <=> e = x \/ In(e, Tail(q))
              /\ FillFirst(q) => FillFirst(r)
    BY <1>2, HeadKeeps
<1> QED
    BY <1>3, <1>4 DEF q

-------------------------------------------------------------------------------
(* Type correctness. *)

Kinds == {"pending", "flight", "meta", "ready", "gone"}

LEMMA RowsKeep ==
    ASSUME TypeOK
    PROVE  /\ \A s \in Songs, to \in Kinds :
                  songs[s] # None => [songs EXCEPT ![s].status = to] \in [Songs -> Row]
           /\ \A s \in Songs : songs[s] = None <=> songs[s].status = "none"
           /\ \A S \in SUBSET Songs : /\ Without(S, songs) \in [Songs -> Row]
                                       /\ WithNew(songs, S) \in [Songs -> Row]
           /\ \A S \in SUBSET InFlight : BackToMeta(S) \in [Songs -> Row]
           /\ \A S \in SUBSET InFlight : \A T \in SUBSET Songs :
                  Without(T, BackToMeta(S)) \in [Songs -> Row]
           /\ \A A \in SUBSET {s \in Songs : songs[s] # None} :
                  [s \in Songs |-> [songs[s] EXCEPT !.ahead = s \in A]] \in [Songs -> Row]
           /\ [s \in Songs |-> [songs[s] EXCEPT !.fresh = FALSE]] \in [Songs -> Row]
           /\ \A s \in Songs :
                  [songs EXCEPT ![s] = [New EXCEPT !.asked = TRUE]] \in [Songs -> Row]
           /\ [s \in Songs |-> None] \in [Songs -> Row]
<1> DEFINE R == [Songs -> Row]
<1>1. songs \in R
    BY DEF TypeOK
<1>2. \A s \in Songs, to \in Kinds : songs[s] # None => [songs EXCEPT ![s].status = to] \in R
    BY <1>1, RowForms DEF Kinds
<1>3. \A s \in Songs : songs[s] = None <=> songs[s].status = "none"
    BY <1>1, RowForms
<1>4. \A S \in SUBSET Songs : Without(S, songs) \in R /\ WithNew(songs, S) \in R
    BY <1>1, RowForms DEF Without, WithNew
<1>5. \A S \in SUBSET InFlight : BackToMeta(S) \in R
    <2> TAKE S \in SUBSET InFlight
    <2> SUFFICES ASSUME NEW s \in Songs
                 PROVE  s \in S => [songs[s] EXCEPT !.status = "meta"] \in Row
        BY <1>1 DEF BackToMeta
    <2>1. s \in S => songs[s] # None
        BY <1>3 DEF InFlight
    <2> QED
        BY <1>1, <2>1, RowForms
<1>6. \A S \in SUBSET InFlight : \A T \in SUBSET Songs : Without(T, BackToMeta(S)) \in R
    <2> TAKE S \in SUBSET InFlight
    <2> DEFINE rows == BackToMeta(S)
    <2>1. rows \in R
        BY <1>5
    <2> HIDE DEF rows
    <2>2. \A T \in SUBSET Songs : Without(T, rows) \in R
        BY <2>1, RowForms DEF Without
    <2> QED
        BY <2>2 DEF rows
<1>7. \A A \in SUBSET {s \in Songs : songs[s] # None} :
          [s \in Songs |-> [songs[s] EXCEPT !.ahead = s \in A]] \in R
    <2> TAKE A \in SUBSET {s \in Songs : songs[s] # None}
    <2> SUFFICES ASSUME NEW s \in Songs
                 PROVE  [songs[s] EXCEPT !.ahead = s \in A] \in Row
        OBVIOUS
    <2>1. CASE s \in A
        <3>1. songs[s] # None /\ songs[s] \in Row
            BY <1>1, <2>1
        <3>2. [songs[s] EXCEPT !.ahead = TRUE] \in Row
            BY <3>1, AheadForm
        <3>3. (s \in A) = TRUE
            BY <2>1
        <3> QED
            BY <3>2, <3>3
    <2>2. CASE s \notin A
        <3>1. songs[s] \in Row
            BY <1>1
        <3>2. [songs[s] EXCEPT !.ahead = FALSE] \in Row
            BY <3>1, AheadForm
        <3>3. (s \in A) = FALSE
            BY <2>2
        <3> QED
            BY <3>2, <3>3
    <2> QED
        BY <2>1, <2>2
<1>8. [s \in Songs |-> [songs[s] EXCEPT !.fresh = FALSE]] \in R
    BY <1>1, RowForms
<1>9. \A s \in Songs : [songs EXCEPT ![s] = [New EXCEPT !.asked = TRUE]] \in R
    BY <1>1, RowForms
<1>10. [s \in Songs |-> None] \in R
    BY RowForms
<1> QED
    BY <1>2, <1>3, <1>4, <1>5, <1>6, <1>7, <1>8, <1>9, <1>10

LEMMA BecomesKeepsType ==
    ASSUME TypeOK, NEW rows \in [Songs -> Row], Becomes(rows)
    PROVE  songs' \in [Songs -> Row] /\ lost' \in 0..BufferSize
<1> DEFINE gone == {s \in Songs : Counts(songs[s]) /\ ~Counts(rows[s])}
<1>1. Cardinality(gone) \in Nat
    BY Sizes
<1>2. lost \in 0..BufferSize
    BY DEF TypeOK
<1> HIDE DEF gone
<1>3. /\ songs' = rows
      /\ lost' = LET n == lost + Cardinality(gone) IN IF n > BufferSize THEN BufferSize ELSE n
    BY DEF Becomes, gone
<1> QED
    BY <1>1, <1>2, <1>3, BoundsAssumption

LEMMA WantedType ==
    ASSUME TypeOK
    PROVE  Wanted(songs) \in Dues /\ NoDue \in Dues
<1>1. Deficit(songs) \in 0..BufferSize
    BY Counted
<1>2. 1 \in 0..BufferSize /\ 0 \in 0..BufferSize
    BY BoundsAssumption
<1> HIDE DEF Deficit
<1>3. (mode = "oneshot" /\ NoneInFlight(songs) /\ Total(songs) > 0) \in BOOLEAN
    OBVIOUS
<1> QED
    BY <1>1, <1>2, <1>3 DEF Wanted, Dues, NoDue

LEMMA StartCheckType ==
    ASSUME TypeOK, NEW who \in Checkers, StartCheck(who)
    PROVE  lock' \in Checkers /\ due' \in [Checkers -> Dues] /\ lost' \in 0..BufferSize
<1>1. due \in [Checkers -> Dues] /\ lost \in 0..BufferSize /\ 0 \in 0..BufferSize
    BY BoundsAssumption DEF TypeOK, Dues
<1> QED
    BY <1>1, WantedType DEF StartCheck

LEMMA EndCheckType ==
    ASSUME TypeOK, NEW who \in Checkers, NEW rest \in Seq(Events),
           NEW box \in [Songs -> Seq(SongEvents)], EndCheck(who, rest, box)
    PROVE  /\ songs' \in [Songs -> Row] /\ songMail' \in [Songs -> Seq(SongEvents)]
           /\ status' \in {"active", "closing", "closed", "deleted"} /\ mail' \in Seq(Events)
           /\ lock' = "free" /\ due' \in [Checkers -> Dues]
<1>1. due \in [Checkers -> Dues]
      /\ status \in {"active", "closing", "closed", "deleted"}
    BY DEF TypeOK, Dues
<1>2. PICK S \in SUBSET {s \in Songs : Spare(s)} :
          songs' = WithNew(songs, S) /\ songMail' = WithCreated(box, S)
    BY DEF EndCheck
<1>3. songs' \in [Songs -> Row]
    BY <1>2, RowsKeep
<1>4. \A s \in Songs : Append(box[s], "created") \in Seq(SongEvents)
    BY AppendProperties DEF SongEvents
<1>5. songMail' \in [Songs -> Seq(SongEvents)]
    BY <1>2, <1>4 DEF WithCreated
<1>6. Append(rest, "closing") \in Seq(Events)
    BY AppendProperties DEF Events
<1>7. status' \in {"active", "closing", "closed", "deleted"} /\ mail' \in Seq(Events)
    BY <1>1, <1>6 DEF EndCheck, CloseOneshot
<1> QED
    BY <1>1, <1>3, <1>5, <1>7, WantedType DEF EndCheck

LEMMA SpawnType ==
    ASSUME TypeOK, SpawnActionable
    PROVE  worker' \in [Songs -> {"none", "new", "busy"}] /\ seen' \in BOOLEAN
BY DEF TypeOK, SpawnActionable, Spawned

LEMMA ClosedByHandlerType ==
    ASSUME ClosedByHandler
    PROVE  worker' \in [Songs -> {"none", "new", "busy"}] /\ timer' \in BOOLEAN /\ seen' \in BOOLEAN
BY DEF ClosedByHandler

LEMMA StopsType ==
    ASSUME TypeOK, StopsActor
    PROVE  mail' \in Seq(Events)
<1>1. mail \in Seq(Events)
    BY DEF TypeOK
<1>2. PICK n \in 1..Len(mail) : mail' = SubSeq(mail, n + 1, Len(mail))
    BY DEF StopsActor
<1> QED
    BY <1>1, <1>2, DropKeeps

\* Two events are sent, the first event of an actor, no event.
LEMMA TwoSent ==
    ASSUME TypeOK, NEW x \in Events, NEW y \in Events
    PROVE  /\ mail \o <<x, y>> = Append(Append(mail, x), y)
           /\ mail \o <<x, y>> \in Seq(Events)
<1>1. mail \in Seq(Events)
    BY DEF TypeOK
<1> QED
    BY <1>1, TwoKeep, AppendKeeps

LEMMA EmptySeqs == <<>> \in Seq(Events) /\ <<>> \in Seq(SongEvents)
OBVIOUS

LEMMA CreatedBox == <<"created">> \in Seq(SongEvents)
BY DEF SongEvents

\* A room adds its songs under spare names.
LEMMA PrimeEffect ==
    ASSUME TypeOK, NEW S \in SUBSET Songs, PrimeRoom(S)
    PROVE  /\ S \in SUBSET {s \in Songs : Spare(s)}
           /\ songs' = WithNew(songs, S) /\ songs' \in [Songs -> Row]
           /\ \A s \in Songs : songs'[s] = IF s \in S THEN New ELSE songs[s]
           /\ \A s \in S : songMail[s] = <<>> /\ worker[s] = "none"
           /\ \A s \in Songs : songMail'[s] = IF s \in S THEN <<"created">> ELSE songMail[s]
           /\ songMail' \in [Songs -> Seq(SongEvents)]
<1>1. /\ S \in SUBSET {s \in Songs : Spare(s)}
      /\ songs' = WithNew(songs, S) /\ songMail' = WithCreated(songMail, S)
    BY DEF PrimeRoom
<1>2. \A s \in S : songMail[s] = <<>> /\ worker[s] = "none"
    BY <1>1 DEF Spare
<1>3. Append(<<>>, "created") = <<"created">>
    OBVIOUS
<1>4. \A s \in Songs : songMail'[s] = IF s \in S THEN <<"created">> ELSE songMail[s]
    BY <1>1, <1>2, <1>3 DEF WithCreated
<1>5. songMail' \in [Songs -> Seq(SongEvents)]
    BY <1>1, <1>2, <1>3, CreatedBox DEF WithCreated, TypeOK, SongEvents
<1>6. songs' \in [Songs -> Row]
    BY <1>1, RowsKeep
<1> QED
    BY <1>1, <1>2, <1>4, <1>5, <1>6 DEF WithNew

\* A check that reads the numbers, or has created its songs, counts anew what rooms add.
LEMMA PrimedStep ==
    ASSUME [Next]_vars
    PROVE  \/ primed' = primed
           \/ \E who \in Checkers : StartCheck(who)
           \/ /\ primed' = FALSE
              /\ \E who \in Checkers :
                     /\ due' = [due EXCEPT ![who] = NoDue]
                     /\ IF who = "playlist" THEN mail # <<>> /\ Head(mail) = "fill"
                        ELSE songMail[who] # <<>> /\ Head(songMail[who]) = "fill"
           \/ primed' = (primed \/ lock # "free")
<1> DEFINE Said == \/ primed' = primed
                   \/ \E who \in Checkers : StartCheck(who)
                   \/ /\ primed' = FALSE
                      /\ \E who \in Checkers :
                             /\ due' = [due EXCEPT ![who] = NoDue]
                             /\ IF who = "playlist" THEN mail # <<>> /\ Head(mail) = "fill"
                                ELSE songMail[who] # <<>> /\ Head(songMail[who]) = "fill"
                   \/ primed' = (primed \/ lock # "free")
<1>1. CASE UNCHANGED vars
    BY <1>1 DEF vars, history
<1>2. ASSUME NEW s \in Songs, Claim(s) \/ SongReady(s) \/ SongFails(s) \/ SongRetries(s)
                               \/ HandleSongCreated(s) \/ HandleSongSettled(s)
      PROVE  Said
    BY <1>2 DEF Claim, SongReady, SongFails, SongRetries, HandleSongCreated, HandleSongSettled,
        history
<1>3. ASSUME NEW s \in Songs, HandleSongReady(s)
      PROVE  Said
    BY <1>3 DEF HandleSongReady, Checkers
<1>4. ASSUME NEW s \in Songs, FillBySong(s)
      PROVE  Said
    <2>1. s # "playlist" /\ s \in Checkers
        BY SongsAssumption DEF Checkers
    <2>2. /\ primed' = FALSE /\ due' = [due EXCEPT ![s] = NoDue]
          /\ songMail[s] # <<>> /\ Head(songMail[s]) = "fill"
        BY <1>4 DEF FillBySong, EndCheck
    <2> QED
        BY <2>1, <2>2
<1>5. CASE HandleCreated \/ HandleSteered \/ HandleHeartbeat \/ HandleUpdated \/ HandleClosing
           \/ HandleClosed \/ HandleDeleted \/ HandleReopened
    BY <1>5 DEF HandleCreated, HandleSteered, HandleHeartbeat, HandleUpdated, HandleClosing,
        HandleClosed, HandleDeleted, HandleReopened, history
<1>6. CASE CheckByPlaylist
    BY <1>6 DEF CheckByPlaylist, Checkers
<1>7. CASE FillByPlaylist
    <2>1. "playlist" \in Checkers
        BY DEF Checkers
    <2>2. /\ primed' = FALSE /\ due' = [due EXCEPT !["playlist"] = NoDue]
          /\ mail # <<>> /\ Head(mail) = "fill"
        BY <1>7 DEF FillByPlaylist, EndCheck, Next1
    <2> QED
        BY <2>1, <2>2
<1>8. CASE Users
    BY <1>8 DEF Users, Heartbeat, Leave, SetStatus, DeletePlaylist, UpdatePosition, Steer,
        AskSong, DeleteSong, AskQuestion, AnswerQuestion, history
<1>9. CASE FinishPlanning \/ TimerFires \/ (\E S \in SUBSET Songs : StaleCleanup(S)) \/ Crash \/ Sweep
    BY <1>9 DEF FinishPlanning, TimerFires, StaleCleanup, Crash, Sweep, history
<1>10. CASE \E S \in SUBSET Songs : PrimeRoom(S)
    BY <1>10 DEF PrimeRoom
<1> HIDE DEF Said
<1>11. Said
    BY <1>1, <1>2, <1>3, <1>4, <1>5, <1>6, <1>7, <1>8, <1>9, <1>10
       DEF Next, HandlePlaylist, HandleSong, Said
<1> QED
    BY <1>11 DEF Said

LEMMA PrimedType ==
    ASSUME TypeOK, [Next]_vars
    PROVE  primed' \in BOOLEAN
<1>1. primed \in BOOLEAN
    BY Listed
<1>2. ASSUME NEW who \in Checkers, StartCheck(who)
      PROVE  primed' \in BOOLEAN
    BY <1>2 DEF StartCheck
<1> QED
    BY <1>1, <1>2, PrimedStep

LEMMA TypeStep ==
    ASSUME TypeOK, [Next]_vars
    PROVE  TypeOK'
<1> SUFFICES TypeList'
    BY PrimedType DEF TypeOK, TypeList, SongEvents, Dues
<1>0. TypeList /\ TypeOK
    BY Listed
<1> USE DEF Dues
<1>1. ASSUME NEW s \in Songs, Claim(s)
      PROVE  TypeList'
    <2>1. worker' \in [Songs -> {"none", "new", "busy"}]
        BY <1>1, <1>0 DEF TypeList, Claim
    <2>2. Actionable(s) => songs[s] # None
        BY <1>1, <1>0, RowsKeep DEF Actionable
    <2>3. Actionable(s) => /\ [songs EXCEPT ![s].status = "pending"] \in [Songs -> Row]
                            /\ [songs EXCEPT ![s].status = "flight"] \in [Songs -> Row]
        BY <1>1, <1>0, <2>2, RowsKeep DEF Kinds
    <2>4. songs[s].status \in {"pending", "flight"} => Actionable(s)
        BY <1>1, <1>0 DEF Actionable
    <2>5. songs' \in [Songs -> Row]
        BY <1>1, <1>0, <2>3, <2>4 DEF TypeList, Claim
    <2> QED
        BY <1>0, <1>1, <2>1, <2>2, <2>3, <2>4, <2>5
           DEF TypeList, Claim, actors, surroundings, history
<1>2. ASSUME NEW s \in Songs, SongReady(s)
      PROVE  TypeList'
    <2>1. worker' \in [Songs -> {"none", "new", "busy"}]
        BY <1>2, <1>0 DEF TypeList, SongReady
    <2>2. songs[s] # None => [songs EXCEPT ![s].status = "ready"] \in [Songs -> Row]
        BY <1>2, <1>0, RowsKeep DEF Kinds
    <2>3. songs' \in [Songs -> Row]
        BY <1>2, <1>0, <2>2 DEF TypeList, SongReady
    <2>4. songMail' \in [Songs -> Seq(SongEvents)]
        BY <1>2, <1>0, SongSent DEF TypeList, SongReady, SongEvents
    <2>5. mail' \in Seq(Events)
        BY <1>2, <1>0, Sent DEF SongReady, Events
    <2> QED
        BY <1>0, <1>2, <2>1, <2>2, <2>3, <2>4, <2>5
           DEF TypeList, SongReady, actors, surroundings, history
<1>3. ASSUME NEW s \in Songs, SongFails(s)
      PROVE  TypeList'
    <2>1. worker' \in [Songs -> {"none", "new", "busy"}]
        BY <1>3, <1>0 DEF TypeList, SongFails
    <2>2. songs' \in [Songs -> Row] /\ lost' \in 0..BufferSize
        BY <1>3, <1>0, RowsKeep, BecomesKeepsType DEF TypeList, SongFails, Kinds
    <2>3. songMail' \in [Songs -> Seq(SongEvents)]
        BY <1>3, <1>0, SongSent DEF TypeList, SongFails, SongEvents
    <2> QED
        BY <1>0, <1>3, <2>1, <2>2, <2>3 DEF TypeList, SongFails, actors, surroundings, history
<1>4. ASSUME NEW s \in Songs, SongRetries(s)
      PROVE  TypeList'
    <2>1. worker' \in [Songs -> {"none", "new", "busy"}]
        BY <1>4, <1>0 DEF TypeList, SongRetries
    <2>2. songs[s] # None
        BY <1>4, <1>0, RowsKeep DEF SongRetries
    <2>3. \A to \in Kinds : [songs EXCEPT ![s].status = to] \in [Songs -> Row]
        BY <1>4, <1>0, <2>2, RowsKeep DEF Kinds
    <2>4. songs' \in [Songs -> Row]
        BY <1>4, <2>3 DEF SongRetries, Kinds
    <2> QED
        BY <1>0, <1>4, <2>1, <2>2, <2>3, <2>4
           DEF TypeList, SongRetries, actors, surroundings, history
<1>5. ASSUME NEW s \in Songs, HandleSongCreated(s)
      PROVE  TypeList'
    <2>1. worker' \in [Songs -> {"none", "new", "busy"}]
        BY <1>5, <1>0 DEF TypeList, HandleSongCreated, Spawned
    <2>2. songMail' \in [Songs -> Seq(SongEvents)]
        BY <1>5, <1>0, SongTaken DEF TypeList, HandleSongCreated
    <2>3. UNCHANGED <<mode, status, songs, mail, lock, due, seen, timer, surroundings, history>>
        BY <1>5 DEF HandleSongCreated
    <2>4. UNCHANGED <<phase, planning, question, present, crashes, wish, lost, vanished, belated>>
        BY <2>3 DEF surroundings, history
    <2> QED
        BY <1>0, <2>1, <2>2, <2>3, <2>4 DEF TypeList
<1>6. ASSUME NEW s \in Songs, HandleSongReady(s)
      PROVE  TypeList'
    <2>1. lock' \in Checkers \cup {"free"} /\ due' \in [Checkers -> Dues] /\ lost' \in 0..BufferSize
        BY <1>6, <1>0, StartCheckType DEF TypeList, HandleSongReady, Checkers
    <2>2. songMail' \in [Songs -> Seq(SongEvents)]
        BY <1>6, <1>0, SongTaken DEF TypeList, HandleSongReady, SongEvents
    <2> QED
        BY <1>0, <1>6, <2>1, <2>2 DEF TypeList, HandleSongReady, actors, surroundings, history
<1>7. ASSUME NEW s \in Songs, FillBySong(s)
      PROVE  TypeList'
    <2>1. [songMail EXCEPT ![s][1] = "settled"] \in [Songs -> Seq(SongEvents)]
        BY <1>7, <1>0, SongTaken DEF TypeList, FillBySong, SongEvents
    <2>2. /\ songs' \in [Songs -> Row] /\ songMail' \in [Songs -> Seq(SongEvents)]
          /\ status' \in {"active", "closing", "closed", "deleted"} /\ mail' \in Seq(Events)
          /\ lock' = "free" /\ due' \in [Checkers -> Dues]
        BY <1>7, <1>0, <2>1, EndCheckType DEF TypeList, FillBySong, Checkers
    <2> QED
        BY <1>0, <1>7, <2>1, <2>2 DEF TypeList, FillBySong, actors, surroundings, history
<1>8. ASSUME NEW s \in Songs, HandleSongSettled(s)
      PROVE  TypeList'
    <2>1. songMail' \in [Songs -> Seq(SongEvents)]
        BY <1>8, <1>0, SongTaken DEF TypeList, HandleSongSettled
    <2>2. /\ mail' \in Seq(Events) /\ worker' \in [Songs -> {"none", "new", "busy"}]
          /\ seen' \in BOOLEAN /\ timer' \in BOOLEAN /\ status' \in {"active", "closing", "closed", "deleted"}
        BY <1>8, <1>0, Sent, ClosedByHandlerType DEF TypeList, HandleSongSettled, Events
    <2> QED
        BY <1>0, <1>8, <2>1, <2>2 DEF TypeList, HandleSongSettled, actors, surroundings, history
<1>9. CASE HandleCreated
    <2>1. mail' \in Seq(Events)
        BY <1>9, <1>0, Taken DEF HandleCreated, Next1, ThenCheck, Events
    <2>2. seen' \in BOOLEAN /\ timer' \in BOOLEAN
        BY <1>9, <1>0 DEF TypeList, HandleCreated
    <2>3. UNCHANGED <<mode, status, songs, worker, songMail, lock, due, surroundings, history>>
        BY <1>9 DEF HandleCreated
    <2>4. UNCHANGED <<phase, planning, question, present, crashes, wish, lost, vanished, belated>>
        BY <2>3 DEF surroundings, history
    <2> QED
        BY <1>0, <2>1, <2>2, <2>3, <2>4 DEF TypeList
<1>10. CASE HandleSteered
    <2>1. mail' \in Seq(Events)
        BY <1>10, <1>0, Taken DEF HandleSteered, Next1, ThenCheck, Events
    <2>2. songs' \in [Songs -> Row]
        BY <1>10, <1>0, RowsKeep DEF TypeList, HandleSteered, OldPending
    <2>3. worker' \in [Songs -> {"none", "new", "busy"}]
        BY <1>10, <1>0 DEF TypeList, HandleSteered
    <2>4. vanished' \in BOOLEAN
        BY <1>10, <1>0 DEF TypeList, HandleSteered, Vanishes
    <2> QED
        BY <1>0, <1>10, <2>1, <2>2, <2>3, <2>4
           DEF TypeList, HandleSteered, Vanishes, actors, surroundings, history
<1>11. CASE HandleHeartbeat
    <2>1. mail' \in Seq(Events)
        BY <1>11, <1>0, Taken DEF HandleHeartbeat, Next1
    <2> QED
        BY <1>0, <1>11, <2>1 DEF TypeList, HandleHeartbeat, actors, surroundings, history
<1>12. CASE HandleUpdated
    <2>1. mail' \in Seq(Events)
        BY <1>12, <1>0, Taken DEF HandleUpdated, Next1, ThenCheck, Events
    <2> QED
        BY <1>0, <1>12, <2>1, SpawnType
           DEF TypeList, HandleUpdated, actors, surroundings, history
<1>13. CASE HandleClosing
    <2>1. mail' \in Seq(Events)
        BY <1>13, <1>0, Taken DEF HandleClosing, Next1, Events
    <2>2. worker' \in [Songs -> {"none", "new", "busy"}] /\ seen' \in BOOLEAN /\ timer' \in BOOLEAN
        BY <1>13, <1>0, SpawnType, ClosedByHandlerType DEF TypeList, HandleClosing
    <2>3. status' \in {"active", "closing", "closed", "deleted"}
        BY <1>13, <1>0 DEF TypeList, HandleClosing
    <2> QED
        BY <1>0, <1>13, <2>1, <2>2, <2>3
           DEF TypeList, HandleClosing, actors, surroundings, history
<1>14. CASE HandleClosed
    BY <1>0, <1>14, StopsType, ClosedByHandlerType
       DEF TypeList, HandleClosed, actors, surroundings, history
<1>15. CASE HandleDeleted
    BY <1>0, <1>15, StopsType, ClosedByHandlerType
       DEF TypeList, HandleDeleted, actors, surroundings, history
<1>16. CASE HandleReopened
    <2>1. mail' \in Seq(Events)
        BY <1>16, <1>0, Taken DEF HandleReopened, Next1, ThenCheck, Events
    <2> QED
        BY <1>0, <1>16, <2>1, SpawnType
           DEF TypeList, HandleReopened, actors, surroundings, history
<1>17. CASE CheckByPlaylist
    <2>1. mail' \in Seq(Events)
        BY <1>17, <1>0, Taken DEF CheckByPlaylist, Next1, Events
    <2>2. lock' \in Checkers \cup {"free"} /\ due' \in [Checkers -> Dues] /\ lost' \in 0..BufferSize
        BY <1>17, <1>0, StartCheckType DEF TypeList, CheckByPlaylist, Checkers
    <2> QED
        BY <1>0, <1>17, <2>1, <2>2 DEF TypeList, CheckByPlaylist, actors, surroundings, history
<1>18. CASE FillByPlaylist
    <2>1. /\ songs' \in [Songs -> Row] /\ songMail' \in [Songs -> Seq(SongEvents)]
          /\ status' \in {"active", "closing", "closed", "deleted"} /\ mail' \in Seq(Events)
          /\ lock' = "free" /\ due' \in [Checkers -> Dues]
        BY <1>18, <1>0, Taken, EndCheckType DEF TypeList, FillByPlaylist, Next1, Checkers
    <2> QED
        BY <1>0, <1>18, <2>1 DEF TypeList, FillByPlaylist, actors, surroundings, history
<1>19. CASE Heartbeat
    <2>1. mail' \in Seq(Events)
        <3>1. /\ "heartbeat" \in Events /\ "reopened" \in Events
              /\ \/ mail' = mail \o <<"heartbeat", "reopened">>
                 \/ mail' = Append(mail, "heartbeat")
            BY <1>19 DEF Heartbeat, Events
        <3> QED
            BY <3>1, Sent, TwoSent
    <2> QED
        BY <1>0, <1>19, <2>1 DEF TypeList, Heartbeat, Late, actors, surroundings, history
<1>20. CASE Leave
    <2>1. UNCHANGED <<mode, status, songs, worker, mail, songMail, lock, due, seen, timer>>
        BY <1>20 DEF Leave, actors
    <2>2. UNCHANGED <<phase, planning, question, crashes, wish, lost, vanished, belated>>
        BY <1>20 DEF Leave, history
    <2>3. present' \in BOOLEAN
        BY <1>20, Zenon DEF Leave
    <2> QED
        BY <1>0, <2>1, <2>2, <2>3 DEF TypeList
<1>21. ASSUME NEW to \in {"active", "closing", "closed"}, SetStatus(to)
      PROVE  TypeList'
    <2>1. mail' \in Seq(Events)
        BY <1>21, <1>0, Sent DEF SetStatus, Events
    <2> QED
        BY <1>0, <1>21, <2>1 DEF TypeList, SetStatus, Late, actors, surroundings, history
<1>22. CASE DeletePlaylist
    <2>1. mail' \in Seq(Events)
        BY <1>22, <1>0, Sent DEF DeletePlaylist, Events
    <2>2. songs' \in [Songs -> Row]
        BY <1>22, <1>0, RowsKeep DEF DeletePlaylist
    <2> QED
        BY <1>0, <1>22, <2>1, <2>2
           DEF TypeList, DeletePlaylist, Late, actors, surroundings, history
<1>23. ASSUME NEW A \in SUBSET Songs, UpdatePosition(A)
      PROVE  TypeList'
    <2>1. mail' \in Seq(Events)
        BY <1>23, <1>0, Sent DEF UpdatePosition, Events
    <2>2. songs' \in [Songs -> Row]
        BY <1>23, <1>0, RowsKeep DEF UpdatePosition
    <2> QED
        BY <1>0, <1>23, <2>1, <2>2
           DEF TypeList, UpdatePosition, Late, actors, surroundings, history
<1>24. CASE Steer
    <2>1. mail' \in Seq(Events)
        BY <1>24, <1>0, Sent DEF Steer, Events
    <2>2. songs' \in [Songs -> Row]
        BY <1>24, <1>0, RowsKeep DEF Steer
    <2> QED
        BY <1>0, <1>24, <2>1, <2>2 DEF TypeList, Steer, Late, actors, surroundings, history
<1>25. ASSUME NEW s \in Songs, AskSong(s)
      PROVE  TypeList'
    <2>1. songs' \in [Songs -> Row]
        <3>1. songs' = [songs EXCEPT ![s] = [New EXCEPT !.asked = TRUE]]
            BY <1>25 DEF AskSong
        <3> QED
            BY <1>0, <3>1, RowForms DEF TypeList
    <2>2. songMail' \in [Songs -> Seq(SongEvents)]
        BY <1>25, <1>0, CreatedBox DEF TypeList, AskSong
    <2>3. UNCHANGED <<mode, status, worker, mail, lock, due, seen, timer, surroundings, history>>
        BY <1>25 DEF AskSong
    <2>4. UNCHANGED <<phase, planning, question, present, crashes, wish, lost, vanished, belated>>
        BY <2>3 DEF surroundings, history
    <2> QED
        BY <1>0, <2>1, <2>2, <2>3, <2>4 DEF TypeList
<1>26. ASSUME NEW s \in Songs, DeleteSong(s)
      PROVE  TypeList'
    <2>1. songs' \in [Songs -> Row] /\ lost' \in 0..BufferSize
        BY <1>26, <1>0, RowsKeep, BecomesKeepsType DEF DeleteSong
    <2> QED
        BY <1>0, <1>26, <2>1 DEF TypeList, DeleteSong, Vanishes, actors, surroundings, history
<1>27. ASSUME NEW S \in SUBSET Songs, StaleCleanup(S)
      PROVE  TypeList'
    <2>1. songs' \in [Songs -> Row] /\ lost' \in 0..BufferSize
        BY <1>27, <1>0, RowsKeep, BecomesKeepsType DEF StaleCleanup
    <2>2. worker' \in [Songs -> {"none", "new", "busy"}]
        BY <1>27, <1>0 DEF TypeList, StaleCleanup
    <2> QED
        BY <1>0, <1>27, <2>1, <2>2
           DEF TypeList, StaleCleanup, Vanishes, actors, surroundings, history
<1>28. CASE AskQuestion
    BY <1>0, <1>28 DEF TypeList, AskQuestion, actors, surroundings, history
<1>29. CASE AnswerQuestion
    <2>1. mail' \in Seq(Events)
        BY <1>29, <1>0, Sent DEF AnswerQuestion, Events
    <2>2. UNCHANGED <<mode, status, songs, worker, songMail, lock, due, seen, timer, phase, planning,
                      present, crashes, wish, lost, vanished>>
        BY <1>29 DEF AnswerQuestion
    <2>3. question' \in BOOLEAN /\ belated' \in BOOLEAN
        BY <1>0, <1>29, Zenon DEF AnswerQuestion, Late, TypeList
    <2> QED
        BY <1>0, <2>1, <2>2, <2>3 DEF TypeList
<1>30. CASE FinishPlanning
    <2>1. mail' \in Seq(Events)
        BY <1>30, <1>0, Sent DEF FinishPlanning, Events
    <2>2. UNCHANGED <<mode, status, songs, worker, songMail, lock, due, seen, timer, phase,
                      question, present, crashes, history>>
        BY <1>30 DEF FinishPlanning
    <2>3. planning' \in BOOLEAN /\ UNCHANGED <<wish, lost, vanished, belated>>
        BY <1>30, <2>2, Zenon DEF FinishPlanning, history
    <2> QED
        BY <1>0, <2>1, <2>2, <2>3 DEF TypeList
<1>31. CASE TimerFires
    <2>1. mail' \in Seq(Events)
        BY <1>31, <1>0, Sent DEF TypeList, TimerFires, Events
    <2>2. UNCHANGED <<mode, songs, worker, songMail, lock, due, seen, surroundings, history>>
        BY <1>31 DEF TimerFires
    <2>3. UNCHANGED <<phase, planning, question, present, crashes, wish, lost, vanished, belated>>
        BY <2>2 DEF surroundings, history
    <2>4. timer' \in BOOLEAN /\ status' \in {status, "closing"}
        BY <1>31, Zenon DEF TimerFires
    <2> QED
        BY <1>0, <2>1, <2>2, <2>3, <2>4 DEF TypeList
<1>32. CASE Crash
    <2>1. due' \in [Checkers -> Dues]
        BY <1>32, WantedType DEF Crash
    <2>2. mail' \in Seq(Events) /\ songMail' \in [Songs -> Seq(SongEvents)]
        BY <1>32, EmptySeqs DEF Crash
    <2>3. crashes' \in 0..MaxCrashes
        BY <1>32, <1>0, BoundsAssumption DEF TypeList, Crash
    <2> QED
        BY <1>0, <1>32, <2>1, <2>2, <2>3 DEF TypeList, Crash, actors, surroundings, history
<1>33. CASE Sweep
    <2>1. CASE ~Open
        BY <1>0, <1>33, <2>1 DEF TypeList, Sweep
    <2>2. CASE Open
        <3>1. PICK reverted \in SUBSET InFlight : \E stale \in SUBSET (InFlight \ reverted) :
                  /\ Becomes(Without(stale, BackToMeta(reverted)))
                  /\ worker' = [s \in Songs |-> IF s \notin stale /\ Actionable(s)
                                                THEN "new" ELSE "none"]
                  /\ status' = IF SweepCloses(BackToMeta(reverted)) THEN "closed" ELSE status
                  /\ mail' = IF SweepCloses(BackToMeta(reverted)) THEN Append(mail, "closed")
                             ELSE IF status = "active" THEN <<"check">> \o mail ELSE mail
                  /\ seen' = TRUE
                  /\ timer' = (status = "active")
                  /\ Vanishes(stale)
            BY <1>33, <2>2 DEF Sweep
        <3>2. PICK stale \in SUBSET (InFlight \ reverted) :
                  /\ Becomes(Without(stale, BackToMeta(reverted)))
                  /\ worker' = [s \in Songs |-> IF s \notin stale /\ Actionable(s)
                                                THEN "new" ELSE "none"]
                  /\ status' = IF SweepCloses(BackToMeta(reverted)) THEN "closed" ELSE status
                  /\ mail' = IF SweepCloses(BackToMeta(reverted)) THEN Append(mail, "closed")
                             ELSE IF status = "active" THEN <<"check">> \o mail ELSE mail
                  /\ seen' = TRUE
                  /\ timer' = (status = "active")
                  /\ Vanishes(stale)
            BY <3>1
        <3>3. songs' \in [Songs -> Row] /\ lost' \in 0..BufferSize
            <4>1. stale \in SUBSET Songs
                BY DEF InFlight
            <4> QED
                BY <1>0, <3>2, <4>1, RowsKeep, BecomesKeepsType
        <3>4. worker' \in [Songs -> {"none", "new", "busy"}] /\ vanished' \in BOOLEAN
            BY <1>0, <3>2 DEF TypeList, Vanishes
        <3>5. mail' \in Seq(Events)
            <4>1. mail \in Seq(Events) /\ "check" \in Events /\ "closed" \in Events
                BY <1>0 DEF TypeList, Events
            <4>2. Append(mail, "closed") \in Seq(Events) /\ <<"check">> \o mail \in Seq(Events)
                BY <4>1, AppendKeeps, BeforeKeeps
            <4> QED
                BY <3>2, <4>1, <4>2
        <3>6. status' \in {"active", "closing", "closed", "deleted"} /\ seen' \in BOOLEAN
              /\ timer' \in BOOLEAN
            BY <1>0, <3>2 DEF TypeList
        <3> QED
            BY <1>0, <1>33, <3>3, <3>4, <3>5, <3>6 DEF TypeList, Sweep
    <2> QED
        BY <2>1, <2>2
<1>34. CASE UNCHANGED vars
    BY <1>0, <1>34 DEF TypeList, vars, actors, surroundings, history
<1>35. ASSUME NEW S \in SUBSET Songs, PrimeRoom(S)
      PROVE  TypeList'
    <2>1. songs' \in [Songs -> Row] /\ songMail' \in [Songs -> Seq(SongEvents)]
        BY <1>35, PrimeEffect
    <2>2. UNCHANGED <<mode, status, worker, mail, lock, due, seen, timer, surroundings, wish,
                      lost, vanished, belated>>
        BY <1>35 DEF PrimeRoom
    <2> QED
        BY <1>0, <2>1, <2>2 DEF TypeList, surroundings
<1> QED
    BY <1>1, <1>2, <1>3, <1>4, <1>5, <1>6, <1>7, <1>8, <1>9, <1>10, <1>11, <1>12, <1>13,
       <1>14, <1>15, <1>16, <1>17, <1>18, <1>19, <1>20, <1>21, <1>22, <1>23, <1>24, <1>25, <1>26, <1>27, <1>28, <1>29, <1>30, <1>31, <1>32, <1>33, <1>34, <1>35
        DEF Next, Users, HandlePlaylist, HandleSong

-------------------------------------------------------------------------------
(* What the longer steps do, song by song. *)

LEMMA EndCheckEffect ==
    ASSUME TypeOK, NEW who \in Checkers, NEW rest, NEW box, EndCheck(who, rest, box)
    PROVE  \E S \in SUBSET {s \in Songs : Spare(s)} :
               /\ songs' = WithNew(songs, S) /\ songMail' = WithCreated(box, S)
               /\ Cardinality(S) = IF status = "deleted" THEN 0 ELSE due[who].create
               /\ status = "deleted" => S = {}
               /\ \A s \in Songs : songs'[s] = IF s \in S THEN New ELSE songs[s]
               /\ \A s \in Songs : songMail'[s] = IF s \in S THEN Append(box[s], "created")
                                                  ELSE box[s]
<1>1. PICK S \in SUBSET {s \in Songs : Spare(s)} :
          /\ Cardinality(S) = IF status = "deleted" THEN 0 ELSE due[who].create
          /\ songs' = WithNew(songs, S)
          /\ songMail' = WithCreated(box, S)
    BY DEF EndCheck
<1>2. IsFiniteSet(S)
    BY Sizes
<1>3. status = "deleted" => S = {}
    BY <1>1, <1>2, FS_EmptySet
<1>4. /\ \A s \in Songs : songs'[s] = IF s \in S THEN New ELSE songs[s]
      /\ \A s \in Songs : songMail'[s] = IF s \in S THEN Append(box[s], "created") ELSE box[s]
    BY <1>1 DEF WithNew, WithCreated
<1> QED
    BY <1>1, <1>3, <1>4

LEMMA CloseOneshotEffect ==
    ASSUME NEW who, NEW rest, CloseOneshot(who, rest)
    PROVE  \/ status' = status /\ mail' = rest
           \/ due[who].close /\ status = "active" /\ status' = "closing"
              /\ mail' = Append(rest, "closing")
BY DEF CloseOneshot

LEMMA SweepEffect ==
    ASSUME TypeOK, Sweep, Open
    PROVE  \E reverted \in SUBSET InFlight : \E stale \in SUBSET (InFlight \ reverted) :
               /\ Becomes(Without(stale, BackToMeta(reverted)))
               /\ worker' = [s \in Songs |-> IF s \notin stale /\ Actionable(s)
                                             THEN "new" ELSE "none"]
               /\ status' = IF SweepCloses(BackToMeta(reverted)) THEN "closed" ELSE status
               /\ mail' = IF SweepCloses(BackToMeta(reverted)) THEN Append(mail, "closed")
                          ELSE IF status = "active" THEN <<"check">> \o mail ELSE mail
               /\ Vanishes(stale)
               /\ \A s \in Songs :
                      /\ BackToMeta(reverted)[s] = IF s \in reverted
                                                   THEN [songs[s] EXCEPT !.status = "meta"]
                                                   ELSE songs[s]
                      /\ songs'[s] = IF s \in stale THEN None
                                     ELSE IF s \in reverted
                                     THEN [songs[s] EXCEPT !.status = "meta"] ELSE songs[s]
                      /\ s \in reverted => [songs[s] EXCEPT !.status = "meta"].status = "meta"
<1>1. PICK reverted \in SUBSET InFlight : \E stale \in SUBSET (InFlight \ reverted) :
          /\ Becomes(Without(stale, BackToMeta(reverted)))
          /\ worker' = [s \in Songs |-> IF s \notin stale /\ Actionable(s) THEN "new" ELSE "none"]
          /\ status' = IF SweepCloses(BackToMeta(reverted)) THEN "closed" ELSE status
          /\ mail' = IF SweepCloses(BackToMeta(reverted)) THEN Append(mail, "closed")
                     ELSE IF status = "active" THEN <<"check">> \o mail ELSE mail
          /\ Vanishes(stale)
    BY DEF Sweep
<1>2. PICK stale \in SUBSET (InFlight \ reverted) :
          /\ Becomes(Without(stale, BackToMeta(reverted)))
          /\ worker' = [s \in Songs |-> IF s \notin stale /\ Actionable(s) THEN "new" ELSE "none"]
          /\ status' = IF SweepCloses(BackToMeta(reverted)) THEN "closed" ELSE status
          /\ mail' = IF SweepCloses(BackToMeta(reverted)) THEN Append(mail, "closed")
                     ELSE IF status = "active" THEN <<"check">> \o mail ELSE mail
          /\ Vanishes(stale)
    BY <1>1
<1>3. songs' = Without(stale, BackToMeta(reverted))
    BY <1>2 DEF Becomes
<1>4. \A s \in Songs : BackToMeta(reverted)[s] = IF s \in reverted
                                                 THEN [songs[s] EXCEPT !.status = "meta"]
                                                 ELSE songs[s]
    BY DEF BackToMeta
<1>5. \A s \in Songs : songs'[s] = IF s \in stale THEN None ELSE BackToMeta(reverted)[s]
    BY <1>3 DEF Without
<1>6. ASSUME NEW s \in reverted PROVE [songs[s] EXCEPT !.status = "meta"].status = "meta"
    <2>1. s \in Songs /\ songs[s] \in Row /\ songs[s] # None
        BY RowsKeep DEF InFlight, TypeOK
    <2> QED
        BY <2>1, StatusForm
<1> WITNESS reverted \in SUBSET InFlight
<1> WITNESS stale \in SUBSET (InFlight \ reverted)
<1>7. ASSUME NEW s \in Songs
      PROVE  songs'[s] = IF s \in stale THEN None
                         ELSE IF s \in reverted
                         THEN [songs[s] EXCEPT !.status = "meta"] ELSE songs[s]
    BY <1>4, <1>5
<1> QED
    BY <1>2, <1>4, <1>6, <1>7

\* updatePosition() and steer() change no song's status, a new status nothing else.
LEMMA StatusEffect ==
    ASSUME TypeOK
    PROVE  /\ \A A : UpdatePosition(A) => \A s \in Songs : songs'[s].status = songs[s].status
           /\ Steer => \A s \in Songs : songs'[s].status = songs[s].status /\ ~songs'[s].fresh
           /\ \A s \in Songs, to \in Kinds :
                  LET rows == [songs EXCEPT ![s].status = to]
                  IN  /\ \A r \in Songs : r # s => rows[r] = songs[r]
                      /\ songs[s] # None =>
                             /\ rows[s].status = to
                             /\ rows[s].ahead = songs[s].ahead /\ rows[s].fresh = songs[s].fresh
<1>1. songs \in [Songs -> Row]
    BY DEF TypeOK
<1>2. \A s \in Songs, to \in Kinds :
          LET rows == [songs EXCEPT ![s].status = to]
          IN  /\ \A r \in Songs : r # s => rows[r] = songs[r]
              /\ songs[s] # None =>
                     /\ rows[s].status = to
                     /\ rows[s].ahead = songs[s].ahead /\ rows[s].fresh = songs[s].fresh
    BY <1>1, RowForms DEF Kinds
<1>3. ASSUME Steer, NEW s \in Songs
      PROVE  songs'[s].status = songs[s].status /\ ~songs'[s].fresh
    <2>1. songs'[s] = [songs[s] EXCEPT !.fresh = FALSE]
        BY <1>3 DEF Steer
    <2> QED
        BY <1>1, <2>1, RowForms
<1>4. ASSUME NEW A, UpdatePosition(A), NEW s \in Songs
      PROVE  songs'[s].status = songs[s].status
    <2>1. songs'[s] = [songs[s] EXCEPT !.ahead = s \in A]
        BY <1>4 DEF UpdatePosition
    <2>2. CASE s \in A
        <3>1. songs[s] # None /\ (s \in A) = TRUE
            BY <1>4, <2>2 DEF UpdatePosition
        <3>2. songs'[s] = [songs[s] EXCEPT !.ahead = TRUE]
            BY <2>1, <3>1
        <3> QED
            BY <1>1, <3>1, <3>2, RowForms
    <2>3. CASE s \notin A
        <3>1. (s \in A) = FALSE
            BY <2>3
        <3>2. songs'[s] = [songs[s] EXCEPT !.ahead = FALSE]
            BY <2>1, <3>1
        <3> QED
            BY <1>1, <3>2, RowForms
    <2> QED
        BY <2>2, <2>3
<1> QED
    BY <1>2, <1>3, <1>4

LEMMA ClaimEffect ==
    ASSUME TypeOK, NEW s \in Songs, Claim(s)
    PROVE  /\ worker[s] = "new"
           /\ \A r \in Songs : r # s => songs'[r] = songs[r] /\ worker'[r] = worker[r]
           /\ \/ ~Open /\ worker'[s] = "none" /\ songs' = songs
              \/ ~Actionable(s) /\ worker'[s] = "none" /\ songs' = songs
              \/ /\ Open /\ question /\ Actionable(s)
                 /\ worker'[s] = "none" /\ songs'[s].status = "pending"
              \/ /\ Open /\ Actionable(s) /\ (songs[s].status = "pending" => ~question)
                 /\ worker'[s] = "busy" /\ songs'[s].status = "flight"
           /\ songs[s].ahead = songs'[s].ahead /\ songs[s].fresh = songs'[s].fresh
           /\ Actionable(s) => songs[s] # None
           /\ UNCHANGED <<mode, status, mail, songMail, lock, due, seen, phase, planning, question,
                          present, wish, lost, vanished, belated>>
<1>0. /\ worker \in [Songs -> {"none", "new", "busy"}] /\ songs \in [Songs -> Row]
      /\ "pending" \in Kinds /\ "flight" \in Kinds
    BY DEF TypeOK, Kinds
<1>1. Actionable(s) => songs[s] # None
    BY RowsKeep DEF Actionable
<1>2. songs[s].status \in {"pending", "flight"} => Actionable(s)
    BY DEF Actionable
<1>3. worker[s] = "new"
    BY DEF Claim
<1>4. UNCHANGED <<mode, status, mail, songMail, lock, due, seen, phase, planning, question,
                  present, wish, lost, vanished, belated>>
    BY DEF Claim, actors, surroundings, history
<1> USE <1>0, <1>1, <1>2, <1>3, <1>4
<1>5. CASE ~Open /\ worker' = [worker EXCEPT ![s] = "none"] /\ songs' = songs
    BY <1>5
<1>6. CASE ~Actionable(s) /\ worker' = [worker EXCEPT ![s] = "none"] /\ songs' = songs
    BY <1>6
<1>7. CASE /\ Open /\ question /\ Actionable(s)
           /\ worker' = [worker EXCEPT ![s] = "none"]
           /\ songs' = [songs EXCEPT ![s].status = "pending"]
    <2>1. /\ \A r \in Songs : r # s => songs'[r] = songs[r]
          /\ songs'[s].status = "pending"
          /\ songs[s].ahead = songs'[s].ahead /\ songs[s].fresh = songs'[s].fresh
        BY <1>7, StatusEffect
    <2> QED
        BY <1>7, <2>1
<1>8. CASE /\ Open /\ Actionable(s) /\ (songs[s].status = "pending" => ~question)
           /\ worker' = [worker EXCEPT ![s] = "busy"]
           /\ songs' = [songs EXCEPT ![s].status = "flight"]
    <2>1. /\ \A r \in Songs : r # s => songs'[r] = songs[r]
          /\ songs'[s].status = "flight"
          /\ songs[s].ahead = songs'[s].ahead /\ songs[s].fresh = songs'[s].fresh
        BY <1>8, StatusEffect
    <2> QED
        BY <1>8, <2>1
<1> QED
    BY <1>5, <1>6, <1>7, <1>8 DEF Claim

-------------------------------------------------------------------------------
(* The end of a playlist, and what there is while the server is down. *)

\* "closed" and "deleted" are on their way only when the row says so, and the row of
\* a deleted playlist takes those of its songs along.
EndIsTold ==
    /\ In("closed", mail) => ~Open
    /\ In("deleted", mail) => status = "deleted"
    /\ status = "deleted" => \A s \in Songs : songs[s] = None

\* Behind the startup nothing runs.
DownIsEmpty ==
    phase = "starting" =>
        /\ lock = "free" /\ \A who \in Checkers : due[who] = NoDue
        /\ \A s \in Songs : worker[s] = "none" /\ songMail[s] = <<>>

\* A worker that is busy has its song in flight, unless the song was deleted.
BusyRows == \A s \in Songs : worker[s] = "busy" => songs[s].status \in {"flight", "none"}

\* The workers of a playlist that has ended are still to be told.
Released ==
    ~Open => \A s \in Songs : worker[s] # "none" => In("closed", mail) \/ In("deleted", mail)

Ends == EndIsTold /\ DownIsEmpty /\ BusyRows /\ Released

LEMMA SpawnEffect ==
    ASSUME TypeOK, SpawnActionable
    PROVE  /\ \A s \in Songs : worker'[s] = IF Open /\ Actionable(s) /\ worker[s] = "none"
                                            THEN "new" ELSE worker[s]
           /\ seen' = (seen \/ Open)
BY DEF SpawnActionable, Spawned, TypeOK

LEMMA StopsEffect ==
    ASSUME TypeOK, StopsActor
    PROVE  \A e : In(e, mail') => In(e, mail)
<1>1. mail \in Seq(Events)
    BY DEF TypeOK
<1>2. PICK n \in 1..Len(mail) : mail' = SubSeq(mail, n + 1, Len(mail))
    BY DEF StopsActor
<1> QED
    BY <1>1, <1>2, DropKeeps

LEMMA TwoIn ==
    ASSUME TypeOK, NEW x \in Events, NEW y \in Events
    PROVE  /\ \A e : In(e, mail \o <<x, y>>) <=> In(e, mail) \/ e = x \/ e = y
           /\ FillFirst(mail) /\ x # "fill" /\ y # "fill" => FillFirst(mail \o <<x, y>>)
           /\ y = "reopened" => Reopens(mail \o <<x, y>>)
<1>1. mail \in Seq(Events)
    BY DEF TypeOK
<1> DEFINE q == Append(mail, x)
<1>2. mail \o <<x, y>> = Append(q, y)
    BY TwoSent
<1>3. /\ q \in Seq(Events) /\ \A e : In(e, q) <=> In(e, mail) \/ e = x
      /\ FillFirst(mail) /\ x # "fill" => FillFirst(q)
    BY <1>1, AppendKeeps
<1> HIDE DEF q
<1>4. /\ \A e : In(e, Append(q, y)) <=> In(e, q) \/ e = y
      /\ FillFirst(q) /\ y # "fill" => FillFirst(Append(q, y))
      /\ y = "reopened" => Reopens(Append(q, y))
    BY <1>3, AppendKeeps
<1> QED
    BY <1>2, <1>3, <1>4

LEMMA BeforeMail ==
    ASSUME TypeOK, NEW x \in Events
    PROVE  /\ \A e : In(e, <<x>> \o mail) <=> e = x \/ In(e, mail)
           /\ ~In("fill", mail) => FillFirst(<<x>> \o mail)
           /\ Reopens(mail) /\ x # "closing" => Reopens(<<x>> \o mail)
<1>1. mail \in Seq(Events)
    BY DEF TypeOK
<1> QED
    BY <1>1, BeforeKeeps

\* checkBufferDeficit() is next, in the place of the event that was handled.
LEMMA Checked ==
    ASSUME TypeOK, mail # <<>>, ThenCheck
    PROVE  /\ mail' \in Seq(Events)
           /\ \A e : In(e, mail') <=> e = "check" \/ In(e, Tail(mail))
           /\ FillFirst(mail) => FillFirst(mail')
           /\ Reopens(mail) => Reopens(mail')
<1>1. "check" \in Events /\ mail' = [mail EXCEPT ![1] = "check"]
    BY DEF Events, ThenCheck
<1> QED
    BY <1>1, Taken

\* What the handlers of a playlist's first event and of a steer leave alone.
LEMMA CreatedEffect ==
    ASSUME TypeOK, HandleCreated
    PROVE  /\ \A e : e \notin {"created", "check"} => (In(e, mail') <=> In(e, mail))
           /\ FillFirst(mail) => FillFirst(mail')
           /\ Reopens(mail) => Reopens(mail')
           /\ UNCHANGED <<mode, status, songs, worker, songMail, lock, due>>
           /\ UNCHANGED <<phase, planning, question, present, crashes>>
           /\ UNCHANGED <<wish, lost, vanished, belated>>
<1>1. /\ mail # <<>> /\ Head(mail) = "created"
      /\ ThenCheck \/ mail' = Tail(mail)
      /\ UNCHANGED <<mode, status, songs, worker, songMail, lock, due, surroundings, history>>
    BY DEF HandleCreated, Next1
<1>2. UNCHANGED <<phase, planning, question, present, crashes, wish, lost, vanished, belated>>
    BY <1>1 DEF surroundings, history
<1>3. CASE ThenCheck
    BY <1>1, <1>2, <1>3, Taken, Checked
<1>4. CASE mail' = Tail(mail)
    BY <1>1, <1>2, <1>4, Taken
<1> QED
    BY <1>1, <1>3, <1>4

LEMMA SteeredEffect ==
    ASSUME TypeOK, HandleSteered
    PROVE  /\ \A e : e \notin {"steered", "check"} => (In(e, mail') <=> In(e, mail))
           /\ FillFirst(mail) => FillFirst(mail')
           /\ Reopens(mail) => Reopens(mail')
           /\ UNCHANGED <<mode, status, songMail, lock, due, timer>>
           /\ phase = "up" /\ UNCHANGED <<phase, planning, question, present, crashes>>
           /\ UNCHANGED <<wish, lost, belated>>
<1>1. /\ phase = "up" /\ mail # <<>> /\ Head(mail) = "steered"
      /\ ThenCheck \/ mail' = Tail(mail)
      /\ UNCHANGED <<mode, status, songMail, lock, due, timer, surroundings, wish, lost, belated>>
    BY DEF HandleSteered, Next1
<1>2. UNCHANGED <<phase, planning, question, present, crashes>>
    BY <1>1 DEF surroundings
<1>3. CASE ThenCheck
    BY <1>1, <1>2, <1>3, Taken, Checked
<1>4. CASE mail' = Tail(mail)
    BY <1>1, <1>2, <1>4, Taken
<1> QED
    BY <1>1, <1>3, <1>4

\* heartbeat() sends one event, or two when it opens the playlist again.
LEMMA HeartbeatEffect ==
    ASSUME TypeOK, Heartbeat
    PROVE  /\ \A e : e \notin {"heartbeat", "reopened"} => (In(e, mail') <=> In(e, mail))
           /\ \A e : In(e, mail) => In(e, mail')
           /\ status' = status \/ (status' = "active" /\ In("reopened", mail'))
<1>1. "heartbeat" \in Events /\ "reopened" \in Events
    BY DEF Events
<1>2. CASE mail' = Append(mail, "heartbeat") /\ status' = status
    <2>1. \A e : In(e, mail') <=> In(e, mail) \/ e = "heartbeat"
        BY <1>1, <1>2, Sent
    <2> QED
        BY <1>2, <2>1
<1>3. CASE mail' = mail \o <<"heartbeat", "reopened">> /\ status' = "active"
    BY <1>1, <1>3, TwoIn
<1> QED
    BY <1>2, <1>3 DEF Heartbeat

LEMMA EndsStep ==
    ASSUME TypeOK, Ends, [Next]_vars
    PROVE  Ends'
<1>0. /\ TypeList
      /\ \A s \in Songs : songs[s] = None <=> songs[s].status = "none"
      /\ ~Open <=> status \in {"closed", "deleted"}
      /\ (~Open)' <=> status' \in {"closed", "deleted"}
      /\ None.status = "none" /\ New.status = "pending"
    BY Listed, RowsKeep, TypeStep DEF Open, TypeOK, TypeList, None, New
<1>1. ASSUME NEW s \in Songs, Claim(s)
      PROVE  Ends'
    <2>1. EndIsTold' /\ DownIsEmpty'
        BY <1>0, <1>1, ClaimEffect DEF Ends, EndIsTold, DownIsEmpty, Open, Actionable
    <2>2. BusyRows'
        BY <1>0, <1>1, ClaimEffect DEF Ends, BusyRows
    <2>3. Released'
        BY <1>0, <1>1, ClaimEffect DEF Ends, Released, Open
    <2> QED
        BY <2>1, <2>2, <2>3 DEF Ends
<1>2. ASSUME NEW s \in Songs, SongReady(s)
      PROVE  Ends'
    BY <1>0, <1>2, Sent, StatusEffect
        DEF SongReady, Events, TypeList, Kinds, Idle, Ends, EndIsTold, DownIsEmpty, BusyRows, Released, actors, surroundings, history
<1>3. ASSUME NEW s \in Songs, SongFails(s)
      PROVE  Ends'
    BY <1>0, <1>3, StatusEffect
        DEF SongFails, TypeList, Kinds, Idle, Becomes, Ends, EndIsTold, DownIsEmpty, BusyRows, Released, actors, surroundings, history
<1>4. ASSUME NEW s \in Songs, SongRetries(s)
      PROVE  Ends'
    BY <1>0, <1>4, StatusEffect
        DEF SongRetries, TypeList, Kinds, Idle, Ends, EndIsTold, DownIsEmpty, BusyRows, Released, actors, surroundings, history
<1>5. ASSUME NEW s \in Songs, HandleSongCreated(s)
      PROVE  Ends'
    BY <1>0, <1>5
        DEF HandleSongCreated, Spawned, TypeList, Ends, EndIsTold, DownIsEmpty, BusyRows, Released, actors, surroundings, history
<1>6. ASSUME NEW s \in Songs, HandleSongReady(s)
      PROVE  Ends'
    BY <1>0, <1>6
        DEF HandleSongReady, StartCheck, TypeList, Ends, EndIsTold, DownIsEmpty, BusyRows, Released, actors, surroundings, history
<1>7. ASSUME NEW s \in Songs, FillBySong(s)
      PROVE  Ends'
    <2>1. PICK S \in SUBSET {r \in Songs : Spare(r)} :
              /\ status = "deleted" => S = {}
              /\ \A r \in Songs : songs'[r] = IF r \in S THEN New ELSE songs[r]
        BY <1>7, EndCheckEffect DEF FillBySong, Checkers
    <2>2. /\ status' = status \/ (status = "active" /\ status' = "closing")
          /\ \A e : In(e, mail') => In(e, mail) \/ e = "closing"
          /\ \A e \in {"closed", "deleted"} : In(e, mail) => In(e, mail')
        BY <1>7, CloseOneshotEffect, Sent DEF FillBySong, EndCheck, Events
    <2>3. phase # "starting" /\ UNCHANGED <<phase, worker>>
        BY <1>0, <1>7 DEF Ends, DownIsEmpty, FillBySong, surroundings
    <2>4. EndIsTold' /\ DownIsEmpty'
        BY <1>0, <2>1, <2>2, <2>3 DEF Ends, EndIsTold, DownIsEmpty, Open
    <2>5. BusyRows'
        BY <1>0, <2>1, <2>3 DEF Ends, BusyRows, Spare
    <2>6. Released'
        BY <1>0, <2>2, <2>3 DEF Ends, Released, Open
    <2> QED
        BY <2>4, <2>5, <2>6 DEF Ends
<1>8. ASSUME NEW s \in Songs, HandleSongSettled(s)
      PROVE  Ends'
    BY <1>0, <1>8, Sent
        DEF HandleSongSettled, ClosedByHandler, Events, TypeList, ClosesWith, Ends, EndIsTold, DownIsEmpty, BusyRows, Released, actors, surroundings, history
<1>9. CASE HandleCreated
    BY <1>0, <1>9, CreatedEffect DEF Ends, EndIsTold, DownIsEmpty, BusyRows, Released
<1>10. CASE HandleSteered
    <2>1. /\ \A r \in Songs : /\ songs'[r] = songs[r] \/ (songs'[r] = None /\ worker'[r] = "none")
                              /\ worker'[r] = worker[r] \/ worker'[r] = "none"
          /\ status = "deleted" => songs' = songs
        BY <1>0, <1>10 DEF HandleSteered, Without, TypeList
    <2>2. /\ \A e \in {"closed", "deleted"} : In(e, mail') <=> In(e, mail)
          /\ phase # "starting" /\ UNCHANGED <<phase, status>>
        BY <1>10, SteeredEffect
    <2>3. EndIsTold' /\ DownIsEmpty'
        BY <1>0, <2>1, <2>2 DEF Ends, EndIsTold, DownIsEmpty, Open
    <2>4. BusyRows'
        BY <1>0, <2>1 DEF Ends, BusyRows
    <2>5. Released'
        BY <1>0, <2>1, <2>2 DEF Ends, Released, Open
    <2> QED
        BY <2>3, <2>4, <2>5 DEF Ends
<1>11. CASE HandleHeartbeat
    BY <1>0, <1>11, Taken
        DEF HandleHeartbeat, Next1, Ends, EndIsTold, DownIsEmpty, BusyRows, Released, actors, surroundings, history
<1>12. CASE HandleUpdated
    BY <1>0, <1>12, Taken, SpawnEffect
        DEF HandleUpdated, Next1, ThenCheck, Events, Actionable, TypeList, Ends, EndIsTold, DownIsEmpty, BusyRows, Released, actors, surroundings, history
<1>13. CASE HandleClosing
    <2>1. UNCHANGED <<songs, songMail, lock, due, phase>>
        BY <1>13 DEF HandleClosing, surroundings
    <2>2. /\ In("closed", mail') <=> In("closed", mail) \/ (Open /\ ~Open')
          /\ In("deleted", mail') <=> In("deleted", mail)
          /\ status' = status \/ (Open /\ status' = "closed")
        BY <1>0, <1>13, Taken DEF HandleClosing, Next1, Events, Open
    <2>3. \A s \in Songs : \/ worker'[s] \in {worker[s], "none"}
                           \/ Open /\ status' = status /\ worker'[s] = "new"
        BY <1>13, SpawnEffect DEF HandleClosing, ClosedByHandler
    <2>4. phase = "up" /\ (Open' => Open)
        BY <1>0, <1>13, <2>2 DEF HandleClosing, Next1
    <2>5. EndIsTold' /\ DownIsEmpty'
        BY <1>0, <2>1, <2>2, <2>4 DEF Ends, EndIsTold, DownIsEmpty
    <2>6. BusyRows'
        BY <1>0, <2>1, <2>3 DEF Ends, BusyRows
    <2>7. Released'
        BY <1>0, <2>2, <2>3, <2>4 DEF Ends, Released
    <2> QED
        BY <2>5, <2>6, <2>7 DEF Ends
<1>14. CASE HandleClosed
    BY <1>0, <1>14, StopsEffect
        DEF HandleClosed, Next1, ClosedByHandler, Ends, EndIsTold, DownIsEmpty, BusyRows, Released, actors, surroundings, history
<1>15. CASE HandleDeleted
    BY <1>0, <1>15, StopsEffect
        DEF HandleDeleted, Next1, ClosedByHandler, Ends, EndIsTold, DownIsEmpty, BusyRows, Released, actors, surroundings, history
<1>16. CASE HandleReopened
    BY <1>0, <1>16, Taken, SpawnEffect
        DEF HandleReopened, Next1, ThenCheck, Events, Actionable, TypeList, Ends, EndIsTold, DownIsEmpty, BusyRows, Released, actors, surroundings, history
<1>17. CASE CheckByPlaylist
    <2>0. mail' = [mail EXCEPT ![1] = "fill"] \/ mail' = Tail(mail)
        BY <1>17 DEF CheckByPlaylist
    <2>1. /\ \A e \in {"closed", "deleted"} : In(e, mail') <=> In(e, mail)
          /\ phase # "starting" /\ UNCHANGED <<phase, status, songs, worker>>
        <3>1. mail # <<>> /\ Head(mail) = "check" /\ phase # "starting"
              /\ UNCHANGED <<phase, status, songs, worker>>
            BY <1>17 DEF CheckByPlaylist, Next1, surroundings
        <3>2. "fill" \in Events
            BY DEF Events
        <3>3. /\ \A e : In(e, mail) <=> e = "check" \/ In(e, Tail(mail))
              /\ \A e : In(e, [mail EXCEPT ![1] = "fill"]) <=> e = "fill" \/ In(e, Tail(mail))
            BY <3>1, <3>2, Taken
        <3> QED
            BY <2>0, <3>1, <3>3
    <2> QED
        BY <1>0, <2>1 DEF Ends, EndIsTold, DownIsEmpty, BusyRows, Released, Open
<1>18. CASE FillByPlaylist
    <2>1. PICK S \in SUBSET {s \in Songs : Spare(s)} :
              /\ status = "deleted" => S = {}
              /\ \A s \in Songs : songs'[s] = IF s \in S THEN New ELSE songs[s]
        BY <1>18, EndCheckEffect DEF FillByPlaylist, Next1, Checkers
    <2>2. /\ status' = status \/ (status = "active" /\ status' = "closing")
          /\ \A e : In(e, mail') => In(e, mail) \/ e = "closing"
          /\ \A e \in {"closed", "deleted"} : In(e, mail) => In(e, mail')
        BY <1>18, CloseOneshotEffect, Taken DEF FillByPlaylist, Next1, EndCheck, Events
    <2>3. phase # "starting" /\ UNCHANGED <<phase, worker>>
        BY <1>0, <1>18 DEF Ends, DownIsEmpty, FillByPlaylist, Next1, surroundings
    <2>4. EndIsTold' /\ DownIsEmpty'
        BY <1>0, <2>1, <2>2, <2>3 DEF Ends, EndIsTold, DownIsEmpty, Open
    <2>5. BusyRows'
        BY <1>0, <2>1, <2>3 DEF Ends, BusyRows, Spare
    <2>6. Released'
        BY <1>0, <2>2, <2>3 DEF Ends, Released, Open
    <2> QED
        BY <2>4, <2>5, <2>6 DEF Ends
<1>19. CASE Heartbeat
    <2>1. /\ \A e \in {"closed", "deleted"} : In(e, mail') <=> In(e, mail)
          /\ status' = status \/ (status = "closing" /\ status' = "active")
        BY <1>19, Sent, TwoIn DEF Heartbeat, Events
    <2> QED
        BY <1>0, <1>19, <2>1
           DEF Heartbeat, Ends, EndIsTold, DownIsEmpty, BusyRows, Released, Open
<1>20. CASE Leave
    BY <1>0, <1>20
        DEF Leave, Ends, EndIsTold, DownIsEmpty, BusyRows, Released, actors, surroundings, history
<1>21. ASSUME NEW to \in {"active", "closing", "closed"}, SetStatus(to)
      PROVE  Ends'
    BY <1>0, <1>21, Sent
        DEF SetStatus, Events, TypeList, Ends, EndIsTold, DownIsEmpty, BusyRows, Released, actors, surroundings, history
<1>22. CASE DeletePlaylist
    BY <1>0, <1>22, Sent
        DEF DeletePlaylist, Events, TypeList, Ends, EndIsTold, DownIsEmpty, BusyRows, Released, actors, surroundings, history
<1>23. ASSUME NEW A \in SUBSET Songs, UpdatePosition(A)
      PROVE  Ends'
    BY <1>0, <1>23, Sent, StatusEffect
        DEF UpdatePosition, Events, Ends, EndIsTold, DownIsEmpty, BusyRows, Released, actors, surroundings, history
<1>24. CASE Steer
    BY <1>0, <1>24, Sent, StatusEffect
        DEF Steer, Events, Ends, EndIsTold, DownIsEmpty, BusyRows, Released, actors, surroundings, history
<1>25. ASSUME NEW s \in Songs, AskSong(s)
      PROVE  Ends'
    BY <1>0, <1>25
        DEF AskSong, Spare, Idle, TypeList, Ends, EndIsTold, DownIsEmpty, BusyRows, Released, actors, surroundings, history
<1>26. ASSUME NEW s \in Songs, DeleteSong(s)
      PROVE  Ends'
    BY <1>0, <1>26
        DEF DeleteSong, Idle, Becomes, Without, TypeList, Ends, EndIsTold, DownIsEmpty, BusyRows, Released, actors, surroundings, history
<1>27. ASSUME NEW S \in SUBSET Songs, StaleCleanup(S)
      PROVE  Ends'
    BY <1>0, <1>27
        DEF StaleCleanup, Idle, Becomes, Without, TypeList, Ends, EndIsTold, DownIsEmpty, BusyRows, Released, actors, surroundings, history
<1>28. CASE AskQuestion
    BY <1>0, <1>28
        DEF AskQuestion, Ends, EndIsTold, DownIsEmpty, BusyRows, Released, actors, surroundings, history
<1>29. CASE AnswerQuestion
    BY <1>0, <1>29, Sent
        DEF AnswerQuestion, Events, Ends, EndIsTold, DownIsEmpty, BusyRows, Released, actors, surroundings, history
<1>30. CASE FinishPlanning
    BY <1>0, <1>30, Sent
        DEF FinishPlanning, Events, Ends, EndIsTold, DownIsEmpty, BusyRows, Released, actors, surroundings, history
<1>31. CASE TimerFires
    BY <1>0, <1>31, Sent
        DEF TimerFires, Events, Ends, EndIsTold, DownIsEmpty, BusyRows, Released, actors, surroundings, history
<1>32. CASE Crash
    BY <1>0, <1>32, NothingIn
        DEF Crash, Ends, EndIsTold, DownIsEmpty, BusyRows, Released, actors, surroundings, history
<1>33. CASE Sweep
    <2>1. phase' = "up" /\ phase = "starting"
        BY <1>33 DEF Sweep
    <2>2. CASE ~Open
        BY <1>0, <1>33, <2>1, <2>2 DEF Sweep, Ends, EndIsTold, DownIsEmpty, BusyRows, Released
    <2>3. CASE Open
        <3>1. /\ status' = status \/ status' = "closed"
              /\ In("closed", mail') => In("closed", mail) \/ status' = "closed"
              /\ In("deleted", mail') => In("deleted", mail)
              /\ status' = "closed" /\ status # "closed" => In("closed", mail')
              /\ \A s \in Songs : worker'[s] # "busy"
            <4>1. /\ \/ status' = "closed" /\ mail' = Append(mail, "closed")
                     \/ status' = status /\ mail' \in {mail, <<"check">> \o mail}
                  /\ \A s \in Songs : worker'[s] # "busy"
                BY <1>33, <2>3, SweepEffect
            <4>2. "check" \in Events /\ "closed" \in Events
                BY DEF Events
            <4>3. \A e : /\ In(e, Append(mail, "closed")) <=> In(e, mail) \/ e = "closed"
                         /\ In(e, <<"check">> \o mail) <=> e = "check" \/ In(e, mail)
                BY <4>2, Sent, BeforeMail
            <4> QED
                BY <4>1, <4>3
        <3> QED
            BY <1>0, <2>1, <2>3, <3>1 DEF Ends, EndIsTold, DownIsEmpty, BusyRows, Released, Open
    <2> QED
        BY <2>2, <2>3
<1>34. CASE UNCHANGED vars
    BY <1>0, <1>34
       DEF Ends, EndIsTold, DownIsEmpty, BusyRows, Released, Open, vars, actors, surroundings, history
<1>35. ASSUME NEW S \in SUBSET Songs, PrimeRoom(S)
      PROVE  Ends'
    <2>1. \A s \in Songs : worker[s] = "busy" => songs'[s] = songs[s]
        BY <1>35, PrimeEffect
    <2>2. phase = "up" /\ UNCHANGED <<status, worker, mail, lock, due, seen, timer, phase>>
        BY <1>35 DEF PrimeRoom, surroundings
    <2>3. EndIsTold'
        BY <1>0, <1>35, <2>2 DEF Ends, EndIsTold, PrimeRoom
    <2>4. DownIsEmpty'
        BY <2>2 DEF DownIsEmpty
    <2>5. Released'
        BY <1>0, <2>2 DEF Ends, Released, Open
    <2>6. BusyRows'
        BY <1>0, <2>1, <2>2 DEF Ends, BusyRows
    <2> QED
        BY <2>3, <2>4, <2>5, <2>6 DEF Ends
<1> QED
    BY <1>1, <1>2, <1>3, <1>4, <1>5, <1>6, <1>7, <1>8, <1>9, <1>10, <1>11, <1>12, <1>13,
       <1>14, <1>15, <1>16, <1>17, <1>18, <1>19, <1>20, <1>21, <1>22, <1>23, <1>24, <1>25, <1>26, <1>27, <1>28, <1>29, <1>30, <1>31, <1>32, <1>33, <1>34, <1>35
        DEF Next, Users, HandlePlaylist, HandleSong

-------------------------------------------------------------------------------
(* No song is forgotten. *)

\* While no question is open, every song of an open playlist that can go on has a
\* worker, or is still to get one.
Tracked ==
    phase = "up" /\ Open /\ ~question => \A s \in Songs :
        Actionable(s) => \/ worker[s] # "none"
                         \/ In("created", songMail[s])
                         \/ In("updated", mail)

\* What an event in a song's mail that is not handled yet keeps.
LEMMA BoxEffect ==
    ASSUME TypeOK, NEW s \in Songs, NEW e \in {"fill", "settled", "ready", "created"}
    PROVE  /\ \A r \in Songs : [songMail EXCEPT ![s] = Append(@, e)][r] =
                                   IF r = s THEN Append(songMail[s], e) ELSE songMail[r]
           /\ \A r \in Songs : [songMail EXCEPT ![s] = Tail(@)][r] =
                                   IF r = s THEN Tail(songMail[s]) ELSE songMail[r]
           /\ \A r \in Songs : [songMail EXCEPT ![s][1] = e][r] =
                                   IF r = s THEN [songMail[s] EXCEPT ![1] = e] ELSE songMail[r]
BY DEF TypeOK

\* checkBufferDeficit() by the playlist's actor: the check is made, or is left out.
LEMMA CheckMail ==
    ASSUME TypeOK, CheckByPlaylist
    PROVE  /\ \A e : e # "check" /\ In(e, mail) => In(e, mail')
           /\ \A e : e # "fill" /\ In(e, mail') => In(e, mail)
<1>1. mail # <<>> /\ Head(mail) = "check"
      /\ (mail' = [mail EXCEPT ![1] = "fill"] \/ mail' = Tail(mail))
    BY DEF CheckByPlaylist, Next1
<1>2. "fill" \in Events
    BY DEF Events
<1>3. /\ \A e : In(e, mail) <=> e = "check" \/ In(e, Tail(mail))
      /\ \A e : In(e, [mail EXCEPT ![1] = "fill"]) <=> e = "fill" \/ In(e, Tail(mail))
    BY <1>1, <1>2, Taken
<1> QED
    BY <1>1, <1>3

LEMMA CreatedIn == In("created", <<"created">>)
BY DEF In

LEMMA TrackedStep ==
    ASSUME TypeOK, Ends, Tracked, [Next]_vars
    PROVE  Tracked'
<1>0. /\ TypeList
      /\ \A s \in Songs : songs[s] = None <=> songs[s].status = "none"
      /\ None.status = "none" /\ New.status = "pending"
    BY Listed, RowsKeep DEF Open, TypeOK, TypeList, None, New
<1>1. ASSUME NEW s \in Songs, Claim(s)
      PROVE  Tracked'
    BY <1>0, <1>1, ClaimEffect
        DEF TypeList, Tracked, Actionable, Open, actors, surroundings, history
<1>2. ASSUME NEW s \in Songs, SongReady(s)
      PROVE  Tracked'
    BY <1>0, <1>2, Sent, SongSent, StatusEffect, BoxEffect
        DEF SongReady, Events, SongEvents, TypeList, Kinds, Tracked, Actionable, Open, actors, surroundings, history
<1>3. ASSUME NEW s \in Songs, SongFails(s)
      PROVE  Tracked'
    <2>1. /\ \A r \in Songs : r # s => songs'[r] = songs[r] /\ worker'[r] = worker[r]
          /\ ~Actionable(s)'
        <3>1. worker' = [worker EXCEPT ![s] = "none"]
            BY <1>3 DEF SongFails
        <3>2. \/ songs[s] = None /\ songs' = songs
              \/ songs[s] # None /\ songs' = [songs EXCEPT ![s].status = "gone"]
            BY <1>3 DEF SongFails, Becomes
        <3>3. songs[s] # None => [songs EXCEPT ![s].status = "gone"][s].status = "gone"
            BY StatusEffect DEF Kinds
        <3>4. \A r \in Songs : r # s => [songs EXCEPT ![s].status = "gone"][r] = songs[r]
            BY StatusEffect
        <3> QED
            BY <1>0, <3>1, <3>2, <3>3, <3>4 DEF TypeList, Actionable
    <2>2. \A r \in Songs : In("created", songMail[r]) => In("created", songMail'[r])
        <3>1. songMail' = songMail \/ songMail' = [songMail EXCEPT ![s] = Append(@, "settled")]
            BY <1>3 DEF SongFails
        <3>2. In("created", songMail[s]) => In("created", Append(songMail[s], "settled"))
            BY SongSent DEF SongEvents
        <3>3. \A r \in Songs : [songMail EXCEPT ![s] = Append(@, "settled")][r] =
                                  IF r = s THEN Append(songMail[s], "settled") ELSE songMail[r]
            BY BoxEffect
        <3> QED
            BY <3>1, <3>2, <3>3
    <2> QED
        BY <1>0, <1>3, <2>1, <2>2 DEF SongFails, Tracked, Actionable, Open, surroundings
<1>4. ASSUME NEW s \in Songs, SongRetries(s)
      PROVE  Tracked'
    BY <1>0, <1>4, StatusEffect
        DEF SongRetries, TypeList, Tracked, Actionable, Open, actors, surroundings, history
<1>5. ASSUME NEW s \in Songs, HandleSongCreated(s)
      PROVE  Tracked'
    BY <1>0, <1>5, SongTaken, BoxEffect
        DEF HandleSongCreated, Spawned, TypeList, Tracked, Actionable, Open, actors, surroundings, history
<1>6. ASSUME NEW s \in Songs, HandleSongReady(s)
      PROVE  Tracked'
    <2>1. \A r \in Songs : In("created", songMail[r]) => In("created", songMail'[r])
        <3>1. songMail[s] # <<>> /\ Head(songMail[s]) = "ready"
            BY <1>6 DEF HandleSongReady
        <3>2. PICK e \in {"fill", "settled"} : songMail' = [songMail EXCEPT ![s][1] = e]
            BY <1>6 DEF HandleSongReady
        <3>3. In("created", songMail[s]) => In("created", [songMail[s] EXCEPT ![1] = e])
            BY <3>1, SongTaken DEF SongEvents
        <3> QED
            BY <3>2, <3>3, BoxEffect
    <2> QED
        BY <1>0, <1>6, <2>1 DEF HandleSongReady, Tracked, Actionable, Open, surroundings
<1>7. ASSUME NEW s \in Songs, FillBySong(s)
      PROVE  Tracked'
    <2> DEFINE box == [songMail EXCEPT ![s][1] = "settled"]
    <2>0. EndCheck(s, mail, box)
        BY <1>7 DEF FillBySong
    <2>01. \A r \in Songs : box[r] = IF r = s THEN [songMail[s] EXCEPT ![1] = "settled"] ELSE songMail[r]
        BY BoxEffect
    <2>02. songMail[s] # <<>>
        BY <1>7 DEF FillBySong
    <2>03. /\ [songMail[s] EXCEPT ![1] = "settled"] \in Seq(SongEvents) /\ "created" \in SongEvents
           /\ In("created", songMail[s]) => In("created", [songMail[s] EXCEPT ![1] = "settled"])
        <3>1. Head(songMail[s]) = "fill" /\ "settled" \in SongEvents /\ "created" \in SongEvents
            BY <1>7 DEF FillBySong, SongEvents
        <3>2. In("created", songMail[s]) => In("created", Tail(songMail[s]))
            BY <2>02, <3>1, SongTaken
        <3>3. /\ [songMail[s] EXCEPT ![1] = "settled"] \in Seq(SongEvents)
              /\ \A e : In(e, [songMail[s] EXCEPT ![1] = "settled"]) <=> e = "settled" \/ In(e, Tail(songMail[s]))
            BY <2>02, <3>1, SongTaken
        <3> QED
            BY <3>1, <3>2, <3>3
    <2> HIDE DEF box
    <2>1. PICK S \in SUBSET {r \in Songs : Spare(r)} :
              /\ \A r \in Songs : songs'[r] = IF r \in S THEN New ELSE songs[r]
              /\ \A r \in Songs : songMail'[r] = IF r \in S THEN Append(box[r], "created")
                                                 ELSE box[r]
        BY <2>0, EndCheckEffect DEF Checkers
    <2>2. \A r \in Songs : /\ In("created", songMail[r]) => In("created", songMail'[r])
                           /\ r \in S => In("created", songMail'[r])
        <3> TAKE r \in Songs
        <3>1. box[r] \in Seq(SongEvents) /\ "created" \in SongEvents
            BY <1>0, <2>01, <2>02, <2>03 DEF TypeList
        <3>2. In("created", songMail[r]) => In("created", box[r])
            BY <1>0, <2>01, <2>02, <2>03 DEF TypeList
        <3>3. \A e : In(e, Append(box[r], "created")) <=> In(e, box[r]) \/ e = "created"
            BY <3>1, AppendKeeps
        <3> QED
            BY <2>1, <3>2, <3>3
    <2>3. /\ Open' => Open
          /\ In("updated", mail) => In("updated", mail')
          /\ UNCHANGED <<phase, question, worker>>
        BY <1>7, CloseOneshotEffect, Sent DEF FillBySong, EndCheck, Events, surroundings, Open
    <2> QED
        BY <1>0, <2>1, <2>2, <2>3 DEF Tracked, Actionable
<1>8. ASSUME NEW s \in Songs, HandleSongSettled(s)
      PROVE  Tracked'
    <2>1. \A r \in Songs : In("created", songMail[r]) => In("created", songMail'[r])
        BY <1>8, SongTaken, BoxEffect DEF HandleSongSettled
    <2>2. In("updated", mail) => In("updated", mail')
        BY <1>8, Sent DEF HandleSongSettled, Events
    <2>3. /\ Open' => Open /\ worker' = worker
          /\ UNCHANGED <<songs, phase, question>>
        BY <1>8 DEF HandleSongSettled, Open, surroundings
    <2> QED
        BY <2>1, <2>2, <2>3 DEF Tracked, Actionable
<1>9. CASE HandleCreated
    BY <1>0, <1>9, CreatedEffect DEF Tracked, Actionable, Open
<1>10. CASE HandleSteered
    <2>1. /\ \A r \in Songs : (songs'[r] = songs[r] /\ worker'[r] = worker[r]) \/ songs'[r] = None
          /\ UNCHANGED <<phase, status, question, songMail>>
        BY <1>0, <1>10 DEF HandleSteered, Without, TypeList, surroundings
    <2>2. In("updated", mail) => In("updated", mail')
        BY <1>10, SteeredEffect
    <2> QED
        BY <1>0, <2>1, <2>2 DEF Tracked, Actionable, Open
<1>11. CASE HandleHeartbeat
    BY <1>0, <1>11, Taken
        DEF HandleHeartbeat, Next1, Tracked, Actionable, Open, actors, surroundings, history
<1>12. CASE HandleUpdated
    BY <1>0, <1>12, SpawnEffect
        DEF HandleUpdated, TypeList, Tracked, Actionable, Open, actors, surroundings, history
<1>13. CASE HandleClosing
    <2>1. \/ ~Open'
          \/ /\ \A s \in Songs : worker[s] # "none" => worker'[s] # "none"
             /\ In("updated", mail) => In("updated", mail')
             /\ UNCHANGED <<phase, status, question, songs, songMail>>
        <3>1. CASE ~NoneInFlight(songs)
            <4>1. SpawnActionable /\ mail' = Tail(mail) /\ mail # <<>> /\ Head(mail) = "closing"
                  /\ UNCHANGED <<phase, status, question, songs, songMail>>
                BY <1>13, <3>1 DEF HandleClosing, Next1, surroundings
            <4>2. \A s \in Songs : worker[s] # "none" => worker'[s] # "none"
                BY <4>1, SpawnEffect
            <4>3. In("updated", mail) => In("updated", mail')
                BY <4>1, Taken
            <4> QED
                BY <4>1, <4>2, <4>3
        <3>2. CASE NoneInFlight(songs)
            BY <1>0, <1>13, <3>2 DEF HandleClosing, Open
        <3> QED
            BY <3>1, <3>2
    <2> QED
        BY <1>0, <2>1 DEF Tracked, Actionable, Open
<1>14. CASE HandleClosed
    BY <1>0, <1>14, Taken
        DEF HandleClosed, Next1, Ends, EndIsTold, Tracked, Actionable, Open, actors, surroundings, history
<1>15. CASE HandleDeleted
    BY <1>0, <1>15, Taken
        DEF HandleDeleted, Next1, Ends, EndIsTold, Tracked, Actionable, Open, actors, surroundings, history
<1>16. CASE HandleReopened
    BY <1>0, <1>16, SpawnEffect
        DEF HandleReopened, TypeList, Tracked, Actionable, Open, actors, surroundings, history
<1>17. CASE CheckByPlaylist
    BY <1>0, <1>17, CheckMail
        DEF CheckByPlaylist, Tracked, Actionable, Open, actors, surroundings, history
<1>18. CASE FillByPlaylist
    <2>1. PICK S \in SUBSET {s \in Songs : Spare(s)} :
              /\ \A s \in Songs : songs'[s] = IF s \in S THEN New ELSE songs[s]
              /\ \A s \in Songs : songMail'[s] = IF s \in S THEN Append(songMail[s], "created")
                                                 ELSE songMail[s]
        <3>1. EndCheck("playlist", Tail(mail), songMail) /\ "playlist" \in Checkers
            BY <1>18 DEF FillByPlaylist, Checkers
        <3> QED
            BY <3>1, EndCheckEffect
    <2>2. \A s \in Songs : /\ In("created", songMail[s]) => In("created", songMail'[s])
                           /\ s \in S => In("created", songMail'[s])
        <3> TAKE s \in Songs
        <3>1. songMail[s] \in Seq(SongEvents) /\ "created" \in SongEvents
            BY <1>0, <1>18, SongTaken, BoxEffect DEF TypeList, SongEvents, FillByPlaylist, Next1
        <3>2. In("created", songMail[s]) => In("created", songMail[s])
            BY <1>0, <1>18, SongTaken, BoxEffect DEF TypeList, SongEvents, FillByPlaylist, Next1
        <3>3. \A e : In(e, Append(songMail[s], "created")) <=> In(e, songMail[s]) \/ e = "created"
            BY <3>1, AppendKeeps
        <3> QED
            BY <2>1, <3>2, <3>3
    <2>3. /\ Open' => Open
          /\ In("updated", mail) => In("updated", mail')
          /\ UNCHANGED <<phase, question, worker>>
        BY <1>18, CloseOneshotEffect, Taken
           DEF FillByPlaylist, Next1, EndCheck, Events, surroundings, Open
    <2> QED
        BY <1>0, <2>1, <2>2, <2>3 DEF Tracked, Actionable
<1>19. CASE Heartbeat
    BY <1>0, <1>19, Sent, TwoIn
        DEF Heartbeat, Events, Tracked, Actionable, Open, actors, surroundings, history
<1>20. CASE Leave
    BY <1>0, <1>20
        DEF Leave, Tracked, Actionable, Open, actors, surroundings, history
<1>21. ASSUME NEW to \in {"active", "closing", "closed"}, SetStatus(to)
      PROVE  Tracked'
    BY <1>0, <1>21, Sent
        DEF SetStatus, Events, TypeList, Tracked, Actionable, Open, actors, surroundings, history
<1>22. CASE DeletePlaylist
    BY <1>0, <1>22, Sent
        DEF DeletePlaylist, Events, TypeList, Tracked, Actionable, Open, actors, surroundings, history
<1>23. ASSUME NEW A \in SUBSET Songs, UpdatePosition(A)
      PROVE  Tracked'
    BY <1>0, <1>23, Sent, StatusEffect
        DEF UpdatePosition, Events, Tracked, Actionable, Open, actors, surroundings, history
<1>24. CASE Steer
    BY <1>0, <1>24, Sent, StatusEffect
        DEF Steer, Events, Tracked, Actionable, Open, actors, surroundings, history
<1>25. ASSUME NEW s \in Songs, AskSong(s)
      PROVE  Tracked'
    BY <1>0, <1>25, CreatedIn
        DEF AskSong, TypeList, Tracked, Actionable, Open, actors, surroundings, history
<1>26. ASSUME NEW s \in Songs, DeleteSong(s)
      PROVE  Tracked'
    BY <1>0, <1>26
        DEF DeleteSong, Becomes, Without, TypeList, Tracked, Actionable, Open, actors, surroundings, history
<1>27. ASSUME NEW S \in SUBSET Songs, StaleCleanup(S)
      PROVE  Tracked'
    BY <1>0, <1>27
        DEF StaleCleanup, Becomes, Without, TypeList, Tracked, Actionable, Open, actors, surroundings, history
<1>28. CASE AskQuestion
    BY <1>0, <1>28
        DEF AskQuestion, Tracked, Actionable, Open, actors, surroundings, history
<1>29. CASE AnswerQuestion
    BY <1>0, <1>29, Sent
        DEF AnswerQuestion, Events, Tracked, Actionable, Open, actors, surroundings, history
<1>30. CASE FinishPlanning
    BY <1>0, <1>30, Sent
        DEF FinishPlanning, Events, Tracked, Actionable, Open, actors, surroundings, history
<1>31. CASE TimerFires
    BY <1>0, <1>31, Sent
        DEF TimerFires, Events, Tracked, Actionable, Open, actors, surroundings, history
<1>32. CASE Crash
    BY <1>0, <1>32
        DEF Crash, Tracked, Actionable, Open, actors, surroundings, history
<1>33. CASE Sweep
    <2>1. CASE Open
        <3>1. \A s \in Songs : Actionable(s)' => worker'[s] = "new"
            BY <1>0, <1>33, <2>1, SweepEffect DEF Actionable, InFlight
        <3> QED
            BY <3>1 DEF Tracked
    <2> QED
        BY <1>33, <2>1 DEF Sweep, Tracked, Open
<1>34. CASE UNCHANGED vars
    BY <1>0, <1>34 DEF Tracked, Actionable, Open, vars, actors, surroundings, history
<1>35. ASSUME NEW S \in SUBSET Songs, PrimeRoom(S)
      PROVE  Tracked'
    <2>1. UNCHANGED <<phase, status, question, worker, mail>>
        BY <1>35 DEF PrimeRoom, surroundings
    <2> QED
        BY <1>0, <1>35, <2>1, PrimeEffect, CreatedIn DEF Tracked, Actionable, Open
<1> QED
    BY <1>1, <1>2, <1>3, <1>4, <1>5, <1>6, <1>7, <1>8, <1>9, <1>10, <1>11, <1>12, <1>13,
       <1>14, <1>15, <1>16, <1>17, <1>18, <1>19, <1>20, <1>21, <1>22, <1>23, <1>24, <1>25, <1>26, <1>27, <1>28, <1>29, <1>30, <1>31, <1>32, <1>33, <1>34, <1>35
        DEF Next, Users, HandlePlaylist, HandleSong

-------------------------------------------------------------------------------
(* The mail after a check. *)

LEMMA FilledBox ==
    ASSUME TypeOK, NEW s \in Songs, songMail[s] # <<>>, Head(songMail[s]) = "fill"
    PROVE  LET box == [songMail EXCEPT ![s][1] = "settled"]
           IN  /\ box \in [Songs -> Seq(SongEvents)]
               /\ \A r \in Songs : r # s => box[r] = songMail[r]
               /\ \A e : e # "fill" /\ In(e, songMail[s]) => In(e, box[s])
               /\ In("settled", box[s])
               /\ FillFirst(songMail[s]) => FillFirst(box[s]) /\ ~In("fill", box[s])
<1> DEFINE q == [songMail[s] EXCEPT ![1] = "settled"]
           box == [songMail EXCEPT ![s][1] = "settled"]
<1>1. "settled" \in SongEvents /\ songMail \in [Songs -> Seq(SongEvents)]
    BY DEF SongEvents, TypeOK
<1>2. /\ q \in Seq(SongEvents)
      /\ \A e : In(e, q) <=> e = "settled" \/ In(e, Tail(songMail[s]))
      /\ FillFirst(songMail[s]) => FillFirst(q)
    BY <1>1, SongTaken
<1>3. /\ \A e : In(e, songMail[s]) <=> e = "fill" \/ In(e, Tail(songMail[s]))
      /\ FillFirst(songMail[s]) => ~In("fill", Tail(songMail[s]))
    BY SongTaken
<1>4. \A r \in Songs : box[r] = IF r = s THEN q ELSE songMail[r]
    BY <1>1
<1>5. box \in [Songs -> Seq(SongEvents)]
    BY <1>1, <1>2
<1> HIDE DEF q, box
<1>6. \A e : e # "fill" /\ In(e, songMail[s]) => In(e, box[s])
    BY <1>2, <1>3, <1>4
<1>7. In("settled", box[s])
    BY <1>2, <1>4
<1>8. FillFirst(songMail[s]) => FillFirst(box[s]) /\ ~In("fill", box[s])
    BY <1>2, <1>3, <1>4
<1> QED
    BY <1>4, <1>5, <1>6, <1>7, <1>8 DEF box

LEMMA EndCheckMail ==
    ASSUME TypeOK, NEW who \in Checkers, NEW rest, NEW box \in [Songs -> Seq(SongEvents)],
           EndCheck(who, rest, box)
    PROVE  \E S \in SUBSET {s \in Songs : Spare(s)} :
               /\ Cardinality(S) = IF status = "deleted" THEN 0 ELSE due[who].create
               /\ songs' = WithNew(songs, S)
               /\ \A s \in Songs :
                      /\ songs'[s] = IF s \in S THEN New ELSE songs[s]
                      /\ \A e : In(e, songMail'[s]) <=> In(e, box[s]) \/ (s \in S /\ e = "created")
                      /\ FillFirst(box[s]) => FillFirst(songMail'[s])
<1>1. PICK S \in SUBSET {s \in Songs : Spare(s)} :
          /\ Cardinality(S) = IF status = "deleted" THEN 0 ELSE due[who].create
          /\ songs' = WithNew(songs, S)
          /\ \A s \in Songs : songs'[s] = IF s \in S THEN New ELSE songs[s]
          /\ \A s \in Songs : songMail'[s] = IF s \in S THEN Append(box[s], "created") ELSE box[s]
    BY EndCheckEffect
<1>2. ASSUME NEW s \in Songs
      PROVE  /\ \A e : In(e, Append(box[s], "created")) <=> In(e, box[s]) \/ e = "created"
             /\ FillFirst(box[s]) => FillFirst(Append(box[s], "created"))
    <2>1. box[s] \in Seq(SongEvents) /\ "created" \in SongEvents
        BY DEF SongEvents
    <2> QED
        BY <2>1, AppendKeeps
<1>3. ASSUME NEW s \in Songs
      PROVE  /\ \A e : In(e, songMail'[s]) <=> In(e, box[s]) \/ (s \in S /\ e = "created")
             /\ FillFirst(box[s]) => FillFirst(songMail'[s])
    <2>1. CASE s \in S
        <3>1. songMail'[s] = Append(box[s], "created")
            BY <1>1, <2>1
        <3> QED
            BY <1>2, <2>1, <3>1
    <2>2. CASE s \notin S
        <3>1. songMail'[s] = box[s]
            BY <1>1, <2>2
        <3> QED
            BY <2>2, <3>1
    <2> QED
        BY <2>1, <2>2
<1> QED
    BY <1>1, <1>3

\* A song that has become ready, or has failed.
LEMMA EndedEffect ==
    ASSUME TypeOK, NEW s \in Songs, NEW to \in {"ready", "gone"}, NEW e \in {"ready", "settled"},
           IF songs[s] = None
           THEN songs' = songs /\ songMail' = songMail
           ELSE /\ songs' = [songs EXCEPT ![s].status = to]
                /\ songMail' = [songMail EXCEPT ![s] = Append(@, e)]
    PROVE  /\ \A r \in Songs : r # s => songs'[r] = songs[r] /\ songMail'[r] = songMail[r]
           /\ songs[s] = None => songs' = songs /\ songMail' = songMail
           /\ songs[s] # None => /\ songs'[s].status = to /\ songs'[s].ahead = songs[s].ahead
                                 /\ songs'[s].fresh = songs[s].fresh
                                 /\ In(e, songMail'[s])
           /\ \A x : In(x, songMail'[s]) => In(x, songMail[s]) \/ x = e
           /\ \A x : In(x, songMail[s]) => In(x, songMail'[s])
           /\ FillFirst(songMail[s]) => FillFirst(songMail'[s])
<1>1. CASE songs[s] = None
    BY <1>1
<1>2. CASE songs[s] # None
    <2>1. songMail' = [songMail EXCEPT ![s] = Append(@, e)]
        BY <1>2
    <2>2. \A r \in Songs : songMail'[r] = IF r = s THEN Append(songMail[s], e) ELSE songMail[r]
        BY <2>1 DEF TypeOK
    <2>3. /\ \A x : In(x, Append(songMail[s], e)) <=> In(x, songMail[s]) \/ x = e
          /\ FillFirst(songMail[s]) => FillFirst(Append(songMail[s], e))
        BY SongSent DEF SongEvents
    <2>4. songs' = [songs EXCEPT ![s].status = to] /\ to \in Kinds
        BY <1>2 DEF Kinds
    <2>5. /\ \A r \in Songs : r # s => [songs EXCEPT ![s].status = to][r] = songs[r]
          /\ [songs EXCEPT ![s].status = to][s].status = to
          /\ [songs EXCEPT ![s].status = to][s].ahead = songs[s].ahead
          /\ [songs EXCEPT ![s].status = to][s].fresh = songs[s].fresh
        BY <1>2, <2>4, StatusEffect
    <2> QED
        BY <1>2, <2>2, <2>3, <2>4, <2>5
<1> QED
    BY <1>1, <1>2

-------------------------------------------------------------------------------
(* A playlist that is closing gets closed. *)

EndEvents == {"ready", "fill", "settled"}

\* A closing playlist waits for a song in flight, or for the answer to a question, or
\* for something that is on its way and leads to the one or the other or to its end.
ClosingGoesOn ==
    status = "closing" /\ ~vanished =>
        \/ ~NoneInFlight(songs)
        \/ (question \/ In("updated", mail)) /\ \E s \in Songs : songs[s].status = "pending"
        \/ phase = "starting"
        \/ In("closing", mail)
        \/ \E s \in Songs : \E e \in EndEvents : In(e, songMail[s])
        \/ \E s \in Songs : worker[s] = "new" /\ Actionable(s)

LEMMA ClosingStep ==
    ASSUME TypeOK, Ends, ClosingGoesOn, [Next]_vars
    PROVE  ClosingGoesOn'
<1>0. /\ TypeList
      /\ \A s \in Songs : songs[s] = None <=> songs[s].status = "none"
      /\ None.status = "none" /\ New.status = "pending"
    BY Listed, RowsKeep DEF Open, TypeOK, TypeList, None, New
<1>1. ASSUME NEW s \in Songs, Claim(s)
      PROVE  ClosingGoesOn'
    BY <1>0, <1>1, ClaimEffect
        DEF Open, ClosingGoesOn, NoneInFlight, Actionable, actors, surroundings, history
<1>2. ASSUME NEW s \in Songs, SongReady(s)
      PROVE  ClosingGoesOn'
    <2>1. /\ UNCHANGED <<status, question, phase, vanished>>
          /\ \A e : In(e, mail) => In(e, mail')
          /\ \A r \in Songs : r # s => songs'[r] = songs[r] /\ songMail'[r] = songMail[r]
                                       /\ worker'[r] = worker[r]
          /\ songs[s] = None => songs' = songs /\ songMail' = songMail
          /\ songs[s] # None => \E e \in EndEvents : In(e, songMail'[s])
          /\ worker[s] = "busy"
        BY <1>0, <1>2, EndedEffect, Sent
           DEF SongReady, TypeList, EndEvents, Events, actors, surroundings, history
    <2> QED
        BY <1>0, <2>1 DEF ClosingGoesOn, NoneInFlight, Actionable
<1>3. ASSUME NEW s \in Songs, SongFails(s)
      PROVE  ClosingGoesOn'
    <2>1. /\ UNCHANGED <<status, question, phase, vanished>>
          /\ \A e : In(e, mail) => In(e, mail')
          /\ \A r \in Songs : r # s => songs'[r] = songs[r] /\ songMail'[r] = songMail[r]
                                       /\ worker'[r] = worker[r]
          /\ songs[s] = None => songs' = songs /\ songMail' = songMail
          /\ songs[s] # None => \E e \in EndEvents : In(e, songMail'[s])
          /\ worker[s] = "busy"
        BY <1>0, <1>3, EndedEffect
           DEF SongFails, Becomes, TypeList, EndEvents, Events, actors, surroundings, history
    <2> QED
        BY <1>0, <2>1 DEF ClosingGoesOn, NoneInFlight, Actionable
<1>4. ASSUME NEW s \in Songs, SongRetries(s)
      PROVE  ClosingGoesOn'
    <2>1. status = "closing" => worker'[s] = "new"
        BY <1>0, <1>4 DEF SongRetries, Open, TypeList
    <2>2. PICK to \in {"pending", "meta", "flight"} : songs' = [songs EXCEPT ![s].status = to]
        BY <1>4 DEF SongRetries
    <2>3. songs[s] # None /\ to \in Kinds
        BY <1>0, <1>4 DEF SongRetries, Kinds
    <2>4. songs'[s].status = to
        BY <2>2, <2>3, StatusEffect
    <2> QED
        BY <1>4, <2>1, <2>4 DEF ClosingGoesOn, Actionable, SongRetries
<1>5. ASSUME NEW s \in Songs, HandleSongCreated(s)
      PROVE  ClosingGoesOn'
    <2>1. \A r \in Songs : songMail'[r] = IF r = s THEN Tail(songMail[s]) ELSE songMail[r]
        BY <1>0, <1>5 DEF HandleSongCreated, TypeList
    <2>2. \A e \in EndEvents : In(e, songMail[s]) => In(e, Tail(songMail[s]))
        BY <1>5, SongTaken DEF HandleSongCreated, EndEvents
    <2>3. /\ \A r \in Songs : worker[r] = "new" => worker'[r] = "new"
          /\ UNCHANGED <<status, songs, mail, question, phase, vanished>>
        BY <1>0, <1>5 DEF HandleSongCreated, Spawned, TypeList, surroundings, history
    <2> QED
        BY <2>1, <2>2, <2>3 DEF ClosingGoesOn, NoneInFlight, Actionable
<1>6. ASSUME NEW s \in Songs, HandleSongReady(s)
      PROVE  ClosingGoesOn'
    <2>1. songMail[s] # <<>> /\ Head(songMail[s]) = "ready"
        BY <1>6 DEF HandleSongReady
    <2>2. PICK e \in {"fill", "settled"} : songMail' = [songMail EXCEPT ![s][1] = e]
        BY <1>6 DEF HandleSongReady
    <2>3. songMail'[s] = [songMail[s] EXCEPT ![1] = e]
        BY <1>0, <2>2 DEF TypeList
    <2>4. In(e, [songMail[s] EXCEPT ![1] = e])
        BY <2>1, SongTaken DEF SongEvents
    <2> QED
        BY <2>3, <2>4 DEF ClosingGoesOn, EndEvents
<1>7. ASSUME NEW s \in Songs, FillBySong(s)
      PROVE  ClosingGoesOn'
    <2> DEFINE box == [songMail EXCEPT ![s][1] = "settled"]
    <2>1. /\ EndCheck(s, mail, box) /\ box \in [Songs -> Seq(SongEvents)]
          /\ In("settled", box[s]) /\ s \in Checkers
        BY <1>7, FilledBox DEF FillBySong, Checkers
    <2> HIDE DEF box
    <2>2. In("settled", songMail'[s])
        BY <2>1, EndCheckMail
    <2> QED
        BY <2>2 DEF ClosingGoesOn, EndEvents
<1>8. ASSUME NEW s \in Songs, HandleSongSettled(s)
      PROVE  ClosingGoesOn'
    <2>1. CASE ClosesWith
        BY <1>8, <2>1 DEF HandleSongSettled, ClosingGoesOn
    <2>2. CASE ~ClosesWith
        BY <1>8, <2>2 DEF HandleSongSettled, ClosesWith, ClosingGoesOn, NoneInFlight
    <2> QED
        BY <2>1, <2>2
<1>9. CASE HandleCreated
    BY <1>0, <1>9, CreatedEffect DEF ClosingGoesOn, NoneInFlight, Actionable
<1>10. CASE HandleSteered
    <2>1. CASE seen \/ status = "deleted"
        <3>1. /\ \A e \in {"updated", "closing"} : In(e, mail) => In(e, mail')
              /\ UNCHANGED <<status, songs, worker, songMail, question, phase, vanished>>
            <4>1. /\ mail # <<>> /\ Head(mail) = "steered" /\ mail' = Tail(mail)
                  /\ UNCHANGED <<status, songs, worker, songMail, question, phase, vanished>>
                BY <1>10, <2>1 DEF HandleSteered, Next1, surroundings
            <4> QED
                BY <4>1, Taken
        <3> QED
            BY <3>1 DEF ClosingGoesOn, NoneInFlight, Actionable
    <2>2. CASE ~(seen \/ status = "deleted") /\ OldPending = {}
        <3>1. songs' = songs /\ worker' = worker
            BY <1>0, <1>10, <2>2 DEF HandleSteered, Without, TypeList
        <3>2. /\ \A e \in {"updated", "closing"} : In(e, mail) => In(e, mail')
              /\ UNCHANGED <<status, songMail, question, phase>>
            BY <1>10, SteeredEffect
        <3>3. vanished' = vanished
            BY <1>0, <1>10, <2>2 DEF HandleSteered, Vanishes, TypeList
        <3> QED
            BY <3>1, <3>2, <3>3 DEF ClosingGoesOn, NoneInFlight, Actionable
    <2>3. CASE ~(seen \/ status = "deleted") /\ OldPending # {}
        BY <1>10, <2>3 DEF HandleSteered, Vanishes, OldPending, Actionable, ClosingGoesOn
    <2> QED
        BY <2>1, <2>2, <2>3
<1>11. CASE HandleHeartbeat
    BY <1>0, <1>11, Taken
        DEF HandleHeartbeat, Next1, ClosingGoesOn, NoneInFlight, Actionable, actors, surroundings, history
<1>12. CASE HandleUpdated
    <2>1. /\ In("closing", mail) => In("closing", mail')
          /\ UNCHANGED <<status, songs, songMail, question, phase, vanished>>
        BY <1>12, Taken DEF HandleUpdated, Next1, ThenCheck, Events, surroundings, history
    <2>2. \A s \in Songs : /\ worker[s] = "new" => worker'[s] = "new"
                           /\ status = "closing" /\ songs[s].status = "pending" => worker'[s] = "new"
        BY <1>0, <1>12, SpawnEffect
           DEF HandleUpdated, Actionable, Open, Ends, BusyRows, TypeList
    <2> QED
        BY <2>1, <2>2 DEF ClosingGoesOn, NoneInFlight, Actionable
<1>13. CASE HandleClosing
    BY <1>0, <1>13
        DEF HandleClosing, Open, ClosingGoesOn, NoneInFlight, Actionable, actors, surroundings, history
<1>14. CASE HandleClosed
    BY <1>0, <1>14, Taken
        DEF HandleClosed, Next1, Ends, EndIsTold, Open, ClosingGoesOn, NoneInFlight, Actionable, actors, surroundings, history
<1>15. CASE HandleDeleted
    BY <1>0, <1>15, Taken
        DEF HandleDeleted, Next1, Ends, EndIsTold, Open, ClosingGoesOn, NoneInFlight, Actionable, actors, surroundings, history
<1>16. CASE HandleReopened
    BY <1>0, <1>16, Taken, SpawnEffect
        DEF HandleReopened, Next1, ThenCheck, Events, TypeList, ClosingGoesOn, NoneInFlight, Actionable, actors, surroundings, history
<1>17. CASE CheckByPlaylist
    BY <1>0, <1>17, CheckMail
        DEF CheckByPlaylist, ClosingGoesOn, NoneInFlight, Actionable, actors, surroundings, history
<1>18. CASE FillByPlaylist
    <2>1. PICK S \in SUBSET {s \in Songs : Spare(s)} :
              \A s \in Songs :
                  /\ songs'[s] = IF s \in S THEN New ELSE songs[s]
                  /\ \A e : In(e, songMail[s]) => In(e, songMail'[s])
        BY <1>0, <1>18, EndCheckMail DEF FillByPlaylist, Checkers, TypeList
    <2>2. /\ status' = status \/ In("closing", mail')
          /\ \A e \in {"closing", "updated"} : In(e, mail) => In(e, mail')
          /\ UNCHANGED <<phase, question, worker, vanished>>
        BY <1>18, CloseOneshotEffect, Taken
           DEF FillByPlaylist, Next1, EndCheck, Events, surroundings, history
    <2> QED
        BY <1>0, <2>1, <2>2 DEF ClosingGoesOn, NoneInFlight, Actionable, Spare
<1>19. CASE Heartbeat
    BY <1>0, <1>19, Sent, TwoIn
        DEF Heartbeat, Events, ClosingGoesOn, NoneInFlight, Actionable, actors, surroundings, history
<1>20. CASE Leave
    BY <1>0, <1>20
        DEF Leave, ClosingGoesOn, NoneInFlight, Actionable, actors, surroundings, history
<1>21. ASSUME NEW to \in {"active", "closing", "closed"}, SetStatus(to)
      PROVE  ClosingGoesOn'
    BY <1>0, <1>21, Sent
        DEF SetStatus, Events, TypeList, ClosingGoesOn, NoneInFlight, Actionable, actors, surroundings, history
<1>22. CASE DeletePlaylist
    BY <1>0, <1>22, Sent
        DEF DeletePlaylist, Events, TypeList, ClosingGoesOn, NoneInFlight, Actionable, actors, surroundings, history
<1>23. ASSUME NEW A \in SUBSET Songs, UpdatePosition(A)
      PROVE  ClosingGoesOn'
    <2>1. /\ \A e : In(e, mail) => In(e, mail')
          /\ UNCHANGED <<status, worker, songMail, question, phase, vanished>>
        BY <1>23, Sent DEF UpdatePosition, Events, surroundings
    <2>2. \A s \in Songs : songs'[s].status = songs[s].status
        BY <1>23, StatusEffect
    <2> QED
        BY <2>1, <2>2 DEF ClosingGoesOn, NoneInFlight, Actionable
<1>24. CASE Steer
    <2>1. /\ \A e : In(e, mail) => In(e, mail')
          /\ UNCHANGED <<status, worker, songMail, question, phase, vanished>>
        BY <1>24, Sent DEF Steer, Events, surroundings
    <2>2. \A s \in Songs : songs'[s].status = songs[s].status
        BY <1>24, StatusEffect
    <2> QED
        BY <2>1, <2>2 DEF ClosingGoesOn, NoneInFlight, Actionable
<1>25. ASSUME NEW s \in Songs, AskSong(s)
      PROVE  ClosingGoesOn'
    BY <1>0, <1>25
        DEF AskSong, TypeList, ClosingGoesOn, NoneInFlight, Actionable, actors, surroundings, history
<1>26. ASSUME NEW s \in Songs, DeleteSong(s)
      PROVE  ClosingGoesOn'
    BY <1>0, <1>26
        DEF DeleteSong, Becomes, Without, TypeList, Vanishes, ClosingGoesOn, NoneInFlight, Actionable, actors, surroundings, history
<1>27. ASSUME NEW S \in SUBSET Songs, StaleCleanup(S)
      PROVE  ClosingGoesOn'
    BY <1>0, <1>27
        DEF StaleCleanup, Vanishes, InFlight, ClosingGoesOn, NoneInFlight, Actionable, actors, surroundings, history
<1>28. CASE AskQuestion
    BY <1>0, <1>28
        DEF AskQuestion, ClosingGoesOn, NoneInFlight, Actionable, actors, surroundings, history
<1>29. CASE AnswerQuestion
    BY <1>0, <1>29, Sent
        DEF AnswerQuestion, Events, ClosingGoesOn, NoneInFlight, Actionable, actors, surroundings, history
<1>30. CASE FinishPlanning
    BY <1>0, <1>30, Sent
        DEF FinishPlanning, Events, ClosingGoesOn, NoneInFlight, Actionable, actors, surroundings, history
<1>31. CASE TimerFires
    BY <1>0, <1>31, Sent
        DEF TimerFires, Events, ClosingGoesOn, NoneInFlight, Actionable, actors, surroundings, history
<1>32. CASE Crash
    BY <1>0, <1>32
        DEF Crash, ClosingGoesOn, NoneInFlight, Actionable, actors, surroundings, history
<1>33. CASE Sweep
    <2>1. CASE Open
        <3>1. PICK reverted \in SUBSET InFlight : \E stale \in SUBSET (InFlight \ reverted) :
                  /\ status' = IF SweepCloses(BackToMeta(reverted)) THEN "closed" ELSE status
                  /\ Vanishes(stale)
                  /\ \A s \in Songs :
                         /\ BackToMeta(reverted)[s] = IF s \in reverted
                                                      THEN [songs[s] EXCEPT !.status = "meta"]
                                                      ELSE songs[s]
                         /\ songs'[s] = IF s \in stale THEN None
                                        ELSE IF s \in reverted
                                        THEN [songs[s] EXCEPT !.status = "meta"] ELSE songs[s]
                         /\ s \in reverted => [songs[s] EXCEPT !.status = "meta"].status = "meta"
            BY <1>33, <2>1, SweepEffect
        <3>2. PICK stale \in SUBSET (InFlight \ reverted) :
                  /\ status' = IF SweepCloses(BackToMeta(reverted)) THEN "closed" ELSE status
                  /\ Vanishes(stale)
                  /\ \A s \in Songs :
                         /\ BackToMeta(reverted)[s] = IF s \in reverted
                                                      THEN [songs[s] EXCEPT !.status = "meta"]
                                                      ELSE songs[s]
                         /\ songs'[s] = IF s \in stale THEN None
                                        ELSE IF s \in reverted
                                        THEN [songs[s] EXCEPT !.status = "meta"] ELSE songs[s]
                         /\ s \in reverted => [songs[s] EXCEPT !.status = "meta"].status = "meta"
            BY <3>1
        <3>3. ASSUME status' = "closing", ~vanished'
              PROVE  ~NoneInFlight(songs')
            <4>1. PICK s \in Songs : BackToMeta(reverted)[s].status = "flight" /\ status = "closing"
                BY <3>2, <3>3 DEF SweepCloses, NoneInFlight
            <4>2. s \notin reverted /\ songs[s].status = "flight"
                BY <3>2, <4>1
            <4>3. s \notin stale
                BY <3>2, <3>3, <4>1, <4>2 DEF Vanishes, Actionable
            <4> QED
                BY <3>2, <4>2, <4>3 DEF NoneInFlight
        <3> QED
            BY <3>3 DEF ClosingGoesOn
    <2> QED
        BY <1>33, <2>1 DEF Sweep, ClosingGoesOn, Open
<1>34. CASE UNCHANGED vars
    BY <1>0, <1>34
       DEF ClosingGoesOn, NoneInFlight, Actionable, vars, actors, surroundings, history
<1>35. ASSUME NEW S \in SUBSET Songs, PrimeRoom(S)
      PROVE  ClosingGoesOn'
    <2>1. UNCHANGED <<phase, status, question, vanished, worker, mail>>
        BY <1>35 DEF PrimeRoom, surroundings
    <2>2. S \in SUBSET {s \in Songs : Spare(s)}
        BY <1>35, PrimeEffect
    <2>3. \A s \in Songs : s \notin S => songs'[s] = songs[s] /\ songMail'[s] = songMail[s]
        BY <1>35, PrimeEffect
    <2>4. \A s \in Songs : \/ songs'[s] = songs[s] /\ songMail'[s] = songMail[s]
                           \/ songMail[s] = <<>> /\ worker[s] = "none"
                              /\ songs[s].status \in {"none", "ready", "gone"}
        <3> TAKE s \in Songs
        <3>1. CASE s \in S
            BY <2>2, <3>1 DEF Spare
        <3>2. CASE s \notin S
            BY <2>3, <3>2
        <3> QED
            BY <3>1, <3>2
    <2>5. \A s \in Songs, e \in EndEvents : In(e, songMail[s]) => In(e, songMail'[s])
        BY <2>4, NothingIn
    <2> QED
        BY <2>1, <2>4, <2>5 DEF ClosingGoesOn, NoneInFlight, Actionable
<1> QED
    BY <1>1, <1>2, <1>3, <1>4, <1>5, <1>6, <1>7, <1>8, <1>9, <1>10, <1>11, <1>12, <1>13,
       <1>14, <1>15, <1>16, <1>17, <1>18, <1>19, <1>20, <1>21, <1>22, <1>23, <1>24, <1>25, <1>26, <1>27, <1>28, <1>29, <1>30, <1>31, <1>32, <1>33, <1>34, <1>35
        DEF Next, Users, HandlePlaylist, HandleSong

-------------------------------------------------------------------------------
(* A playlist somebody looks at stays open. *)

\* Somebody looks at the playlist, wants it, and every event of it came through.
Watched == present /\ wish = "open" /\ ~belated /\ mode = "endless"

WatchedInv == Watched /\ Open => status = "active" /\ ~In("closing", mail)

\* Only the check of a oneshot closes it.
OnlyOneshots == \A who \in Checkers : due[who].close => mode = "oneshot"

\* What WatchedStaysOpen says of a step.
StaysOpen ==
    mode = "endless" /\ Open /\ present' /\ wish' = "open" /\ ~belated' => status' = "active"

\* The ways a check begins and ends.
LEMMA DueSteps ==
    ASSUME [Next]_vars
    PROVE  \/ UNCHANGED due
           \/ \E who \in Checkers : StartCheck(who) \/ due' = [due EXCEPT ![who] = NoDue]
           \/ due' = [who \in Checkers |-> NoDue]
<1>1. CASE UNCHANGED vars
    BY <1>1 DEF vars, actors
<1>2. ASSUME NEW s \in Songs, HandleSong(s) \/ Claim(s) \/ SongReady(s) \/ SongFails(s) \/ SongRetries(s)
      PROVE  \/ UNCHANGED due
             \/ \E who \in Checkers : StartCheck(who) \/ due' = [due EXCEPT ![who] = NoDue]
    BY <1>2 DEF HandleSong, Claim, SongReady, SongFails, SongRetries, HandleSongCreated,
        HandleSongReady, FillBySong, EndCheck, HandleSongSettled, actors, Checkers
<1>3. CASE HandlePlaylist
    BY <1>3 DEF HandlePlaylist, HandleCreated, HandleSteered, HandleHeartbeat, HandleUpdated,
        HandleClosing, HandleClosed, HandleDeleted, HandleReopened, CheckByPlaylist,
        FillByPlaylist, EndCheck, Checkers
<1>4. CASE Users
    BY <1>4 DEF Users, Heartbeat, Leave, SetStatus, DeletePlaylist, UpdatePosition, Steer,
        AskSong, DeleteSong, AskQuestion, AnswerQuestion, actors
<1>5. CASE FinishPlanning \/ TimerFires \/ (\E S \in SUBSET Songs : StaleCleanup(S) \/ PrimeRoom(S))
           \/ Crash \/ Sweep
    BY <1>5 DEF FinishPlanning, TimerFires, StaleCleanup, PrimeRoom, Crash, Sweep, actors
<1> QED
    BY <1>1, <1>2, <1>3, <1>4, <1>5 DEF Next

LEMMA ModeStays ==
    ASSUME [Next]_vars
    PROVE  mode' = mode
<1>1. CASE UNCHANGED vars
    BY <1>1 DEF vars
<1>2. ASSUME NEW s \in Songs, HandleSong(s) \/ Claim(s) \/ SongReady(s) \/ SongFails(s) \/ SongRetries(s)
      PROVE  mode' = mode
    BY <1>2 DEF HandleSong, Claim, SongReady, SongFails, SongRetries, HandleSongCreated,
        HandleSongReady, FillBySong, HandleSongSettled
<1>3. CASE HandlePlaylist
    BY <1>3 DEF HandlePlaylist, HandleCreated, HandleSteered, HandleHeartbeat, HandleUpdated,
        HandleClosing, HandleClosed, HandleDeleted, HandleReopened, CheckByPlaylist, FillByPlaylist
<1>4. CASE Users
    BY <1>4 DEF Users, Heartbeat, Leave, SetStatus, DeletePlaylist, UpdatePosition, Steer,
        AskSong, DeleteSong, AskQuestion, AnswerQuestion
<1>5. CASE FinishPlanning \/ TimerFires \/ (\E S \in SUBSET Songs : StaleCleanup(S) \/ PrimeRoom(S))
           \/ Crash \/ Sweep
    BY <1>5 DEF FinishPlanning, TimerFires, StaleCleanup, PrimeRoom, Crash, Sweep
<1> QED
    BY <1>1, <1>2, <1>3, <1>4, <1>5 DEF Next

LEMMA OneshotsStep ==
    ASSUME TypeOK, OnlyOneshots, [Next]_vars
    PROVE  OnlyOneshots'
<1>0. due \in [Checkers -> Dues] /\ ~NoDue.close /\ mode' = mode
    BY ModeStays DEF TypeOK, Dues, NoDue
<1>1. CASE UNCHANGED due
    BY <1>0, <1>1 DEF OnlyOneshots
<1>2. ASSUME NEW who \in Checkers, StartCheck(who)
      PROVE  OnlyOneshots'
    BY <1>0, <1>2 DEF StartCheck, OnlyOneshots, Wanted
<1>3. ASSUME NEW who \in Checkers, due' = [due EXCEPT ![who] = NoDue]
      PROVE  OnlyOneshots'
    BY <1>0, <1>3 DEF OnlyOneshots
<1>4. CASE due' = [who \in Checkers |-> NoDue]
    BY <1>0, <1>4 DEF OnlyOneshots
<1>5. \/ UNCHANGED due
      \/ \E who \in Checkers : StartCheck(who) \/ due' = [due EXCEPT ![who] = NoDue]
      \/ due' = [who \in Checkers |-> NoDue]
    BY DueSteps
<1> QED
    BY <1>1, <1>2, <1>3, <1>4, <1>5

LEMMA WatchedStep ==
    ASSUME TypeOK, Ends, OnlyOneshots, WatchedInv, [Next]_vars
    PROVE  WatchedInv' /\ (StaysOpen \/ UNCHANGED vars)
<1>0. TypeList
    BY Listed
<1>1. ASSUME NEW s \in Songs, Claim(s)
      PROVE  WatchedInv' /\ StaysOpen
    BY <1>0, <1>1, ClaimEffect
        DEF WatchedInv, Watched, StaysOpen, Open, actors, surroundings, history
<1>2. ASSUME NEW s \in Songs, SongReady(s)
      PROVE  WatchedInv' /\ StaysOpen
    BY <1>0, <1>2, Sent
        DEF SongReady, Events, WatchedInv, Watched, StaysOpen, Open, actors, surroundings, history
<1>3. ASSUME NEW s \in Songs, SongFails(s)
      PROVE  WatchedInv' /\ StaysOpen
    BY <1>0, <1>3
        DEF SongFails, Becomes, WatchedInv, Watched, StaysOpen, Open, actors, surroundings, history
<1>4. ASSUME NEW s \in Songs, SongRetries(s)
      PROVE  WatchedInv' /\ StaysOpen
    BY <1>0, <1>4
        DEF SongRetries, WatchedInv, Watched, StaysOpen, Open, actors, surroundings, history
<1>5. ASSUME NEW s \in Songs, HandleSongCreated(s)
      PROVE  WatchedInv' /\ StaysOpen
    BY <1>0, <1>5
        DEF HandleSongCreated, WatchedInv, Watched, StaysOpen, Open, actors, surroundings, history
<1>6. ASSUME NEW s \in Songs, HandleSongReady(s)
      PROVE  WatchedInv' /\ StaysOpen
    BY <1>0, <1>6
        DEF HandleSongReady, WatchedInv, Watched, StaysOpen, Open, actors, surroundings, history
<1>7. ASSUME NEW s \in Songs, FillBySong(s)
      PROVE  WatchedInv' /\ StaysOpen
    <2>1. CloseOneshot(s, mail)
        BY <1>7 DEF FillBySong, EndCheck
    <2>2. s \in Checkers /\ (mode = "endless" => ~due[s].close)
        BY <1>0 DEF OnlyOneshots, Checkers
    <2>3. /\ mode = "endless" => status' = status /\ (In("closing", mail') => In("closing", mail))
          /\ UNCHANGED <<mode, present, wish, belated>>
        BY <1>7, <2>1, <2>2, CloseOneshotEffect DEF FillBySong, surroundings, history
    <2> QED
        BY <2>3 DEF WatchedInv, Watched, StaysOpen, Open
<1>8. ASSUME NEW s \in Songs, HandleSongSettled(s)
      PROVE  WatchedInv' /\ StaysOpen
    BY <1>0, <1>8
        DEF HandleSongSettled, ClosesWith, WatchedInv, Watched, StaysOpen, Open, actors, surroundings, history
<1>9. ASSUME HandleCreated
      PROVE  WatchedInv' /\ StaysOpen
    BY <1>0, <1>9, CreatedEffect DEF WatchedInv, Watched, StaysOpen, Open
<1>10. ASSUME HandleSteered
      PROVE  WatchedInv' /\ StaysOpen
    BY <1>0, <1>10, SteeredEffect DEF WatchedInv, Watched, StaysOpen, Open
<1>11. ASSUME HandleHeartbeat
      PROVE  WatchedInv' /\ StaysOpen
    BY <1>0, <1>11, Taken
        DEF HandleHeartbeat, Next1, WatchedInv, Watched, StaysOpen, Open, actors, surroundings, history
<1>12. ASSUME HandleUpdated
      PROVE  WatchedInv' /\ StaysOpen
    BY <1>0, <1>12, Taken
        DEF HandleUpdated, Next1, ThenCheck, Events, WatchedInv, Watched, StaysOpen, Open, actors, surroundings, history
<1>13. ASSUME HandleClosing
      PROVE  WatchedInv' /\ StaysOpen
    BY <1>0, <1>13, Taken
        DEF HandleClosing, Next1, TypeList, WatchedInv, Watched, StaysOpen, Open, actors, surroundings, history
<1>14. ASSUME HandleClosed
      PROVE  WatchedInv' /\ StaysOpen
    BY <1>0, <1>14, StopsEffect
        DEF HandleClosed, WatchedInv, Watched, StaysOpen, Open, actors, surroundings, history
<1>15. ASSUME HandleDeleted
      PROVE  WatchedInv' /\ StaysOpen
    BY <1>0, <1>15, StopsEffect
        DEF HandleDeleted, WatchedInv, Watched, StaysOpen, Open, actors, surroundings, history
<1>16. ASSUME HandleReopened
      PROVE  WatchedInv' /\ StaysOpen
    BY <1>0, <1>16, Taken
        DEF HandleReopened, Next1, ThenCheck, Events, WatchedInv, Watched, StaysOpen, Open, actors, surroundings, history
<1>17. ASSUME CheckByPlaylist
      PROVE  WatchedInv' /\ StaysOpen
    BY <1>0, <1>17, CheckMail
        DEF CheckByPlaylist, WatchedInv, Watched, StaysOpen, Open, actors, surroundings, history
<1>18. ASSUME FillByPlaylist
      PROVE  WatchedInv' /\ StaysOpen
    <2>1. CloseOneshot("playlist", Tail(mail)) /\ mail # <<>>
        BY <1>18 DEF FillByPlaylist, EndCheck, Next1
    <2>2. "playlist" \in Checkers /\ (mode = "endless" => ~due["playlist"].close)
        BY <1>0 DEF OnlyOneshots, Checkers
    <2>3. /\ mode = "endless" => status' = status /\ (In("closing", mail') => In("closing", mail))
          /\ UNCHANGED <<mode, present, wish, belated>>
        BY <1>18, <2>1, <2>2, CloseOneshotEffect, Taken
           DEF FillByPlaylist, surroundings, history
    <2> QED
        BY <2>3 DEF WatchedInv, Watched, StaysOpen, Open
<1>19. ASSUME Heartbeat
      PROVE  WatchedInv' /\ StaysOpen
    <2>1. In("closing", mail') <=> In("closing", mail)
        BY <1>19, HeartbeatEffect
    <2>2. ~belated' => ~In("closing", mail) /\ ~belated
        BY <1>0, <1>19, NothingIn DEF Heartbeat, Late, Served, Idle, TypeList
    <2>3. /\ mode' = mode /\ (status' = status \/ status' = "active")
          /\ mode = "endless" /\ Open => status' = "active"
        BY <1>0, <1>19 DEF Heartbeat, Open
    <2> QED
        BY <2>1, <2>2, <2>3 DEF WatchedInv, Watched, StaysOpen, Open
<1>20. ASSUME Leave
      PROVE  WatchedInv' /\ StaysOpen
    BY <1>0, <1>20
        DEF Leave, WatchedInv, Watched, StaysOpen, Open, actors, surroundings, history
<1>21. ASSUME NEW to \in {"active", "closing", "closed"}, SetStatus(to)
      PROVE  WatchedInv' /\ StaysOpen
    BY <1>0, <1>21, Sent, NothingIn
        DEF SetStatus, Events, Served, Idle, Late, TypeList, WatchedInv, Watched, StaysOpen, Open, actors, surroundings, history
<1>22. ASSUME DeletePlaylist
      PROVE  WatchedInv' /\ StaysOpen
    BY <1>0, <1>22, Sent
        DEF DeletePlaylist, Events, TypeList, WatchedInv, Watched, StaysOpen, Open, actors, surroundings, history
<1>23. ASSUME NEW A \in SUBSET Songs, UpdatePosition(A)
      PROVE  WatchedInv' /\ StaysOpen
    BY <1>0, <1>23, Sent
        DEF UpdatePosition, Events, Late, WatchedInv, Watched, StaysOpen, Open, actors, surroundings, history
<1>24. ASSUME Steer
      PROVE  WatchedInv' /\ StaysOpen
    BY <1>0, <1>24, Sent
        DEF Steer, Events, Late, WatchedInv, Watched, StaysOpen, Open, actors, surroundings, history
<1>25. ASSUME NEW s \in Songs, AskSong(s)
      PROVE  WatchedInv' /\ StaysOpen
    BY <1>0, <1>25
        DEF AskSong, WatchedInv, Watched, StaysOpen, Open, actors, surroundings, history
<1>26. ASSUME NEW s \in Songs, DeleteSong(s)
      PROVE  WatchedInv' /\ StaysOpen
    BY <1>0, <1>26
        DEF DeleteSong, WatchedInv, Watched, StaysOpen, Open, actors, surroundings, history
<1>27. ASSUME NEW S \in SUBSET Songs, StaleCleanup(S)
      PROVE  WatchedInv' /\ StaysOpen
    BY <1>0, <1>27
        DEF StaleCleanup, WatchedInv, Watched, StaysOpen, Open, actors, surroundings, history
<1>28. ASSUME AskQuestion
      PROVE  WatchedInv' /\ StaysOpen
    BY <1>0, <1>28
        DEF AskQuestion, WatchedInv, Watched, StaysOpen, Open, actors, surroundings, history
<1>29. ASSUME AnswerQuestion
      PROVE  WatchedInv' /\ StaysOpen
    BY <1>0, <1>29, Sent
        DEF AnswerQuestion, Events, Late, WatchedInv, Watched, StaysOpen, Open, actors, surroundings, history
<1>30. ASSUME FinishPlanning
      PROVE  WatchedInv' /\ StaysOpen
    BY <1>0, <1>30, Sent
        DEF FinishPlanning, Events, WatchedInv, Watched, StaysOpen, Open, actors, surroundings, history
<1>31. ASSUME TimerFires
      PROVE  WatchedInv' /\ StaysOpen
    BY <1>0, <1>31, Sent
        DEF TimerFires, Events, WatchedInv, Watched, StaysOpen, Open, actors, surroundings, history
<1>32. ASSUME Crash
      PROVE  WatchedInv' /\ StaysOpen
    BY <1>0, <1>32, NothingIn
        DEF Crash, WatchedInv, Watched, StaysOpen, Open, actors, surroundings, history
<1>33. ASSUME Sweep
      PROVE  WatchedInv' /\ StaysOpen
    <2>1. /\ status' = status \/ (status = "closing" /\ status' = "closed")
          /\ In("closing", mail') => In("closing", mail)
        <3>1. CASE Open
            BY <1>0, <1>33, <3>1, SweepEffect, BeforeMail, Sent DEF SweepCloses, Events
        <3>2. CASE ~Open
            BY <1>33, <3>2 DEF Sweep
        <3> QED
            BY <3>1, <3>2
    <2> QED
        BY <1>33, <2>1 DEF Sweep, WatchedInv, Watched, StaysOpen, Open
<1>34. CASE UNCHANGED vars
    BY <1>0, <1>34 DEF WatchedInv, Watched, StaysOpen, Open, vars, actors, surroundings, history
<1>35. ASSUME NEW S \in SUBSET Songs, PrimeRoom(S)
      PROVE  WatchedInv' /\ StaysOpen
    BY <1>0, <1>35
        DEF PrimeRoom, WatchedInv, Watched, StaysOpen, Open, surroundings
<1> QED
    BY <1>1, <1>2, <1>3, <1>4, <1>5, <1>6, <1>7, <1>8, <1>9, <1>10, <1>11, <1>12, <1>13,
       <1>14, <1>15, <1>16, <1>17, <1>18, <1>19, <1>20, <1>21, <1>22, <1>23, <1>24, <1>25, <1>26, <1>27, <1>28, <1>29, <1>30, <1>31, <1>32, <1>33, <1>34, <1>35
        DEF Next, Users, HandlePlaylist, HandleSong

-------------------------------------------------------------------------------
(* Who holds the lock, and what its check will create. *)

\* A check that is under way holds the lock, unless the playlist is gone: then the
\* lock was given back without it.
Locks ==
    /\ FillFirst(mail)
    /\ In("fill", mail) => phase = "up" /\ (lock = "playlist" \/ status = "deleted")
    /\ \A s \in Songs : /\ FillFirst(songMail[s])
                        /\ In("fill", songMail[s]) => lock = s \/ status = "deleted"
    /\ \A who \in Checkers : due[who].create > 0 => lock = who \/ status = "deleted"

\* What a check will create fits in the buffer, unless a room has added songs since the
\* check read its numbers.
CreatesFit ==
    mode = "endless" => \A who \in Checkers :
        Ahead(songs) + due[who].create <= BufferSize \/ due[who].create = 0 \/ primed

LEMMA FewerAhead ==
    ASSUME NEW rows, NEW later, \A s \in Songs : Counts(later[s]) => Counts(rows[s])
    PROVE  Ahead(later) <= Ahead(rows)
<1>1. {s \in Songs : Counts(later[s])} \subseteq {s \in Songs : Counts(rows[s])}
    OBVIOUS
<1> QED
    BY <1>1, Sizes DEF Ahead

\* The check adds the songs it creates.
LEMMA MoreAhead ==
    ASSUME NEW S \in SUBSET {s \in Songs : Spare(s)}
    PROVE  Ahead(WithNew(songs, S)) = Ahead(songs) + Cardinality(S)
<1> DEFINE old == {s \in Songs : Counts(songs[s])}
<1>1. Counts(New)
    BY DEF Counts, New, ActiveStatuses
<1>2. \A s \in Songs : WithNew(songs, S)[s] = IF s \in S THEN New ELSE songs[s]
    BY DEF WithNew
<1>3. {s \in Songs : Counts(WithNew(songs, S)[s])} = old \cup S
    BY <1>1, <1>2 DEF Counts
<1>4. old \cap S = {} /\ old \in SUBSET Songs /\ S \in SUBSET Songs
    BY DEF Spare
<1>5. Cardinality(old \cup S) = Cardinality(old) + Cardinality(S)
    BY <1>4, Sizes
<1> QED
    BY <1>3, <1>5 DEF Ahead

\* Songs come into the buffer by a check, or while there is none by a user's request, or
\* from a room whenever it likes.
LEMMA CountsStep ==
    ASSUME TypeOK, Ends, [Next]_vars
    PROVE  \/ \A s \in Songs : Counts(songs'[s]) => Counts(songs[s])
           \/ \E who \in Checkers : \E S \in SUBSET {s \in Songs : Spare(s)} :
                  /\ songs' = WithNew(songs, S)
                  /\ Cardinality(S) = IF status = "deleted" THEN 0 ELSE due[who].create
                  /\ IF who = "playlist" THEN In("fill", mail) ELSE In("fill", songMail[who])
                  /\ due' = [due EXCEPT ![who] = NoDue]
           \/ Served /\ status # "deleted" /\ UNCHANGED <<lock, due>>
           \/ /\ status # "deleted" /\ UNCHANGED <<status, lock, due>>
              /\ primed' = (primed \/ lock # "free")
<1>0. /\ TypeList
      /\ \A s \in Songs : songs[s] = None <=> songs[s].status = "none"
      /\ None.status = "none"
      /\ {"pending", "flight", "meta", "ready"} = ActiveStatuses
    BY Listed, RowsKeep DEF None, ActiveStatuses
<1> DEFINE Fewer == \A s \in Songs : Counts(songs'[s]) => Counts(songs[s])
<1>1. ASSUME NEW s \in Songs, Claim(s)
      PROVE  Fewer
    BY <1>0, <1>1, ClaimEffect DEF Counts, Actionable
<1>2. ASSUME NEW s \in Songs, SongReady(s)
      PROVE  Fewer
    <2>1. songs[s] # None => songs[s].status = "flight"
        BY <1>0, <1>2 DEF SongReady, Ends, BusyRows
    <2>2. /\ \A r \in Songs : r # s => songs'[r] = songs[r]
          /\ songs[s] = None => songs' = songs
          /\ songs[s] # None => songs'[s].ahead = songs[s].ahead /\ songs'[s].fresh = songs[s].fresh
        BY <1>2, EndedEffect DEF SongReady
    <2> QED
        BY <1>0, <2>1, <2>2 DEF Counts
<1>3. ASSUME NEW s \in Songs, SongFails(s)
      PROVE  Fewer
    <2>1. /\ \A r \in Songs : r # s => songs'[r] = songs[r]
          /\ songs[s] = None => songs' = songs
          /\ songs[s] # None => songs'[s].status = "gone"
        BY <1>3, EndedEffect DEF SongFails, Becomes
    <2> QED
        BY <1>0, <2>1 DEF Counts, ActiveStatuses
<1>4. ASSUME NEW s \in Songs, SongRetries(s)
      PROVE  Fewer
    <2>1. PICK to \in {"pending", "meta", "flight"} : songs' = [songs EXCEPT ![s].status = to]
        BY <1>4 DEF SongRetries
    <2>2. songs[s] # None /\ to \in Kinds /\ songs[s].status \in ActiveStatuses
        BY <1>0, <1>4 DEF SongRetries, Kinds
    <2>3. /\ \A r \in Songs : r # s => songs'[r] = songs[r]
          /\ songs'[s].ahead = songs[s].ahead /\ songs'[s].fresh = songs[s].fresh
        BY <2>1, <2>2, StatusEffect
    <2> QED
        BY <2>2, <2>3 DEF Counts
<1>5. ASSUME NEW s \in Songs, HandleSongCreated(s) \/ HandleSongReady(s) \/ HandleSongSettled(s)
      PROVE  Fewer
    BY <1>5 DEF HandleSongCreated, HandleSongReady, HandleSongSettled
<1>6. CASE HandleCreated \/ HandleHeartbeat \/ HandleUpdated \/ HandleClosing \/ HandleClosed
           \/ HandleDeleted \/ HandleReopened \/ CheckByPlaylist
    <2>1. songs' = songs
        BY <1>6 DEF HandleCreated, HandleHeartbeat, HandleUpdated, HandleClosing, HandleClosed,
            HandleDeleted, HandleReopened, CheckByPlaylist
    <2> QED
        BY <2>1
<1>7. ASSUME HandleSteered
      PROVE  Fewer
    <2>1. \A s \in Songs : songs'[s] = songs[s] \/ songs'[s] = None
        BY <1>0, <1>7 DEF HandleSteered, Without
    <2> QED
        BY <1>0, <2>1 DEF Counts, ActiveStatuses
<1>8. ASSUME Leave \/ Heartbeat \/ AnswerQuestion \/ AskQuestion \/ FinishPlanning \/ TimerFires \/ Crash
             \/ (\E to \in {"active", "closing", "closed"} : SetStatus(to))
      PROVE  Fewer
    <2>1. songs' = songs
        BY <1>8
           DEF Leave, Heartbeat, AnswerQuestion, AskQuestion, FinishPlanning, TimerFires, Crash, SetStatus
    <2> QED
        BY <2>1
<1>9. ASSUME DeletePlaylist
      PROVE  Fewer
    <2>1. \A s \in Songs : songs'[s] = None
        BY <1>9 DEF DeletePlaylist
    <2> QED
        BY <1>0, <2>1 DEF Counts, ActiveStatuses
<1>10. ASSUME Steer
       PROVE  Fewer
    BY <1>10, StatusEffect DEF Counts
<1>11. ASSUME NEW S \in SUBSET Songs, \/ StaleCleanup(S)
                                     \/ \E s \in Songs : S = {s} /\ DeleteSong(s)
       PROVE  Fewer
    <2>1. songs' = Without(S, songs)
        BY <1>11 DEF StaleCleanup, DeleteSong, Becomes
    <2>2. \A s \in Songs : songs'[s] = songs[s] \/ songs'[s] = None
        BY <2>1 DEF Without
    <2> QED
        BY <1>0, <2>2 DEF Counts, ActiveStatuses
<1>12. ASSUME Sweep
       PROVE  Fewer
    <2>1. CASE Open
        <3>1. PICK reverted \in SUBSET InFlight : \E stale \in SUBSET (InFlight \ reverted) :
                  \A s \in Songs :
                      /\ BackToMeta(reverted)[s] = IF s \in reverted
                                                   THEN [songs[s] EXCEPT !.status = "meta"]
                                                   ELSE songs[s]
                      /\ songs'[s] = IF s \in stale THEN None
                                     ELSE IF s \in reverted
                                     THEN [songs[s] EXCEPT !.status = "meta"] ELSE songs[s]
                      /\ s \in reverted => [songs[s] EXCEPT !.status = "meta"].status = "meta"
            <4>1. Sweep /\ Open
                BY <1>12, <2>1
            <4> QED
                BY <4>1, SweepEffect
        <3>2. PICK stale \in SUBSET (InFlight \ reverted) :
                  \A s \in Songs :
                      /\ BackToMeta(reverted)[s] = IF s \in reverted
                                                   THEN [songs[s] EXCEPT !.status = "meta"]
                                                   ELSE songs[s]
                      /\ songs'[s] = IF s \in stale THEN None
                                     ELSE IF s \in reverted
                                     THEN [songs[s] EXCEPT !.status = "meta"] ELSE songs[s]
                      /\ s \in reverted => [songs[s] EXCEPT !.status = "meta"].status = "meta"
            BY <3>1
        <3>3. ASSUME NEW s \in reverted
              PROVE  /\ s \in Songs /\ songs[s].status \in ActiveStatuses
                     /\ [songs[s] EXCEPT !.status = "meta"].ahead = songs[s].ahead
                     /\ [songs[s] EXCEPT !.status = "meta"].fresh = songs[s].fresh
            <4>1. s \in Songs /\ songs[s].status = "flight" /\ songs[s] \in Row /\ songs[s] # None
                BY <1>0 DEF InFlight, TypeList
            <4> QED
                BY <1>0, <4>1, RowForms
        <3> QED
            BY <1>0, <3>2, <3>3 DEF Counts, ActiveStatuses
    <2>2. CASE ~Open
        BY <1>12, <2>2 DEF Sweep
    <2> QED
        BY <2>1, <2>2
<1>13. ASSUME NEW s \in Songs, FillBySong(s)
       PROVE  \E who \in Checkers : \E S \in SUBSET {r \in Songs : Spare(r)} :
                  /\ songs' = WithNew(songs, S)
                  /\ Cardinality(S) = IF status = "deleted" THEN 0 ELSE due[who].create
                  /\ IF who = "playlist" THEN In("fill", mail) ELSE In("fill", songMail[who])
                  /\ due' = [due EXCEPT ![who] = NoDue]
    <2>1. s \in Checkers /\ s # "playlist"
        BY SongsAssumption DEF Checkers
    <2>2. In("fill", songMail[s])
        BY <1>13, SongTaken DEF FillBySong
    <2> DEFINE box == [songMail EXCEPT ![s][1] = "settled"]
    <2>3. EndCheck(s, mail, box)
        BY <1>13 DEF FillBySong
    <2> HIDE DEF box
    <2>4. PICK S \in SUBSET {r \in Songs : Spare(r)} :
              /\ songs' = WithNew(songs, S)
              /\ Cardinality(S) = IF status = "deleted" THEN 0 ELSE due[s].create
        BY <2>1, <2>3, EndCheckEffect
    <2>5. due' = [due EXCEPT ![s] = NoDue]
        BY <2>3 DEF EndCheck
    <2> QED
        BY <2>1, <2>2, <2>4, <2>5
<1>14. ASSUME FillByPlaylist
       PROVE  \E who \in Checkers : \E S \in SUBSET {r \in Songs : Spare(r)} :
                  /\ songs' = WithNew(songs, S)
                  /\ Cardinality(S) = IF status = "deleted" THEN 0 ELSE due[who].create
                  /\ IF who = "playlist" THEN In("fill", mail) ELSE In("fill", songMail[who])
                  /\ due' = [due EXCEPT ![who] = NoDue]
    <2>1. "playlist" \in Checkers
        BY DEF Checkers
    <2>2. In("fill", mail)
        BY <1>14, Taken DEF FillByPlaylist, Next1
    <2>3. EndCheck("playlist", Tail(mail), songMail)
        BY <1>14 DEF FillByPlaylist
    <2>4. PICK S \in SUBSET {r \in Songs : Spare(r)} :
              /\ songs' = WithNew(songs, S)
              /\ Cardinality(S) = IF status = "deleted" THEN 0 ELSE due["playlist"].create
        BY <2>1, <2>3, EndCheckEffect
    <2>5. due' = [due EXCEPT !["playlist"] = NoDue]
        BY <2>3 DEF EndCheck
    <2> QED
        BY <2>1, <2>2, <2>4, <2>5
<1>15. ASSUME (\E A \in SUBSET Songs : UpdatePosition(A)) \/ (\E s \in Songs : AskSong(s))
       PROVE  Served /\ status # "deleted" /\ UNCHANGED <<lock, due>>
    BY <1>0, <1>15 DEF UpdatePosition, AskSong, Served
<1>16. CASE UNCHANGED vars
    BY <1>16 DEF vars
<1>17. ASSUME NEW S \in SUBSET Songs, PrimeRoom(S)
       PROVE  /\ status # "deleted" /\ UNCHANGED <<status, lock, due>>
              /\ primed' = (primed \/ lock # "free")
    BY <1>17 DEF PrimeRoom
<1> QED
    BY <1>1, <1>2, <1>3, <1>4, <1>5, <1>6, <1>7, <1>8, <1>9, <1>10, <1>11, <1>12, <1>13, <1>14,
       <1>15, <1>16, <1>17 DEF Next, Users, HandlePlaylist, HandleSong

-------------------------------------------------------------------------------
(* The lock. *)

\* Nothing brings a deleted playlist back.
LEMMA DeletedStays ==
    ASSUME status = "deleted", [Next]_vars
    PROVE  status' = "deleted"
<1>1. CASE UNCHANGED vars
    BY <1>1 DEF vars
<1>2. ASSUME NEW s \in Songs, HandleSong(s) \/ Claim(s) \/ SongReady(s) \/ SongFails(s) \/ SongRetries(s)
      PROVE  status' = "deleted"
    BY <1>2 DEF HandleSong, Claim, SongReady, SongFails, SongRetries, HandleSongCreated,
        HandleSongReady, FillBySong, EndCheck, CloseOneshot, HandleSongSettled, ClosesWith
<1>3. CASE HandlePlaylist
    BY <1>3 DEF HandlePlaylist, HandleCreated, HandleSteered, HandleHeartbeat, HandleUpdated,
        HandleClosing, HandleClosed, HandleDeleted, HandleReopened, CheckByPlaylist, FillByPlaylist,
        EndCheck, CloseOneshot, Open
<1>4. CASE Users
    BY <1>4 DEF Users, Heartbeat, Leave, SetStatus, DeletePlaylist, UpdatePosition, Steer,
        AskSong, DeleteSong, AskQuestion, AnswerQuestion
<1>5. CASE FinishPlanning \/ TimerFires \/ (\E S \in SUBSET Songs : StaleCleanup(S) \/ PrimeRoom(S))
           \/ Crash \/ Sweep
    BY <1>5 DEF FinishPlanning, TimerFires, StaleCleanup, PrimeRoom, Crash, Sweep, Open
<1> QED
    BY <1>1, <1>2, <1>3, <1>4, <1>5 DEF Next

LEMMA StopsFill ==
    ASSUME TypeOK, StopsActor, FillFirst(mail)
    PROVE  FillFirst(mail') /\ ~In("fill", mail')
<1>1. mail \in Seq(Events)
    BY DEF TypeOK
<1>2. PICK n \in 1..Len(mail) : mail' = SubSeq(mail, n + 1, Len(mail))
    BY DEF StopsActor
<1>3. ~In("fill", mail')
    BY <1>1, <1>2, DropKeeps
<1> QED
    BY <1>3 DEF FillFirst, In

LEMMA LocksStep ==
    ASSUME TypeOK, Ends, Locks, [Next]_vars
    PROVE  Locks'
<1>0. TypeList
    BY Listed
<1>00. status = "deleted" => status' = "deleted"
    BY DeletedStays
<1>1. ASSUME NEW s \in Songs, Claim(s)
      PROVE  Locks'
    BY <1>0, <1>00, <1>1, ClaimEffect
        DEF Locks, actors, surroundings, history
<1>2. ASSUME NEW s \in Songs, SongReady(s)
      PROVE  Locks'
    <2>1. /\ \A r \in Songs : /\ In("fill", songMail'[r]) => In("fill", songMail[r])
                              /\ FillFirst(songMail[r]) => FillFirst(songMail'[r])
        BY <1>0, <1>2, EndedEffect DEF SongReady, TypeList
    <2> QED
        BY <1>0, <1>00, <1>2, <2>1, Sent DEF SongReady, Locks, Events, surroundings, history
<1>3. ASSUME NEW s \in Songs, SongFails(s)
      PROVE  Locks'
    <2>1. /\ \A r \in Songs : /\ In("fill", songMail'[r]) => In("fill", songMail[r])
                              /\ FillFirst(songMail[r]) => FillFirst(songMail'[r])
        BY <1>0, <1>3, EndedEffect DEF SongFails, Becomes, TypeList
    <2> QED
        BY <1>0, <1>00, <1>3, <2>1, Sent
           DEF SongFails, Becomes, Locks, Events, surroundings, history
<1>4. ASSUME NEW s \in Songs, SongRetries(s)
      PROVE  Locks'
    BY <1>0, <1>00, <1>4
        DEF SongRetries, Locks, actors, surroundings, history
<1>5. ASSUME NEW s \in Songs, HandleSongCreated(s)
      PROVE  Locks'
    <2>1. \A r \in Songs : songMail'[r] = IF r = s THEN Tail(songMail[s]) ELSE songMail[r]
        BY <1>0, <1>5 DEF HandleSongCreated, TypeList
    <2>2. FillFirst(songMail[s]) => FillFirst(Tail(songMail[s])) /\ ~In("fill", Tail(songMail[s]))
        BY <1>5, SongTaken DEF HandleSongCreated
    <2> QED
        BY <1>5, <2>1, <2>2 DEF HandleSongCreated, Locks, surroundings
<1>6. ASSUME NEW s \in Songs, HandleSongReady(s)
      PROVE  Locks'
    <2>1. songMail[s] # <<>> /\ Head(songMail[s]) = "ready" /\ s \in Checkers
          /\ UNCHANGED <<status, mail, phase>>
        BY <1>6 DEF HandleSongReady, Checkers, surroundings
    <2>2. /\ FillFirst([songMail[s] EXCEPT ![1] = "fill"])
          /\ FillFirst([songMail[s] EXCEPT ![1] = "settled"])
          /\ ~In("fill", [songMail[s] EXCEPT ![1] = "settled"])
        <3>1. \A x \in SongEvents :
                  LET q == [songMail[s] EXCEPT ![1] = x]
                  IN  /\ \A e : In(e, q) <=> e = x \/ In(e, Tail(songMail[s]))
                      /\ FillFirst(songMail[s]) => FillFirst(q)
            BY <2>1, SongTaken
        <3>2. FillFirst(songMail[s]) /\ ~In("fill", Tail(songMail[s]))
            BY <2>1, SongTaken DEF Locks
        <3> QED
            BY <3>1, <3>2 DEF SongEvents
    <2>3. CASE StartCheck(s) /\ songMail' = [songMail EXCEPT ![s][1] = "fill"]
        <3>1. \A r \in Songs : songMail'[r] = IF r = s THEN [songMail[s] EXCEPT ![1] = "fill"] ELSE songMail[r]
            BY <1>0, <2>3 DEF TypeList
        <3>2. lock = "free" /\ lock' = s /\ \A who \in Checkers : who # s => due'[who] = due[who]
            BY <1>0, <2>3 DEF StartCheck, TypeList
        <3>3. lock # "playlist" /\ \A r \in Songs : lock # r
            BY <3>2, SongsAssumption
        <3>4. \A who \in Checkers : lock # who
            BY <3>2, <3>3 DEF Checkers
        <3> QED
            BY <2>1, <2>2, <3>1, <3>2, <3>3, <3>4 DEF Locks
    <2>4. CASE /\ lock # "free" /\ songMail' = [songMail EXCEPT ![s][1] = "settled"]
               /\ UNCHANGED <<lock, due, lost>>
        <3>1. \A r \in Songs : songMail'[r] = IF r = s THEN [songMail[s] EXCEPT ![1] = "settled"] ELSE songMail[r]
            BY <1>0, <2>4 DEF TypeList
        <3> QED
            BY <2>1, <2>2, <2>4, <3>1 DEF Locks
    <2> QED
        BY <1>6, <2>3, <2>4 DEF HandleSongReady
<1>7. ASSUME NEW s \in Songs, FillBySong(s)
      PROVE  Locks'
    <2> DEFINE box == [songMail EXCEPT ![s][1] = "settled"]
    <2>1. /\ EndCheck(s, mail, box) /\ s \in Checkers /\ In("fill", songMail[s])
          /\ UNCHANGED phase
        BY <1>7, SongTaken DEF FillBySong, Checkers, surroundings
    <2>2. /\ box \in [Songs -> Seq(SongEvents)]
          /\ \A r \in Songs : r # s => box[r] = songMail[r]
          /\ FillFirst(songMail[s]) => FillFirst(box[s]) /\ ~In("fill", box[s])
        BY <1>7, FilledBox DEF FillBySong
    <2> HIDE DEF box
    <2>3. \A r \in Songs : /\ FillFirst(songMail'[r])
                           /\ In("fill", songMail'[r]) => r # s /\ In("fill", songMail[r])
        <3>1. \A r \in Songs : FillFirst(box[r]) /\ (In("fill", box[r]) => r # s /\ In("fill", songMail[r]))
            BY <2>2 DEF Locks
        <3>2. \A r \in Songs : /\ In("fill", songMail'[r]) => In("fill", box[r])
                               /\ FillFirst(box[r]) => FillFirst(songMail'[r])
            <4>1. PICK S \in SUBSET {r \in Songs : Spare(r)} :
                      \A r \in Songs :
                          /\ \A e : In(e, songMail'[r]) <=> In(e, box[r]) \/ (r \in S /\ e = "created")
                          /\ FillFirst(box[r]) => FillFirst(songMail'[r])
                BY <2>1, <2>2, EndCheckMail
            <4> QED
                BY <4>1
        <3> QED
            BY <3>1, <3>2
    <2>4. FillFirst(mail') /\ (In("fill", mail') => In("fill", mail))
        BY <2>1, CloseOneshotEffect, Sent DEF EndCheck, Events, Locks
    <2>5. /\ lock' = "free" /\ (lock = s \/ status = "deleted") /\ s # "playlist"
          /\ \A who \in Checkers : due'[who] = IF who = s THEN NoDue ELSE due[who]
        BY <1>0, <2>1, SongsAssumption DEF EndCheck, Locks, TypeList
    <2>6. \A who \in Checkers : due'[who].create > 0 => who # s /\ due[who].create > 0
        BY <2>5 DEF NoDue
    <2> QED
        BY <1>00, <2>1, <2>3, <2>4, <2>5, <2>6 DEF Locks
<1>8. ASSUME NEW s \in Songs, HandleSongSettled(s)
      PROVE  Locks'
    <2>1. \A r \in Songs : songMail'[r] = IF r = s THEN Tail(songMail[s]) ELSE songMail[r]
        BY <1>0, <1>8 DEF HandleSongSettled, TypeList
    <2>2. FillFirst(songMail[s]) => FillFirst(Tail(songMail[s])) /\ ~In("fill", Tail(songMail[s]))
        BY <1>8, SongTaken DEF HandleSongSettled
    <2>3. FillFirst(mail') /\ (In("fill", mail') => In("fill", mail))
        BY <1>8, Sent DEF HandleSongSettled, Events, Locks
    <2> QED
        BY <1>00, <1>8, <2>1, <2>2, <2>3 DEF HandleSongSettled, Locks, surroundings
<1>9. CASE HandleCreated
    BY <1>0, <1>00, <1>9, CreatedEffect DEF Locks
<1>10. CASE HandleSteered
    <2>1. FillFirst(mail') /\ ~In("fill", mail')
        BY <1>10, Taken DEF HandleSteered, Next1, ThenCheck, Events, Locks
    <2> QED
        BY <1>10, <2>1 DEF HandleSteered, Locks, surroundings
<1>11. CASE HandleHeartbeat
    BY <1>0, <1>00, <1>11, Taken
        DEF HandleHeartbeat, Next1, Locks, actors, surroundings, history
<1>12. CASE HandleUpdated
    BY <1>0, <1>00, <1>12, Taken
        DEF HandleUpdated, Next1, ThenCheck, Events, Locks, actors, surroundings, history
<1>13. CASE HandleClosing
    <2>1. FillFirst(mail') /\ ~In("fill", mail')
        BY <1>13, Taken DEF HandleClosing, Next1, Events, Locks
    <2> QED
        BY <1>00, <1>13, <2>1 DEF HandleClosing, Locks, surroundings
<1>14. CASE HandleClosed
    BY <1>0, <1>00, <1>14, StopsFill
        DEF HandleClosed, Next1, Locks, actors, surroundings, history
<1>15. CASE HandleDeleted
    <2>1. FillFirst(mail') /\ ~In("fill", mail')
        BY <1>15, StopsFill DEF HandleDeleted, Locks
    <2>2. status = "deleted"
        BY <1>15, Taken DEF HandleDeleted, Next1, Ends, EndIsTold
    <2> QED
        BY <1>15, <2>1, <2>2 DEF HandleDeleted, Locks, surroundings
<1>16. CASE HandleReopened
    BY <1>0, <1>00, <1>16, Taken
        DEF HandleReopened, Next1, ThenCheck, Events, Locks, actors, surroundings, history
<1>17. CASE CheckByPlaylist
    <2>1. mail # <<>> /\ Head(mail) = "check" /\ phase = "up" /\ UNCHANGED <<status, songMail, phase>>
        BY <1>17 DEF CheckByPlaylist, Next1, surroundings
    <2>2. FillFirst([mail EXCEPT ![1] = "fill"]) /\ FillFirst(Tail(mail)) /\ ~In("fill", Tail(mail))
        BY <2>1, Taken DEF Events, Locks
    <2>3. CASE StartCheck("playlist") /\ mail' = [mail EXCEPT ![1] = "fill"]
        <3>1. lock = "free" /\ lock' = "playlist" /\ \A who \in Checkers : who # "playlist" => due'[who] = due[who]
            BY <1>0, <2>3 DEF StartCheck, TypeList
        <3>2. \A who \in Checkers : lock # who
            BY <3>1, SongsAssumption DEF Checkers
        <3>3. \A s \in Songs : s \in Checkers
            BY DEF Checkers
        <3> QED
            BY <2>1, <2>2, <2>3, <3>1, <3>2, <3>3 DEF Locks
    <2>4. CASE lock # "free" /\ mail' = Tail(mail) /\ UNCHANGED <<lock, due, lost>>
        BY <2>1, <2>2, <2>4 DEF Locks
    <2> QED
        BY <1>17, <2>3, <2>4 DEF CheckByPlaylist
<1>18. CASE FillByPlaylist
    <2>1. /\ EndCheck("playlist", Tail(mail), songMail) /\ "playlist" \in Checkers
          /\ songMail \in [Songs -> Seq(SongEvents)] /\ UNCHANGED phase
          /\ mail # <<>> /\ Head(mail) = "fill"
        BY <1>0, <1>18 DEF FillByPlaylist, Next1, Checkers, TypeList, surroundings
    <2>2. In("fill", mail) /\ FillFirst(Tail(mail)) /\ ~In("fill", Tail(mail))
        BY <2>1, Taken DEF Locks
    <2>3. \A s \in Songs : FillFirst(songMail'[s]) /\ (In("fill", songMail'[s]) => In("fill", songMail[s]))
        BY <2>1, EndCheckMail DEF Locks
    <2>4. FillFirst(mail') /\ ~In("fill", mail')
        <3>1. FillFirst(Append(Tail(mail), "closing")) /\ ~In("fill", Append(Tail(mail), "closing"))
            BY <2>1, <2>2, Taken DEF Events, Locks
        <3> QED
            BY <2>1, <2>2, <3>1, CloseOneshotEffect DEF EndCheck
    <2>5. /\ lock' = "free" /\ (lock = "playlist" \/ status = "deleted")
          /\ \A who \in Checkers : due'[who] = IF who = "playlist" THEN NoDue ELSE due[who]
        BY <1>0, <2>1, <2>2 DEF EndCheck, Locks, TypeList
    <2>6. \A who \in Checkers : due'[who].create > 0 => who # "playlist" /\ due[who].create > 0
        BY <2>5 DEF NoDue
    <2> QED
        BY <1>00, <2>1, <2>3, <2>4, <2>5, <2>6, SongsAssumption DEF Locks
<1>19. CASE Heartbeat
    BY <1>0, <1>00, <1>19, Sent, TwoIn
        DEF Heartbeat, Events, Locks, actors, surroundings, history
<1>20. CASE Leave
    BY <1>0, <1>00, <1>20
        DEF Leave, Locks, actors, surroundings, history
<1>21. ASSUME NEW to \in {"active", "closing", "closed"}, SetStatus(to)
      PROVE  Locks'
    BY <1>0, <1>00, <1>21, Sent
        DEF SetStatus, Events, TypeList, Locks, actors, surroundings, history
<1>22. CASE DeletePlaylist
    BY <1>0, <1>00, <1>22, Sent
        DEF DeletePlaylist, Events, TypeList, Locks, actors, surroundings, history
<1>23. ASSUME NEW A \in SUBSET Songs, UpdatePosition(A)
      PROVE  Locks'
    BY <1>0, <1>00, <1>23, Sent
        DEF UpdatePosition, Events, Locks, actors, surroundings, history
<1>24. CASE Steer
    BY <1>0, <1>00, <1>24, Sent
        DEF Steer, Events, Locks, actors, surroundings, history
<1>25. ASSUME NEW s \in Songs, AskSong(s)
      PROVE  Locks'
    <2>1. \A r \in Songs : songMail'[r] = IF r = s THEN <<"created">> ELSE songMail[r]
        BY <1>0, <1>25 DEF AskSong, TypeList
    <2>2. FillFirst(<<"created">>) /\ ~In("fill", <<"created">>)
        BY DEF FillFirst, In
    <2> QED
        BY <1>25, <2>1, <2>2 DEF AskSong, Locks, surroundings
<1>26. ASSUME NEW s \in Songs, DeleteSong(s)
      PROVE  Locks'
    BY <1>0, <1>00, <1>26
        DEF DeleteSong, Locks, actors, surroundings, history
<1>27. ASSUME NEW S \in SUBSET Songs, StaleCleanup(S)
      PROVE  Locks'
    BY <1>0, <1>00, <1>27
        DEF StaleCleanup, Locks, actors, surroundings, history
<1>28. CASE AskQuestion
    BY <1>0, <1>00, <1>28
        DEF AskQuestion, Locks, actors, surroundings, history
<1>29. CASE AnswerQuestion
    BY <1>0, <1>00, <1>29, Sent
        DEF AnswerQuestion, Events, Locks, actors, surroundings, history
<1>30. CASE FinishPlanning
    BY <1>0, <1>00, <1>30, Sent
        DEF FinishPlanning, Events, Locks, actors, surroundings, history
<1>31. CASE TimerFires
    BY <1>0, <1>00, <1>31, Sent
        DEF TimerFires, Events, TypeList, Locks, actors, surroundings, history
<1>32. CASE Crash
    <2>1. \A s \in Songs : songMail'[s] = <<>>
        BY <1>32 DEF Crash
    <2>2. mail' = <<>> /\ \A who \in Checkers : due'[who] = NoDue
        BY <1>32 DEF Crash
    <2> QED
        BY <2>1, <2>2, NothingIn DEF Locks, NoDue
<1>33. CASE Sweep
    <2>1. phase = "starting" /\ phase' = "up" /\ UNCHANGED <<songMail, lock, due>>
        BY <1>33 DEF Sweep
    <2>2. ~In("fill", mail)
        BY <2>1 DEF Locks
    <2>3. FillFirst(mail') /\ ~In("fill", mail')
        <3>1. CASE Open
            BY <1>33, <2>2, <3>1, SweepEffect, BeforeMail, Sent DEF Locks, Events
        <3>2. CASE ~Open
            BY <1>33, <2>2, <3>2 DEF Sweep, Locks
        <3> QED
            BY <3>1, <3>2
    <2> QED
        BY <1>00, <2>1, <2>3 DEF Locks
<1>34. CASE UNCHANGED vars
    BY <1>0, <1>34 DEF Locks, vars, actors, surroundings, history
<1>35. ASSUME NEW S \in SUBSET Songs, PrimeRoom(S)
      PROVE  Locks'
    <2>1. \A r \in Songs : \/ songMail'[r] = songMail[r]
                           \/ songMail'[r] = <<"created">>
        BY <1>35, PrimeEffect
    <2>2. FillFirst(<<"created">>) /\ ~In("fill", <<"created">>)
        BY DEF FillFirst, In
    <2>3. \A r \in Songs : /\ FillFirst(songMail[r]) => FillFirst(songMail'[r])
                           /\ In("fill", songMail'[r]) => In("fill", songMail[r])
        BY <2>1, <2>2
    <2>4. UNCHANGED <<status, mail, lock, due, phase>>
        BY <1>35 DEF PrimeRoom, surroundings
    <2>5. FillFirst(mail') /\ (In("fill", mail') => In("fill", mail))
        BY <2>4 DEF Locks
    <2>6. \A r \in Songs : FillFirst(songMail'[r])
        BY <2>3 DEF Locks
    <2> QED
        BY <2>3, <2>4, <2>5, <2>6 DEF Locks
<1> QED
    BY <1>1, <1>2, <1>3, <1>4, <1>5, <1>6, <1>7, <1>8, <1>9, <1>10, <1>11, <1>12, <1>13,
       <1>14, <1>15, <1>16, <1>17, <1>18, <1>19, <1>20, <1>21, <1>22, <1>23, <1>24, <1>25, <1>26, <1>27, <1>28, <1>29, <1>30, <1>31, <1>32, <1>33, <1>34, <1>35
        DEF Next, Users, HandlePlaylist, HandleSong

-------------------------------------------------------------------------------
(* The buffer is not overfilled. *)

\* What BufferBounded says of a step.
Bounded ==
    mode = "endless" /\ (\E who \in Checkers : due[who].create > 0 /\ due'[who] = NoDue)
        => Ahead(songs') <= BufferSize \/ primed

LEMMA NobodyFills ==
    ASSUME TypeOK, Ends, Locks, Served, status # "deleted"
    PROVE  lock = "free" /\ \A who \in Checkers : due[who].create = 0
<1>1. \A who \in Checkers : due[who].create \in Nat
    BY DEF TypeOK
<1>2. lock = "free"
    BY DEF Served, Idle, Ends, DownIsEmpty
<1>3. \A who \in Checkers : lock # who
    BY <1>2, SongsAssumption DEF Checkers
<1> QED
    BY <1>1, <1>2, <1>3 DEF Locks

LEMMA CreatesFitStep ==
    ASSUME TypeOK, Ends, Locks, CreatesFit, [Next]_vars
    PROVE  CreatesFit' /\ Bounded
<1>0. /\ due \in [Checkers -> Dues] /\ due' \in [Checkers -> Dues]
      /\ mode' = mode /\ NoDue.create = 0 /\ BufferSize \in Nat
      /\ Ahead(songs) \in Nat /\ Ahead(songs') \in Nat
      /\ \A who \in Checkers : /\ due[who].create \in Nat
                               /\ due'[who].create \in Nat /\ due'[who].create <= BufferSize
    <2>1. TypeOK'
        BY TypeStep
    <2>2. due \in [Checkers -> Dues] /\ due' \in [Checkers -> Dues]
        BY <2>1 DEF TypeOK, Dues
    <2>3. \A d \in Dues : d.create \in Nat /\ d.create <= BufferSize
        BY BoundsAssumption DEF Dues
    <2> QED
        BY <2>2, <2>3, ModeStays, Counted, BoundsAssumption DEF NoDue
<1>1. CASE status' = "deleted"
    <2>1. \A s \in Songs : songs'[s] = None
        BY <1>1, EndsStep DEF Ends, EndIsTold
    <2>2. Ahead(songs') = 0
        <3>1. {s \in Songs : Counts(songs'[s])} = {}
            BY <2>1 DEF Counts, None
        <3> QED
            BY <3>1, FS_EmptySet DEF Ahead
    <2> HIDE DEF Ahead
    <2> QED
        BY <1>0, <2>2 DEF CreatesFit, Bounded
<1>2. ASSUME status' # "deleted"
      PROVE  /\ status # "deleted"
             /\ \A who \in Checkers : lock # who => due[who].create = 0
    BY <1>0, <1>2, DeletedStays DEF Locks
\* The numbers of the check that is under way stay: then rooms are still counted.
<1>3. ASSUME status' # "deleted", NEW who \in Checkers, due'[who] = due[who], primed
      PROVE  due[who].create = 0 \/ primed'
    <2> SUFFICES ASSUME lock = who, due[who].create # 0
                 PROVE  primed'
        BY <1>2, <1>3
    <2>1. \A w \in Checkers : ~StartCheck(w)
        BY SongsAssumption DEF StartCheck, Checkers
    <2>2. ASSUME NEW w \in Checkers, due' = [due EXCEPT ![w] = NoDue],
                 IF w = "playlist" THEN mail # <<>> /\ Head(mail) = "fill"
                 ELSE songMail[w] # <<>> /\ Head(songMail[w]) = "fill"
          PROVE  FALSE
        <3>1. IF w = "playlist" THEN In("fill", mail) ELSE In("fill", songMail[w])
            BY <2>2, Taken, SongTaken DEF Checkers
        <3>2. lock = w
            BY <1>2, <1>3, <3>1 DEF Locks, Checkers
        <3>3. due'[who] = NoDue
            BY <1>0, <2>2, <3>2
        <3> QED
            BY <1>0, <1>3, <3>3
    <2> QED
        BY <1>3, <2>1, <2>2, PrimedStep
<1>4. CASE status' # "deleted" /\ \A s \in Songs : Counts(songs'[s]) => Counts(songs[s])
    <2>1. Ahead(songs') <= Ahead(songs)
        BY <1>4, FewerAhead
    <2> HIDE DEF Ahead
    <2>2. Bounded
        BY <1>0, <2>1 DEF Bounded, CreatesFit
    <2>3. ASSUME mode = "endless", NEW who \in Checkers, due'[who] = due[who]
          PROVE  \/ Ahead(songs') + due'[who].create <= BufferSize
                 \/ due'[who].create = 0 \/ primed'
        BY <1>0, <1>3, <1>4, <2>1, <2>3 DEF CreatesFit
    <2>4. ASSUME mode = "endless", NEW who \in Checkers, StartCheck(who)
          PROVE  Ahead(songs') + due'[who].create <= BufferSize \/ due'[who].create = 0
        <3>1. due'[who] = NoDue \/ due'[who].create = Deficit(songs)
            BY <1>0, <2>4 DEF StartCheck, Wanted
        <3>2. Deficit(songs) \in Nat /\ (Deficit(songs) > 0 => Deficit(songs) + Ahead(songs) = BufferSize)
            BY Counted, BoundsAssumption
        <3> QED
            BY <1>0, <2>1, <3>1, <3>2
    <2>5. ASSUME NEW who \in Checkers, StartCheck(who) \/ due' = [due EXCEPT ![who] = NoDue],
                 NEW w \in Checkers
          PROVE  due'[w] = due[w] \/ due'[w] = NoDue \/ StartCheck(w)
        BY <1>0, <2>5 DEF StartCheck
    <2>6. ASSUME NEW w \in Checkers
          PROVE  due'[w] = due[w] \/ due'[w] = NoDue \/ StartCheck(w)
        BY <2>5, DueSteps
    <2> QED
        BY <1>0, <1>4, <2>2, <2>3, <2>4, <2>6 DEF CreatesFit
<1>5. CASE /\ status' # "deleted"
           /\ \E who \in Checkers : \E S \in SUBSET {s \in Songs : Spare(s)} :
                  /\ songs' = WithNew(songs, S)
                  /\ Cardinality(S) = IF status = "deleted" THEN 0 ELSE due[who].create
                  /\ IF who = "playlist" THEN In("fill", mail) ELSE In("fill", songMail[who])
                  /\ due' = [due EXCEPT ![who] = NoDue]
    <2>1. PICK who \in Checkers : \E S \in SUBSET {s \in Songs : Spare(s)} :
              /\ songs' = WithNew(songs, S)
              /\ Cardinality(S) = IF status = "deleted" THEN 0 ELSE due[who].create
              /\ IF who = "playlist" THEN In("fill", mail) ELSE In("fill", songMail[who])
              /\ due' = [due EXCEPT ![who] = NoDue]
        BY <1>5
    <2>2. PICK S \in SUBSET {s \in Songs : Spare(s)} :
              songs' = WithNew(songs, S) /\ Cardinality(S) = due[who].create
        BY <1>2, <1>5, <2>1
    <2>3. Ahead(songs') = Ahead(songs) + due[who].create
        BY <2>2, MoreAhead
    <2> HIDE DEF Ahead
    <2>4. lock = who
        BY <1>2, <1>5, <2>1 DEF Locks, Checkers
    <2>5. \A w \in Checkers : due'[w] = IF w = who THEN NoDue ELSE due[w]
        BY <1>0, <2>1
    <2>6. \A w \in Checkers : due'[w].create = 0
        BY <1>0, <1>2, <1>5, <2>4, <2>5
    <2>7. Bounded
        <3> SUFFICES ASSUME mode = "endless",
                            NEW w \in Checkers, due[w].create > 0, due'[w] = NoDue
                     PROVE  Ahead(songs') <= BufferSize \/ primed
            BY DEF Bounded
        <3>1. w = who
            BY <1>0, <2>5
        <3>2. Ahead(songs) + due[who].create <= BufferSize \/ primed
            BY <1>0, <3>1 DEF CreatesFit
        <3> QED
            BY <1>0, <2>3, <3>2
    <2> QED
        BY <1>5, <2>6, <2>7 DEF CreatesFit
<1>6. CASE status' # "deleted" /\ Served /\ status # "deleted" /\ UNCHANGED <<lock, due>>
    BY <1>0, <1>6, NobodyFills DEF CreatesFit, Bounded
\* A room while a check is under way, or while there is none.
<1>7. CASE /\ status' # "deleted" /\ UNCHANGED <<status, lock, due>>
           /\ primed' = (primed \/ lock # "free")
    <2>1. Bounded
        BY <1>0, <1>7 DEF Bounded
    <2>2. lock = "free" => \A who \in Checkers : due[who].create = 0
        BY <1>2, <1>7, SongsAssumption DEF Checkers
    <2> QED
        BY <1>7, <2>1, <2>2 DEF CreatesFit
<1> QED
    BY <1>1, <1>4, <1>5, <1>6, <1>7, CountsStep


-------------------------------------------------------------------------------
(* The buffer is filled. *)

\* A check that is under way makes up for what the buffer lacks.
CheckCovers ==
    lock # "free" /\ status = "active" /\ mode = "endless"
        => Deficit(songs) <= lost + due[lock].create

LEMMA SameDeficit ==
    ASSUME NEW rows, NEW later, \A s \in Songs : Counts(later[s]) <=> Counts(rows[s])
    PROVE  Ahead(later) = Ahead(rows) /\ Deficit(later) = Deficit(rows)
<1>1. {s \in Songs : Counts(later[s])} = {s \in Songs : Counts(rows[s])}
    OBVIOUS
<1> QED
    BY <1>1 DEF Ahead, Deficit

\* Rooms and checks add songs that count.
LEMMA NewCounts ==
    ASSUME TypeOK, NEW S \in SUBSET Songs
    PROVE  \A s \in Songs : Counts(songs[s]) => Counts(WithNew(songs, S)[s])
BY DEF WithNew, Counts, New, ActiveStatuses

LEMMA SmallerDeficit ==
    ASSUME NEW rows, NEW later, \A s \in Songs : Counts(rows[s]) => Counts(later[s])
    PROVE  Deficit(later) <= Deficit(rows)
<1>1. Ahead(rows) <= Ahead(later)
    BY FewerAhead
<1>2. Ahead(rows) \in Nat /\ Ahead(later) \in Nat /\ BufferSize \in Nat
    BY Counted, BoundsAssumption
<1> HIDE DEF Ahead
<1> QED
    BY <1>1, <1>2 DEF Deficit

\* While the lock is held no request is served, only a room adds songs: those in the
\* buffer stay.
LEMMA HeldStep ==
    ASSUME TypeOK, Ends, Locks, lock # "free", status # "deleted", [Next]_vars, lock' # "free"
    PROVE  /\ lock' = lock /\ due' = due /\ lost' = lost
           /\ status' = "active" => status = "active"
           /\ \A s \in Songs : Counts(songs[s]) => Counts(songs'[s])
<1>0. ~Served /\ ~Idle /\ phase = "up"
    BY DEF Served, Idle, Ends, DownIsEmpty, TypeOK
<1>1. None \in Row /\ None.status = "none" /\ TypeList
    BY Listed, RowForms
<1> DEFINE Held == /\ lock' = lock /\ due' = due /\ lost' = lost
                   /\ status' = "active" => status = "active"
                   /\ \A s \in Songs : Counts(songs[s]) => Counts(songs'[s])
<1>2. ASSUME NEW s \in Songs, Claim(s)
      PROVE  Held
    <2>1. Actionable(s) => songs[s].status \in ActiveStatuses
        BY DEF Actionable, ActiveStatuses
    <2> QED
        BY <1>2, <2>1, ClaimEffect DEF Counts, ActiveStatuses
<1>3. ASSUME NEW s \in Songs, HandleSongCreated(s) \/ HandleSongReady(s) \/ HandleSongSettled(s)
      PROVE  Held
    BY <1>1, <1>3 DEF HandleSongCreated, HandleSongReady, HandleSongSettled, StartCheck, history
<1>4. CASE HandleCreated \/ HandleHeartbeat \/ HandleUpdated \/ HandleClosing \/ HandleClosed
           \/ HandleReopened \/ CheckByPlaylist
    <2>1. /\ songs' = songs /\ lock' = lock /\ due' = due /\ lost' = lost
          /\ status' = "active" => status = "active"
        BY <1>4 DEF HandleCreated, HandleHeartbeat, HandleUpdated, HandleClosing, HandleClosed,
            HandleReopened, CheckByPlaylist, StartCheck, history
    <2> QED
        BY <2>1
<1>5. ASSUME HandleSteered
      PROVE  Held
    <2>1. \A s \in Songs : songs'[s] = IF ~(seen \/ status = "deleted") /\ s \in OldPending
                                       THEN None ELSE songs[s]
        BY <1>1, <1>5 DEF HandleSteered, Without, TypeList
    <2>2. \A s \in OldPending : ~Counts(songs[s]) /\ ~Counts(None)
        BY <1>1 DEF OldPending, Counts, ActiveStatuses
    <2>3. \A s \in Songs : Counts(songs'[s]) <=> Counts(songs[s])
        BY <2>1, <2>2
    <2> QED
        BY <1>5, <2>3 DEF HandleSteered
<1>6. ~HandleDeleted /\ ~FillByPlaylist /\ (\A s \in Songs : ~FillBySong(s)) /\ ~Crash /\ ~Sweep
    BY <1>0 DEF HandleDeleted, FillByPlaylist, FillBySong, EndCheck, Crash, Sweep
<1>7. \A s \in Songs : ~SongReady(s) /\ ~SongFails(s) /\ ~SongRetries(s) /\ ~AskSong(s) /\ ~DeleteSong(s)
    BY <1>0 DEF SongReady, SongFails, SongRetries, AskSong, DeleteSong
<1>8. /\ ~Heartbeat /\ ~DeletePlaylist /\ ~Steer /\ ~AnswerQuestion /\ ~AskQuestion /\ ~FinishPlanning
      /\ ~TimerFires
      /\ \A to : ~SetStatus(to)
      /\ \A A \in SUBSET Songs : ~UpdatePosition(A)
      /\ \A S \in SUBSET Songs : ~StaleCleanup(S)
    BY <1>0 DEF Heartbeat, DeletePlaylist, Steer, AnswerQuestion, AskQuestion, FinishPlanning,
        TimerFires, SetStatus, UpdatePosition, StaleCleanup
<1>9. ASSUME Leave \/ UNCHANGED vars
      PROVE  Held
    BY <1>9 DEF Leave, vars, actors, history
<1>10. ASSUME NEW S \in SUBSET Songs, PrimeRoom(S)
      PROVE  Held
    BY <1>10, PrimeEffect, NewCounts DEF PrimeRoom
<1> QED
    BY <1>2, <1>3, <1>4, <1>5, <1>6, <1>7, <1>8, <1>9, <1>10
       DEF Next, Users, HandlePlaylist, HandleSong

\* The lock is taken by a check that begins.
LEMMA TakingStep ==
    ASSUME lock = "free", [Next]_vars
    PROVE  lock' = "free" \/ \E who \in Checkers : StartCheck(who) /\ UNCHANGED <<mode, status, songs>>
<1>1. CASE UNCHANGED vars
    BY <1>1 DEF vars, actors
<1>2. ASSUME NEW s \in Songs, HandleSong(s) \/ Claim(s) \/ SongReady(s) \/ SongFails(s) \/ SongRetries(s)
      PROVE  lock' = "free" \/ \E who \in Checkers : StartCheck(who) /\ UNCHANGED <<mode, status, songs>>
    BY <1>2 DEF HandleSong, Claim, SongReady, SongFails, SongRetries, HandleSongCreated,
        HandleSongReady, FillBySong, EndCheck, HandleSongSettled, actors, Checkers
<1>3. CASE HandlePlaylist
    BY <1>3 DEF HandlePlaylist, HandleCreated, HandleSteered, HandleHeartbeat, HandleUpdated,
        HandleClosing, HandleClosed, HandleDeleted, HandleReopened, CheckByPlaylist,
        FillByPlaylist, EndCheck, Checkers
<1>4. CASE Users
    BY <1>4 DEF Users, Heartbeat, Leave, SetStatus, DeletePlaylist, UpdatePosition, Steer,
        AskSong, DeleteSong, AskQuestion, AnswerQuestion, actors
<1>5. CASE FinishPlanning \/ TimerFires \/ (\E S \in SUBSET Songs : StaleCleanup(S) \/ PrimeRoom(S))
           \/ Crash \/ Sweep
    BY <1>5 DEF FinishPlanning, TimerFires, StaleCleanup, PrimeRoom, Crash, Sweep, actors
<1> QED
    BY <1>1, <1>2, <1>3, <1>4, <1>5 DEF Next

LEMMA CoversStep ==
    ASSUME TypeOK, Ends, Locks, CheckCovers, [Next]_vars
    PROVE  CheckCovers'
<1> SUFFICES ASSUME lock' # "free", status' = "active", mode' = "endless"
             PROVE  Deficit(songs') <= lost' + due'[lock'].create
    BY DEF CheckCovers
<1>0. mode = "endless" /\ status # "deleted" /\ due \in [Checkers -> Dues] /\ lost \in Nat
    BY ModeStays, DeletedStays, BoundsAssumption DEF TypeOK, Dues
<1>1. CASE lock # "free"
    <2>1. Deficit(songs') <= Deficit(songs)
        BY <1>0, <1>1, HeldStep, SmallerDeficit
    <2>2. /\ Deficit(songs') \in Nat /\ Deficit(songs) \in Nat /\ lock \in Checkers
          /\ due[lock].create \in Nat
        BY <1>0, <1>1, Counted, BoundsAssumption DEF TypeOK, Dues
    <2> HIDE DEF Deficit
    <2>3. lock' = lock /\ due' = due /\ lost' = lost /\ status = "active"
        BY <1>0, <1>1, HeldStep
    <2>4. Deficit(songs) <= lost + due[lock].create
        BY <1>0, <1>1, <2>3 DEF CheckCovers
    <2> QED
        BY <1>0, <2>2, <2>1, <2>3, <2>4
<1>2. CASE lock = "free"
    <2>1. PICK who \in Checkers : StartCheck(who) /\ UNCHANGED <<mode, status, songs>>
        BY <1>2, TakingStep
    <2>2. lock' = who /\ due'[who] = Wanted(songs) /\ lost' = 0
        BY <1>0, <2>1 DEF StartCheck
    <2>3. Deficit(songs') \in Nat
        BY Counted, BoundsAssumption
    <2>4. due'[who].create = Deficit(songs')
        BY <1>0, <2>1, <2>2 DEF Wanted
    <2> HIDE DEF Deficit
    <2> QED
        BY <2>2, <2>3, <2>4
<1> QED
    BY <1>1, <1>2

-------------------------------------------------------------------------------
(* The buffer is looked at. *)

\* Something on its way leads to a check.
Coming ==
    \/ \E e \in {"check", "created", "updated", "reopened"} : In(e, mail)
    \/ In("steered", mail) /\ ~seen

Kept ==
    phase = "up" /\ lock = "free" /\ status = "active" /\ mode = "endless" /\ ~planning
        => Deficit(songs) <= lost \/ Coming

\* Behind a "closing" an active playlist is told that it is open again.
ToldReopened == status = "active" => Reopens(mail)

LEMMA ReopenedStep ==
    ASSUME TypeOK, Ends, ToldReopened, [Next]_vars
    PROVE  ToldReopened'
<1>0. TypeList
    BY Listed
<1>1. ASSUME NEW s \in Songs, Claim(s)
      PROVE  ToldReopened'
    BY <1>0, <1>1, ClaimEffect
        DEF ToldReopened, actors, surroundings, history
<1>2. ASSUME NEW s \in Songs, SongReady(s)
      PROVE  ToldReopened'
    BY <1>0, <1>2, Sent
        DEF SongReady, Events, ToldReopened, actors, surroundings, history
<1>3. ASSUME NEW s \in Songs, SongFails(s)
      PROVE  ToldReopened'
    BY <1>0, <1>3
        DEF SongFails, ToldReopened, actors, surroundings, history
<1>4. ASSUME NEW s \in Songs, SongRetries(s)
      PROVE  ToldReopened'
    BY <1>0, <1>4
        DEF SongRetries, ToldReopened, actors, surroundings, history
<1>5. ASSUME NEW s \in Songs, HandleSongCreated(s)
      PROVE  ToldReopened'
    BY <1>0, <1>5
        DEF HandleSongCreated, ToldReopened, actors, surroundings, history
<1>6. ASSUME NEW s \in Songs, HandleSongReady(s)
      PROVE  ToldReopened'
    BY <1>0, <1>6
        DEF HandleSongReady, ToldReopened, actors, surroundings, history
<1>7. ASSUME NEW s \in Songs, FillBySong(s)
      PROVE  ToldReopened'
    BY <1>0, <1>7, CloseOneshotEffect
        DEF FillBySong, EndCheck, ToldReopened, actors, surroundings, history
<1>8. ASSUME NEW s \in Songs, HandleSongSettled(s)
      PROVE  ToldReopened'
    BY <1>0, <1>8
        DEF HandleSongSettled, ToldReopened, actors, surroundings, history
<1>9. CASE HandleCreated
    BY <1>0, <1>9, CreatedEffect DEF ToldReopened
<1>10. CASE HandleSteered
    BY <1>0, <1>10, SteeredEffect DEF ToldReopened
<1>11. CASE HandleHeartbeat
    BY <1>0, <1>11, Taken
        DEF HandleHeartbeat, Next1, ToldReopened, actors, surroundings, history
<1>12. CASE HandleUpdated
    BY <1>0, <1>12, Taken
        DEF HandleUpdated, Next1, ThenCheck, Events, ToldReopened, actors, surroundings, history
<1>13. CASE HandleClosing
    BY <1>0, <1>13, Taken
        DEF HandleClosing, Next1, Open, ToldReopened, actors, surroundings, history
<1>14. CASE HandleClosed
    BY <1>0, <1>14, Taken
        DEF HandleClosed, Next1, Ends, EndIsTold, Open, ToldReopened, actors, surroundings, history
<1>15. CASE HandleDeleted
    BY <1>0, <1>15, Taken
        DEF HandleDeleted, Next1, Ends, EndIsTold, Open, ToldReopened, actors, surroundings, history
<1>16. CASE HandleReopened
    BY <1>0, <1>16, Taken
        DEF HandleReopened, Next1, ThenCheck, Events, ToldReopened, actors, surroundings, history
<1>17. CASE CheckByPlaylist
    BY <1>0, <1>17, Taken
        DEF CheckByPlaylist, Next1, Events, ToldReopened, actors, surroundings, history
<1>18. CASE FillByPlaylist
    BY <1>0, <1>18, CloseOneshotEffect, Taken
        DEF FillByPlaylist, EndCheck, Next1, ToldReopened, actors, surroundings, history
<1>19. CASE Heartbeat
    BY <1>0, <1>19, Sent, TwoIn
        DEF Heartbeat, Events, ToldReopened, actors, surroundings, history
<1>20. CASE Leave
    BY <1>0, <1>20
        DEF Leave, ToldReopened, actors, surroundings, history
<1>21. ASSUME NEW to \in {"active", "closing", "closed"}, SetStatus(to)
      PROVE  ToldReopened'
    BY <1>0, <1>21, Sent
        DEF SetStatus, Events, ToldReopened, actors, surroundings, history
<1>22. CASE DeletePlaylist
    BY <1>0, <1>22, Sent
        DEF DeletePlaylist, Events, ToldReopened, actors, surroundings, history
<1>23. ASSUME NEW A \in SUBSET Songs, UpdatePosition(A)
      PROVE  ToldReopened'
    BY <1>0, <1>23, Sent
        DEF UpdatePosition, Events, ToldReopened, actors, surroundings, history
<1>24. CASE Steer
    BY <1>0, <1>24, Sent
        DEF Steer, Events, ToldReopened, actors, surroundings, history
<1>25. ASSUME NEW s \in Songs, AskSong(s)
      PROVE  ToldReopened'
    BY <1>0, <1>25
        DEF AskSong, ToldReopened, actors, surroundings, history
<1>26. ASSUME NEW s \in Songs, DeleteSong(s)
      PROVE  ToldReopened'
    BY <1>0, <1>26
        DEF DeleteSong, ToldReopened, actors, surroundings, history
<1>27. ASSUME NEW S \in SUBSET Songs, StaleCleanup(S)
      PROVE  ToldReopened'
    BY <1>0, <1>27
        DEF StaleCleanup, ToldReopened, actors, surroundings, history
<1>28. CASE AskQuestion
    BY <1>0, <1>28
        DEF AskQuestion, ToldReopened, actors, surroundings, history
<1>29. CASE AnswerQuestion
    BY <1>0, <1>29, Sent
        DEF AnswerQuestion, Events, ToldReopened, actors, surroundings, history
<1>30. CASE FinishPlanning
    BY <1>0, <1>30, Sent
        DEF FinishPlanning, Events, ToldReopened, actors, surroundings, history
<1>31. CASE TimerFires
    BY <1>0, <1>31, Sent
        DEF TimerFires, Events, ToldReopened, actors, surroundings, history
<1>32. CASE Crash
    BY <1>0, <1>32, NothingIn
        DEF Crash, ToldReopened, actors, surroundings, history
<1>33. CASE Sweep
    <2>1. CASE Open
        BY <1>33, <2>1, SweepEffect, BeforeMail, Sent DEF ToldReopened, Events
    <2>2. CASE ~Open
        BY <1>33, <2>2 DEF Sweep, ToldReopened
    <2> QED
        BY <2>1, <2>2
<1>34. CASE UNCHANGED vars
    BY <1>0, <1>34 DEF ToldReopened, vars, actors, surroundings, history
<1>35. ASSUME NEW S \in SUBSET Songs, PrimeRoom(S)
      PROVE  ToldReopened'
    BY <1>0, <1>35 DEF PrimeRoom, ToldReopened
<1> QED
    BY <1>1, <1>2, <1>3, <1>4, <1>5, <1>6, <1>7, <1>8, <1>9, <1>10, <1>11, <1>12, <1>13,
       <1>14, <1>15, <1>16, <1>17, <1>18, <1>19, <1>20, <1>21, <1>22, <1>23, <1>24, <1>25, <1>26, <1>27, <1>28, <1>29, <1>30, <1>31, <1>32, <1>33, <1>34, <1>35
        DEF Next, Users, HandlePlaylist, HandleSong

\* Songs that go out of the buffer without a check are counted in lost.
LEMMA LostCounts ==
    ASSUME TypeOK, NEW rows, Becomes(rows), Deficit(songs) <= lost
    PROVE  Deficit(songs') <= lost'
<1> DEFINE before == {s \in Songs : Counts(songs[s])}
           after == {s \in Songs : Counts(rows[s])}
           gone == {s \in Songs : Counts(songs[s]) /\ ~Counts(rows[s])}
<1>1. /\ before \in SUBSET Songs /\ after \in SUBSET Songs /\ gone \in SUBSET Songs
      /\ before \subseteq after \cup gone /\ after \cup gone \in SUBSET Songs
    OBVIOUS
<1>2. songs' = rows /\ lost' = LET n == lost + Cardinality(gone)
                               IN  IF n > BufferSize THEN BufferSize ELSE n
    BY DEF Becomes
<1>3. Ahead(songs) = Cardinality(before) /\ Ahead(rows) = Cardinality(after)
    BY DEF Ahead
<1> HIDE DEF before, after, gone
<1>4. Cardinality(before) <= Cardinality(after) + Cardinality(gone)
    <2>1. Cardinality(before) <= Cardinality(after \cup gone)
        BY <1>1, Sizes
    <2>2. Cardinality(after \cup gone) <= Cardinality(after) + Cardinality(gone)
        BY <1>1, Sizes
    <2>3. /\ Cardinality(before) \in Nat /\ Cardinality(after) \in Nat
          /\ Cardinality(gone) \in Nat /\ Cardinality(after \cup gone) \in Nat
        BY <1>1, Sizes
    <2> QED
        BY <2>1, <2>2, <2>3
<1>5. Cardinality(before) \in Nat /\ Cardinality(after) \in Nat /\ Cardinality(gone) \in Nat
    BY <1>1, Sizes
<1>6. lost \in 0..BufferSize /\ BufferSize \in Nat
    BY BoundsAssumption DEF TypeOK
<1>7. /\ Deficit(songs) = IF Cardinality(before) < BufferSize THEN BufferSize - Cardinality(before) ELSE 0
      /\ Deficit(rows) = IF Cardinality(after) < BufferSize THEN BufferSize - Cardinality(after) ELSE 0
    BY <1>3 DEF Deficit
<1> HIDE DEF Deficit
<1> QED
    BY <1>2, <1>4, <1>5, <1>6, <1>7

\* A check that ends has made up for what the buffer lacked.
LEMMA FilledKept ==
    ASSUME TypeOK, CheckCovers, NEW who \in Checkers, lock = who, status = "active", mode = "endless",
           NEW S \in SUBSET {s \in Songs : Spare(s)},
           songs' = WithNew(songs, S), Cardinality(S) = due[who].create, lost' = lost
    PROVE  Deficit(songs') <= lost'
<1>1. who # "free"
    BY SongsAssumption DEF Checkers
<1>2. Deficit(songs) <= lost + due[who].create
    BY <1>1 DEF CheckCovers
<1>3. Ahead(songs') = Ahead(songs) + due[who].create
    BY MoreAhead
<1>4. /\ Ahead(songs) \in Nat /\ Ahead(songs') \in Nat /\ lost \in Nat /\ due[who].create \in Nat
      /\ BufferSize \in Nat
    BY Counted, BoundsAssumption DEF TypeOK
<1> HIDE DEF Ahead
<1> QED
    BY <1>2, <1>3, <1>4 DEF Deficit

LEMMA KeptStep ==
    ASSUME TypeOK, Ends, Locks, CheckCovers, ToldReopened, Kept, [Next]_vars
    PROVE  Kept'
<1>0. TypeList
    BY Listed
<1>1. ASSUME NEW s \in Songs, Claim(s)
      PROVE  Kept'
    <2>1. Actionable(s) => songs[s].status \in ActiveStatuses
        BY DEF Actionable, ActiveStatuses
    <2>2. \A r \in Songs : Counts(songs'[r]) <=> Counts(songs[r])
        BY <1>1, <2>1, ClaimEffect DEF Counts, ActiveStatuses
    <2>3. Deficit(songs') = Deficit(songs)
        BY <2>2, SameDeficit
    <2> HIDE DEF Deficit
    <2> QED
        BY <1>1, <2>3, ClaimEffect DEF Kept, Coming
<1>2. ASSUME NEW s \in Songs, SongReady(s)
      PROVE  Kept'
    BY <1>0, <1>2, Sent
        DEF SongReady, Events, Kept, Coming, actors, surroundings, history
<1>3. ASSUME NEW s \in Songs, SongFails(s)
      PROVE  Kept'
    <2>1. CASE songs[s] = None
        BY <1>3, <2>1 DEF SongFails, Kept, Coming, surroundings
    <2>2. CASE songs[s] # None
        <3>1. Becomes([songs EXCEPT ![s].status = "gone"])
            BY <1>3, <2>2 DEF SongFails
        <3>2. Deficit(songs) <= lost => Deficit(songs') <= lost'
            BY <3>1, LostCounts
        <3> HIDE DEF Deficit
        <3> QED
            BY <1>3, <3>2 DEF SongFails, Kept, Coming, surroundings
    <2> QED
        BY <2>1, <2>2
<1>4. ASSUME NEW s \in Songs, SongRetries(s)
      PROVE  Kept'
    <2>1. PICK to \in {"pending", "meta", "flight"} : songs' = [songs EXCEPT ![s].status = to]
        BY <1>4 DEF SongRetries
    <2>2. songs[s] # None /\ to \in Kinds /\ songs[s].status \in ActiveStatuses /\ to \in ActiveStatuses
        BY <1>0, <1>4, RowsKeep DEF SongRetries, Kinds, ActiveStatuses
    <2>3. /\ \A r \in Songs : r # s => songs'[r] = songs[r]
          /\ songs'[s].ahead = songs[s].ahead /\ songs'[s].fresh = songs[s].fresh
          /\ songs'[s].status = to
        BY <2>1, <2>2, StatusEffect
    <2>4. \A r \in Songs : Counts(songs'[r]) <=> Counts(songs[r])
        BY <2>2, <2>3 DEF Counts
    <2>5. Deficit(songs') = Deficit(songs)
        BY <2>4, SameDeficit
    <2> HIDE DEF Deficit
    <2> QED
        BY <1>4, <2>5 DEF SongRetries, Kept, Coming, actors, surroundings, history
<1>5. ASSUME NEW s \in Songs, HandleSongCreated(s)
      PROVE  Kept'
    BY <1>0, <1>5
        DEF HandleSongCreated, Kept, Coming, actors, surroundings, history
<1>6. ASSUME NEW s \in Songs, HandleSongReady(s)
      PROVE  Kept'
    <2>1. lock' # "free"
        BY <1>6, SongsAssumption DEF HandleSongReady, StartCheck
    <2> QED
        BY <2>1 DEF Kept
<1>7. ASSUME NEW s \in Songs, FillBySong(s)
      PROVE  Kept'
    <2> SUFFICES ASSUME phase' = "up", lock' = "free", status' = "active", mode' = "endless"
                 PROVE  Deficit(songs') <= lost'
        BY DEF Kept
    <2>1. s \in Checkers /\ mode = "endless" /\ lost' = lost
        BY <1>7 DEF FillBySong, Checkers, history
    <2> DEFINE box == [songMail EXCEPT ![s][1] = "settled"]
    <2>2. EndCheck(s, mail, box)
        BY <1>7 DEF FillBySong
    <2> HIDE DEF box
    <2>3. status = "active"
        BY <2>2, CloseOneshotEffect DEF EndCheck
    <2>4. lock = s
        BY <1>7, <2>3, SongTaken DEF FillBySong, Locks
    <2>5. PICK S \in SUBSET {r \in Songs : Spare(r)} :
              songs' = WithNew(songs, S) /\ Cardinality(S) = due[s].create
        BY <2>1, <2>2, <2>3, EndCheckEffect
    <2> QED
        BY <2>1, <2>3, <2>4, <2>5, FilledKept
<1>8. ASSUME NEW s \in Songs, HandleSongSettled(s)
      PROVE  Kept'
    BY <1>0, <1>8
        DEF HandleSongSettled, Kept, Coming, actors, surroundings, history
<1>9. CASE HandleCreated
    <2> SUFFICES ASSUME status' = "active"
                 PROVE  Coming'
        BY DEF Kept
    <2>1. mail # <<>> /\ mail' = [mail EXCEPT ![1] = "check"] /\ "check" \in Events
        BY <1>9 DEF HandleCreated, Next1, ThenCheck, Events
    <2>2. In("check", mail')
        BY <2>1, Taken
    <2> QED
        BY <2>2 DEF Coming
<1>10. CASE HandleSteered
    <2>1. mail # <<>> /\ Head(mail) = "steered"
        BY <1>10 DEF HandleSteered, Next1
    <2>2. CASE seen \/ status = "deleted"
        <3>1. mail' = Tail(mail) /\ UNCHANGED <<songs, status, lock, lost, mode, phase, planning>>
            BY <1>10, <2>2 DEF HandleSteered, surroundings
        <3>2. \A e : In(e, mail) <=> e = "steered" \/ In(e, mail')
            BY <2>1, <3>1, Taken
        <3> QED
            BY <2>2, <3>1, <3>2 DEF Kept, Coming
    <2>3. CASE ~(seen \/ status = "deleted")
        <3>1. mail' = [mail EXCEPT ![1] = "check"] /\ "check" \in Events
            BY <1>10, <2>3 DEF HandleSteered, ThenCheck, Events
        <3>2. In("check", mail')
            BY <2>1, <3>1, Taken
        <3> QED
            BY <3>2 DEF Kept, Coming
    <2> QED
        BY <2>2, <2>3
<1>11. CASE HandleHeartbeat
    BY <1>0, <1>11, Taken
        DEF HandleHeartbeat, Next1, Kept, Coming, actors, surroundings, history
<1>12. CASE HandleUpdated
    BY <1>0, <1>12, Taken
        DEF HandleUpdated, Next1, ThenCheck, Events, Kept, Coming, actors, surroundings, history
<1>13. CASE HandleClosing
    <2> SUFFICES ASSUME status' = "active"
                 PROVE  Coming'
        BY DEF Kept
    <2>1. status = "active" /\ mail' = Tail(mail) /\ mail # <<>> /\ Head(mail) = "closing"
        BY <1>13 DEF HandleClosing, Next1, Open
    <2>2. In("reopened", mail')
        BY <2>1, Taken DEF ToldReopened
    <2> QED
        BY <2>2 DEF Coming
<1>14. CASE HandleClosed
    BY <1>0, <1>14, Taken
        DEF HandleClosed, Next1, Ends, EndIsTold, Open, Kept, Coming, actors, surroundings, history
<1>15. CASE HandleDeleted
    BY <1>0, <1>15, Taken
        DEF HandleDeleted, Next1, Ends, EndIsTold, Open, Kept, Coming, actors, surroundings, history
<1>16. CASE HandleReopened
    BY <1>0, <1>16, Taken
        DEF HandleReopened, Next1, ThenCheck, Events, Kept, Coming, actors, surroundings, history
<1>17. CASE CheckByPlaylist
    <2>1. lock' # "free"
        BY <1>17 DEF CheckByPlaylist, StartCheck
    <2> QED
        BY <2>1 DEF Kept
<1>18. CASE FillByPlaylist
    <2> SUFFICES ASSUME phase' = "up", lock' = "free", status' = "active", mode' = "endless"
                 PROVE  Deficit(songs') <= lost'
        BY DEF Kept
    <2>1. "playlist" \in Checkers /\ mode = "endless" /\ lost' = lost
        BY <1>18 DEF FillByPlaylist, Checkers, history
    <2>2. EndCheck("playlist", Tail(mail), songMail)
        BY <1>18 DEF FillByPlaylist
    <2>3. status = "active"
        BY <2>2, CloseOneshotEffect DEF EndCheck
    <2>4. lock = "playlist"
        BY <1>18, <2>3, Taken DEF FillByPlaylist, Next1, Locks
    <2>5. PICK S \in SUBSET {s \in Songs : Spare(s)} :
              songs' = WithNew(songs, S) /\ Cardinality(S) = due["playlist"].create
        BY <2>1, <2>2, <2>3, EndCheckEffect
    <2> QED
        BY <2>1, <2>3, <2>4, <2>5, FilledKept
<1>19. CASE Heartbeat
    <2>1. UNCHANGED <<mode, songs, lock, seen, phase, planning, lost>>
        BY <1>19 DEF Heartbeat
    <2>2. Coming => Coming'
        BY <1>19, <2>1, HeartbeatEffect DEF Coming
    <2>3. status' = status \/ Coming'
        BY <1>19, HeartbeatEffect DEF Coming
    <2> QED
        BY <2>1, <2>2, <2>3 DEF Kept
<1>20. CASE Leave
    BY <1>0, <1>20
        DEF Leave, Kept, Coming, actors, surroundings, history
<1>21. ASSUME NEW to \in {"active", "closing", "closed"}, SetStatus(to)
      PROVE  Kept'
    BY <1>0, <1>21, Sent
        DEF SetStatus, Events, Kept, Coming, actors, surroundings, history
<1>22. CASE DeletePlaylist
    BY <1>0, <1>22, Sent
        DEF DeletePlaylist, Events, Kept, Coming, actors, surroundings, history
<1>23. ASSUME NEW A \in SUBSET Songs, UpdatePosition(A)
      PROVE  Kept'
    BY <1>0, <1>23, Sent
        DEF UpdatePosition, Events, Kept, Coming, actors, surroundings, history
<1>24. CASE Steer
    BY <1>0, <1>24, Sent
        DEF Steer, Events, Kept, Coming, actors, surroundings, history
<1>25. ASSUME NEW s \in Songs, AskSong(s)
      PROVE  Kept'
    <2>1. songs' = [songs EXCEPT ![s] = [New EXCEPT !.asked = TRUE]] /\ ~Counts(songs[s])
        BY <1>25 DEF AskSong, Spare
    <2>2. \A r \in Songs : Counts(songs[r]) => Counts(songs'[r])
        BY <1>0, <2>1 DEF TypeList
    <2>3. Ahead(songs) <= Ahead(songs')
        BY <2>2, FewerAhead
    <2>4. Ahead(songs) \in Nat /\ Ahead(songs') \in Nat /\ BufferSize \in Nat /\ lost \in Nat
        BY <1>0, Counted, BoundsAssumption DEF TypeList
    <2> HIDE DEF Ahead
    <2>5. Deficit(songs) <= lost => Deficit(songs') <= lost
        BY <2>3, <2>4 DEF Deficit
    <2> HIDE DEF Deficit
    <2> QED
        BY <1>25, <2>5 DEF AskSong, Kept, Coming, surroundings, history
<1>26. ASSUME NEW s \in Songs, DeleteSong(s)
      PROVE  Kept'
    <2>1. Deficit(songs) <= lost => Deficit(songs') <= lost'
        BY <1>26, LostCounts DEF DeleteSong
    <2> HIDE DEF Deficit
    <2> QED
        BY <1>26, <2>1 DEF DeleteSong, Kept, Coming, actors, surroundings
<1>27. ASSUME NEW S \in SUBSET Songs, StaleCleanup(S)
      PROVE  Kept'
    <2>1. Deficit(songs) <= lost => Deficit(songs') <= lost'
        BY <1>27, LostCounts DEF StaleCleanup
    <2> HIDE DEF Deficit
    <2> QED
        BY <1>27, <2>1 DEF StaleCleanup, Kept, Coming, actors, surroundings
<1>28. CASE AskQuestion
    BY <1>0, <1>28
        DEF AskQuestion, Kept, Coming, actors, surroundings, history
<1>29. CASE AnswerQuestion
    BY <1>0, <1>29, Sent
        DEF AnswerQuestion, Events, Kept, Coming, actors, surroundings, history
<1>30. CASE FinishPlanning
    BY <1>0, <1>30, Sent
        DEF FinishPlanning, Events, Kept, Coming, actors, surroundings, history
<1>31. CASE TimerFires
    BY <1>0, <1>31, Sent
        DEF TimerFires, Events, Kept, Coming, actors, surroundings, history
<1>32. CASE Crash
    BY <1>0, <1>32
        DEF Crash, Kept, Coming, actors, surroundings, history
<1>33. CASE Sweep
    <2> SUFFICES ASSUME status' = "active"
                 PROVE  Coming'
        BY DEF Kept
    <2>1. CASE Open
        <3>1. status = "active" /\ mail' = <<"check">> \o mail
            BY <1>0, <1>33, <2>1, SweepEffect DEF SweepCloses, TypeList
        <3>2. In("check", mail')
            BY <3>1, BeforeMail DEF Events
        <3> QED
            BY <3>2 DEF Coming
    <2>2. CASE ~Open
        BY <1>33, <2>2 DEF Sweep, Open
    <2> QED
        BY <2>1, <2>2
<1>34. CASE UNCHANGED vars
    BY <1>0, <1>34 DEF Kept, Coming, vars, actors, surroundings, history
<1>35. ASSUME NEW S \in SUBSET Songs, PrimeRoom(S)
      PROVE  Kept'
    <2>1. UNCHANGED <<mode, status, mail, lock, lost, seen, phase, planning>>
        BY <1>35 DEF PrimeRoom, surroundings
    <2>2. Deficit(songs') <= Deficit(songs)
        BY <1>35, PrimeEffect, NewCounts, SmallerDeficit
    <2>3. Deficit(songs') \in Nat /\ Deficit(songs) \in Nat /\ lost \in Nat
        BY Counted, BoundsAssumption DEF TypeOK
    <2> HIDE DEF Deficit
    <2> QED
        BY <2>1, <2>2, <2>3 DEF Kept, Coming
<1> QED
    BY <1>1, <1>2, <1>3, <1>4, <1>5, <1>6, <1>7, <1>8, <1>9, <1>10, <1>11, <1>12, <1>13,
       <1>14, <1>15, <1>16, <1>17, <1>18, <1>19, <1>20, <1>21, <1>22, <1>23, <1>24, <1>25, <1>26, <1>27, <1>28, <1>29, <1>30, <1>31, <1>32, <1>33, <1>34, <1>35
        DEF Next, Users, HandlePlaylist, HandleSong

-------------------------------------------------------------------------------
(* The songs do what the pipeline promises of them. *)

\* createPending() tells of a song that is not done before the turn has ended.
NewRows == \A s \in Songs :
    In("created", songMail[s]) => songs[s].status \notin {"ready", "gone"}

LEMMA NewRowsStep ==
    ASSUME TypeOK, Ends, NewRows, [Next]_vars
    PROVE  NewRows'
<1>0. /\ TypeList
      /\ \A s \in Songs : songs[s] = None <=> songs[s].status = "none"
      /\ None.status = "none" /\ New.status = "pending"
    BY Listed, RowsKeep DEF TypeList, None, New
\* Nothing is sent to a song, and none is done.
<1> DEFINE Quiet == /\ \A r \in Songs : In("created", songMail'[r]) => In("created", songMail[r])
                    /\ \A r \in Songs : songs'[r].status \in {"ready", "gone"}
                                            => songs[r].status = songs'[r].status
<1>01. Quiet => NewRows'
    BY DEF NewRows
<1>02. songMail' = songMail /\ songs' = songs => Quiet
    OBVIOUS
<1>1. ASSUME NEW s \in Songs, Claim(s)
      PROVE  Quiet
    <2>1. /\ songMail' = songMail
          /\ \A r \in Songs : r # s => songs'[r] = songs[r]
          /\ songs' = songs \/ songs'[s].status \in {"pending", "flight"}
        BY <1>1, ClaimEffect
    <2> QED
        BY <2>1
<1>2. ASSUME NEW s \in Songs, SongReady(s) \/ SongFails(s)
      PROVE  NewRows'
    <2>1. PICK to \in {"ready", "gone"}, e \in {"ready", "settled"} :
              IF songs[s] = None
              THEN songs' = songs /\ songMail' = songMail
              ELSE /\ songs' = [songs EXCEPT ![s].status = to]
                   /\ songMail' = [songMail EXCEPT ![s] = Append(@, e)]
        BY <1>2 DEF SongReady, SongFails, Becomes
    <2>2. \A r \in Songs : ~In("created", songMail[r])
        BY <1>2, NothingIn DEF SongReady, SongFails, Idle
    <2>3. \A r \in Songs : ~In("created", songMail'[r])
        <3>1. /\ \A r \in Songs : r # s => songMail'[r] = songMail[r]
              /\ \A x : In(x, songMail'[s]) => In(x, songMail[s]) \/ x = e
            BY <2>1, EndedEffect
        <3> QED
            BY <2>2, <3>1
    <2> QED
        BY <2>3 DEF NewRows
<1>4. ASSUME NEW s \in Songs, SongRetries(s)
      PROVE  Quiet
    <2>1. PICK to \in {"pending", "meta", "flight"} : songs' = [songs EXCEPT ![s].status = to]
        BY <1>4 DEF SongRetries
    <2>2. songs[s] # None /\ to \in Kinds /\ songMail' = songMail
        BY <1>0, <1>4 DEF SongRetries, Kinds, actors
    <2> QED
        BY <2>1, <2>2, StatusEffect
<1>5. ASSUME NEW s \in Songs, HandleSongCreated(s) \/ HandleSongSettled(s)
      PROVE  Quiet
    <2>1. songs' = songs /\ songMail[s] # <<>> /\ songMail' = [songMail EXCEPT ![s] = Tail(@)]
        BY <1>5 DEF HandleSongCreated, HandleSongSettled
    <2>2. In("created", Tail(songMail[s])) => In("created", songMail[s])
        BY <2>1, SongTaken
    <2> QED
        BY <2>1, <2>2, BoxEffect
<1>6. ASSUME NEW s \in Songs, HandleSongReady(s)
      PROVE  Quiet
    <2>1. songMail[s] # <<>> /\ songs' = songs
        BY <1>6 DEF HandleSongReady
    <2>2. PICK e \in {"fill", "settled"} : songMail' = [songMail EXCEPT ![s][1] = e]
        BY <1>6 DEF HandleSongReady
    <2>3. In("created", [songMail[s] EXCEPT ![1] = e]) => In("created", songMail[s])
        BY <2>1, SongTaken DEF SongEvents
    <2> QED
        BY <2>1, <2>2, <2>3, BoxEffect
<1>7. ASSUME NEW who \in Checkers, NEW rest, NEW box \in [Songs -> Seq(SongEvents)],
             EndCheck(who, rest, box),
             \A r \in Songs : In("created", box[r]) => In("created", songMail[r])
      PROVE  NewRows'
    <2>1. PICK S \in SUBSET Songs : \A r \in Songs :
              /\ songs'[r] = IF r \in S THEN New ELSE songs[r]
              /\ In("created", songMail'[r]) => In("created", box[r]) \/ r \in S
        BY <1>7, EndCheckMail
    <2> QED
        BY <1>0, <1>7, <2>1 DEF NewRows
<1>8. ASSUME NEW s \in Songs, FillBySong(s)
      PROVE  NewRows'
    <2> DEFINE box == [songMail EXCEPT ![s][1] = "settled"]
    <2>1. songMail[s] # <<>> /\ EndCheck(s, mail, box) /\ s \in Checkers
        BY <1>8 DEF FillBySong, Checkers
    <2>2. \A r \in Songs : box[r] = IF r = s THEN [songMail[s] EXCEPT ![1] = "settled"] ELSE songMail[r]
        BY BoxEffect
    <2>3. /\ [songMail[s] EXCEPT ![1] = "settled"] \in Seq(SongEvents)
          /\ In("created", [songMail[s] EXCEPT ![1] = "settled"]) => In("created", songMail[s])
        BY <2>1, SongTaken DEF SongEvents
    <2>4. box \in [Songs -> Seq(SongEvents)]
        BY <1>0, <2>2, <2>3 DEF TypeList
    <2>5. \A r \in Songs : In("created", box[r]) => In("created", songMail[r])
        BY <2>2, <2>3
    <2> HIDE DEF box
    <2> QED
        BY <1>7, <2>1, <2>4, <2>5
<1>9. CASE FillByPlaylist
    <2>1. EndCheck("playlist", Tail(mail), songMail) /\ "playlist" \in Checkers
        BY <1>9 DEF FillByPlaylist, Checkers
    <2> QED
        BY <1>0, <1>7, <2>1 DEF TypeList
<1>10. CASE HandleSteered
    <2>1. songMail' = songMail /\ (songs' = songs \/ songs' = Without(OldPending, songs))
        BY <1>10 DEF HandleSteered
    <2>2. Quiet
        BY <1>0, <2>1 DEF Without
    <2> QED
        BY <1>01, <2>2
<1>11. CASE HandlePlaylist /\ ~HandleSteered /\ ~FillByPlaylist
    <2>1. songMail' = songMail /\ songs' = songs
        BY <1>11 DEF HandlePlaylist, HandleCreated, HandleHeartbeat, HandleUpdated, HandleClosing,
                     HandleClosed, HandleDeleted, HandleReopened, CheckByPlaylist
    <2> QED
        BY <1>01, <1>02, <2>1
<1>12. CASE Heartbeat \/ Leave \/ AskQuestion \/ AnswerQuestion \/ FinishPlanning \/ TimerFires
            \/ (\E to \in {"active", "closing", "closed"} : SetStatus(to)) \/ UNCHANGED vars
    <2>1. songMail' = songMail /\ songs' = songs
        BY <1>12 DEF Heartbeat, Leave, AskQuestion, AnswerQuestion, FinishPlanning, TimerFires,
                     SetStatus, vars, actors
    <2> QED
        BY <1>01, <1>02, <2>1
<1>13. CASE DeletePlaylist
    BY <1>0, <1>13 DEF DeletePlaylist, NewRows
<1>14. ASSUME NEW A \in SUBSET Songs, UpdatePosition(A)
      PROVE  Quiet
    BY <1>14, StatusEffect DEF UpdatePosition
<1>15. CASE Steer
    BY <1>15, StatusEffect DEF Steer, NewRows
<1>16. ASSUME NEW s \in Songs, AskSong(s)
      PROVE  NewRows'
    <2>1. /\ \A r \in Songs : r # s => songs'[r] = songs[r] /\ songMail'[r] = songMail[r]
          /\ songs'[s].status = "pending"
        BY <1>0, <1>16 DEF AskSong, TypeList, New
    <2> QED
        BY <2>1 DEF NewRows
<1>17. ASSUME NEW S \in SUBSET Songs, StaleCleanup(S) \/ \E s \in Songs : S = {s} /\ DeleteSong(s)
      PROVE  Quiet
    <2>1. songMail' = songMail /\ songs' = Without(S, songs)
        BY <1>17 DEF StaleCleanup, DeleteSong, Becomes, actors
    <2> QED
        BY <1>0, <2>1 DEF Without
<1>18. CASE Crash
    BY <1>18, NothingIn DEF Crash, NewRows
<1>19. CASE Sweep
    <2>1. songMail' = songMail
        BY <1>19 DEF Sweep
    <2>2. \A r \in Songs : ~In("created", songMail[r])
        BY <1>19, NothingIn DEF Sweep, Ends, DownIsEmpty
    <2> QED
        BY <2>1, <2>2 DEF NewRows
<1> HIDE DEF Quiet
<1>20. ASSUME NEW s \in Songs, DeleteSong(s)
       PROVE  Quiet
    <2>1. {s} \in SUBSET Songs /\ \E r \in Songs : {s} = {r} /\ DeleteSong(r)
        BY <1>20
    <2> QED
        BY <1>17, <2>1
<1>21. ASSUME NEW S \in SUBSET Songs, PrimeRoom(S)
      PROVE  NewRows'
    BY <1>0, <1>21, PrimeEffect DEF NewRows
<1> QED
    BY <1>01, <1>1, <1>2, <1>4, <1>5, <1>6, <1>8, <1>9, <1>10, <1>11, <1>12, <1>13,
       <1>14, <1>15, <1>16, <1>17, <1>18, <1>19, <1>20, <1>21
        DEF Next, Users, HandleSong

\* What may become of a song and its worker in a step.
Worked(s) == worker[s] # "none"
Keeps(s) == songs'[s].status = songs[s].status

Moves(s) ==
    \/ Keeps(s) /\ (Worked(s)' => Worked(s))
    \/ Keeps(s) /\ Actionable(s)
    \/ Worked(s) /\ Actionable(s) /\ Actionable(s)'
    \/ Worked(s) /\ ~Worked(s)' /\ Actionable(s) /\ songs'[s].status # "none"
    \/ songs[s].status = "flight" /\ songs'[s].status \in {"pending", "meta"}
    \/ songs[s].status # "none" /\ songs'[s].status = "none" /\ (Worked(s)' => Worked(s))
    \/ ~Worked(s) /\ ~Worked(s)' /\ ~Actionable(s) /\ songs'[s].status = "pending"

\* A check creates songs under spare names.
LEMMA CheckMoves ==
    ASSUME TypeOK, worker' = worker, NEW who \in Checkers, NEW rest, NEW box,
           EndCheck(who, rest, box)
    PROVE  \A s \in Songs : Moves(s)
<1>1. PICK S \in SUBSET {s \in Songs : Spare(s)} :
          \A s \in Songs : songs'[s] = IF s \in S THEN New ELSE songs[s]
    BY EndCheckEffect
<1> SUFFICES ASSUME NEW s \in Songs
             PROVE  Moves(s)
    OBVIOUS
<1>2. CASE s \in S
    <2>1. /\ worker[s] = "none" /\ worker'[s] = "none"
          /\ songs[s].status \in {"none", "ready", "gone"} /\ songs'[s] = New
        BY <1>1, <1>2 DEF Spare
    <2> QED
        BY <2>1 DEF Moves, Worked, Actionable, New
<1>3. CASE s \notin S
    BY <1>1, <1>3 DEF Moves, Worked, Keeps
<1> QED
    BY <1>2, <1>3

LEMMA MovesStep ==
    ASSUME TypeOK, Ends, NewRows, Next
    PROVE  \A s \in Songs : Moves(s)
<1>0. /\ TypeList
      /\ \A s \in Songs : songs[s] = None <=> songs[s].status = "none"
      /\ \A s \in Songs : songs[s].status \in Kinds \cup {"none"}
      /\ \A s \in Songs : songs'[s].status \in Kinds \cup {"none"}
      /\ None.status = "none" /\ New.status = "pending"
    <2>1. TypeOK'
        BY TypeStep
    <2>2. songs \in [Songs -> Row] /\ songs' \in [Songs -> Row]
        BY <2>1 DEF TypeOK
    <2>3. \A row \in Row : row.status \in Kinds \cup {"none"}
        BY DEF Row, None, Kinds
    <2> QED
        BY <2>2, <2>3, Listed, RowsKeep DEF None, New
\* The songs stay, and workers are only ended.
<1>01. ASSUME NEW s \in Songs, Keeps(s), worker'[s] \in {worker[s], "none"}
       PROVE  Moves(s)
    BY <1>01 DEF Moves, Worked
<1>02. ASSUME songs' = songs, worker' = worker
       PROVE  \A s \in Songs : Moves(s)
    BY <1>01, <1>02 DEF Keeps
<1>03. ASSUME songs' = songs, ClosedByHandler
       PROVE  \A s \in Songs : Moves(s)
    BY <1>01, <1>03 DEF Keeps, ClosedByHandler
<1>04. ASSUME songs' = songs, SpawnActionable
       PROVE  \A s \in Songs : Moves(s)
    <2> TAKE s \in Songs
    <2>1. Keeps(s) /\ (worker'[s] = worker[s] \/ Actionable(s))
        BY <1>04, SpawnEffect DEF Keeps
    <2> QED
        BY <2>1 DEF Moves, Worked
\* The songs of S are deleted, with their workers or without.
<1>05. ASSUME NEW S \in SUBSET Songs, songs' = Without(S, songs),
              \A s \in Songs : \/ worker'[s] = worker[s]
                               \/ s \in S /\ worker'[s] = "none"
       PROVE  \A s \in Songs : Moves(s)
    <2> TAKE s \in Songs
    <2>1. songs'[s] = IF s \in S THEN None ELSE songs[s]
        BY <1>05 DEF Without
    <2>2. worker'[s] \in {worker[s], "none"}
        BY <1>05
    <2>3. CASE songs'[s] = songs[s]
        BY <1>01, <2>2, <2>3 DEF Keeps
    <2>4. CASE songs'[s] = None
        BY <1>0, <1>01, <2>2, <2>4 DEF Moves, Worked, Keeps
    <2> QED
        BY <2>1, <2>3, <2>4
<1>1. ASSUME NEW s \in Songs, Claim(s), NEW r \in Songs
      PROVE  Moves(r)
    <2>1. CASE r # s
        BY <1>01, <1>1, <2>1, ClaimEffect DEF Keeps
    <2>2. CASE r = s
        <3>1. \/ worker'[s] = "none" /\ songs' = songs
              \/ /\ worker[s] = "new" /\ Actionable(s)
                 /\ songs'[s].status \in {"pending", "flight"}
            BY <1>1, ClaimEffect
        <3>2. CASE worker'[s] = "none" /\ songs' = songs
            BY <1>01, <2>2, <3>2 DEF Keeps
        <3>3. CASE /\ worker[s] = "new" /\ Actionable(s)
                   /\ songs'[s].status \in {"pending", "flight"}
            BY <2>2, <3>3 DEF Moves, Worked, Actionable
        <3> QED
            BY <3>1, <3>2, <3>3
    <2> QED
        BY <2>1, <2>2
<1>2. ASSUME NEW s \in Songs, SongReady(s) \/ SongFails(s), NEW r \in Songs
      PROVE  Moves(r)
    <2>1. PICK to \in {"ready", "gone"}, e \in {"ready", "settled"} :
              IF songs[s] = None
              THEN songs' = songs /\ songMail' = songMail
              ELSE /\ songs' = [songs EXCEPT ![s].status = to]
                   /\ songMail' = [songMail EXCEPT ![s] = Append(@, e)]
        BY <1>2 DEF SongReady, SongFails, Becomes
    <2>2. worker[s] = "busy" /\ worker' = [worker EXCEPT ![s] = "none"]
        BY <1>2 DEF SongReady, SongFails
    <2>3. songs[s].status \in {"flight", "none"}
        BY <2>2 DEF Ends, BusyRows
    <2>4. \A q \in Songs : worker'[q] = IF q = s THEN "none" ELSE worker[q]
        BY <1>0, <2>2 DEF TypeList
    <2>5. /\ r # s => songs'[r] = songs[r]
          /\ songs[s] = None => songs' = songs
          /\ songs[s] # None => songs'[s].status = to
        BY <2>1, EndedEffect
    <2>6. CASE r # s \/ songs[s] = None
        BY <1>01, <2>4, <2>5, <2>6 DEF Keeps
    <2>7. CASE r = s /\ songs[s] # None
        <3>1. /\ songs[r].status = "flight" /\ songs'[r].status \in {"ready", "gone"}
              /\ worker[r] = "busy" /\ worker'[r] = "none"
            BY <1>0, <2>2, <2>3, <2>4, <2>5, <2>7
        <3> QED
            BY <3>1 DEF Moves, Worked, Actionable
    <2> QED
        BY <2>6, <2>7
<1>4. ASSUME NEW s \in Songs, SongRetries(s), NEW r \in Songs
      PROVE  Moves(r)
    <2>1. PICK to \in {"pending", "meta", "flight"} : songs' = [songs EXCEPT ![s].status = to]
        BY <1>4 DEF SongRetries
    <2>2. /\ songs[s].status = "flight" /\ worker[s] = "busy" /\ to \in Kinds
          /\ \A q \in Songs : q # s => worker'[q] = worker[q]
        BY <1>0, <1>4 DEF SongRetries, Kinds, TypeList
    <2>3. songs[s] # None
        BY <1>0, <2>2
    <2>4. (r # s => songs'[r] = songs[r]) /\ songs'[s].status = to
        BY <2>1, <2>2, <2>3, StatusEffect
    <2>5. CASE r # s
        BY <1>01, <2>2, <2>4, <2>5 DEF Keeps
    <2>6. CASE r = s
        BY <2>2, <2>4, <2>6 DEF Moves, Worked, Actionable
    <2> QED
        BY <2>5, <2>6
<1>5. ASSUME NEW s \in Songs, HandleSongCreated(s), NEW r \in Songs
      PROVE  Moves(r)
    <2>1. /\ songs' = songs /\ In("created", songMail[s])
          /\ worker'[r] = worker[r] \/ (r = s /\ songs[s] # None)
        BY <1>5, SongTaken DEF HandleSongCreated, Spawned
    <2>2. CASE worker'[r] = worker[r]
        BY <1>01, <2>1, <2>2 DEF Keeps
    <2>3. CASE r = s /\ songs[s] # None
        <3>1. Actionable(r) /\ Keeps(r)
            BY <1>0, <2>1, <2>3 DEF NewRows, Actionable, Kinds, Keeps
        <3> QED
            BY <3>1 DEF Moves
    <2> QED
        BY <2>1, <2>2, <2>3
<1>6. ASSUME NEW s \in Songs, HandleSongReady(s)
      PROVE  \A r \in Songs : Moves(r)
    BY <1>02, <1>6 DEF HandleSongReady
<1>7. ASSUME NEW s \in Songs, FillBySong(s)
      PROVE  \A r \in Songs : Moves(r)
    BY <1>7, CheckMoves DEF FillBySong, Checkers
<1>8. ASSUME NEW s \in Songs, HandleSongSettled(s)
      PROVE  \A r \in Songs : Moves(r)
    <2>1. songs' = songs /\ (ClosedByHandler \/ worker' = worker)
        BY <1>8 DEF HandleSongSettled
    <2> QED
        BY <1>02, <1>03, <2>1
<1>9. CASE HandleSteered
    <2>1. \/ songs' = songs /\ worker' = worker
          \/ /\ songs' = Without(OldPending, songs)
             /\ worker' = [s \in Songs |-> IF s \in OldPending THEN "none" ELSE worker[s]]
        BY <1>9 DEF HandleSteered
    <2>2. OldPending \in SUBSET Songs
        BY DEF OldPending
    <2> QED
        BY <1>02, <1>05, <2>1, <2>2
<1>10. CASE HandleUpdated \/ HandleReopened
    BY <1>04, <1>10 DEF HandleUpdated, HandleReopened
<1>11. CASE HandleClosing
    <2>1. songs' = songs /\ (SpawnActionable \/ worker' = worker \/ ClosedByHandler)
        BY <1>11 DEF HandleClosing
    <2> QED
        BY <1>02, <1>03, <1>04, <2>1
<1>12. CASE HandleClosed \/ HandleDeleted
    BY <1>03, <1>12 DEF HandleClosed, HandleDeleted
<1>13. CASE FillByPlaylist
    BY <1>13, CheckMoves DEF FillByPlaylist, Checkers
<1>14. CASE HandleCreated \/ HandleHeartbeat \/ CheckByPlaylist
    BY <1>02, <1>14 DEF HandleCreated, HandleHeartbeat, CheckByPlaylist
<1>15. CASE Heartbeat \/ Leave \/ AskQuestion \/ AnswerQuestion \/ FinishPlanning \/ TimerFires
            \/ \E to \in {"active", "closing", "closed"} : SetStatus(to)
    <2>1. songs' = songs /\ worker' = worker
        BY <1>15 DEF Heartbeat, Leave, AskQuestion, AnswerQuestion, FinishPlanning, TimerFires,
                     SetStatus
    <2> QED
        BY <1>02, <2>1
<1>16. CASE DeletePlaylist
    <2>1. songs' = Without(Songs, songs) /\ worker' = worker
        BY <1>16 DEF DeletePlaylist, Without
    <2> QED
        BY <1>05, <2>1
<1>17. ASSUME NEW A \in SUBSET Songs, UpdatePosition(A)
       PROVE  \A r \in Songs : Moves(r)
    <2>1. worker' = worker /\ \A r \in Songs : Keeps(r)
        BY <1>17, StatusEffect DEF UpdatePosition, Keeps
    <2> QED
        BY <1>01, <2>1
<1>18. CASE Steer
    <2>1. worker' = worker /\ \A r \in Songs : Keeps(r)
        BY <1>18, StatusEffect DEF Steer, Keeps
    <2> QED
        BY <1>01, <2>1
<1>19. ASSUME NEW s \in Songs, AskSong(s), NEW r \in Songs
       PROVE  Moves(r)
    <2>1. /\ r # s => songs'[r] = songs[r] /\ worker'[r] = worker[r]
          /\ songs'[s].status = "pending" /\ worker' = worker /\ Spare(s)
        BY <1>0, <1>19 DEF AskSong, TypeList, New
    <2>2. CASE r # s
        BY <1>01, <2>1, <2>2 DEF Keeps
    <2>3. CASE r = s
        BY <2>1, <2>3 DEF Moves, Worked, Actionable, Spare
    <2> QED
        BY <2>2, <2>3
<1>20. ASSUME NEW s \in Songs, DeleteSong(s)
       PROVE  \A r \in Songs : Moves(r)
    <2>1. songs' = Without({s}, songs) /\ worker' = worker /\ {s} \in SUBSET Songs
        BY <1>20 DEF DeleteSong, Becomes
    <2> QED
        BY <1>05, <2>1
<1>21. ASSUME NEW S \in SUBSET Songs, StaleCleanup(S)
       PROVE  \A r \in Songs : Moves(r)
    <2>1. /\ songs' = Without(S, songs)
          /\ worker' = [s \in Songs |-> IF s \in S THEN "none" ELSE worker[s]]
        BY <1>21 DEF StaleCleanup, Becomes
    <2> QED
        BY <1>05, <2>1
<1>22. CASE Crash
    BY <1>01, <1>22 DEF Crash, Keeps
<1>23. CASE Sweep
    <2>1. CASE ~Open
        BY <1>02, <1>23, <2>1 DEF Sweep
    <2>2. ASSUME Open, NEW s \in Songs
          PROVE  Moves(s)
        <3>1. PICK reverted \in SUBSET InFlight : \E stale \in SUBSET (InFlight \ reverted) :
                  /\ worker' = [r \in Songs |-> IF r \notin stale /\ Actionable(r)
                                                THEN "new" ELSE "none"]
                  /\ \A r \in Songs :
                         /\ songs'[r] = IF r \in stale THEN None
                                        ELSE IF r \in reverted
                                        THEN [songs[r] EXCEPT !.status = "meta"] ELSE songs[r]
                         /\ r \in reverted => [songs[r] EXCEPT !.status = "meta"].status = "meta"
            BY <1>23, <2>2, SweepEffect
        <3>2. PICK stale \in SUBSET (InFlight \ reverted) :
                  /\ worker'[s] = IF s \notin stale /\ Actionable(s) THEN "new" ELSE "none"
                  /\ songs'[s] = IF s \in stale THEN None
                                 ELSE IF s \in reverted
                                 THEN [songs[s] EXCEPT !.status = "meta"] ELSE songs[s]
                  /\ s \in reverted => [songs[s] EXCEPT !.status = "meta"].status = "meta"
            BY <3>1
        <3>3. CASE s \in stale
            <4>1. /\ songs[s].status = "flight" /\ songs'[s].status = "none"
                  /\ worker'[s] = "none"
                BY <1>0, <3>2, <3>3 DEF InFlight
            <4> QED
                BY <4>1 DEF Moves, Worked
        <3>4. CASE s \notin stale /\ s \in reverted
            <4>1. songs[s].status = "flight" /\ songs'[s].status = "meta"
                BY <3>2, <3>4 DEF InFlight
            <4> QED
                BY <4>1 DEF Moves
        <3>5. CASE s \notin stale /\ s \notin reverted
            <4>1. Keeps(s) /\ (Actionable(s) \/ worker'[s] = "none")
                BY <3>2, <3>5 DEF Keeps
            <4> QED
                BY <1>01, <4>1 DEF Moves
        <3> QED
            BY <3>3, <3>4, <3>5
    <2> QED
        BY <2>1, <2>2
<1>24. ASSUME NEW S \in SUBSET Songs, PrimeRoom(S), NEW s \in Songs
      PROVE  Moves(s)
    <2>1. worker' = worker
        BY <1>24 DEF PrimeRoom
    <2>2. \/ songs'[s] = songs[s]
          \/ worker[s] = "none" /\ songs[s].status \in {"none", "ready", "gone"} /\ songs'[s] = New
        BY <1>24, PrimeEffect DEF Spare
    <2>3. CASE songs'[s] = songs[s]
        BY <1>01, <2>1, <2>3 DEF Keeps
    <2>4. CASE worker[s] = "none" /\ songs[s].status \in {"none", "ready", "gone"} /\ songs'[s] = New
        BY <1>0, <2>1, <2>4 DEF Moves, Worked, Actionable
    <2> QED
        BY <2>2, <2>3, <2>4
<1> QED
    BY <1>1, <1>2, <1>4, <1>5, <1>6, <1>7, <1>8, <1>9, <1>10, <1>11, <1>12, <1>13,
       <1>14, <1>15, <1>16, <1>17, <1>18, <1>19, <1>20, <1>21, <1>22, <1>23, <1>24
        DEF Next, Users, HandlePlaylist, HandleSong

LEMMA MoveIsPromised ==
    ASSUME TypeOK, TypeOK', \A s \in Songs : Moves(s)
    PROVE  Pipeline!StagesNext
<1> DEFINE K == {"pending", "meta", "flight", "ready", "gone", "none"}
           st == [s \in Songs |-> songs[s].status]
           mt == [s \in Songs |-> worker[s] # "none"]
<1>1. \A row \in Row : row.status \in K
    BY DEF Row, None
<1>2. \A s \in Songs : songs[s].status \in K /\ songs'[s].status \in K
    BY <1>1 DEF TypeOK
<1>3. st' \in [Songs -> K] /\ mt' \in [Songs -> BOOLEAN]
    BY <1>2
<1>4. ASSUME NEW s \in Songs
      PROVE  \/ Pipeline!Created(s) \/ Pipeline!TakenUp(s) \/ Pipeline!GoesOn(s)
             \/ Pipeline!Left(s) \/ Pipeline!Reverted(s) \/ Pipeline!Played(s)
             \/ Pipeline!Deleted(s) \/ Pipeline!Rests(s)
    <2> DEFINE a == songs[s].status
               b == songs'[s].status
               m == worker[s] # "none"
               n == worker'[s] # "none"
    <2>1. /\ a \in K /\ b \in K
          /\ st[s] = a /\ st'[s] = b /\ mt[s] = m /\ mt'[s] = n
        BY <1>2
    <2>2. \/ b = a /\ (n => m)
          \/ b = a /\ a \in {"pending", "meta", "flight"}
          \/ m /\ a \in {"pending", "meta", "flight"} /\ b \in {"pending", "meta", "flight"}
          \/ m /\ ~n /\ a \in {"pending", "meta", "flight"} /\ b # "none"
          \/ a = "flight" /\ b \in {"pending", "meta"}
          \/ a # "none" /\ b = "none" /\ (n => m)
          \/ ~m /\ ~n /\ a \notin {"pending", "meta", "flight"} /\ b = "pending"
        BY DEF Moves, Worked, Keeps, Actionable
    <2> HIDE DEF a, b, m, n
    <2> QED
        BY <2>1, <2>2
           DEF Pipeline!Created, Pipeline!TakenUp, Pipeline!GoesOn, Pipeline!Left,
               Pipeline!Reverted, Pipeline!FallsBack, Pipeline!Played, Pipeline!Deleted,
               Pipeline!Rests, Pipeline!Stays, Pipeline!Unfinished, Pipeline!Waiting
<1> QED
    BY <1>3, <1>4 DEF Pipeline!StagesNext, Pipeline!Unfinished

-------------------------------------------------------------------------------
(* The inductive invariant. *)

IInv ==
    /\ TypeOK /\ Ends /\ Tracked /\ ClosingGoesOn
    /\ OnlyOneshots /\ WatchedInv
    /\ Locks /\ CreatesFit /\ CheckCovers /\ Kept /\ ToldReopened /\ NewRows

LEMMA Start ==
    ASSUME Init
    PROVE  IInv
<1>0. /\ \A who \in Checkers : due[who].create = 0 /\ ~due[who].close
      /\ mail \in Seq(Events) /\ songs \in [Songs -> Row]
      /\ \A s \in Songs : songs[s] = None /\ songs[s].status = "none" /\ songMail[s] = <<>>
      /\ due \in [Checkers -> Dues]
    <2>1. <<"created">> \in Seq(Events) /\ <<>> \in Seq(Events)
        BY DEF Events
    <2>2. None \in Row /\ None.status = "none"
        BY DEF None, Row
    <2>3. NoDue \in Dues /\ NoDue.create = 0 /\ ~NoDue.close
        BY BoundsAssumption DEF NoDue, Dues
    <2> QED
        BY <2>1, <2>2, <2>3 DEF Init
<1>1. TypeOK
    <2>1. songMail \in [Songs -> Seq(SongEvents)] /\ lost \in 0..BufferSize /\ crashes \in 0..MaxCrashes
        BY BoundsAssumption DEF Init
    <2>2. mode \in Modes
        BY DEF Init
    <2> QED
        BY <1>0, <2>1, <2>2 DEF Init, TypeOK, Dues, SongEvents
<1>2. /\ \A e : In(e, mail) => e = "created"
      /\ \A s \in Songs : \A e : ~In(e, songMail[s])
      /\ FillFirst(mail) /\ Reopens(mail) /\ \A s \in Songs : FillFirst(songMail[s])
    <2>1. /\ \A e : In(e, <<"created">>) => e = "created"
          /\ FillFirst(<<"created">>) /\ Reopens(<<"created">>)
        BY DEF In, FillFirst, Reopens
    <2> QED
        BY <1>0, <2>1, NothingIn DEF Init
<1>3. Ends
    BY <1>2 DEF Init, Ends, EndIsTold, DownIsEmpty, BusyRows, Released, Open
<1>4. Tracked /\ ClosingGoesOn
    BY <1>0 DEF Init, Tracked, ClosingGoesOn, Actionable
<1>5. OnlyOneshots /\ WatchedInv
    BY <1>0, <1>2 DEF Init, OnlyOneshots, WatchedInv
<1>6. Locks /\ CreatesFit
    BY <1>0, <1>2 DEF Init, Locks, CreatesFit
<1>7. CheckCovers
    BY DEF Init, CheckCovers
<1>8. Kept
    <2>1. Deficit(songs) \in 0..BufferSize /\ lost = BufferSize
        BY Counted DEF Init
    <2> HIDE DEF Deficit
    <2> QED
        BY <2>1, BoundsAssumption DEF Kept
<1>9. ToldReopened /\ NewRows
    BY <1>2 DEF ToldReopened, NewRows
<1> QED
    BY <1>1, <1>3, <1>4, <1>5, <1>6, <1>7, <1>8, <1>9 DEF IInv

LEMMA Step ==
    ASSUME IInv, [Next]_vars
    PROVE  IInv'
<1>1. /\ TypeOK /\ Ends /\ Tracked /\ ClosingGoesOn /\ OnlyOneshots /\ WatchedInv
      /\ Locks /\ CreatesFit /\ CheckCovers /\ Kept /\ ToldReopened /\ NewRows
    BY DEF IInv
<1>2. TypeOK' /\ Ends' /\ Tracked' /\ ClosingGoesOn'
    BY <1>1, TypeStep, EndsStep, TrackedStep, ClosingStep
<1>3. OnlyOneshots' /\ WatchedInv'
    BY <1>1, OneshotsStep, WatchedStep
<1>4. Locks' /\ CreatesFit' /\ CheckCovers' /\ Kept' /\ ToldReopened' /\ NewRows'
    BY <1>1, LocksStep, CreatesFitStep, CoversStep, KeptStep, ReopenedStep, NewRowsStep
<1> QED
    BY <1>2, <1>3, <1>4 DEF IInv

\* The states and steps that the program can be in and can take.
THEOREM Invariance == Spec => []IInv
<1>1. Init => IInv
    BY Start
<1>2. IInv /\ [Next]_vars => IInv'
    BY Step
<1> QED
    BY <1>1, <1>2, PTL DEF Spec

-------------------------------------------------------------------------------
(* What the program promises. *)

\* The row of the playlist, those of its songs, the events on their way and what
\* the worker keeps in memory (playlist-service.ts, worker/index.ts) stay what
\* their types say.
THEOREM TypeCorrect == Spec => []TypeOK
<1>1. IInv => TypeOK
    BY DEF IInv
<1> QED
    BY <1>1, Invariance, PTL

\* spawnActionableSongsForPlaylist(), handleSongCreated(), retryErrored() and the
\* sweep leave no song of an open playlist without a worker, and closing one ends
\* every worker, for any number of songs and whatever order the events come in.
THEOREM NobodyForgotten == Spec => []NoSongForgotten
<1>1. IInv => NoSongForgotten
    <2> SUFFICES ASSUME IInv, Idle, NEW s \in Songs
                 PROVE  /\ Open /\ ~question /\ Actionable(s) => worker[s] = "busy"
                        /\ ~Open => worker[s] = "none"
        BY DEF NoSongForgotten
    <2>1. /\ phase = "up" /\ \A e : ~In(e, mail) /\ ~In(e, songMail[s])
          /\ worker[s] \in {"none", "busy"}
        BY NothingIn DEF Idle, IInv, TypeOK
    <2>2. Open /\ ~question /\ Actionable(s) => worker[s] = "busy"
        BY <2>1 DEF IInv, Tracked
    <2>3. ~Open => worker[s] = "none"
        BY <2>1 DEF IInv, Ends, Released
    <2> QED
        BY <2>2, <2>3
<1> QED
    BY <1>1, Invariance, PTL

\* handlePlaylistStatusChanged() and handleSongStatusChanged() between them leave no
\* closing playlist behind that waits for nothing.
THEOREM ClosingIsWorkedOn == Spec => []ClosingHasWork
<1>1. IInv => ClosingHasWork
    <2> SUFFICES ASSUME IInv, Idle, status = "closing"
                 PROVE  \/ ~NoneInFlight(songs)
                        \/ question /\ \E s \in Songs : songs[s].status = "pending"
                        \/ vanished
        BY DEF ClosingHasWork
    <2>1. /\ phase = "up" /\ \A e : ~In(e, mail)
          /\ \A s \in Songs : worker[s] # "new" /\ \A e : ~In(e, songMail[s])
        BY NothingIn DEF Idle
    <2> QED
        BY <2>1 DEF IInv, ClosingGoesOn
<1> QED
    BY <1>1, Invariance, PTL

\* checkBufferDeficit(), with the lock and the events that lead to it, leaves no
\* buffer of an active playlist short of more songs than have failed or were deleted
\* since, whatever the size of the buffer.
THEOREM BufferIsKept == Spec => []BufferKept
<1>1. IInv => BufferKept
    <2> SUFFICES ASSUME IInv, Idle, status = "active", mode = "endless", ~planning
                 PROVE  Deficit(songs) <= lost
        BY DEF BufferKept
    <2>1. phase = "up" /\ lock = "free" /\ \A e : ~In(e, mail)
        BY NothingIn DEF Idle
    <2> HIDE DEF Deficit
    <2> QED
        BY <2>1 DEF IInv, Kept, Coming
<1> QED
    BY <1>1, Invariance, PTL

\* bufferLocks keeps the checks of the playlist's actor and of its songs' actors from
\* creating more than the buffer holds, however they interleave, as long as no room adds
\* songs of its own (primePlaylistForIdleRoomStart()) while one is under way.
THEOREM BufferIsBounded == Spec => BufferBounded
<1>1. IInv /\ [Next]_vars => Bounded
    BY CreatesFitStep DEF IInv
<1>2. IInv /\ [Next]_vars => [Bounded]_vars
    BY <1>1
<1> QED
    BY <1>2, Invariance, PTL DEF Spec, BufferBounded, Bounded

\* heartbeat() and updateStatus() win against a timer, a check, a restart and an old
\* "closing": a playlist that is looked at stays active.
THEOREM WatchedIsOpen == Spec => WatchedStaysOpen
<1>1. IInv /\ [Next]_vars => [StaysOpen]_vars
    BY WatchedStep DEF IInv
<1> QED
    BY <1>1, Invariance, PTL DEF Spec, WatchedStaysOpen, StaysOpen

\* The songs of a playlist, several of them at once and through checks, sweeps,
\* deletions and crashes, do only what the pipeline promises: a song is taken further
\* by its worker alone (songWorkers), and one that is done is not taken up again.
THEOREM SongsAreAsPromised == Spec => SongsAsPromised
<1>1. Init => Pipeline!StagesInit
    <2>1. ASSUME Init, NEW s \in Songs PROVE songs[s].status = "none" /\ worker[s] = "none"
        BY <2>1 DEF Init, None
    <2> QED
        BY <2>1 DEF Pipeline!StagesInit
<1>2. IInv /\ IInv' /\ [Next]_vars => [Pipeline!StagesNext]_(Pipeline!stages)
    <2>1. ASSUME IInv, IInv', Next PROVE Pipeline!StagesNext
        BY <2>1, MovesStep, MoveIsPromised DEF IInv
    <2>2. UNCHANGED vars => UNCHANGED Pipeline!stages
        BY DEF vars, Pipeline!stages
    <2> QED
        BY <2>1, <2>2
<1> QED
    BY <1>1, <1>2, Invariance, PTL DEF Spec, SongsAsPromised, Pipeline!StagesSpec
=============================================================================

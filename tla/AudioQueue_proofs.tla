--------------------------- MODULE AudioQueue_proofs ---------------------------
(***************************************************************************)
(* The safety properties of the audio queue, for every set of requests,    *)
(* songs, priorities and overlapping polls.                                *)
(*                                                                         *)
(* The invariant separates the requests that were started (in the slot,    *)
(* submitting, aborted or polled for) from those in the list: no request   *)
(* is started twice, so a late answer never concerns a listed one.  What   *)
(* confused guards is then local to the slot: the two callbacks that act   *)
(* on it without being asked whose it is say so in Touches.                *)
(***************************************************************************)
EXTENDS AudioQueue, QueueOrder_proofs

\* The request of the poll p, if it is under way.
Polled == {r \in Requests : \E p \in Polls : polls[p] # None /\ polls[p].request = r}

\* Requests that have left the list.
Started == ({slot} \ {None}) \cup submitting \cup aborted \cup Polled

\* The list: in order, one item a request, of requests that were not started.
ListOK ==
    /\ InOrder(pending)
    /\ OncePending(pending)
    /\ Requested(Items(pending)) \cap Started = {}

\* Only requests that were made are started.
StartedWasMade == \A r \in Started : promise[r] # "none"

\* Polls ask for the task of the request they are made for.
PollsAskForOwn ==
    ~confused => \A p \in Polls : polls[p] # None => polls[p].task \in {None, polls[p].request}

\* The inductive invariant.
IInv ==
    /\ TypeOK
    /\ ListOK
    /\ StartedWasMade
    /\ SlotNeverIdle
    /\ QueuedIsAwaited
    /\ LostOnlyByConfusion
    /\ TaskIsOwn
    /\ PollsAskForOwn

\* The queue's items are those of its requests.
LEMMA ItemIsItemOf == Item = ItemOf(Requests)
BY DEF Item, ItemOf

LEMMA RequestsOfList ==
    ASSUME NEW p \in Seq(Item)
    PROVE  Requested(Items(p)) \subseteq Requests
<1>1. \A k \in DOMAIN p : p[k].request \in Requests
    BY ItemIsItemOf, ItemsAreList
<1>2. QED
    BY <1>1 DEF Requested, Items

-------------------------------------------------------------------------------
\* The head of a list that is not empty and what is left of the list.
LEMMA HeadAndTail ==
    ASSUME NEW p \in Seq(Item), OncePending(p), InOrder(p), p # <<>>
    PROVE  /\ Head(p) \in Items(p) /\ Head(p).request \in Requests
           /\ Tail(p) \in Seq(Item)
           /\ OncePending(Tail(p)) /\ InOrder(Tail(p))
           /\ Items(Tail(p)) = Items(p) \ {Head(p)}
           /\ Requested(Items(Tail(p))) = Requested(Items(p)) \ {Head(p).request}
           /\ \A i \in Items(Tail(p)) : ~Before(i, Head(p))
<1>1. /\ DOMAIN p = 1..Len(p)
      /\ Len(p) \in Nat \ {0}
      /\ \A k \in 1..Len(p) : p[k] \in Item
    BY EmptySeq, LenProperties
<1>2. /\ Tail(p) \in Seq(Item)
      /\ Len(Tail(p)) = Len(p) - 1
      /\ \A k \in 1..Len(Tail(p)) : Tail(p)[k] = p[k + 1]
    BY HeadTailProperties
<1>3. Head(p) = p[1] /\ 1 \in DOMAIN p
    BY <1>1
<1>4. /\ DOMAIN Tail(p) = 1..(Len(p) - 1)
      /\ \A k \in DOMAIN Tail(p) : Tail(p)[k] = p[k + 1] /\ k + 1 \in DOMAIN p /\ k \in Int
    <2>1. DOMAIN Tail(p) = 1..(Len(p) - 1)
        BY <1>2, LenProperties
    <2>2. QED
        BY <1>1, <1>2, <2>1
<1>5. Head(p) \in Items(p) /\ Head(p).request \in Requests
    BY <1>1, <1>3 DEF Items, Item
<1>6. OncePending(Tail(p))
    <2> SUFFICES ASSUME NEW j \in DOMAIN Tail(p), NEW k \in DOMAIN Tail(p),
                        Tail(p)[j].request = Tail(p)[k].request
                 PROVE  j = k
        BY DEF OncePending
    <2>1. j + 1 = k + 1
        BY <1>4 DEF OncePending
    <2>2. QED
        BY <1>4, <2>1
<1>7. InOrder(Tail(p))
    <2> SUFFICES ASSUME NEW j \in DOMAIN Tail(p), NEW k \in DOMAIN Tail(p), j < k
                 PROVE  ~Before(Tail(p)[k], Tail(p)[j])
        BY DEF InOrder
    <2>1. j + 1 < k + 1
        BY <1>4
    <2>2. QED
        BY <1>4, <2>1 DEF InOrder
<1>8. \A k \in DOMAIN p : k = 1 \/ (k - 1 \in DOMAIN Tail(p) /\ Tail(p)[k - 1] = p[k])
    <2> TAKE k \in DOMAIN p
    <2>1. k \in Int /\ 1 <= k /\ k <= Len(p)
        BY <1>1
    <2>2. k # 1 => k - 1 \in 1..(Len(p) - 1) /\ (k - 1) + 1 = k
        BY <1>1, <2>1
    <2>3. QED
        BY <1>4, <2>2
<1>9. Requested(Items(Tail(p))) = Requested(Items(p)) \ {Head(p).request}
    <2>1. \A k \in DOMAIN Tail(p) : p[k + 1].request # Head(p).request
        <3> TAKE k \in DOMAIN Tail(p)
        <3>1. k + 1 # 1
            BY <1>4
        <3>2. QED
            BY <1>3, <1>4, <3>1 DEF OncePending
    <2>2. Requested(Items(Tail(p))) \subseteq Requested(Items(p)) \ {Head(p).request}
        BY <1>4, <2>1 DEF Requested, Items
    <2>3. Requested(Items(p)) \ {Head(p).request} \subseteq Requested(Items(Tail(p)))
        <3> SUFFICES ASSUME NEW k \in DOMAIN p, p[k].request # Head(p).request
                     PROVE  p[k].request \in Requested(Items(Tail(p)))
            BY DEF Requested, Items
        <3>1. k - 1 \in DOMAIN Tail(p) /\ Tail(p)[k - 1] = p[k]
            BY <1>3, <1>8
        <3>2. p[k] \in Items(Tail(p))
            BY <3>1 DEF Items
        <3>3. QED
            BY <3>2 DEF Requested
    <2>4. QED
        BY <2>2, <2>3
<1>10. \A i \in Items(Tail(p)) : ~Before(i, Head(p))
    <2> SUFFICES ASSUME NEW k \in DOMAIN Tail(p)
                 PROVE  ~Before(Tail(p)[k], p[1])
        BY <1>3 DEF Items
    <2>1. 1 < k + 1
        BY <1>4
    <2>2. QED
        BY <1>3, <1>4, <2>1 DEF InOrder
<1>11. Items(Tail(p)) = Items(p) \ {Head(p)}
    <2>1. \A k \in DOMAIN Tail(p) : p[k + 1] # Head(p)
        <3> TAKE k \in DOMAIN Tail(p)
        <3>1. k + 1 # 1
            BY <1>4
        <3>2. QED
            BY <1>3, <1>4, <3>1 DEF OncePending
    <2>2. Items(Tail(p)) \subseteq Items(p) \ {Head(p)}
        BY <1>4, <2>1 DEF Items
    <2>3. Items(p) \ {Head(p)} \subseteq Items(Tail(p))
        <3> SUFFICES ASSUME NEW k \in DOMAIN p, p[k] # Head(p)
                     PROVE  p[k] \in Items(Tail(p))
            BY DEF Items
        <3>1. k - 1 \in DOMAIN Tail(p) /\ Tail(p)[k - 1] = p[k]
            BY <1>3, <1>8
        <3>2. QED
            BY <3>1 DEF Items
    <2>4. QED
        BY <2>2, <2>3
<1>12. QED
    BY <1>2, <1>5, <1>6, <1>7, <1>9, <1>10, <1>11

\* What an empty slot makes of an ordered list: it takes the head, of which
\* nothing smaller stays, or the list is empty.
LEMMA DrainEmptyStarts ==
    ASSUME NEW p \in Seq(Item), OncePending(p), InOrder(p),
           NEW sub \in SUBSET Requests, DrainEmpty(p, sub)
    PROVE  /\ pending' \in Seq(Item) /\ OncePending(pending') /\ InOrder(pending')
           /\ slot' \in Requests \cup {None}
           /\ slot' = None => pending' = <<>>
           /\ slotTask' \in {None, slot'}
           /\ submitting' \in SUBSET Requests
           /\ submitting' \subseteq sub \cup ({slot'} \ {None})
           /\ sub \subseteq submitting'
           /\ Requested(Items(pending')) = Requested(Items(p)) \ {slot'}
           /\ slot' # None => slot' \in Requested(Items(p))
           /\ \A i \in Items(p) : i.request = slot' =>
                  \A j \in Items(pending') : ~Before(j, i)
<1>1. CASE p = <<>>
    <2>1. /\ pending' = <<>> /\ slot' = None /\ slotTask' = None /\ submitting' = sub
        BY <1>1 DEF DrainEmpty
    <2>2. DOMAIN p = {} /\ Items(p) = {} /\ Requested(Items(p)) = {}
        BY <1>1, EmptySeq, LenProperties DEF Items, Requested
    <2>3. QED
        BY <1>1, <2>1, <2>2
<1>2. CASE p # <<>>
    <2> DEFINE r == Head(p).request
    <2>1. /\ pending' = Tail(p) /\ slot' = r
          /\ slotTask' \in {None, r}
          /\ submitting' \in {sub, sub \cup {r}}
        BY <1>2 DEF DrainEmpty, StartSlot
    <2>2. /\ Head(p) \in Items(p) /\ r \in Requests
          /\ Tail(p) \in Seq(Item) /\ OncePending(Tail(p)) /\ InOrder(Tail(p))
          /\ Requested(Items(Tail(p))) = Requested(Items(p)) \ {r}
          /\ \A i \in Items(Tail(p)) : ~Before(i, Head(p))
        BY <1>2, HeadAndTail
    <2>3. r # None
        BY <2>2, NoneAssumption
    <2>4. \A i \in Items(p) : i.request = r => i = Head(p)
        BY <2>2 DEF OncePending, Items
    <2> HIDE DEF r
    <2>5. r \in Requested(Items(p))
        BY <2>2 DEF Requested, r
    <2>6. QED
        BY <2>1, <2>2, <2>3, <2>4, <2>5
<1>3. QED
    BY <1>1, <1>2

\* The slot is emptied and refilled from the list p: what the callback has to
\* have done before for the invariant to hold afterwards.
LEMMA RefillEstablishes ==
    ASSUME NEW p \in Seq(Item), OncePending(p), InOrder(p),
           NEW sub \in SUBSET Requests, DrainEmpty(p, sub),
           Requested(Items(p)) \cap (sub \cup aborted' \cup Polled') = {},
           \A r \in Requested(Items(p)) : promise'[r] = "waiting",
           \A r \in sub \cup aborted' \cup Polled' : promise'[r] # "none",
           ~confused' => \A r \in Requests : promise'[r] = "waiting" => r \in Requested(Items(p))
    PROVE  /\ ListOK' /\ StartedWasMade'
           /\ SlotNeverIdle' /\ QueuedIsAwaited'
           /\ LostOnlyByConfusion' /\ TaskIsOwn'
           /\ pending' \in Seq(Item)
           /\ slot' \in Requests \cup {None}
           /\ slotTask' \in Requests \cup {None}
           /\ slot' = None => slotTask' = None
           /\ submitting' \in SUBSET Requests
<1> DEFINE listed == Requested(Items(p))
           left == Requested(Items(pending'))
<1>1. /\ pending' \in Seq(Item) /\ OncePending(pending') /\ InOrder(pending')
      /\ slot' \in Requests \cup {None}
      /\ slot' = None => pending' = <<>>
      /\ slotTask' \in {None, slot'}
      /\ submitting' \in SUBSET Requests
      /\ submitting' \subseteq sub \cup ({slot'} \ {None})
      /\ left = listed \ {slot'}
      /\ slot' # None => slot' \in listed
    BY DrainEmptyStarts
<1>2. listed \subseteq Requests
    BY RequestsOfList
<1> HIDE DEF listed, left
<1>3. Started' \subseteq sub \cup aborted' \cup Polled' \cup ({slot'} \ {None})
    BY <1>1 DEF Started
<1>4. ListOK'
    <2>1. left \cap Started' = {}
        BY <1>1, <1>3 DEF listed
    <2>2. QED
        BY <1>1, <2>1 DEF ListOK, left
<1>5. StartedWasMade'
    <2>1. \A r \in {slot'} \ {None} : promise'[r] = "waiting"
        BY <1>1 DEF listed
    <2>2. \A r \in Started' : promise'[r] # "none"
        BY <1>3, <2>1
    <2>3. QED
        BY <2>2 DEF StartedWasMade
<1>6. QueuedIsAwaited'
    <2>1. left \cup ({slot'} \ {None}) \subseteq listed
        BY <1>1
    <2>2. \A r \in listed : promise'[r] = "waiting" /\ r \notin aborted'
        BY DEF listed
    <2>3. QED
        BY <2>1, <2>2 DEF QueuedIsAwaited, left
<1>7. LostOnlyByConfusion'
    <2>1. \A r \in Requests : r \in left \cup {slot'} <=> r \in listed
        BY <1>1, NoneAssumption
    <2>2. \A r \in listed : promise'[r] = "waiting"
        BY DEF listed
    <2>3. ~confused' => \A r \in Requests : promise'[r] = "waiting" <=> r \in left \cup {slot'}
        BY <2>1, <2>2 DEF listed
    <2>4. QED
        BY <2>3 DEF LostOnlyByConfusion, left
<1>8. SlotNeverIdle' /\ TaskIsOwn'
    BY <1>1 DEF SlotNeverIdle, TaskIsOwn
<1>9. QED
    BY <1>1, <1>4, <1>5, <1>6, <1>7, <1>8

-------------------------------------------------------------------------------
LEMMA InitEstablishesIInv == Init => IInv
<1> SUFFICES ASSUME Init
             PROVE  IInv
    OBVIOUS
<1>1. /\ pending = <<>> /\ slot = None /\ slotTask = None
      /\ graceOver = {} /\ submitting = {} /\ aborted = {}
      /\ polls = [p \in Polls |-> None]
      /\ promise = [r \in Requests |-> "none"]
      /\ ace \in [Requests -> {"absent", "running", "succeeded", "failed"}]
      /\ confused = FALSE
    BY DEF Init
<1>2. /\ pending \in Seq(Item)
      /\ DOMAIN pending = {}
      /\ Requested(Items(pending)) = {}
    BY <1>1, EmptySeq, LenProperties DEF Items, Requested
<1>3. Polled = {} /\ Started = {}
    BY <1>1 DEF Polled, Started
<1>4. TypeOK
    BY <1>1, <1>2 DEF TypeOK
<1>5. ListOK /\ StartedWasMade /\ SlotNeverIdle
    BY <1>1, <1>2, <1>3 DEF ListOK, InOrder, OncePending, StartedWasMade, SlotNeverIdle
<1>6. QueuedIsAwaited /\ TaskIsOwn /\ PollsAskForOwn
    BY <1>1, <1>2 DEF QueuedIsAwaited, TaskIsOwn, PollsAskForOwn
<1>7. LostOnlyByConfusion
    BY <1>1, <1>2, NoneAssumption DEF LostOnlyByConfusion
<1>8. QED
    BY <1>4, <1>5, <1>6, <1>7 DEF IInv

\* Facts every step starts from.
LEMMA Facts ==
    ASSUME IInv
    PROVE  /\ pending \in Seq(Item) /\ InOrder(pending) /\ OncePending(pending)
           /\ Requested(Items(pending)) \subseteq Requests
           /\ Requested(Items(pending)) \cap (submitting \cup aborted \cup Polled \cup {slot}) = {}
           /\ Polled \subseteq Requests
           /\ \A r \in submitting \cup aborted \cup Polled : promise[r] # "none"
<1>1. /\ pending \in Seq(Item) /\ InOrder(pending) /\ OncePending(pending)
      /\ Requested(Items(pending)) \cap Started = {}
      /\ \A r \in Started : promise[r] # "none"
    BY DEF IInv, TypeOK, ListOK, StartedWasMade
<1>2. Requested(Items(pending)) \subseteq Requests
    BY <1>1, RequestsOfList
<1>3. QED
    BY <1>1, <1>2, NoneAssumption DEF Started, Polled

LEMMA EnqueueStep ==
    ASSUME IInv, NEW r \in Requests, NEW p \in Priorities, Enqueue(r, p)
    PROVE  IInv'
<1> DEFINE arrivals == Cardinality({q \in Requests : promise[q] # "none"})
           item == [request |-> r, priority |-> p, enqueuedAt |-> arrivals]
           list == Sorted(Append(pending, item))
<1>1. /\ promise[r] = "none"
      /\ promise' = [promise EXCEPT ![r] = "waiting"]
      /\ Drain(list)
      /\ UNCHANGED <<graceOver, aborted, polls, ace, confused>>
    BY DEF Enqueue
<1>2. arrivals \in Nat
    <2>1. IsFiniteSet({q \in Requests : promise[q] # "none"})
        BY RequestsAssumption, FS_Subset
    <2>2. QED
        BY <2>1, FS_CardinalityType
<1> HIDE DEF arrivals
<1>3. item \in Item /\ item.request = r
    BY <1>2, PrioritiesAssumption DEF Item
<1> HIDE DEF item
<1>4. r \notin Requested(Items(pending)) /\ r \notin Started
    BY <1>1 DEF IInv, QueuedIsAwaited, StartedWasMade
<1>5. /\ list \in Seq(Item) /\ InOrder(list) /\ OncePending(list)
      /\ Items(list) = Items(pending) \cup {item}
    BY <1>3, <1>4, Facts, ItemIsItemOf, PushKeepsItems
<1>6. Requested(Items(list)) = Requested(Items(pending)) \cup {r}
    BY <1>3, <1>5 DEF Requested
<1> HIDE DEF list
<1>7. promise \in [Requests -> {"none", "waiting", "succeeded", "failed", "cancelled"}]
    BY DEF IInv, TypeOK
<1>8. Polled' = Polled /\ aborted' = aborted
    BY <1>1 DEF Polled
<1>9. CASE slot = None
    <2>1. DrainEmpty(list, submitting)
        BY <1>1, <1>9 DEF Drain
    <2>2. pending = <<>> /\ Requested(Items(pending)) = {}
        <3>1. pending = <<>>
            BY <1>9 DEF IInv, SlotNeverIdle
        <3>2. QED
            BY <3>1, EmptySeq, LenProperties DEF Items, Requested
    <2>3. Requested(Items(list)) = {r}
        BY <1>6, <2>2
    <2>4. /\ Requested(Items(list)) \cap (submitting \cup aborted' \cup Polled') = {}
          /\ \A q \in Requested(Items(list)) : promise'[q] = "waiting"
          /\ \A q \in submitting \cup aborted' \cup Polled' : promise'[q] # "none"
        BY <1>1, <1>4, <1>7, <1>8, <2>3, Facts DEF Started
    <2>5. ~confused' => \A q \in Requests : promise'[q] = "waiting" => q \in Requested(Items(list))
        BY <1>1, <1>7, <1>9, <2>2, <2>3, NoneAssumption DEF IInv, LostOnlyByConfusion
    <2>6. submitting \in SUBSET Requests
        BY DEF IInv, TypeOK
    <2>7. /\ ListOK' /\ StartedWasMade'
          /\ SlotNeverIdle' /\ QueuedIsAwaited'
          /\ LostOnlyByConfusion' /\ TaskIsOwn'
          /\ pending' \in Seq(Item)
          /\ slot' \in Requests \cup {None}
          /\ slotTask' \in Requests \cup {None}
          /\ slot' = None => slotTask' = None
          /\ submitting' \in SUBSET Requests
        BY <1>5, <2>1, <2>4, <2>5, <2>6, RefillEstablishes
    <2>8. TypeOK' /\ PollsAskForOwn'
        BY <1>1, <2>7 DEF IInv, TypeOK, PollsAskForOwn
    <2>9. QED
        BY <2>7, <2>8 DEF IInv
<1>10. CASE slot # None
    <2>1. pending' = list /\ UNCHANGED <<slot, slotTask, submitting>>
        BY <1>1, <1>10 DEF Drain
    <2>2. Started' = Started
        BY <1>8, <2>1 DEF Started
    <2>3. ListOK' /\ StartedWasMade'
        <3>1. Requested(Items(list)) \cap Started = {}
            BY <1>4, <1>6 DEF IInv, ListOK
        <3>2. ListOK'
            BY <1>5, <2>1, <2>2, <3>1 DEF ListOK
        <3>3. \A q \in Started : promise'[q] # "none"
            BY <1>1, <1>4, <1>7 DEF IInv, StartedWasMade
        <3>4. QED
            BY <2>2, <3>2, <3>3 DEF StartedWasMade
    <2>4. SlotNeverIdle' /\ TaskIsOwn' /\ PollsAskForOwn'
        BY <1>1, <1>10, <2>1 DEF IInv, SlotNeverIdle, TaskIsOwn, PollsAskForOwn
    <2>5. r # slot /\ r \notin aborted
        BY <1>4, NoneAssumption DEF Started
    <2>6. QueuedIsAwaited'
        BY <1>1, <1>6, <1>7, <2>1, <2>5 DEF IInv, QueuedIsAwaited
    <2>7. LostOnlyByConfusion'
        BY <1>1, <1>6, <1>7, <2>1, <2>5 DEF IInv, LostOnlyByConfusion
    <2>8. TypeOK'
        BY <1>1, <1>5, <2>1 DEF IInv, TypeOK
    <2>9. QED
        BY <2>3, <2>4, <2>6, <2>7, <2>8 DEF IInv
<1>11. QED
    BY <1>9, <1>10

\* Steps that leave the list, the slot and the promises alone and start nothing.
LEMMA QuietStep ==
    ASSUME IInv, TypeOK', UNCHANGED <<pending, slot, promise>>,
           Started' \subseteq Started, aborted' = aborted,
           confused => confused',
           confused' \/ (TaskIsOwn' /\ PollsAskForOwn')
    PROVE  IInv'
<1>1. ListOK' /\ StartedWasMade'
    <2>1. Requested(Items(pending)) \cap Started' = {}
        BY DEF IInv, ListOK
    <2>2. QED
        BY <2>1 DEF IInv, ListOK, StartedWasMade
<1>2. SlotNeverIdle' /\ QueuedIsAwaited'
    BY DEF IInv, SlotNeverIdle, QueuedIsAwaited
<1>3. LostOnlyByConfusion'
    BY DEF IInv, LostOnlyByConfusion
<1>4. TaskIsOwn' /\ PollsAskForOwn'
    BY DEF TaskIsOwn, PollsAskForOwn
<1>5. QED
    BY <1>1, <1>2, <1>3, <1>4 DEF IInv

\* Settle tells one caller at most, and tells it something.
LEMMA SettleTells ==
    ASSUME IInv, NEW r \in Requests, NEW outcome \in {"succeeded", "failed"},
           Settle(r, outcome)
    PROVE  /\ promise' \in [Requests -> {"none", "waiting", "succeeded", "failed", "cancelled"}]
           /\ promise'[r] # "waiting"
           /\ \A q \in Requests \ {r} : promise'[q] = promise[q]
           /\ \A q \in Requests : promise[q] # "none" => promise'[q] # "none"
BY DEF Settle, IInv, TypeOK

\* An answer to a started request clears the slot and refills it.
LEMMA AnswerEstablishes ==
    ASSUME IInv, NEW r \in submitting \cup Polled, NEW sub \in SUBSET submitting,
           NEW outcome \in {"succeeded", "failed"}, Settle(r, outcome),
           ClearSlot(pending, sub), Touches(r), aborted' = aborted, Polled' \subseteq Polled
    PROVE  /\ ListOK' /\ StartedWasMade'
           /\ SlotNeverIdle' /\ QueuedIsAwaited'
           /\ LostOnlyByConfusion' /\ TaskIsOwn'
           /\ pending' \in Seq(Item)
           /\ slot' \in Requests \cup {None}
           /\ slotTask' \in Requests \cup {None}
           /\ slot' = None => slotTask' = None
           /\ submitting' \in SUBSET Requests
           /\ promise' \in [Requests -> {"none", "waiting", "succeeded", "failed", "cancelled"}]
           /\ confused' \in BOOLEAN
           /\ confused => confused'
<1>1. /\ submitting \in SUBSET Requests
      /\ aborted \in SUBSET Requests
      /\ Polled \subseteq Requests
    BY Facts DEF IInv, TypeOK
<1>2. r \in Requests
    BY <1>1
<1>3. /\ promise' \in [Requests -> {"none", "waiting", "succeeded", "failed", "cancelled"}]
      /\ promise'[r] # "waiting"
      /\ \A q \in Requests \ {r} : promise'[q] = promise[q]
      /\ \A q \in Requests : promise[q] # "none" => promise'[q] # "none"
    BY <1>2, SettleTells
<1>4. confused' \in BOOLEAN /\ (confused => confused') /\ (~confused' => slot \in {None, r})
    BY DEF Touches
<1>5. r \notin Requested(Items(pending))
    BY Facts
<1>6. \A q \in Requested(Items(pending)) : promise'[q] = "waiting"
    BY <1>3, <1>5, Facts DEF IInv, QueuedIsAwaited
<1>7. \A q \in sub \cup aborted' \cup Polled' : promise'[q] # "none"
    BY <1>1, <1>3, Facts
<1>8. ~confused' => \A q \in Requests : promise'[q] = "waiting" => q \in Requested(Items(pending))
    <2> SUFFICES ASSUME ~confused', NEW q \in Requests, promise'[q] = "waiting"
                 PROVE  q \in Requested(Items(pending))
        OBVIOUS
    <2>1. ~confused /\ slot \in {None, r} /\ q # r
        BY <1>3, <1>4
    <2>2. promise[q] = "waiting"
        BY <1>3, <2>1
    <2>3. q \in Requested(Items(pending)) \cup {slot}
        BY <2>1, <2>2 DEF IInv, LostOnlyByConfusion
    <2>4. QED
        BY <2>1, <2>3, NoneAssumption
<1>9. Requested(Items(pending)) \cap (sub \cup aborted' \cup Polled') = {}
    BY Facts
<1>10. DrainEmpty(pending, sub) /\ sub \in SUBSET Requests
    BY <1>1 DEF ClearSlot
<1>11. QED
    BY <1>3, <1>4, <1>6, <1>7, <1>8, <1>9, <1>10, Facts, RefillEstablishes

LEMMA SubmitFulfilledStep ==
    ASSUME IInv, NEW r \in Requests, SubmitFulfilled(r)
    PROVE  IInv'
<1>1. /\ submitting' = submitting \ {r}
      /\ ace' = [ace EXCEPT ![r] = "running"]
      /\ UNCHANGED <<pending, slot, aborted, polls, promise>>
    BY DEF SubmitFulfilled
<1>2. \/ UNCHANGED <<slotTask, graceOver, confused>>
      \/ /\ slotTask' = r /\ slot # None
         /\ graceOver' = graceOver \ {slot}
         /\ confused' = (confused \/ slot \notin {None, r})
    BY DEF SubmitFulfilled, Touches
<1>3. Started' \subseteq Started
    BY <1>1 DEF Started, Polled
<1>4. confused' \in BOOLEAN /\ (confused => confused')
    BY <1>2 DEF IInv, TypeOK
<1>5. TypeOK'
    BY <1>1, <1>2, <1>4 DEF IInv, TypeOK
<1>6. TaskIsOwn' /\ PollsAskForOwn'
    BY <1>1, <1>2, <1>4 DEF IInv, TaskIsOwn, PollsAskForOwn
<1>7. QED
    BY <1>1, <1>3, <1>4, <1>5, <1>6, QuietStep

LEMMA SubmitRejectedStep ==
    ASSUME IInv, NEW r \in Requests, SubmitRejected(r)
    PROVE  IInv'
<1>1. /\ r \in submitting
      /\ ace' \in [Requests -> {"absent", "running", "succeeded", "failed"}]
      /\ UNCHANGED <<graceOver, aborted, polls>>
    BY DEF SubmitRejected, IInv, TypeOK
<1>2. CASE slot = None \/ SongOf[slot] # SongOf[r]
    <2>1. /\ submitting' = submitting \ {r}
          /\ UNCHANGED <<pending, slot, slotTask, promise, confused>>
        BY <1>2 DEF SubmitRejected
    <2>2. Started' \subseteq Started
        BY <1>1, <2>1 DEF Started, Polled
    <2>3. TypeOK'
        BY <1>1, <2>1 DEF IInv, TypeOK
    <2>4. TaskIsOwn' /\ PollsAskForOwn'
        BY <1>1, <2>1 DEF IInv, TaskIsOwn, PollsAskForOwn
    <2>5. QED
        BY <1>1, <2>1, <2>2, <2>3, <2>4, QuietStep
<1>3. CASE ~(slot = None \/ SongOf[slot] # SongOf[r])
    <2>1. /\ Settle(r, "failed")
          /\ ClearSlot(pending, submitting \ {r})
          /\ Touches(r)
        BY <1>3 DEF SubmitRejected
    <2>2. Polled' = Polled
        BY <1>1 DEF Polled
    <2>3. /\ ListOK' /\ StartedWasMade'
          /\ SlotNeverIdle' /\ QueuedIsAwaited'
          /\ LostOnlyByConfusion' /\ TaskIsOwn'
          /\ pending' \in Seq(Item)
          /\ slot' \in Requests \cup {None}
          /\ slotTask' \in Requests \cup {None}
          /\ slot' = None => slotTask' = None
          /\ submitting' \in SUBSET Requests
          /\ promise' \in [Requests -> {"none", "waiting", "succeeded", "failed", "cancelled"}]
          /\ confused' \in BOOLEAN
          /\ confused => confused'
        BY <1>1, <2>1, <2>2, AnswerEstablishes
    <2>4. TypeOK'
        BY <1>1, <2>3 DEF IInv, TypeOK
    <2>5. PollsAskForOwn'
        BY <1>1, <2>3 DEF IInv, PollsAskForOwn
    <2>6. QED
        BY <2>3, <2>4, <2>5 DEF IInv
<1>4. QED
    BY <1>2, <1>3

LEMMA TickPollsStep ==
    ASSUME IInv, NEW p \in Polls, TickPolls(p)
    PROVE  IInv'
<1> DEFINE poll == [request |-> slot, task |-> slotTask]
<1>1. /\ slot # None
      /\ polls' = [polls EXCEPT ![p] = poll]
      /\ UNCHANGED <<pending, slot, slotTask, graceOver, submitting, aborted, promise, ace, confused>>
    BY DEF TickPolls, queueVars
<1>2. /\ poll \in [request : Requests, task : Requests \cup {None}]
      /\ poll.request = slot /\ poll.task = slotTask
    BY <1>1 DEF IInv, TypeOK
<1> HIDE DEF poll
<1>3. \A q \in Polls : polls'[q] = IF q = p THEN poll ELSE polls[q]
    BY <1>1 DEF IInv, TypeOK
<1>4. Started' \subseteq Started
    BY <1>1, <1>2, <1>3 DEF Started, Polled
<1>5. TypeOK'
    BY <1>1, <1>2 DEF IInv, TypeOK
<1>6. TaskIsOwn' /\ PollsAskForOwn'
    BY <1>1, <1>2, <1>3 DEF IInv, TaskIsOwn, PollsAskForOwn
<1>7. QED
    BY <1>1, <1>4, <1>5, <1>6, QuietStep

LEMMA PollEnds ==
    ASSUME IInv, NEW p \in Polls, polls' = [polls EXCEPT ![p] = None],
           confused => confused'
    PROVE  /\ polls' \in [Polls -> [request : Requests, task : Requests \cup {None}] \cup {None}]
           /\ Polled' \subseteq Polled
           /\ PollsAskForOwn'
<1>1. /\ polls' \in [Polls -> [request : Requests, task : Requests \cup {None}] \cup {None}]
      /\ \A q \in Polls : polls'[q] = IF q = p THEN None ELSE polls[q]
    BY DEF IInv, TypeOK
<1>2. Polled' \subseteq Polled
    BY <1>1 DEF Polled
<1>3. PollsAskForOwn'
    BY <1>1 DEF IInv, PollsAskForOwn
<1>4. QED
    BY <1>1, <1>2, <1>3

LEMMA PollReplyStep ==
    ASSUME IInv, NEW p \in Polls, NEW answer \in Answers, PollReply(p, answer)
    PROVE  IInv'
<1> DEFINE r == polls[p].request
<1>1. /\ polls[p] # None
      /\ polls' = [polls EXCEPT ![p] = None]
      /\ UNCHANGED <<aborted, ace>>
    BY DEF PollReply
<1>2. \/ /\ Settle(r, IF answer = "succeeded" THEN answer ELSE "failed")
         /\ ClearSlot(pending, submitting)
         /\ Touches(r)
         /\ UNCHANGED graceOver
      \/ UNCHANGED <<pending, slot, slotTask, graceOver, submitting, promise, confused>>
    BY DEF PollReply, queueVars
<1>3. r \in Polled
    BY <1>1 DEF IInv, TypeOK, Polled
<1> HIDE DEF r
<1>4. CASE /\ Settle(r, IF answer = "succeeded" THEN answer ELSE "failed")
           /\ ClearSlot(pending, submitting)
           /\ Touches(r)
           /\ UNCHANGED graceOver
    <2>1. confused => confused'
        BY <1>4 DEF Touches
    <2>2. /\ polls' \in [Polls -> [request : Requests, task : Requests \cup {None}] \cup {None}]
          /\ Polled' \subseteq Polled
          /\ PollsAskForOwn'
        BY <1>1, <2>1, PollEnds
    <2> DEFINE outcome == IF answer = "succeeded" THEN answer ELSE "failed"
    <2>3. outcome \in {"succeeded", "failed"}
        OBVIOUS
    <2> HIDE DEF outcome
    <2>4. Settle(r, outcome)
        BY <1>4 DEF outcome
    <2>5. /\ ListOK' /\ StartedWasMade'
          /\ SlotNeverIdle' /\ QueuedIsAwaited'
          /\ LostOnlyByConfusion' /\ TaskIsOwn'
          /\ pending' \in Seq(Item)
          /\ slot' \in Requests \cup {None}
          /\ slotTask' \in Requests \cup {None}
          /\ slot' = None => slotTask' = None
          /\ submitting' \in SUBSET Requests
          /\ promise' \in [Requests -> {"none", "waiting", "succeeded", "failed", "cancelled"}]
          /\ confused' \in BOOLEAN
        BY <1>1, <1>3, <1>4, <2>2, <2>3, <2>4, AnswerEstablishes
    <2>6. TypeOK'
        BY <1>1, <1>4, <2>2, <2>5 DEF IInv, TypeOK
    <2>7. QED
        BY <2>2, <2>5, <2>6 DEF IInv
<1>5. CASE UNCHANGED <<pending, slot, slotTask, graceOver, submitting, promise, confused>>
    <2>1. /\ polls' \in [Polls -> [request : Requests, task : Requests \cup {None}] \cup {None}]
          /\ Polled' \subseteq Polled
          /\ PollsAskForOwn'
        BY <1>1, <1>5, PollEnds
    <2>2. Started' \subseteq Started
        BY <1>1, <1>5, <2>1 DEF Started
    <2>3. TypeOK' /\ TaskIsOwn'
        BY <1>1, <1>5, <2>1 DEF IInv, TypeOK, TaskIsOwn
    <2>4. QED
        BY <1>1, <1>5, <2>1, <2>2, <2>3, QuietStep
<1>6. QED
    BY <1>2, <1>4, <1>5

LEMMA CancelSongStep ==
    ASSUME IInv, NEW s \in Songs, CancelSong(s)
    PROVE  IInv'
<1> DEFINE Rest == Kept(pending, NotOf(s))
           Removed == {r \in Requested(Items(pending)) : SongOf[r] = s}
           Stopped == {r \in {slot} \ {None} : SongOf[r] = s}
<1>1. /\ promise' = [r \in Requests |->
                        IF r \in Removed \cup Stopped THEN "cancelled" ELSE promise[r]]
      /\ aborted' = aborted \cup Stopped
      /\ IF Stopped # {}
         THEN ClearSlot(Rest, submitting)
         ELSE pending' = Rest /\ UNCHANGED <<slot, slotTask, submitting>>
      /\ UNCHANGED <<graceOver, polls, ace, confused>>
    BY DEF CancelSong
<1>2. /\ Rest \in Seq(Item) /\ InOrder(Rest) /\ OncePending(Rest)
      /\ Items(Rest) = {pending[k] : k \in NotOf(s)}
      /\ pending = <<>> => Rest = <<>>
    <2>1. NotOf(s) \in SUBSET DOMAIN pending
        BY DEF NotOf
    <2>2. QED
        BY <2>1, Facts, ItemIsItemOf, FilterKeepsItems
<1> HIDE DEF Rest
<1>3. Requested(Items(Rest)) = Requested(Items(pending)) \ Removed
    <2>1. \A k \in DOMAIN pending : k \in NotOf(s) <=> SongOf[pending[k].request] # s
        BY DEF NotOf
    <2>2. NotOf(s) \subseteq DOMAIN pending
        BY DEF NotOf
    <2>3. Requested(Items(Rest)) = {pending[k].request : k \in NotOf(s)}
        BY <1>2 DEF Requested
    <2>4. Requested(Items(pending)) = {pending[k].request : k \in DOMAIN pending}
        BY DEF Requested, Items
    <2>5. QED
        BY <2>1, <2>2, <2>3, <2>4
<1>4. /\ promise' \in [Requests -> {"none", "waiting", "succeeded", "failed", "cancelled"}]
      /\ \A r \in Requests : promise[r] # "none" => promise'[r] # "none"
    BY <1>1 DEF IInv, TypeOK
<1>5. Removed \subseteq Requested(Items(pending)) /\ Stopped \subseteq {slot} \ {None}
    OBVIOUS
<1> HIDE DEF Removed, Stopped
<1>6. Polled' = Polled
    BY <1>1 DEF Polled
<1>7. /\ slot \in Requests \cup {None}
      /\ submitting \in SUBSET Requests
      /\ aborted \in SUBSET Requests
      /\ Polled \subseteq Requests
    BY Facts DEF IInv, TypeOK
<1>8. aborted' \in SUBSET Requests
    BY <1>1, <1>5, <1>7
<1>9. \A r \in Requested(Items(Rest)) : promise'[r] = "waiting"
    BY <1>1, <1>3, <1>5, Facts DEF IInv, QueuedIsAwaited
<1>10. PollsAskForOwn'
    BY <1>1 DEF IInv, PollsAskForOwn
<1>11. CASE Stopped # {}
    <2>1. DrainEmpty(Rest, submitting) /\ slot # None /\ Stopped = {slot}
        BY <1>1, <1>5, <1>11 DEF ClearSlot
    <2>2. Requested(Items(Rest)) \cap (submitting \cup aborted' \cup Polled') = {}
        BY <1>1, <1>3, <1>6, <2>1, Facts
    <2>3. \A r \in submitting \cup aborted' \cup Polled' : promise'[r] # "none"
        <3>1. promise[slot] = "waiting" /\ slot \in Requests
            BY <1>7, <2>1 DEF IInv, QueuedIsAwaited
        <3>2. QED
            BY <1>1, <1>4, <1>6, <1>7, <2>1, <3>1, Facts
    <2>4. ~confused' => \A r \in Requests : promise'[r] = "waiting" => r \in Requested(Items(Rest))
        <3> SUFFICES ASSUME ~confused', NEW r \in Requests, promise'[r] = "waiting"
                     PROVE  r \in Requested(Items(Rest))
            OBVIOUS
        <3>1. r \notin Removed /\ r # slot /\ promise[r] = "waiting"
            BY <1>1, <2>1
        <3>2. r \in Requested(Items(pending)) \cup {slot}
            BY <1>1, <3>1 DEF IInv, LostOnlyByConfusion
        <3>3. QED
            BY <1>3, <3>1, <3>2
    <2>5. /\ ListOK' /\ StartedWasMade'
          /\ SlotNeverIdle' /\ QueuedIsAwaited'
          /\ LostOnlyByConfusion' /\ TaskIsOwn'
          /\ pending' \in Seq(Item)
          /\ slot' \in Requests \cup {None}
          /\ slotTask' \in Requests \cup {None}
          /\ slot' = None => slotTask' = None
          /\ submitting' \in SUBSET Requests
        BY <1>2, <1>7, <1>9, <2>1, <2>2, <2>3, <2>4, RefillEstablishes
    <2>6. TypeOK'
        BY <1>1, <1>4, <1>8, <2>5 DEF IInv, TypeOK
    <2>7. QED
        BY <1>10, <2>5, <2>6 DEF IInv
<1>12. CASE Stopped = {}
    <2>1. pending' = Rest /\ UNCHANGED <<slot, slotTask, submitting>> /\ aborted' = aborted
        BY <1>1, <1>12
    <2>2. Started' = Started /\ Started \subseteq Requests
        BY <1>6, <1>7, <2>1 DEF Started
    <2>3. ListOK' /\ StartedWasMade'
        <3>1. Requested(Items(Rest)) \cap Started = {}
            BY <1>3 DEF IInv, ListOK
        <3>2. ListOK'
            BY <1>2, <2>1, <2>2, <3>1 DEF ListOK
        <3>3. StartedWasMade'
            BY <1>4, <2>2 DEF IInv, StartedWasMade
        <3>4. QED
            BY <3>2, <3>3
    <2>4. SlotNeverIdle' /\ TaskIsOwn'
        BY <1>1, <1>2, <2>1 DEF IInv, SlotNeverIdle, TaskIsOwn
    <2>5. QueuedIsAwaited'
        <3>1. ASSUME slot # None
              PROVE  promise'[slot] = "waiting" /\ slot \notin aborted
            <4>1. slot \notin Removed /\ slot \in Requests
                BY <1>5, <1>7, <3>1, Facts
            <4>2. QED
                BY <1>1, <1>12, <3>1, <4>1 DEF IInv, QueuedIsAwaited
        <3>2. \A r \in Requested(Items(Rest)) : r \notin aborted
            BY <1>3, Facts
        <3>3. QED
            BY <1>9, <2>1, <3>1, <3>2 DEF QueuedIsAwaited
    <2>6. LostOnlyByConfusion'
        <3> SUFFICES ASSUME ~confused', NEW r \in Requests
                     PROVE  promise'[r] = "waiting" <=> r \in Requested(Items(pending')) \cup {slot'}
            BY DEF LostOnlyByConfusion
        <3>1. promise[r] = "waiting" <=> r \in Requested(Items(pending)) \cup {slot}
            BY <1>1 DEF IInv, LostOnlyByConfusion
        <3>2. slot \notin Removed
            BY <1>5, Facts
        <3>3. QED
            BY <1>1, <1>3, <1>12, <2>1, <3>1, <3>2
    <2>7. TypeOK'
        BY <1>1, <1>2, <1>4, <1>8, <2>1 DEF IInv, TypeOK
    <2>8. QED
        BY <1>10, <2>3, <2>4, <2>5, <2>6, <2>7 DEF IInv
<1>13. QED
    BY <1>11, <1>12

LEMMA UpdatePendingPriorityStep ==
    ASSUME IInv, NEW s \in Songs, NEW p \in Priorities, UpdatePendingPriority(s, p)
    PROVE  IInv'
<1>1. PICK k \in DOMAIN pending :
          /\ pending' = Sorted([pending EXCEPT ![k].priority = p])
          /\ UNCHANGED <<slot, slotTask, graceOver, submitting, aborted, polls,
                         promise, ace, confused>>
    BY DEF UpdatePendingPriority
<1>2. p \in Nat
    BY PrioritiesAssumption
<1>3. /\ pending' \in Seq(Item) /\ InOrder(pending') /\ OncePending(pending')
      /\ Requested(Items(pending')) = Requested(Items(pending))
    BY <1>1, <1>2, Facts, ItemIsItemOf, RepriceKeepsRequests
<1>4. Started' = Started
    BY <1>1 DEF Started, Polled
<1>5. ListOK' /\ StartedWasMade'
    BY <1>1, <1>3, <1>4 DEF IInv, ListOK, StartedWasMade
<1>6. slot # None
    <2>1. pending # <<>>
        BY <1>1, EmptySeq, LenProperties
    <2>2. QED
        BY <2>1 DEF IInv, SlotNeverIdle
<1>7. SlotNeverIdle' /\ QueuedIsAwaited' /\ LostOnlyByConfusion'
    BY <1>1, <1>3, <1>6 DEF IInv, SlotNeverIdle, QueuedIsAwaited, LostOnlyByConfusion
<1>8. TaskIsOwn' /\ PollsAskForOwn'
    BY <1>1 DEF IInv, TaskIsOwn, PollsAskForOwn
<1>9. TypeOK'
    BY <1>1, <1>3 DEF IInv, TypeOK
<1>10. QED
    BY <1>5, <1>7, <1>8, <1>9 DEF IInv

\* A poll that fails, time, ACE and steps of nobody.
LEMMA EnvironmentStep ==
    ASSUME IInv,
           \/ \E p \in Polls : PollError(p)
           \/ \E r \in Requests : GracePassed(r) \/ AceFinish(r) \/ AceLose(r)
           \/ UNCHANGED vars
    PROVE  IInv'
<1>1. UNCHANGED <<pending, slot, slotTask, submitting, aborted, promise, confused>>
    BY DEF PollError, GracePassed, AceFinish, AceLose, queueVars, vars
<1>2. graceOver' \in SUBSET Requests
    BY DEF PollError, GracePassed, AceFinish, AceLose, queueVars, vars, IInv, TypeOK
<1>3. ace' \in [Requests -> {"absent", "running", "succeeded", "failed"}]
    BY DEF PollError, GracePassed, AceFinish, AceLose, queueVars, vars, IInv, TypeOK
<1>4. /\ polls' \in [Polls -> [request : Requests, task : Requests \cup {None}] \cup {None}]
      /\ Polled' \subseteq Polled
      /\ PollsAskForOwn'
    <2>1. CASE \E p \in Polls : PollError(p)
        <3>1. PICK p \in Polls : polls' = [polls EXCEPT ![p] = None]
            BY <2>1 DEF PollError
        <3>2. QED
            BY <1>1, <3>1, PollEnds
    <2>2. CASE ~\E p \in Polls : PollError(p)
        <3>1. polls' = polls
            BY <2>2 DEF GracePassed, AceFinish, AceLose, queueVars, vars
        <3>2. QED
            BY <1>1, <3>1 DEF IInv, TypeOK, Polled, PollsAskForOwn
    <2>3. QED
        BY <2>1, <2>2
<1>5. TypeOK' /\ TaskIsOwn'
    BY <1>1, <1>2, <1>3, <1>4 DEF IInv, TypeOK, TaskIsOwn
<1>6. Started' \subseteq Started
    BY <1>1, <1>4 DEF Started
<1>7. QED
    BY <1>1, <1>4, <1>5, <1>6, QuietStep

-------------------------------------------------------------------------------
THEOREM Invariance == Spec => []IInv
<1>1. Init => IInv
    BY InitEstablishesIInv
<1>2. IInv /\ [Next]_vars => IInv'
    <2> SUFFICES ASSUME IInv, [Next]_vars
                 PROVE  IInv'
        OBVIOUS
    <2>1. CASE \E r \in Requests, p \in Priorities : Enqueue(r, p)
        BY <2>1, EnqueueStep
    <2>2. CASE \E r \in Requests : SubmitFulfilled(r)
        BY <2>2, SubmitFulfilledStep
    <2>3. CASE \E r \in Requests : SubmitRejected(r)
        BY <2>3, SubmitRejectedStep
    <2>4. CASE \E p \in Polls : TickPolls(p)
        BY <2>4, TickPollsStep
    <2>5. CASE \E p \in Polls, a \in Answers : PollReply(p, a)
        BY <2>5, PollReplyStep
    <2>6. CASE \E s \in Songs : CancelSong(s)
        BY <2>6, CancelSongStep
    <2>7. CASE \E s \in Songs, p \in Priorities : UpdatePendingPriority(s, p)
        BY <2>7, UpdatePendingPriorityStep
    <2>8. CASE \/ \E p \in Polls : PollError(p)
               \/ \E r \in Requests : GracePassed(r) \/ AceFinish(r) \/ AceLose(r)
               \/ UNCHANGED vars
        BY <2>8, EnvironmentStep
    <2>9. QED
        BY <2>1, <2>2, <2>3, <2>4, <2>5, <2>6, <2>7, <2>8 DEF Next
<1>3. QED
    BY <1>1, <1>2, PTL DEF Spec

\* Type correctness.
THEOREM TypeCorrect == Spec => []TypeOK
BY Invariance, PTL DEF IInv

\* The slot is never free while an item waits in the list.
THEOREM SlotIsNeverIdle == Spec => []SlotNeverIdle
BY Invariance, PTL DEF IInv

\* Cancelled and answered requests are neither listed nor in the slot.
THEOREM QueuedIsAlwaysAwaited == Spec => []QueuedIsAwaited
BY Invariance, PTL DEF IInv

\* Only a late answer that acts on another request's slot makes the queue
\* forget a caller.
THEOREM NothingElseLoses == Spec => []LostOnlyByConfusion
BY Invariance, PTL DEF IInv

\* Only such an answer gives the slot the task of another request.
THEOREM TaskIsAlwaysOwn == Spec => []TaskIsOwn
BY Invariance, PTL DEF IInv

\* A caller is told of success only by ACE's answer for its own task.
THEOREM SuccessIsAlwaysOwn == Spec => SuccessIsOwn
<1>1. ASSUME IInv, [Next]_vars
      PROVE  [\A r \in Requests : /\ promise[r] # "succeeded"
                                  /\ promise'[r] = "succeeded"
                                  /\ ~confused
                  => ace[r] = "succeeded"]_vars
    <2> SUFFICES ASSUME NEW r \in Requests, promise[r] # "succeeded",
                        promise'[r] = "succeeded", ~confused
                 PROVE  ace[r] = "succeeded"
        OBVIOUS
    <2>1. promise \in [Requests -> {"none", "waiting", "succeeded", "failed", "cancelled"}]
        BY <1>1 DEF IInv, TypeOK
    <2>2. ~\E q \in Requests, p \in Priorities : Enqueue(q, p)
        BY <2>1 DEF Enqueue
    <2>3. ~\E q \in Requests : SubmitFulfilled(q) \/ SubmitRejected(q)
        BY <2>1 DEF SubmitFulfilled, SubmitRejected, Settle
    <2>4. ~\E p \in Polls : TickPolls(p) \/ PollError(p)
        BY DEF TickPolls, PollError, queueVars
    <2>5. ~\E s \in Songs : CancelSong(s)
        BY <2>1 DEF CancelSong
    <2>6. ~\E s \in Songs, p \in Priorities : UpdatePendingPriority(s, p)
        BY DEF UpdatePendingPriority
    <2>7. ~\E q \in Requests : GracePassed(q) \/ AceFinish(q) \/ AceLose(q)
        BY DEF GracePassed, AceFinish, AceLose, queueVars
    <2>8. ~UNCHANGED vars
        BY DEF vars
    <2>9. PICK p \in Polls, a \in Answers : PollReply(p, a)
        BY <1>1, <2>2, <2>3, <2>4, <2>5, <2>6, <2>7, <2>8 DEF Next
    <2>10. /\ polls[p] # None /\ a \in Said(polls[p].task)
           /\ Settle(polls[p].request, IF a = "succeeded" THEN a ELSE "failed")
        BY <2>9 DEF PollReply, queueVars
    <2>11. r = polls[p].request /\ a = "succeeded"
        BY <2>1, <2>10 DEF Settle
    <2>12. polls[p].task \in {None, r}
        BY <1>1, <2>10, <2>11 DEF IInv, PollsAskForOwn
    <2>13. QED
        BY <2>10, <2>11, <2>12, NoneAssumption DEF Said
<1>2. QED
    BY <1>1, Invariance, PTL DEF Spec, SuccessIsOwn

\* No item is started while one that compares smaller waits.
THEOREM StartsInOrder == Spec => PriorityRespected
<1>1. ASSUME IInv, [Next]_vars
      PROVE  [slot' # slot => \A i \in Items(pending) : i.request = slot' =>
                                 \A j \in Items(pending') : ~Before(j, i)]_vars
    <2> SUFFICES ASSUME slot' # slot, NEW i \in Items(pending), i.request = slot',
                        NEW j \in Items(pending')
                 PROVE  ~Before(j, i)
        OBVIOUS
    <2>1. /\ pending \in Seq(Item) /\ InOrder(pending) /\ OncePending(pending)
          /\ submitting \in SUBSET Requests
        BY <1>1, Facts DEF IInv, TypeOK
    <2>2. ASSUME NEW sub \in SUBSET Requests, DrainEmpty(pending, sub)
          PROVE  ~Before(j, i)
        BY <2>1, <2>2, DrainEmptyStarts
    <2>3. CASE \E r \in Requests, p \in Priorities : Enqueue(r, p)
        <3>1. slot = None
            BY <2>3 DEF Enqueue, Drain
        <3>2. pending = <<>>
            BY <1>1, <3>1 DEF IInv, SlotNeverIdle
        <3>3. QED
            BY <3>2, EmptySeq, LenProperties DEF Items
    <2>4. CASE \E r \in Requests : SubmitFulfilled(r) \/ SubmitRejected(r)
        <3>1. PICK r \in Requests : SubmitFulfilled(r) \/ SubmitRejected(r)
            BY <2>4
        <3>2. DrainEmpty(pending, submitting \ {r})
            BY <3>1 DEF SubmitFulfilled, SubmitRejected, ClearSlot
        <3>3. submitting \ {r} \in SUBSET Requests
            BY <2>1
        <3>4. QED
            BY <2>2, <3>2, <3>3
    <2>5. CASE \E p \in Polls, a \in Answers : PollReply(p, a)
        <3>1. DrainEmpty(pending, submitting)
            BY <2>5 DEF PollReply, ClearSlot, queueVars
        <3>2. QED
            BY <2>1, <2>2, <3>1
    <2>6. CASE \E s \in Songs : CancelSong(s)
        <3>1. PICK s \in Songs : CancelSong(s)
            BY <2>6
        <3> DEFINE Rest == Kept(pending, NotOf(s))
        <3>2. DrainEmpty(Rest, submitting)
            BY <3>1 DEF CancelSong, ClearSlot
        <3>3. /\ Rest \in Seq(Item) /\ InOrder(Rest) /\ OncePending(Rest)
              /\ Items(Rest) \subseteq Items(pending)
            <4>1. NotOf(s) \in SUBSET DOMAIN pending
                BY DEF NotOf
            <4>2. /\ Rest \in Seq(Item) /\ InOrder(Rest) /\ OncePending(Rest)
                  /\ Items(Rest) = {pending[k] : k \in NotOf(s)}
                BY <2>1, <4>1, ItemIsItemOf, FilterKeepsItems
            <4> HIDE DEF Rest
            <4>3. QED
                BY <4>1, <4>2 DEF Items
        <3> HIDE DEF Rest
        <3>4. /\ slot' # None => slot' \in Requested(Items(Rest))
              /\ \A x \in Items(Rest) : x.request = slot' => ~Before(j, x)
            BY <2>1, <3>2, <3>3, DrainEmptyStarts
        <3>5. slot' # None
            BY <2>1, NoneAssumption, RequestsOfList DEF Requested
        <3>6. PICK x \in Items(Rest) : x.request = slot'
            BY <3>4, <3>5 DEF Requested
        <3>7. x = i
            <4>1. x \in Items(pending) /\ x.request = i.request
                BY <3>3, <3>6
            <4>2. PICK k \in DOMAIN pending : pending[k] = x
                BY <4>1 DEF Items
            <4>3. PICK l \in DOMAIN pending : pending[l] = i
                BY DEF Items
            <4>4. k = l
                BY <2>1, <4>1, <4>2, <4>3 DEF OncePending
            <4>5. QED
                BY <4>2, <4>3, <4>4
        <3>8. QED
            BY <3>4, <3>6, <3>7
    <2>7. QED
        BY <1>1, <2>3, <2>4, <2>5, <2>6
        DEF Next, TickPolls, PollError, UpdatePendingPriority, GracePassed, AceFinish,
            AceLose, queueVars, vars
<1>2. QED
    BY <1>1, Invariance, PTL DEF Spec, PriorityRespected
-------------------------------------------------------------------------------
(* What the workers see of it: a service of requests.                      *)

\* An empty slot begins the request at the head of the list.
LEMMA DrainEmptyBegins ==
    ASSUME NEW p \in Seq(Item), OncePending(p), InOrder(p), NEW sub, DrainEmpty(p, sub)
    PROVE  Service!Begin(Items(p), {})
<1>1. CASE p = <<>>
    <2>1. pending' = p /\ slot' = None
        BY <1>1 DEF DrainEmpty
    <2>2. {} \in SUBSET Items(p)
        OBVIOUS
    <2>3. QED
        BY <2>1, <2>2 DEF Service!Begin
<1>2. CASE p # <<>>
    <2>1. pending' = Tail(p) /\ slot' = Head(p).request
        BY <1>2 DEF DrainEmpty, StartSlot
    <2>2. /\ Head(p) \in Items(p) /\ Head(p).request \in Requests
          /\ Items(Tail(p)) = Items(p) \ {Head(p)}
          /\ \A i \in Items(Tail(p)) : ~Before(i, Head(p))
        BY <1>2, HeadAndTail
    <2> DEFINE first == {Head(p)}
    <2>3. first \in SUBSET Items(p) /\ Items(pending') = Items(p) \ first
        BY <2>1, <2>2
    <2>4. {slot'} \ {None} = {} \cup {i.request : i \in first}
        BY <2>1, <2>2, NoneAssumption
    <2>5. \A i \in first, j \in Items(p) \ first : ~Before(j, i)
        BY <2>2
    <2> HIDE DEF first
    <2>6. QED
        BY <2>3, <2>4, <2>5 DEF Service!Begin, Service!Before, Before
<1>3. QED
    BY <1>1, <1>2

\* A step that starts nothing begins nothing.
LEMMA NoneBegins == Service!Begin(Items(pending'), {slot'} \ {None})
<1>1. {} \in SUBSET Items(pending')
    OBVIOUS
<1>2. {slot'} \ {None} = ({slot'} \ {None}) \cup {i.request : i \in {}}
    OBVIOUS
<1>3. QED
    BY <1>1, <1>2 DEF Service!Begin

LEMMA InitIsService == Init => Service!ServiceInit
<1> SUFFICES ASSUME Init
             PROVE  Service!ServiceInit
    OBVIOUS
<1>1. pending = <<>> /\ slot = None /\ promise = [r \in Requests |-> "none"]
    BY DEF Init
<1>2. Items(pending) = {} /\ Answer = [r \in Requests |-> "none"]
    BY <1>1, EmptySeq, LenProperties DEF Items, Answer
<1>3. QED
    BY <1>1, <1>2 DEF Service!ServiceInit

LEMMA EnqueueAsks ==
    ASSUME IInv, NEW r \in Requests, NEW p \in Priorities, Enqueue(r, p)
    PROVE  Service!Ask(r)
<1> DEFINE made == {q \in Requests : promise[q] # "none"}
           arrivals == Cardinality(made)
           item == [request |-> r, priority |-> p, enqueuedAt |-> arrivals]
           list == Sorted(Append(pending, item))
<1>1. /\ promise[r] = "none"
      /\ promise' = [promise EXCEPT ![r] = "waiting"]
      /\ Drain(list)
    BY DEF Enqueue
<1>2. arrivals \in 0..Cardinality(Requests)
    <2>1. IsFiniteSet(made) /\ Cardinality(made) <= Cardinality(Requests)
        BY RequestsAssumption, FS_Subset
    <2>2. Cardinality(made) \in Nat /\ Cardinality(Requests) \in Nat
        BY <2>1, RequestsAssumption, FS_CardinalityType
    <2> HIDE DEF made
    <2>3. QED
        BY <2>1, <2>2
<1> HIDE DEF arrivals
<1>3. item \in Item /\ item.request = r
    BY <1>2, PrioritiesAssumption DEF Item
<1> HIDE DEF item
<1>4. r \notin Requested(Items(pending))
    BY <1>1 DEF IInv, QueuedIsAwaited
<1>5. /\ list \in Seq(Item) /\ InOrder(list) /\ OncePending(list)
      /\ Items(list) = Items(pending) \cup {item}
    BY <1>3, <1>4, Facts, ItemIsItemOf, PushKeepsItems
<1> HIDE DEF list
<1>6. Service!Begin(Items(pending) \cup {item}, {slot} \ {None})
    <2>1. CASE slot = None
        BY <1>1, <1>5, <2>1, DrainEmptyBegins DEF Drain
    <2>2. CASE slot # None
        BY <1>1, <1>5, <2>2, NoneBegins DEF Drain
    <2>3. QED
        BY <2>1, <2>2
<1>7. Answer[r] = "none" /\ Answer' = [Answer EXCEPT ![r] = "waiting"]
    BY <1>1 DEF IInv, TypeOK, Answer
<1>8. QED
    BY <1>2, <1>6, <1>7 DEF Service!Ask, item

\* An answer that acts on its own slot settles its own request.
LEMMA AnswerSettles ==
    ASSUME IInv, NEW r \in Requests, NEW sub,
           NEW outcome \in {"succeeded", "failed"}, Settle(r, outcome),
           ClearSlot(pending, sub), slot = r
    PROVE  Service!Settle(r)
<1>1. promise[r] = "waiting" /\ r # None
    BY NoneAssumption DEF IInv, QueuedIsAwaited
<1>2. promise' = [promise EXCEPT ![r] = outcome]
    BY <1>1 DEF Settle
<1>3. Answer' = [Answer EXCEPT ![r] = "settled"]
    BY <1>2 DEF IInv, TypeOK, Answer
<1>4. Service!Begin(Items(pending), {})
    BY Facts, DrainEmptyBegins DEF ClearSlot
<1>5. ({slot} \ {None}) \ {r} = {} /\ r \in {slot} \ {None}
    BY <1>1
<1>6. QED
    BY <1>3, <1>4, <1>5 DEF Service!Settle

\* An answer that meets an empty slot comes a second time: it changes nothing.
LEMMA AnswerAgain ==
    ASSUME IInv, NEW r \in Requests, NEW outcome, Settle(r, outcome),
           ClearSlot(pending, submitting), slot = None, ~confused
    PROVE  UNCHANGED <<pending, slot, promise>>
<1>1. pending = <<>>
    BY DEF IInv, SlotNeverIdle
<1>2. pending' = <<>> /\ slot' = None
    BY <1>1 DEF ClearSlot, DrainEmpty
<1>3. r \notin Requested(Items(pending)) /\ r # None
    BY <1>1, NoneAssumption DEF Items, Requested
<1>4. promise[r] # "waiting"
    BY <1>3 DEF IInv, LostOnlyByConfusion
<1>5. promise' = promise
    BY <1>4 DEF Settle, IInv, TypeOK
<1>6. QED
    BY <1>1, <1>2, <1>5

LEMMA SubmitRejectedSettles ==
    ASSUME IInv, NEW r \in Requests, SubmitRejected(r), ~confused'
    PROVE  Service!Settle(r) \/ UNCHANGED Service!service
<1>1. CASE slot = None \/ SongOf[slot] # SongOf[r]
    <2>1. UNCHANGED <<pending, slot, promise>>
        BY <1>1 DEF SubmitRejected
    <2>2. QED
        BY <2>1 DEF Service!service, Items, Answer
<1>2. CASE ~(slot = None \/ SongOf[slot] # SongOf[r])
    <2>1. /\ Settle(r, "failed")
          /\ ClearSlot(pending, submitting \ {r})
          /\ slot = r
        BY <1>2 DEF SubmitRejected, Touches
    <2>2. QED
        BY <2>1, AnswerSettles
<1>3. QED
    BY <1>1, <1>2

LEMMA PollReplySettles ==
    ASSUME IInv, NEW p \in Polls, NEW answer \in Answers, PollReply(p, answer), ~confused'
    PROVE  (\E r \in Requests : Service!Settle(r)) \/ UNCHANGED Service!service
<1> DEFINE r == polls[p].request
           outcome == IF answer = "succeeded" THEN answer ELSE "failed"
<1>1. polls[p] # None
    BY DEF PollReply
<1>2. \/ /\ Settle(r, outcome) /\ ClearSlot(pending, submitting)
         /\ slot \in {None, r} /\ ~confused
      \/ UNCHANGED <<pending, slot, promise>>
    BY DEF PollReply, queueVars, Touches
<1>3. r \in Requests
    BY <1>1 DEF IInv, TypeOK
<1>4. outcome \in {"succeeded", "failed"}
    OBVIOUS
<1> HIDE DEF r, outcome
<1>5. CASE Settle(r, outcome) /\ ClearSlot(pending, submitting) /\ slot = r
    BY <1>3, <1>4, <1>5, AnswerSettles
<1>6. CASE /\ Settle(r, outcome) /\ ClearSlot(pending, submitting)
           /\ slot = None /\ ~confused
    <2>1. UNCHANGED <<pending, slot, promise>>
        BY <1>3, <1>6, AnswerAgain
    <2>2. QED
        BY <2>1 DEF Service!service, Items, Answer
<1>7. CASE UNCHANGED <<pending, slot, promise>>
    BY <1>7 DEF Service!service, Items, Answer
<1>8. QED
    BY <1>2, <1>5, <1>6, <1>7

LEMMA CancelSongWithdraws ==
    ASSUME IInv, NEW s \in Songs, CancelSong(s)
    PROVE  \E R \in SUBSET Requests : Service!Withdraw(R)
<1> DEFINE Rest == Kept(pending, NotOf(s))
           Removed == {r \in Requested(Items(pending)) : SongOf[r] = s}
           Stopped == {r \in {slot} \ {None} : SongOf[r] = s}
           R == Removed \cup Stopped
<1>1. /\ promise' = [r \in Requests |-> IF r \in R THEN "cancelled" ELSE promise[r]]
      /\ IF Stopped # {}
         THEN ClearSlot(Rest, submitting)
         ELSE pending' = Rest /\ UNCHANGED <<slot, slotTask, submitting>>
    BY DEF CancelSong
<1>2. NotOf(s) \in SUBSET DOMAIN pending
    BY DEF NotOf
<1>3. /\ Rest \in Seq(Item) /\ InOrder(Rest) /\ OncePending(Rest)
      /\ Items(Rest) = {pending[k] : k \in NotOf(s)}
    BY <1>2, Facts, ItemIsItemOf, FilterKeepsItems
<1>4. slot \notin Requested(Items(pending)) /\ Requested(Items(pending)) \subseteq Requests
    BY Facts
<1>5. /\ Removed \subseteq Requests /\ Stopped \in {{}, {slot} \ {None}}
      /\ slot \in Requests \cup {None}
    BY <1>4 DEF IInv, TypeOK
<1>6. Items(Rest) = {i \in Items(pending) : i.request \notin R}
    <2>1. \A k \in DOMAIN pending : pending[k].request \in Requested(Items(pending))
        BY DEF Requested, Items
    <2>2. \A k \in DOMAIN pending : k \in NotOf(s) <=> pending[k].request \notin R
        BY <1>4, <1>5, <2>1 DEF NotOf
    <2> HIDE DEF R, Rest
    <2>3. QED
        BY <1>3, <1>2, <2>2 DEF Items
<1>7. R \subseteq ({slot} \ {None}) \cup {i.request : i \in Items(pending)} /\ R \in SUBSET Requests
    BY <1>5 DEF Requested
<1>8. slot \notin Removed /\ ({slot} \ {None}) \ R = ({slot} \ {None}) \ Stopped
    BY <1>4
<1> HIDE DEF Removed, Stopped, R, Rest
<1>9. Service!Begin(Items(Rest), ({slot} \ {None}) \ R)
    <2>1. CASE Stopped # {}
        <3>1. ({slot} \ {None}) \ R = {}
            BY <1>5, <1>8, <2>1
        <3>2. QED
            BY <1>1, <1>3, <2>1, <3>1, DrainEmptyBegins DEF ClearSlot
    <2>2. CASE Stopped = {}
        <3>1. ({slot} \ {None}) \ R = {slot'} \ {None} /\ pending' = Rest
            BY <1>1, <1>8, <2>2
        <3>2. QED
            BY <3>1, NoneBegins
    <2>3. QED
        BY <2>1, <2>2
<1>10. Answer' = [r \in Requests |-> IF r \in R THEN "cancelled" ELSE Answer[r]]
    BY <1>1 DEF Answer
<1>11. Service!Withdraw(R)
    BY <1>6, <1>7, <1>9, <1>10 DEF Service!Withdraw
<1>12. QED
    BY <1>7, <1>11

LEMMA UpdatePendingPriorityReprioritises ==
    ASSUME IInv, NEW s \in Songs, NEW p \in Priorities, UpdatePendingPriority(s, p)
    PROVE  \E i \in Items(pending) : Service!Reprioritise(i, p)
<1>1. PICK k \in DOMAIN pending :
          /\ pending' = Sorted([pending EXCEPT ![k].priority = p])
          /\ UNCHANGED <<slot, promise>>
    BY DEF UpdatePendingPriority
<1>2. Items(pending') = (Items(pending) \ {pending[k]}) \cup {[pending[k] EXCEPT !.priority = p]}
    BY <1>1, Facts, ItemIsItemOf, PrioritiesAssumption, RepriceKeepsRequests
<1>3. pending[k] \in Items(pending)
    BY DEF Items
<1>4. Service!Reprioritise(pending[k], p)
    BY <1>1, <1>2 DEF Service!Reprioritise, Answer
<1>5. QED
    BY <1>3, <1>4

\* As long as no late answer acts on another request's slot, every step is one
\* the service may take.
THEOREM QueueServesUntilConfused == Spec => ServesUntilConfused
<1>1. Init => Service!ServiceInit
    BY InitIsService
<1>2. IInv /\ [Next]_vars => [~confused' => [Service!ServiceNext]_(Service!service)]_vars
    <2> SUFFICES ASSUME IInv, Next, ~confused'
                 PROVE  [Service!ServiceNext]_(Service!service)
        OBVIOUS
    <2>1. CASE \E r \in Requests, p \in Priorities : Enqueue(r, p)
        BY <2>1, EnqueueAsks DEF Service!ServiceNext
    <2>2. CASE \E r \in Requests : SubmitRejected(r)
        BY <2>2, SubmitRejectedSettles DEF Service!ServiceNext
    <2>3. CASE \E p \in Polls, a \in Answers : PollReply(p, a)
        BY <2>3, PollReplySettles DEF Service!ServiceNext
    <2>4. CASE \E s \in Songs : CancelSong(s)
        BY <2>4, CancelSongWithdraws DEF Service!ServiceNext
    <2>5. CASE \E s \in Songs, p \in Priorities : UpdatePendingPriority(s, p)
        BY <2>5, UpdatePendingPriorityReprioritises DEF Service!ServiceNext
    <2>6. CASE \/ \E r \in Requests : SubmitFulfilled(r) \/ GracePassed(r) \/ AceFinish(r) \/ AceLose(r)
               \/ \E p \in Polls : TickPolls(p) \/ PollError(p)
        <3>1. UNCHANGED <<pending, slot, promise>>
            BY <2>6 DEF SubmitFulfilled, GracePassed, AceFinish, AceLose, TickPolls, PollError, queueVars
        <3>2. QED
            BY <3>1 DEF Service!service, Items, Answer
    <2>7. QED
        BY <2>1, <2>2, <2>3, <2>4, <2>5, <2>6 DEF Next
<1>3. QED
    BY <1>1, <1>2, Invariance, PTL DEF Spec, ServesUntilConfused
================================================================================

------------------------------ MODULE QueueOrder ------------------------------
(***************************************************************************)
(* The order both endpoint queues keep their pending items in:             *)
(* compareQueueItems, and Array.prototype.sort, which is stable.  An item  *)
(* is a record with its request, the priority it is served by (lower       *)
(* first) and the time it was enqueued; a list of items is a sequence.     *)
(***************************************************************************)
EXTENDS Naturals, FiniteSets, Sequences

\* compareQueueItems(a, b) < 0: by priority, then by time of arrival.
Before(a, b) ==
    \/ a.priority < b.priority
    \/ a.priority = b.priority /\ a.enqueuedAt < b.enqueuedAt

\* After the sort the item at j stands before the one at k: it compares
\* smaller, or the two compare equal and j already stood before k.
StandsBefore(s, j, k) ==
    \/ Before(s[j], s[k])
    \/ ~Before(s[k], s[j]) /\ j < k

\* The place the item at k has in the sorted list.
Place(s, k) == Cardinality({j \in DOMAIN s : j = k \/ StandsBefore(s, j, k)})

\* this.state.pending.sort(compareQueueItems)
Sorted(s) ==
    LET place == [k \in DOMAIN s |-> Place(s, k)]
    IN  [n \in DOMAIN s |-> s[CHOOSE k \in DOMAIN s : place[k] = n]]

\* The number of positions in K up to k.
Rank(K, k) == Cardinality({j \in K : j <= k})

\* The n-th position in K.
Nth(K, n) == CHOOSE k \in K : Rank(K, k) = n

\* this.state.pending.filter(...): the items at the positions K, in their order.
Kept(s, K) == [n \in 1..Cardinality(K) |-> s[Nth(K, n)]]

\* No later item compares smaller than an earlier one.
InOrder(s) == \A j, k \in DOMAIN s : j < k => ~Before(s[k], s[j])

\* The items of a list.
Items(s) == {s[k] : k \in DOMAIN s}

\* The requests of some items.
Requested(items) == {i.request : i \in items}
===============================================================================

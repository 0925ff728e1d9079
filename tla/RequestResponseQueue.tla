------------------------- MODULE RequestResponseQueue -------------------------
(***************************************************************************)
(* The LLM and image queues of the song worker: class RequestResponseQueue *)
(* of worker/runtime/queue-actors.ts.  The actor handles one event at a    *)
(* time and every handler is synchronous, so an event is one step; the     *)
(* only steps in between are the ends of the requests' execute() promises. *)
(*                                                                         *)
(* A request is one call of enqueue.  The bookkeeping of running requests  *)
(* is a Map keyed by songId, not by request: two requests of one song that *)
(* run together (a song's metadata call and its persona extraction, or the *)
(* call of a cancelled worker and that of its successor) share one entry.  *)
(* "running" is the truth the map only approximates.                       *)
(***************************************************************************)
EXTENDS Naturals, FiniteSets, Sequences, QueueOrder

CONSTANTS
    Requests,       \* the calls of enqueue that are ever made
    Songs,          \* song ids
    SongOf,         \* the song each request is for
    Priorities,     \* the priorities callers compute
    Limits,         \* the values maxConcurrency takes (provider settings)
    MaxClock,       \* bound: the clock stops here
    NoRequest       \* no entry in the map

ASSUME RequestsAssumption == IsFiniteSet(Requests) /\ IsFiniteSet(Songs)
ASSUME SongOfAssumption == SongOf \in [Requests -> Songs]
ASSUME NumbersAssumption ==
    /\ Priorities \subseteq Nat
    /\ Limits \subseteq Nat \ {0}
    /\ MaxClock \in Nat
ASSUME NoRequestAssumption == NoRequest \notin Requests

VARIABLES
    pending,        \* state.pending: the items in queue order
    active,         \* state.active: the request whose entry each song has
    maxConcurrency, \* state.maxConcurrency
    running,        \* the items whose execute() has not settled
    aborted,        \* running requests whose AbortController has fired
    promise,        \* what the caller of enqueue holds
    clock,          \* Date.now()
    doubled         \* history: songs two of whose requests once ran together

vars == <<pending, active, maxConcurrency, running, aborted, promise, clock, doubled>>

Item == [request : Requests, priority : Nat, enqueuedAt : Nat]

TypeOK ==
    /\ pending \in Seq(Item)
    /\ active \in [Songs -> Requests \cup {NoRequest}]
    /\ maxConcurrency \in Nat \ {0}
    /\ running \in SUBSET Item
    /\ aborted \subseteq Requested(running)
    /\ promise \in [Requests -> {"none", "waiting", "settled", "cancelled"}]
    /\ clock \in Nat
    /\ doubled \in SUBSET Songs

-------------------------------------------------------------------------------
SongsOf(items) == {SongOf[i.request] : i \in items}

\* state.active.size
ActiveSongs(act) == {s \in Songs : act[s] # NoRequest}

\* The first n items of the list p.
First(p, n) == {p[k] : k \in 1..n}

\* The list without them.
After(p, n) == SubSeq(p, n + 1, Len(p))

\* How many items drain takes off p: it goes on while the map is smaller than
\* the limit and there is an item left.
DrainCount(p, act, limit) ==
    Cardinality({k \in DOMAIN p :
        Cardinality(ActiveSongs(act) \cup SongsOf(First(p, k - 1))) < limit})

\* active.set(item.songId, ...) for the first n items of p: a later one of the
\* same song overwrites the entry of an earlier one.
Entered(p, act, n) ==
    [s \in Songs |->
        IF s \in SongsOf(First(p, n))
        THEN LET last == CHOOSE k \in 1..n :
                            /\ SongOf[p[k].request] = s
                            /\ \A j \in (k + 1)..n : SongOf[p[j].request] # s
             IN  p[last].request
        ELSE act[s]]

\* The songs that have two requests in run.
DoubledSongs(run) ==
    {s \in Songs : \E i, j \in run : /\ i.request # j.request
                                     /\ SongOf[i.request] = s
                                     /\ SongOf[j.request] = s}

\* drain() on the list p, the map act and the set run of running items (n is
\* bound by a quantifier so that TLC counts once).
Drain(p, act, run, limit) ==
    \E n \in {DrainCount(p, act, limit)} :
        /\ pending' = After(p, n)
        /\ active' = Entered(p, act, n)
        /\ running' = run \cup First(p, n)
        /\ doubled' = doubled \cup DoubledSongs(run \cup First(p, n))

Init ==
    /\ pending = <<>>
    /\ active = [s \in Songs |-> NoRequest]
    /\ maxConcurrency \in Limits
    /\ running = {}
    /\ aborted = {}
    /\ promise = [r \in Requests |-> "none"]
    /\ clock = 0
    /\ doubled = {}

\* enqueue(request): the event pushes, sorts and drains.
Enqueue(r, p) ==
    LET item == [request |-> r, priority |-> p, enqueuedAt |-> clock]
    IN  /\ promise[r] = "none"
        /\ promise' = [promise EXCEPT ![r] = "waiting"]
        /\ Drain(Sorted(Append(pending, item)), active, running, maxConcurrency)
        /\ UNCHANGED <<maxConcurrency, clock, aborted>>

\* Mutant of Finish: the entry of the song stays in the map.
FinishKeepsEntry(i) ==
    /\ i \in running
    /\ promise' = [promise EXCEPT ![i.request] = "settled"]
    /\ aborted' = aborted \ {i.request}
    /\ Drain(pending, active, running \ {i}, maxConcurrency)
    /\ UNCHANGED <<maxConcurrency, clock>>

\* Mutant of Finish: no drain event is sent.
FinishWithoutDrain(i) ==
    /\ i \in running
    /\ promise' = [promise EXCEPT ![i.request] = "settled"]
    /\ aborted' = aborted \ {i.request}
    /\ active' = [active EXCEPT ![SongOf[i.request]] = NoRequest]
    /\ running' = running \ {i}
    /\ UNCHANGED <<pending, maxConcurrency, clock, doubled>>

\* The execute() of item i settles, with a result or an error: the finally
\* block deletes the entry of its song, whichever request made it, and drains.
Finish(i) ==
    /\ i \in running
    /\ promise' = [promise EXCEPT ![i.request] = "settled"]
    /\ aborted' = aborted \ {i.request}
    /\ Drain(pending, [active EXCEPT ![SongOf[i.request]] = NoRequest],
             running \ {i}, maxConcurrency)
    /\ UNCHANGED <<maxConcurrency, clock>>

\* The positions of the pending items of other songs.
NotOf(s) == {k \in DOMAIN pending : SongOf[pending[k].request] # s}

\* Mutant of CancelSong: the removed items are not rejected.
CancelWithoutReject(s) ==
    /\ pending' = Kept(pending, NotOf(s))
    /\ aborted' = aborted \cup ({active[s]} \ {NoRequest})
    /\ UNCHANGED <<active, maxConcurrency, running, promise, clock, doubled>>

\* cancelSong(s): pending items of s are rejected, the running one that the
\* map knows is told to abort and keeps its entry until it settles.
CancelSong(s) ==
    LET Cancelled == {r \in Requested(Items(pending)) : SongOf[r] = s}
    IN  /\ pending' = Kept(pending, NotOf(s))
        /\ promise' = [r \in Requests |->
                         IF r \in Cancelled THEN "cancelled" ELSE promise[r]]
        /\ aborted' = aborted \cup ({active[s]} \ {NoRequest})
        /\ UNCHANGED <<active, maxConcurrency, running, clock, doubled>>

\* refreshConcurrency(limit): nothing that runs is stopped.
RefreshConcurrency(limit) ==
    /\ maxConcurrency' = limit
    /\ Drain(pending, active, running, limit)
    /\ UNCHANGED <<clock, aborted, promise>>

\* Mutant of UpdatePendingPriority: the list is not sorted again.
UpdateWithoutSort(s, p) ==
    \E k \in DOMAIN pending :
        /\ SongOf[pending[k].request] = s
        /\ \A j \in 1..(k - 1) : SongOf[pending[j].request] # s
        /\ pending' = [pending EXCEPT ![k].priority = p]
        /\ UNCHANGED <<active, maxConcurrency, clock, running, aborted,
                       promise, doubled>>

\* updatePendingPriority(s, p): the first pending item of s, then the sort.
UpdatePendingPriority(s, p) ==
    \E k \in DOMAIN pending :
        /\ SongOf[pending[k].request] = s
        /\ \A j \in 1..(k - 1) : SongOf[pending[j].request] # s
        /\ pending' = Sorted([pending EXCEPT ![k].priority = p])
        /\ UNCHANGED <<active, maxConcurrency, clock, running, aborted,
                       promise, doubled>>

\* Time passes.
Tick ==
    /\ clock < MaxClock
    /\ clock' = clock + 1
    /\ UNCHANGED <<pending, active, maxConcurrency, running, aborted, promise,
                   doubled>>

Next ==
    \/ \E r \in Requests, p \in Priorities : Enqueue(r, p)
    \/ \E i \in running : Finish(i)
    \/ \E s \in Songs : CancelSong(s)
    \/ \E l \in Limits : RefreshConcurrency(l)
    \/ \E s \in Songs, p \in Priorities : UpdatePendingPriority(s, p)
    \/ Tick

\* While calls are running, one of them settles sooner or later: by itself, by
\* its own timeout or because its signal fired.
Fairness == WF_vars(\E i \in running : Finish(i))

Spec == Init /\ [][Next]_vars

FairSpec == Spec /\ Fairness

-------------------------------------------------------------------------------
\* A caller waits exactly as long as its request is in the list or running,
\* and never is it in both: no request is dropped and none is run twice.  A
\* song worker awaits the promise without a timeout, so a dropped request
\* would hang its song.
NoLostRequest ==
    /\ \A r \in Requests : promise[r] = "waiting" <=>
           r \in Requested(Items(pending)) \cup Requested(running)
    /\ Requested(Items(pending)) \cap Requested(running) = {}

\* No item waits while the map says there is room: every event that makes
\* room or adds an item drains.
NoIdleCapacity ==
    pending # <<>> => Cardinality(ActiveSongs(active)) >= maxConcurrency

\* The map names exactly the running request of a song, unless two requests of
\* that song once ran together: then the first to finish deletes the other's
\* entry, which cancelSong no longer reaches.
MapIsExact ==
    \A s \in Songs \ doubled : \A r \in Requests :
        active[s] = r <=> r \in Requested(running) /\ SongOf[r] = s

\* An item is started only if no more than maxConcurrency items run, those of
\* songs whose requests ran together apart: the provider's limit is kept.
\* (After the limit was lowered more may run, but none is started.)
StartsWithinLimit ==
    [][ \/ running' \subseteq running
        \/ Cardinality({i \in running' : SongOf[i.request] \notin doubled'})
              <= maxConcurrency' ]_vars

\* An item is never started while one that compares smaller waits: by
\* priority, in order of arrival among equals, whatever the priorities were
\* changed to meanwhile.
PriorityRespected ==
    [][ \A i \in running' \ running : \A j \in Items(pending') : ~Before(j, i) ]_vars

Service == INSTANCE RequestService
               WITH Times <- 0..MaxClock, waiting <- Items(pending),
                    begun <- Requested(running), answer <- promise

\* The workers see a service of requests, whatever the map has lost: each call is begun
\* once at most, in order, and its promise settles or is rejected once.
ImplementsService == Service!ServiceSpec

\* A caller's promise settles in the end.
EveryRequestSettles ==
    \A r \in Requests : promise[r] = "waiting" ~> promise[r] # "waiting"
===============================================================================

------------------------------ MODULE AudioQueue ------------------------------
(***************************************************************************)
(* The audio queue of the song worker: class AudioQueue of                 *)
(* worker/runtime/queue-actors.ts, with the ACE-Step service it submits to *)
(* and polls.  The queue has one slot.  Its events are steps; so are the   *)
(* ends of a submission and of a poll, which run outside the mailbox on    *)
(* whatever the slot holds by then.  The runtime ticks every two seconds   *)
(* without waiting for the previous poll, so polls overlap.                *)
(*                                                                         *)
(* A request is one call of enqueue or resumePoll.  Every request that is  *)
(* started gets a slot object of its own, so the request names the object. *)
(* An ACE task is named by the request whose submission created it.        *)
(***************************************************************************)
EXTENDS Naturals, FiniteSets, Sequences, QueueOrder

CONSTANTS
    Requests,       \* the calls of enqueue and resumePoll that are ever made
    Resumed,        \* those of them that resume an ACE task
    Songs,          \* song ids
    SongOf,         \* the song each request is for
    Priorities,     \* the priorities callers compute
    Polls,          \* bound: one name for each poll that can be under way
    None            \* an empty slot, no task, no poll

ASSUME RequestsAssumption == IsFiniteSet(Requests) /\ Resumed \subseteq Requests
ASSUME SongOfAssumption == SongOf \in [Requests -> Songs]
ASSUME PrioritiesAssumption == Priorities \subseteq Nat
ASSUME NoneAssumption == None \notin Requests

VARIABLES
    pending,        \* state.pending: the items in queue order
    slot,           \* state.active: the request in the slot
    slotTask,       \* state.active.taskId (None is "")
    graceOver,      \* slot objects submitted NOT_FOUND_GRACE_MS ago or earlier
    submitting,     \* requests whose execute() has not settled
    aborted,        \* requests whose AbortController has fired
    polls,          \* the polls under way: the slot object and the task asked for
    promise,        \* what the caller holds; "failed" is any answer but success
    ace,            \* the tasks ACE knows
    confused        \* history: a late answer has acted on another request's slot

vars == <<pending, slot, slotTask, graceOver, submitting, aborted, polls, promise,
          ace, confused>>

queueVars == <<pending, slot, slotTask, graceOver, submitting>>

Item == [request : Requests, priority : Nat, enqueuedAt : Nat]

Answers == {"running", "succeeded", "failed", "not_found"}

TypeOK ==
    /\ pending \in Seq(Item)
    /\ slot \in Requests \cup {None}
    /\ slotTask \in Requests \cup {None}
    /\ slot = None => slotTask = None
    /\ graceOver \in SUBSET Requests
    /\ submitting \in SUBSET Requests
    /\ aborted \in SUBSET Requests
    /\ polls \in [Polls -> [request : Requests, task : Requests \cup {None}] \cup {None}]
    /\ promise \in [Requests -> {"none", "waiting", "succeeded", "failed", "cancelled"}]
    /\ ace \in [Requests -> {"absent", "running", "succeeded", "failed"}]
    /\ confused \in BOOLEAN

-------------------------------------------------------------------------------
\* startSlot(item): a resumed request already has its task, any other one is
\* submitted.
StartSlot(r, sub) ==
    /\ slot' = r
    /\ slotTask' = IF r \in Resumed THEN r ELSE None
    /\ submitting' = IF r \in Resumed THEN sub ELSE sub \cup {r}

\* drain() when the slot is empty and the list is p.
DrainEmpty(p, sub) ==
    IF p = <<>>
    THEN /\ pending' = <<>>
         /\ slot' = None
         /\ slotTask' = None
         /\ submitting' = sub
    ELSE /\ pending' = Tail(p)
         /\ StartSlot(Head(p).request, sub)

\* drain(): nothing to do while the slot is taken.
Drain(p) ==
    IF slot = None
    THEN DrainEmpty(p, submitting)
    ELSE /\ pending' = p
         /\ UNCHANGED <<slot, slotTask, submitting>>

\* Mutant of ClearSlot: no drain event is sent.
ClearSlotWithoutDrain(p, sub) ==
    /\ pending' = p
    /\ slot' = None
    /\ slotTask' = None
    /\ submitting' = sub

\* clearSlot(): whoever calls it, the slot is emptied and the next item starts.
ClearSlot(p, sub) == DrainEmpty(p, sub)

\* A promise keeps the first outcome it is given.
Settle(r, outcome) ==
    promise' = [promise EXCEPT ![r] = IF @ = "waiting" THEN outcome ELSE @]

\* The callback of request r is about to act on whatever request the slot holds now.
Touches(r) == confused' = (confused \/ slot \notin {None, r})

Init ==
    /\ pending = <<>>
    /\ slot = None
    /\ slotTask = None
    /\ graceOver = {}
    /\ submitting = {}
    /\ aborted = {}
    /\ polls = [p \in Polls |-> None]
    /\ promise = [r \in Requests |-> "none"]
    /\ ace \in [Requests -> {"absent", "running", "succeeded", "failed"}]
    /\ \A r \in Requests \ Resumed : ace[r] = "absent"
    /\ confused = FALSE

\* enqueue(request), and resumePoll, which has priority 0.  Arrivals are
\* numbered: the list is sorted by priority, then by arrival.
Enqueue(r, p) ==
    LET arrivals == Cardinality({q \in Requests : promise[q] # "none"})
        item == [request |-> r, priority |-> p, enqueuedAt |-> arrivals]
    IN  /\ promise[r] = "none"
        /\ r \in Resumed => p = 0
        /\ promise' = [promise EXCEPT ![r] = "waiting"]
        /\ Drain(Sorted(Append(pending, item)))
        /\ UNCHANGED <<graceOver, aborted, polls, ace, confused>>

\* execute() of r returns a task id: nothing happens if r was aborted or the
\* slot holds another song; otherwise the id goes into the slot there is.
SubmitFulfilled(r) ==
    /\ r \in submitting
    /\ submitting' = submitting \ {r}
    /\ ace' = [ace EXCEPT ![r] = "running"]
    /\ IF r \in aborted \/ slot = None \/ SongOf[slot] # SongOf[r]
       THEN UNCHANGED <<slotTask, graceOver, confused>>
       ELSE /\ slotTask' = r
            /\ graceOver' = graceOver \ {slot}
            /\ Touches(r)
    /\ UNCHANGED <<pending, slot, aborted, polls, promise>>

\* Mutant of SubmitRejected: the slot is cleared, the caller is not told.
SubmitRejectedUntold(r) ==
    /\ r \in submitting
    /\ UNCHANGED ace
    /\ IF slot = None \/ SongOf[slot] # SongOf[r]
       THEN /\ submitting' = submitting \ {r}
            /\ UNCHANGED <<pending, slot, slotTask, confused>>
       ELSE /\ ClearSlot(pending, submitting \ {r})
            /\ Touches(r)
    /\ UNCHANGED <<promise, graceOver, aborted, polls>>

\* execute() of r throws, before or (aborted meanwhile) after ACE made the
\* task: unless the slot is empty or holds another song, it is cleared.
SubmitRejected(r) ==
    /\ r \in submitting
    /\ \/ UNCHANGED ace
       \/ ace' = [ace EXCEPT ![r] = "running"]
    /\ IF slot = None \/ SongOf[slot] # SongOf[r]
       THEN /\ submitting' = submitting \ {r}
            /\ UNCHANGED <<pending, slot, slotTask, promise, confused>>
       ELSE /\ Settle(r, "failed")
            /\ ClearSlot(pending, submitting \ {r})
            /\ Touches(r)
    /\ UNCHANGED <<graceOver, aborted, polls>>

\* tickPolls: pollActive() takes the slot object as it is now and asks ACE.
TickPolls(p) ==
    /\ slot # None
    /\ polls[p] = None
    /\ polls' = [polls EXCEPT ![p] = [request |-> slot, task |-> slotTask]]
    /\ UNCHANGED <<queueVars, aborted, promise, ace, confused>>

\* What ACE may say of a task; of the empty id it says that there is no such
\* task or, as of any id it does not know, that it is not done.
Said(task) ==
    IF task = None THEN {"running", "not_found"}
    ELSE {IF ace[task] = "absent" THEN "not_found" ELSE ace[task]}

\* Mutant of Ends: a task ACE does not know is asked for again for ever.
EndsIgnoresNotFound(r, answer) == answer \in {"succeeded", "failed"}

\* An answer that ends the request: not_found counts only after the grace.
Ends(r, answer) ==
    \/ answer \in {"succeeded", "failed"}
    \/ answer = "not_found" /\ r \in graceOver

\* Mutant of PollReply: the answer goes to whoever has the slot by now.
PollReplyToSlot(p, answer) ==
    /\ polls[p] # None
    /\ answer \in Said(polls[p].task)
    /\ polls' = [polls EXCEPT ![p] = None]
    /\ IF slot # None /\ polls[p].request \notin aborted /\ Ends(polls[p].request, answer)
       THEN /\ Settle(slot, IF answer = "succeeded" THEN answer ELSE "failed")
            /\ ClearSlot(pending, submitting)
            /\ Touches(polls[p].request)
            /\ UNCHANGED graceOver
       ELSE UNCHANGED <<queueVars, promise, confused>>
    /\ UNCHANGED <<aborted, ace>>

\* The answer to poll p: nothing happens if its slot object was aborted or the
\* answer ends nothing; otherwise the caller is told and the slot is cleared,
\* whichever object it holds by now.
PollReply(p, answer) ==
    /\ polls[p] # None
    /\ answer \in Said(polls[p].task)
    /\ polls' = [polls EXCEPT ![p] = None]
    /\ LET r == polls[p].request
       IN  IF r \notin aborted /\ Ends(r, answer)
           THEN /\ Settle(r, IF answer = "succeeded" THEN answer ELSE "failed")
                /\ ClearSlot(pending, submitting)
                /\ Touches(r)
                /\ UNCHANGED graceOver
           ELSE UNCHANGED <<queueVars, promise, confused>>
    /\ UNCHANGED <<aborted, ace>>

\* The poll fails: it is logged, the next tick asks again.
PollError(p) ==
    /\ polls[p] # None
    /\ polls' = [polls EXCEPT ![p] = None]
    /\ UNCHANGED <<queueVars, aborted, promise, ace, confused>>

\* The positions of the pending items of other songs.
NotOf(s) == {k \in DOMAIN pending : SongOf[pending[k].request] # s}

\* cancelSong(s): pending items of s are rejected; if the slot holds s its
\* controller fires, its caller is rejected and the slot is cleared.
CancelSong(s) ==
    LET Rest == Kept(pending, NotOf(s))
        Removed == {r \in Requested(Items(pending)) : SongOf[r] = s}
        Stopped == {r \in {slot} \ {None} : SongOf[r] = s}
    IN  /\ promise' = [r \in Requests |->
                         IF r \in Removed \cup Stopped THEN "cancelled" ELSE promise[r]]
        /\ aborted' = aborted \cup Stopped
        /\ IF Stopped # {}
           THEN ClearSlot(Rest, submitting)
           ELSE /\ pending' = Rest
                /\ UNCHANGED <<slot, slotTask, submitting>>
        /\ UNCHANGED <<graceOver, polls, ace, confused>>

\* updatePendingPriority(s, p): the first pending item of s, then the sort.
UpdatePendingPriority(s, p) ==
    \E k \in DOMAIN pending :
        /\ SongOf[pending[k].request] = s
        /\ \A j \in 1..(k - 1) : SongOf[pending[j].request] # s
        /\ pending' = Sorted([pending EXCEPT ![k].priority = p])
        /\ UNCHANGED <<slot, slotTask, graceOver, submitting, aborted, polls,
                       promise, ace, confused>>

\* Two minutes pass since the submission of a slot object somebody still has.
GracePassed(r) ==
    /\ r \notin graceOver
    /\ r = slot \/ \E p \in Polls : polls[p] # None /\ polls[p].request = r
    /\ graceOver' = graceOver \cup {r}
    /\ UNCHANGED <<pending, slot, slotTask, submitting, aborted, polls, promise,
                   ace, confused>>

\* What becomes of a task matters from when somebody asks for it.
Asked(t) == t = slotTask \/ \E p \in Polls : polls[p] # None /\ polls[p].task = t

\* ACE finishes a task.
AceFinish(t) ==
    /\ Asked(t)
    /\ ace[t] = "running"
    /\ \E end \in {"succeeded", "failed"} : ace' = [ace EXCEPT ![t] = end]
    /\ UNCHANGED <<queueVars, aborted, polls, promise, confused>>

\* ACE restarts and forgets the task.
AceLose(t) ==
    /\ Asked(t)
    /\ ace[t] # "absent"
    /\ ace' = [ace EXCEPT ![t] = "absent"]
    /\ UNCHANGED <<queueVars, aborted, polls, promise, confused>>

Next ==
    \/ \E r \in Requests, p \in Priorities : Enqueue(r, p)
    \/ \E r \in Requests : SubmitFulfilled(r) \/ SubmitRejected(r)
    \/ \E p \in Polls : TickPolls(p) \/ PollError(p)
    \/ \E p \in Polls, a \in Answers : PollReply(p, a)
    \/ \E s \in Songs : CancelSong(s)
    \/ \E s \in Songs, p \in Priorities : UpdatePendingPriority(s, p)
    \/ \E r \in Requests : GracePassed(r) \/ AceFinish(r) \/ AceLose(r)

\* The timer ticks, submissions settle, time passes, ACE finishes what it runs
\* and does not fail every poll.
Fairness ==
    /\ \A r \in Requests : /\ WF_vars(SubmitFulfilled(r) \/ SubmitRejected(r))
                           /\ WF_vars(GracePassed(r))
                           /\ WF_vars(AceFinish(r))
    /\ \A p \in Polls : /\ WF_vars(TickPolls(p))
                        /\ SF_vars(\E a \in Answers : PollReply(p, a))

Spec == Init /\ [][Next]_vars

FairSpec == Spec /\ Fairness

-------------------------------------------------------------------------------
\* The slot is free only while nothing waits.
SlotNeverIdle == slot = None => pending = <<>>

\* What is in the list or in the slot still has a caller that waits: a
\* cancelled or answered request is neither started nor kept in the slot, and
\* the branch of pollActive for an aborted slot is never taken.
QueuedIsAwaited ==
    \A r \in Requested(Items(pending)) \cup ({slot} \ {None}) :
        promise[r] = "waiting" /\ r \notin aborted

\* As long as no late answer acted on another request's slot, a caller that
\* waits has its request in the list or in the slot: the single slot loses
\* nothing by itself.
LostOnlyByConfusion ==
    ~confused => \A r \in Requests : promise[r] = "waiting" <=>
                     r \in Requested(Items(pending)) \cup {slot}

\* As long as no late answer acted on another request's slot, the task that is
\* polled for a request is the one its own submission made.
TaskIsOwn == ~confused => slotTask \in {None, slot}

\* A caller is told of success only when ACE has finished its own task, unless
\* a late answer acted on another request's slot.
SuccessIsOwn ==
    [][ \A r \in Requests : /\ promise[r] # "succeeded"
                            /\ promise'[r] = "succeeded"
                            /\ ~confused
            => ace[r] = "succeeded" ]_vars

\* No item is started while one that compares smaller waits.
PriorityRespected ==
    [][ slot' # slot =>
            \A i \in Items(pending) : i.request = slot' =>
                \A j \in Items(pending') : ~Before(j, i) ]_vars

\* A caller does not tell results apart here.
Answer == [r \in Requests |-> IF promise[r] \in {"succeeded", "failed"} THEN "settled" ELSE promise[r]]

Service == INSTANCE RequestService
               WITH Times <- 0..Cardinality(Requests), waiting <- Items(pending),
                    begun <- {slot} \ {None}, answer <- Answer

\* As long as no late answer acts on another request's slot, the workers see a
\* service of requests that works on one at a time.
ServesUntilConfused ==
    Service!ServiceInit /\ [][~confused' => [Service!ServiceNext]_(Service!service)]_vars

\* As long as no late answer acts on another request's slot, every caller is
\* answered in the end.
AnsweredUnlessConfused ==
    []~confused => \A r \in Requests : promise[r] = "waiting" ~> promise[r] # "waiting"
===============================================================================

---------------------------- MODULE RequestService ----------------------------
(***************************************************************************)
(* What both endpoint queues of worker/runtime/queue-actors.ts promise the *)
(* song workers.  Who asks is told of an end once.  A request is begun     *)
(* once at most, while none that has to come before goes on waiting; it    *)
(* has a result only after it was begun, and is withdrawn only when asked. *)
(* How many are begun at a time is up to the queue: RequestResponseQueue   *)
(* and AudioQueue are two ways to do it.                                   *)
(***************************************************************************)
EXTENDS Naturals

CONSTANTS
    Requests,       \* the requests that are ever made
    Priorities,
    Times           \* when a request is made

VARIABLES
    waiting,        \* the requests that wait, each with its priority and time
    begun,          \* the requests that are being worked on
    answer          \* what who asked was told

service == <<waiting, begun, answer>>

Before(i, j) ==
    \/ i.priority < j.priority
    \/ i.priority = j.priority /\ i.enqueuedAt < j.enqueuedAt

ServiceInit ==
    /\ waiting = {}
    /\ begun = {}
    /\ answer = [r \in Requests |-> "none"]

\* Some of the items are begun beside what is being worked on, perhaps none.
Begin(items, taken) ==
    \E first \in SUBSET items :
        /\ \A i \in first, j \in items \ first : ~Before(j, i)
        /\ waiting' = items \ first
        /\ begun' = taken \cup {i.request : i \in first}

Ask(r) ==
    /\ answer[r] = "none"
    /\ answer' = [answer EXCEPT ![r] = "waiting"]
    /\ \E p \in Priorities, t \in Times :
           Begin(waiting \cup {[request |-> r, priority |-> p, enqueuedAt |-> t]}, begun)

Settle(r) ==
    /\ r \in begun
    /\ answer' = [answer EXCEPT ![r] = "settled"]
    /\ Begin(waiting, begun \ {r})

\* Requests are withdrawn, begun or not.
Withdraw(R) ==
    /\ R \subseteq begun \cup {i.request : i \in waiting}
    /\ answer' = [r \in Requests |-> IF r \in R THEN "cancelled" ELSE answer[r]]
    /\ Begin({i \in waiting : i.request \notin R}, begun \ R)

Reprioritise(i, p) ==
    /\ waiting' = (waiting \ {i}) \cup {[i EXCEPT !.priority = p]}
    /\ UNCHANGED <<begun, answer>>

\* There is more room.
GoOn == Begin(waiting, begun) /\ UNCHANGED answer

ServiceNext ==
    \/ \E r \in Requests : Ask(r) \/ Settle(r)
    \/ \E R \in SUBSET Requests : Withdraw(R)
    \/ \E i \in waiting, p \in Priorities : Reprioritise(i, p)
    \/ GoOn

ServiceSpec == ServiceInit /\ [][ServiceNext]_service
===============================================================================

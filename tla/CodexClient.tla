------------------------------ MODULE CodexClient ------------------------------
(***************************************************************************)
(* external/codex-app-server-client.ts: calls of the LLM queue go as       *)
(* JSON-RPC to a child process that is started on demand.  A call asks     *)
(* for the account, starts a thread, starts a turn and waits for the turn  *)
(* to complete; every answer may fail, come late or never, the process may *)
(* die at any point, and its exit is an event that arrives on its own.     *)
(*                                                                         *)
(* The client is one JavaScript object: a chunk of output, a timer or an   *)
(* exit is handled without interruption, message by message, and then the  *)
(* promises it has settled go on (Continue) before anything else happens.  *)
(***************************************************************************)
EXTENDS Naturals, FiniteSets, Sequences

CONSTANTS
    Calls,          \* calls of generateText, generateJson, generateObject
    MaxTurns        \* MAX_PENDING_TURNS

ASSUME CallsAssumption == IsFiniteSet(Calls) /\ Calls # {}
ASSUME BoundsAssumption == MaxTurns \in Nat \ {0}

VARIABLES
    call,           \* the calls, each with what it waits for
    proc,           \* this.proc, the number of a process, or 0
    initialized,    \* this.initialized
    start,          \* this.startPromise and the initialize request behind it
    nextRequestId,
    children,       \* the processes as the operating system has them
    inbox,          \* requests each process has not answered
    out,            \* what each process has written and nobody has read
    chunk,          \* messages left in the chunk of output being handled
    reading,        \* and the process it is from
    stale           \* history: an exit was taken for that of another process

client == <<call, proc, initialized, start, nextRequestId>>
processes == <<children, inbox, out>>
codexVars == <<client, processes, chunk, reading, stale>>

\* An exit leaves no call under way, so that every process is started by a call of its
\* own: there are never more of them than calls.
Procs == 1..Cardinality(Calls)

Steps == {"account", "thread", "turn"}

\* mixed: it went on with the answer to another request.
CallRecord ==
    [ at : {"idle", "ensure", "waiting", "send", "asked", "answered", "refused", "turn", "ok",
            "failed", "timedOut"},
      step : Steps, id : Nat, aborted : BOOLEAN, mixed : BOOLEAN ]

NextStep(step) == IF step = "account" THEN "thread" ELSE "turn"

\* who and step are what the client cannot see of a message: whose request it answers.
\* The client goes by the number.
Request ==
    [id : Nat, who : Calls, step : Steps] \cup [id : Nat, who : {"client"}, step : {"initialize"}]

Message ==
    [kind : {"answer"}, id : Nat, who : Calls \cup {"client"}, step : Steps \cup {"initialize"},
     ok : BOOLEAN]
        \cup [kind : {"completed"}, who : Calls, ok : BOOLEAN]

CodexTypeOK ==
    /\ call \in [Calls -> CallRecord]
    /\ proc \in Procs \cup {0}
    /\ initialized \in BOOLEAN
    /\ start \in [at : {"no", "asked", "answered", "failed"}, id : Nat]
    /\ nextRequestId \in Nat \ {0}
    /\ children \in [Procs -> {"unborn", "running", "ended", "gone"}]
    /\ inbox \in [Procs -> SUBSET Request]
    /\ out \in [Procs -> Seq(Message)]
    /\ reading \in Procs
    /\ chunk \in 0..Len(out[reading])
    /\ stale \in BOOLEAN

-------------------------------------------------------------------------------
Settled(c) == call[c].at \in {"ok", "failed", "timedOut"}

\* pendingTurns
PendingTurns == {c \in Calls : call[c].at = "turn"}

\* Promises that have settled and whose callers have not gone on.
Pending(c) == call[c].at \in {"ensure", "send", "answered", "refused"}

Quiet ==
    /\ chunk = 0
    /\ \A c \in Calls : ~Pending(c)
    /\ start.at \in {"no", "asked"}

Unborn == {p \in Procs : children[p] = "unborn"}

\* send(): what is written to a process that has ended is lost.
Written(p, r) == [inbox EXCEPT ![p] = IF children[p] = "running" THEN @ \cup {r} ELSE @]

-------------------------------------------------------------------------------
\* The calls.

Call(c) ==
    /\ Quiet
    /\ call[c].at = "idle"
    /\ call' = [call EXCEPT ![c].at = "ensure"]
    /\ UNCHANGED <<proc, initialized, start, nextRequestId, processes, chunk, reading, stale>>

\* requestRaw() of a call, to the process that is current now.
Ask(c) ==
    IF proc = 0
    THEN /\ call' = [call EXCEPT ![c].at = "failed"]
         /\ UNCHANGED <<nextRequestId, inbox>>
    ELSE /\ call' = [call EXCEPT ![c] = [@ EXCEPT !.at = "asked", !.id = nextRequestId]]
         /\ inbox' = Written(proc, [id |-> nextRequestId, who |-> c, step |-> call[c].step])
         /\ nextRequestId' = nextRequestId + 1

\* Mutant of SpawnProcess: every process counts its requests from one.
SpawnProcessFromOne(p) ==
    /\ proc' = p
    /\ children' = [children EXCEPT ![p] = "running"]
    /\ inbox' = [inbox EXCEPT ![p] = {[id |-> 1, who |-> "client", step |-> "initialize"]}]
    /\ start' = [at |-> "asked", id |-> 1]
    /\ nextRequestId' = 2

\* spawnProcess() and the initialize request of startInternal().
SpawnProcess(p) ==
    /\ proc' = p
    /\ children' = [children EXCEPT ![p] = "running"]
    /\ inbox' = [inbox EXCEPT ![p] = {[id |-> nextRequestId, who |-> "client",
                                      step |-> "initialize"]}]
    /\ start' = [at |-> "asked", id |-> nextRequestId]
    /\ nextRequestId' = nextRequestId + 1

\* ensureStarted(): calls share the start that is under way.
Ensure(c) ==
    /\ call[c].at = "ensure"
    /\ IF initialized /\ proc # 0
       THEN Ask(c) /\ UNCHANGED <<proc, start, children>>
       ELSE /\ call' = [call EXCEPT ![c].at = "waiting"]
            /\ IF start.at = "no"
               THEN \E p \in Unborn : (\A q \in Unborn : p <= q) /\ SpawnProcess(p)
               ELSE UNCHANGED <<proc, start, children, inbox, nextRequestId>>
    /\ UNCHANGED <<initialized, out, chunk, reading, stale>>

\* The start is through: requestRaw() follows, whatever has become of the process.
Proceed(c) ==
    /\ call[c].at = "send"
    /\ Ask(c)
    /\ UNCHANGED <<proc, initialized, start, children, out, chunk, reading, stale>>

Refuse(c) ==
    /\ call[c].at = "refused"
    /\ call' = [call EXCEPT ![c].at = "failed"]
    /\ UNCHANGED <<proc, initialized, start, nextRequestId, processes, chunk, reading, stale>>

\* ensureChatgptAuth() and runTurn() between their requests.  The limit on turns is
\* looked at before the thread is started, and whether the call was aborted only
\* once its turn runs.
Advance(c) ==
    /\ call[c].at = "answered"
    /\ call' = [call EXCEPT ![c] =
                  IF @.step = "turn"
                  THEN [@ EXCEPT !.at = IF call[c].aborted THEN "failed" ELSE "turn"]
                  ELSE IF @.step = "account" /\ Cardinality(PendingTurns) >= MaxTurns
                  THEN [@ EXCEPT !.at = "failed"]
                  ELSE [@ EXCEPT !.at = "ensure", !.step = NextStep(call[c].step)]]
    /\ UNCHANGED <<proc, initialized, start, nextRequestId, processes, chunk, reading, stale>>

\* startInternal() after the answer to initialize.
Started ==
    /\ start.at = "answered"
    /\ initialized' = TRUE
    /\ start' = [at |-> "no", id |-> 0]
    /\ call' = [c \in Calls |-> IF call[c].at = "waiting" THEN [call[c] EXCEPT !.at = "send"]
                                                          ELSE call[c]]
    /\ UNCHANGED <<proc, nextRequestId, processes, chunk, reading, stale>>

\* Mutant of Killed: the process is only forgotten.
KilledNot == UNCHANGED children

\* proc.kill("SIGTERM"): its exit will be an event.
Killed ==
    children' =
        [p \in Procs |-> IF p = proc /\ children[p] = "running" THEN "ended" ELSE children[p]]

\* Mutant of StartFails: the calls that waited for the start are not told.
StartFailsAlone ==
    /\ start.at = "failed"
    /\ Killed
    /\ proc' = 0
    /\ initialized' = FALSE
    /\ start' = [at |-> "no", id |-> 0]
    /\ UNCHANGED <<call, nextRequestId, inbox, out, chunk, reading, stale>>

\* startInternal() when initialize has failed: the catch, and the calls that waited.
StartFails ==
    /\ start.at = "failed"
    /\ Killed
    /\ proc' = 0
    /\ initialized' = FALSE
    /\ start' = [at |-> "no", id |-> 0]
    /\ call' = [c \in Calls |-> IF call[c].at = "waiting" THEN [call[c] EXCEPT !.at = "refused"]
                                                          ELSE call[c]]
    /\ UNCHANGED <<nextRequestId, inbox, out, chunk, reading, stale>>

Continue ==
    /\ chunk = 0
    /\ \/ \E c \in Calls : Ensure(c) \/ Proceed(c) \/ Refuse(c) \/ Advance(c)
       \/ Started \/ StartFails

-------------------------------------------------------------------------------
\* What the process writes.

\* handleStdout() with the next n messages.
Read(p, n) ==
    /\ Quiet
    /\ n \in 1..Len(out[p])
    /\ chunk' = n
    /\ reading' = p
    /\ UNCHANGED <<client, processes, stale>>

\* An answer settles the request of its number, if that is pending.
Answered(m) ==
    /\ call' = [c \in Calls |->
                 IF call[c].at = "asked" /\ call[c].id = m.id
                 THEN [call[c] EXCEPT
                         !.at = IF m.ok THEN "answered" ELSE "refused",
                         !.mixed = @ \/ m.who # c \/ m.step # call[c].step]
                 ELSE call[c]]
    /\ start' = IF start.at = "asked" /\ start.id = m.id
                THEN [start EXCEPT !.at = IF m.ok THEN "answered" ELSE "failed"]
                ELSE start

\* handleTurnCompleted(): a turn nobody has registered is passed over.
TurnCompleted(m) ==
    /\ call' = [call EXCEPT ![m.who] =
                  IF @.at = "turn" THEN [@ EXCEPT !.at = IF m.ok THEN "ok" ELSE "failed"]
                                   ELSE @]
    /\ UNCHANGED start

\* Mutant of HandleMessage: the messages left are not counted down.
HandleMessageUncounted ==
    /\ chunk > 0
    /\ IF Head(out[reading]).kind = "answer" THEN Answered(Head(out[reading]))
                                             ELSE TurnCompleted(Head(out[reading]))
    /\ out' = [out EXCEPT ![reading] = Tail(@)]
    /\ UNCHANGED <<chunk, proc, initialized, nextRequestId, children, inbox, reading, stale>>

\* handleMessage()
HandleMessage ==
    /\ chunk > 0
    /\ IF Head(out[reading]).kind = "answer" THEN Answered(Head(out[reading]))
                                             ELSE TurnCompleted(Head(out[reading]))
    /\ out' = [out EXCEPT ![reading] = Tail(@)]
    /\ chunk' = chunk - 1
    /\ UNCHANGED <<proc, initialized, nextRequestId, children, inbox, reading, stale>>

\* The process answers a request, and tells of a turn it has accepted when that ends.
Answer(p) ==
    /\ Quiet /\ children[p] = "running"
    /\ \E r \in inbox[p], ok \in BOOLEAN :
           /\ inbox' = [inbox EXCEPT ![p] = @ \ {r}]
           /\ \E end \in (IF r.step = "turn" /\ ok THEN {"completed", "failed", "silent"}
                                                   ELSE {"silent"}) :
                  out' = [out EXCEPT ![p] =
                            @ \o <<[kind |-> "answer", id |-> r.id, who |-> r.who,
                                    step |-> r.step, ok |-> ok]>>
                              \o IF end = "silent" THEN <<>>
                                 ELSE <<[kind |-> "completed", who |-> r.who,
                                         ok |-> end = "completed"]>>]
    /\ UNCHANGED <<client, children, chunk, reading, stale>>

-------------------------------------------------------------------------------
\* Timers, aborts and the end of a process.

\* The timeout of requestRaw(): the request is forgotten.
RequestTimeout(c) ==
    /\ Quiet
    /\ call[c].at = "asked"
    /\ call' = [call EXCEPT ![c].at = "failed"]
    /\ UNCHANGED <<proc, initialized, start, nextRequestId, processes, chunk, reading, stale>>

InitializeTimeout ==
    /\ Quiet
    /\ start.at = "asked"
    /\ start' = [start EXCEPT !.at = "failed"]
    /\ UNCHANGED <<call, proc, initialized, nextRequestId, processes, chunk, reading, stale>>

\* TURN_TIMEOUT_MS
TurnTimeout(c) ==
    /\ Quiet
    /\ call[c].at = "turn"
    /\ call' = [call EXCEPT ![c].at = "timedOut"]
    /\ UNCHANGED <<proc, initialized, start, nextRequestId, processes, chunk, reading, stale>>

\* options.signal
Abort(c) ==
    /\ Quiet
    /\ ~call[c].aborted /\ ~Settled(c) /\ call[c].at # "idle"
    /\ call' = [call EXCEPT ![c] = [@ EXCEPT !.aborted = TRUE,
                                            !.at = IF call[c].at = "turn" THEN "failed" ELSE call[c].at]]
    /\ UNCHANGED <<proc, initialized, start, nextRequestId, processes, chunk, reading, stale>>

\* Mutant of Rejected: only requests are.
RejectedRequests(state) ==
    [c \in Calls |-> IF state[c].at = "asked" THEN [state[c] EXCEPT !.at = "refused"]
                                              ELSE state[c]]

\* All that is pending, requests and turns.
Rejected(state) ==
    [c \in Calls |-> IF state[c].at \in {"asked", "turn"} THEN [state[c] EXCEPT !.at = "refused"]
                                                          ELSE state[c]]

\* handleProcessExit()
HandleProcessExit ==
    IF proc = 0 /\ ~initialized
    THEN UNCHANGED <<call, proc, initialized, start>>
    ELSE /\ proc' = 0
         /\ initialized' = FALSE
         /\ call' = Rejected(call)
         /\ start' = IF start.at = "asked" THEN [start EXCEPT !.at = "failed"] ELSE start

Dies(p) ==
    /\ children[p] = "running" /\ Quiet
    /\ children' = [children EXCEPT ![p] = "ended"]
    /\ UNCHANGED <<client, inbox, out, chunk, reading, stale>>

\* The exit event does not say of which process it is.
Exit(p) ==
    /\ Quiet
    /\ children[p] = "ended"
    /\ children' = [children EXCEPT ![p] = "gone"]
    /\ stale' = (stale \/ (proc # 0 /\ proc # p))
    /\ HandleProcessExit
    /\ UNCHANGED <<nextRequestId, inbox, out, chunk, reading>>

\* dispose(), when the user logs out.
Dispose ==
    /\ Quiet
    /\ proc # 0
    /\ Killed
    /\ HandleProcessExit
    /\ UNCHANGED <<nextRequestId, inbox, out, chunk, reading, stale>>

-------------------------------------------------------------------------------
CodexInit ==
    /\ call = [c \in Calls |-> [at |-> "idle", step |-> "account", id |-> 0,
                                aborted |-> FALSE, mixed |-> FALSE]]
    /\ proc = 0 /\ initialized = FALSE
    /\ start = [at |-> "no", id |-> 0]
    /\ nextRequestId = 1
    /\ children = [p \in Procs |-> "unborn"]
    /\ inbox = [p \in Procs |-> {}]
    /\ out = [p \in Procs |-> <<>>]
    /\ chunk = 0 /\ reading = 1
    /\ stale = FALSE

CodexNext ==
    \/ Continue \/ HandleMessage \/ InitializeTimeout \/ Dispose
    \/ \E c \in Calls : Call(c) \/ RequestTimeout(c) \/ TurnTimeout(c) \/ Abort(c)
    \/ \E p \in Procs : \/ Answer(p) \/ Dies(p) \/ Exit(p)
                        \/ \E n \in 1..Len(out[p]) : Read(p, n)

CodexSpec == CodexInit /\ [][CodexNext]_codexVars

\* Promises go on, messages of a chunk are handled, timers fire, and the operating
\* system tells of every exit.  The process owes nothing.
Fairness ==
    /\ WF_codexVars(Continue) /\ WF_codexVars(HandleMessage)
    /\ \A c \in Calls : WF_codexVars(RequestTimeout(c)) /\ WF_codexVars(TurnTimeout(c))
    /\ WF_codexVars(InitializeTimeout)
    /\ \A p \in Procs : WF_codexVars(Exit(p))

FairSpec == CodexSpec /\ Fairness

-------------------------------------------------------------------------------
\* Nothing waits for a process the client has forgotten: whatever ends the process,
\* the exit event of another one included, has rejected what was asked of it.
PendingHasProcess ==
    /\ (\E c \in Calls : call[c].at \in {"asked", "turn"}) => proc # 0 /\ initialized
    /\ start.at = "asked" => proc # 0 /\ ~initialized
    /\ (\E c \in Calls : call[c].at = "waiting") => start.at # "no"

\* A call only ever goes on with the answer to its own request, although answers of a
\* process that is no longer current are still read and matched by number alone.
AnswerIsOwn == \A c \in Calls : ~call[c].mixed

\* A process that runs is the current one, unless the exit of an earlier process was
\* taken for its own: then it is forgotten without being stopped.
NoOrphan == \A p \in Procs : children[p] = "running" /\ p # proc => stale

\* Every call settles, whatever the process fails to do and however often it dies.
EveryCallSettles == \A c \in Calls : call[c].at = "ensure" ~> Settled(c)
===============================================================================

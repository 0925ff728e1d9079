------------------------ MODULE SongLifecycle_proofs ------------------------
(***************************************************************************)
(* For any number of worker objects, retries, crashes, reverts and late    *)
(* submissions: the types, that songWorkers names the one live worker of   *)
(* the song, and the other safety properties of the runs.  The inductive   *)
(* invariant IInv splits as the module does, into the row with its events  *)
(* and the workers with the entry of songWorkers; every operation of the   *)
(* song service keeps the first half, every way a worker is made, moved,   *)
(* ended or cancelled keeps the second.  ReadyInv and MetadataInv extend   *)
(* it for what is final; OrderInv, in the last part, says which rows fit   *)
(* the place of the one worker.                                            *)
(***************************************************************************)
EXTENDS SongLifecycle, TLAPS

\* The row: a song that is to be retried has a retry left.
RowOK ==
    /\ song \in Row
    /\ song.status = "retry_pending" => song.retryCount < MaxRetries
    /\ events \in Seq(Statuses \cup {"stop"})

\* The workers.
WorkersOK ==
    /\ worker \in [Workers -> Worker]
    /\ tracked \in Workers \cup {NoWorker}
    /\ OneLiveWorker

RestOK ==
    /\ playlist \in {"active", "closing", "closed"}
    /\ question \in BOOLEAN
    /\ phase \in {"down", "reconciling", "sweeping", "up"}
    /\ late \in 0..MaxLate
    /\ crashes \in 0..MaxCrashes /\ reverts \in 0..MaxReverts
    /\ submissions \in Nat /\ overtaken \in BOOLEAN

\* The inductive invariant.
IInv == RowOK /\ WorkersOK /\ RestOK

-------------------------------------------------------------------------------
\* What the actor hears is a sequence of its events.
LEMMA HeardType ==
  ASSUME NEW s \in Statuses
  PROVE  Heard(s) \in Seq(Statuses \cup {"stop"})
<1>1. <<s, "stop">> \in Seq(Statuses \cup {"stop"})
  OBVIOUS
<1>2. <<>> \in Seq(Statuses \cup {"stop"}) /\ <<s>> \in Seq(Statuses \cup {"stop"})
  OBVIOUS
<1> QED
  BY <1>1, <1>2 DEF Heard

\* An update to a good row keeps the row good.
LEMMA UpdateKeeps ==
  ASSUME RowOK, NEW row \in Row, Update(row),
         row.status = "retry_pending" => row.retryCount < MaxRetries
  PROVE  RowOK'
<1>1. CASE Exists
  <2>1. song' = row /\ events' = events \o Heard(row.status)
    BY <1>1 DEF Update
  <2>2. row.status \in Statuses
    BY DEF Row
  <2>3. Heard(row.status) \in Seq(Statuses \cup {"stop"})
    BY <2>2, HeardType
  <2>4. events' \in Seq(Statuses \cup {"stop"})
    BY <2>1, <2>3 DEF RowOK
  <2> QED
    BY <2>1, <2>4 DEF RowOK
<1>2. CASE ~Exists
  BY <1>2 DEF Update, RowOK
<1> QED
  BY <1>1, <1>2

\* An update of the status alone
LEMMA SetStatusKeeps ==
  ASSUME RowOK, NEW s \in Statuses \ {"retry_pending"}, SetStatus(s)
  PROVE  RowOK'
<1> DEFINE row == [song EXCEPT !.status = s]
<1>1. row \in Row /\ row.status # "retry_pending"
  BY DEF RowOK, Row
<1>2. Update(row)
  BY DEF SetStatus
<1> HIDE DEF row
<1> QED
  BY <1>1, <1>2, UpdateKeeps

\* revertTransient()
LEMMA RevertKeeps ==
  ASSUME RowOK, RevertTransient
  PROVE  RowOK'
<1>1. Reverted \in Row
  BY DEF RowOK, Row, Reverted, Statuses, InFlight, Settled
<1>2. Reverted.status = "retry_pending" => Reverted.retryCount < MaxRetries
  BY DEF RowOK, Row, Reverted, Statuses, InFlight, Settled
<1>3. CASE Reverted.status # song.status
  BY <1>1, <1>2, <1>3, UpdateKeeps DEF RevertTransient
<1>4. CASE Reverted.status = song.status
  BY <1>1, <1>2, <1>4 DEF RevertTransient, RowOK
<1> QED
  BY <1>3, <1>4

\* updateAceTask()
LEMMA UpdateAceTaskKeeps ==
  ASSUME RowOK, UpdateAceTask
  PROVE  RowOK'
<1> DEFINE row == [song EXCEPT !.status = "generating_audio", !.task = TRUE,
                               !.old = @ \ {"submit"}]
<1>1. row \in Row /\ row.status # "retry_pending"
  BY DEF RowOK, Row, Statuses, InFlight
<1>2. Update(row)
  BY DEF UpdateAceTask
<1> HIDE DEF row
<1> QED
  BY <1>1, <1>2, UpdateKeeps

\* markError() leaves a retry to a song it sets to retry_pending.
LEMMA MarkErrorKeeps ==
  ASSUME RowOK, MarkError
  PROVE  RowOK'
<1> DEFINE row == [song EXCEPT
                     !.status = IF song.retryCount < MaxRetries THEN "retry_pending"
                                ELSE "error",
                     !.erroredAt = song.status]
<1>1. row \in Row
  BY DEF RowOK, Row, Statuses, Settled
<1>2. row.status = "retry_pending" => row.retryCount < MaxRetries
  BY DEF RowOK, Row
<1>3. Update(row)
  BY DEF MarkError
<1> HIDE DEF row
<1> QED
  BY <1>1, <1>2, <1>3, UpdateKeeps

\* retryErrored() counts within the limit.
LEMMA RetriedRow ==
  ASSUME RowOK, song.status = "retry_pending"
  PROVE  /\ Retried \in Row
         /\ Retried.status = RetryFrom
         /\ RetryFrom \in Statuses \ {"retry_pending"}
<1>1. RetryFrom \in Statuses \ {"retry_pending"}
  BY DEF RetryFrom, Statuses, InFlight
<1>2. song.retryCount + 1 \in 0..MaxRetries
  BY BoundsAssumption DEF RowOK, Row
<1>3. (IF RetryFrom = "metadata_ready" THEN {} ELSE song.old \ {"start"})
        \in SUBSET {"start", "submit"}
  BY DEF RowOK, Row
<1>4. song.path \in BOOLEAN /\ song.task \in BOOLEAN
  BY DEF RowOK, Row
<1>5. (song.task /\ RetryFrom # "metadata_ready") \in BOOLEAN
      /\ (song.path /\ RetryFrom # "metadata_ready") \in BOOLEAN
  OBVIOUS
<1> HIDE DEF RetryFrom
<1>6. Retried \in Row
  BY <1>1, <1>2, <1>3, <1>5 DEF RowOK, Row, Retried
<1>7. Retried.status = RetryFrom
  BY DEF RowOK, Row, Retried
<1> QED
  BY <1>1, <1>6, <1>7

-------------------------------------------------------------------------------
\* A live worker moves.
LEMMA GoesKeeps ==
  ASSUME WorkersOK, NEW w \in Workers, NEW place \in Places \ {"idle"},
         worker[w].at # "idle", Goes(w, place)
  PROVE  WorkersOK'
BY DEF WorkersOK, OneLiveWorker, Goes, Worker

\* A worker ends, and with it its entry.
LEMMA EndsKeeps ==
  ASSUME WorkersOK, NEW w \in Workers, worker[w].at # "idle", Ends(w)
  PROVE  WorkersOK'
BY WorkersAssumption DEF WorkersOK, OneLiveWorker, Ends, Idle, Worker, Places, Statuses

\* A stage that fails ends the worker and leaves a good row.
LEMMA FailsKeeps ==
  ASSUME RowOK, WorkersOK, NEW w \in Workers, worker[w].at # "idle", Fails(w)
  PROVE  RowOK' /\ WorkersOK'
<1>1. WorkersOK'
  BY EndsKeeps DEF Fails
<1>2. CASE worker[w].aborted
  BY <1>1, <1>2 DEF Fails, RowOK
<1>3. CASE ~worker[w].aborted
  BY <1>1, <1>3, MarkErrorKeeps DEF Fails
<1> QED
  BY <1>2, <1>3

\* A song that has no entry has no live worker, so a new one is alone.
LEMMA SpawnKeeps ==
  ASSUME RowOK, WorkersOK, Spawn
  PROVE  WorkersOK'
<1>1. CASE ~(tracked = NoWorker /\ FirstPlace # "idle" /\ Open)
  BY <1>1 DEF Spawn, WorkersOK, OneLiveWorker
<1>2. CASE tracked = NoWorker /\ FirstPlace # "idle" /\ Open
  <2>1. PICK w \in Workers :
          /\ worker[w].at = "idle"
          /\ worker' = [worker EXCEPT ![w] = [at |-> FirstPlace, aborted |-> FALSE,
                                              seen |-> song.status]]
          /\ tracked' = w
    BY <1>2 DEF Spawn
  <2>2. FirstPlace \in Places \ {"idle"}
    BY <1>2 DEF FirstPlace, Places
  <2>3. song.status \in Statuses
    BY DEF RowOK, Row
  <2> HIDE DEF FirstPlace
  <2>4. worker' \in [Workers -> Worker] /\ tracked' \in Workers
    BY <2>1, <2>2, <2>3 DEF WorkersOK, Worker
  <2>5. OneLiveWorker'
    BY <1>2, <2>1, <2>2, WorkersAssumption DEF WorkersOK, OneLiveWorker, Worker
  <2> QED
    BY <2>4, <2>5 DEF WorkersOK
<1> QED
  BY <1>1, <1>2

\* A cancelled worker has no entry.
LEMMA CancelKeeps ==
  ASSUME WorkersOK, Cancel
  PROVE  WorkersOK'
<1>1. worker' \in [Workers -> Worker] /\ tracked' = NoWorker
  BY DEF WorkersOK, Cancel, Worker, Idle, Places, Statuses
<1>2. \A w \in Workers : worker'[w].at = "idle" \/ worker'[w].aborted
  BY DEF WorkersOK, OneLiveWorker, Cancel, Worker, Idle
<1>3. OneLiveWorker'
  BY <1>1, <1>2, WorkersAssumption DEF OneLiveWorker
<1> QED
  BY <1>1, <1>3 DEF WorkersOK
-------------------------------------------------------------------------------
\* The invariant holds initially.
LEMMA InitHolds ==
  ASSUME Init
  PROVE  IInv
<1>1. /\ song \in [ status : {"pending", "metadata_ready"}, retryCount : {0},
                     erroredAt : {"null"}, metadata : BOOLEAN, task : {FALSE},
                     path : {FALSE}, old : {{}} ]
      /\ events = <<song.status>>
  BY DEF Init
<1>a. 0 \in 0..MaxRetries
  BY BoundsAssumption
<1>b. song \in Row
  BY <1>1, <1>a DEF Row, Statuses
<1>c. song.status \in {"pending", "metadata_ready"}
  BY <1>1
<1>d. song.status \in Statuses \cup {"stop"}
  BY <1>c DEF Statuses
<1>e. events \in Seq(Statuses \cup {"stop"})
  BY <1>1, <1>d
<1>2. RowOK
  BY <1>b, <1>c, <1>e DEF RowOK
<1>3. WorkersOK
  BY WorkersAssumption DEF Init, WorkersOK, OneLiveWorker, Idle, Worker, Places, Statuses
<1>4. 0 \in 0..MaxLate /\ 0 \in 0..MaxCrashes /\ 0 \in 0..MaxReverts
  BY BoundsAssumption
<1>5. RestOK
  BY <1>4 DEF Init, RestOK
<1> QED
  BY <1>2, <1>3, <1>5 DEF IInv

\* A step of a worker keeps it.
LEMMA WorkerStep ==
  ASSUME IInv, NEW w \in Workers,
         Works(w) \/ LlmAnswers(w) \/ SubmitAnswers(w) \/ PollAnswers(w) \/ StoreAnswers(w)
  PROVE  IInv'
<1> USE DEF IInv
<1>1. CASE RevertMetadata(w)
  <2>1. RowOK'
    BY <1>1, RevertKeeps DEF RevertMetadata
  <2>2. WorkersOK'
    BY <1>1, GoesKeeps DEF RevertMetadata, Places
  <2> QED
    BY <1>1, <2>1, <2>2 DEF RevertMetadata, RestOK, environment, history
<1>2. CASE RevertAudio(w)
  <2>1. RowOK'
    BY <1>2, RevertKeeps DEF RevertAudio
  <2>2. WorkersOK'
    BY <1>2, GoesKeeps DEF RevertAudio, Places
  <2> QED
    BY <1>2, <2>1, <2>2 DEF RevertAudio, RestOK, environment, history
<1>3. CASE ClaimMetadata(w)
  <2>0. worker[w].at = "metadata" /\ UNCHANGED <<environment, history>>
    BY <1>3 DEF ClaimMetadata
  <2>1. CASE Ends(w) /\ UNCHANGED <<song, events>>
    BY <2>0, <2>1, EndsKeeps DEF RowOK, RestOK, environment, history
  <2>2. CASE SetStatus("generating_metadata") /\ Goes(w, "llm")
    <3>1. RowOK'
      BY <2>2, SetStatusKeeps DEF Statuses, InFlight
    <3>2. WorkersOK'
      BY <2>0, <2>2, GoesKeeps DEF Places
    <3> QED
      BY <2>0, <3>1, <3>2 DEF RestOK, environment, history
  <2>3. CASE Goes(w, "audio") /\ UNCHANGED <<song, events>>
    <3>1. WorkersOK'
      BY <2>0, <2>3, GoesKeeps DEF Places
    <3> QED
      BY <2>0, <2>3, <3>1 DEF RowOK, RestOK, environment, history
  <2> QED
    BY <1>3, <2>1, <2>2, <2>3 DEF ClaimMetadata
<1>4. CASE CompleteMetadata(w)
  <2> DEFINE row == [song EXCEPT !.status = "metadata_ready", !.metadata = TRUE]
  <2>1. row \in Row /\ row.status # "retry_pending" /\ Update(row)
    BY <1>4 DEF CompleteMetadata, RowOK, Row, Statuses
  <2> HIDE DEF row
  <2>2. RowOK'
    BY <2>1, UpdateKeeps
  <2>3. WorkersOK'
    <3>1. /\ worker[w].at = "llm" /\ tracked' = tracked
          /\ worker' = [worker EXCEPT ![w].at = "audio", ![w].seen = "metadata_ready"]
      BY <1>4 DEF CompleteMetadata
    <3>2. worker' \in [Workers -> Worker]
      BY <3>1 DEF WorkersOK, Worker, Places, Statuses
    <3>3. OneLiveWorker'
      BY <3>1 DEF WorkersOK, OneLiveWorker, Worker
    <3> QED
      BY <3>1, <3>2, <3>3 DEF WorkersOK
  <2> QED
    BY <1>4, <2>2, <2>3 DEF CompleteMetadata, RestOK, environment, history
<1>5. CASE LlmFails(w)
  BY <1>5, FailsKeeps DEF LlmFails, RestOK, environment, history
<1>6. CASE ClaimAudio(w)
  <2>0. /\ worker[w].at = "audio"
        /\ UNCHANGED <<environment, overtaken>>
    BY <1>6 DEF ClaimAudio
  <2>1. CASE Ends(w) /\ UNCHANGED <<song, events, submissions>>
    BY <2>0, <2>1, EndsKeeps DEF RowOK, RestOK, environment
  <2>2. CASE /\ SetStatus("submitting_to_ace")
             /\ Goes(w, "submitting")
             /\ submissions' = IF overtaken THEN submissions ELSE submissions + 1
    <3>1. RowOK'
      BY <2>2, SetStatusKeeps DEF Statuses, InFlight
    <3>2. WorkersOK'
      BY <2>0, <2>2, GoesKeeps DEF Places
    <3>3. submissions' \in Nat
      BY <2>2 DEF RestOK
    <3> QED
      BY <2>0, <3>1, <3>2, <3>3 DEF RestOK, environment
  <2> QED
    BY <1>6, <2>1, <2>2 DEF ClaimAudio
<1>7. CASE Submitted(w)
  <2>1. RowOK'
    BY <1>7, UpdateAceTaskKeeps DEF Submitted
  <2>2. WorkersOK'
    BY <1>7, GoesKeeps DEF Submitted, Places
  <2> QED
    BY <1>7, <2>1, <2>2 DEF Submitted, RestOK, environment, history
<1>8. CASE SubmitFails(w)
  BY <1>8, FailsKeeps DEF SubmitFails, RestOK, environment, history
<1>9. CASE AnsweredEarly(w)
  <2>1. RowOK'
    BY <1>9, RevertKeeps DEF AnsweredEarly
  <2>2. WorkersOK'
    BY <1>9, GoesKeeps DEF AnsweredEarly, Places
  <2>3. late' \in 0..MaxLate
    BY <1>9, BoundsAssumption DEF AnsweredEarly, RestOK
  <2> QED
    BY <1>9, <2>1, <2>2, <2>3 DEF AnsweredEarly, RestOK, history
<1>10. CASE PollSucceeds(w)
  <2>0. worker[w].at = "polling" /\ UNCHANGED <<environment, history>>
    BY <1>10 DEF PollSucceeds
  <2>1. CASE Goes(w, "record") /\ UNCHANGED <<song, events>>
    <3>1. WorkersOK'
      BY <2>0, <2>1, GoesKeeps DEF Places
    <3> QED
      BY <2>0, <2>1, <3>1 DEF RowOK, RestOK, environment, history
  <2>2. CASE SetStatus("saving") /\ Goes(w, "record")
    <3>1. RowOK'
      BY <2>2, SetStatusKeeps DEF Statuses, InFlight
    <3>2. WorkersOK'
      BY <2>0, <2>2, GoesKeeps DEF Places
    <3> QED
      BY <2>0, <3>1, <3>2 DEF RestOK, environment, history
  <2>3. CASE Fails(w)
    BY <2>0, <2>3, FailsKeeps DEF RestOK, environment, history
  <2> QED
    BY <1>10, <2>1, <2>2, <2>3 DEF PollSucceeds
<1>11. CASE PollIsEmpty(w)
  BY <1>11, EndsKeeps DEF PollIsEmpty, RowOK, RestOK, environment, history
<1>12. CASE PollFails(w)
  <2>1. RowOK'
    BY <1>12, RevertKeeps DEF PollFails
  <2>2. WorkersOK'
    BY <1>12, GoesKeeps DEF PollFails, Places
  <2> QED
    BY <1>12, <2>1, <2>2 DEF PollFails, RestOK, environment, history
<1>13. CASE Errored(w)
  BY <1>13, FailsKeeps DEF Errored, RestOK, environment, history
<1>14. CASE Resume(w)
  <2>0. worker[w].at = "resume" /\ UNCHANGED <<environment, history>>
    BY <1>14 DEF Resume
  <2>1. CASE Fails(w)
    BY <2>0, <2>1, FailsKeeps DEF RestOK, environment, history
  <2>2. CASE /\ SetStatus("generating_audio")
             /\ Goes(w, IF song.task THEN "polling" ELSE "revert_audio")
    <3>1. RowOK'
      BY <2>2, SetStatusKeeps DEF Statuses, InFlight
    <3>2. WorkersOK'
      BY <2>0, <2>2, GoesKeeps DEF Places
    <3> QED
      BY <2>0, <3>1, <3>2 DEF RestOK, environment, history
  <2> QED
    BY <1>14, <2>1, <2>2 DEF Resume
<1>15. CASE Record(w)
  <2>1. RowOK'
    BY <1>15 DEF Record, RowOK, Row, Exists
  <2>2. WorkersOK'
    BY <1>15, GoesKeeps DEF Record, Places
  <2> QED
    BY <1>15, <2>1, <2>2 DEF Record, RestOK, environment, history
<1>16. CASE Stored(w)
  <2>1. WorkersOK'
    BY <1>16, EndsKeeps DEF Stored
  <2>2. CASE worker[w].aborted
    <3>1. RowOK'
      BY <1>16, <2>2 DEF Stored, RowOK, Row, Exists
    <3> QED
      BY <1>16, <2>1, <3>1 DEF Stored, RestOK, environment, history
  <2>3. CASE ~worker[w].aborted
    <3> DEFINE row == [song EXCEPT !.path = TRUE, !.status = "ready"]
    <3>1. row \in Row /\ row.status # "retry_pending" /\ Update(row)
      BY <1>16, <2>3 DEF Stored, RowOK, Row, Statuses, Settled
    <3> HIDE DEF row
    <3>2. RowOK'
      BY <3>1, UpdateKeeps
    <3> QED
      BY <1>16, <2>1, <3>2 DEF Stored, RestOK, environment, history
  <2> QED
    BY <2>2, <2>3
<1>17. CASE StoreFails(w)
  BY <1>17, FailsKeeps DEF StoreFails, RestOK, environment, history
<1> QED
  BY <1>1, <1>2, <1>3, <1>4, <1>5, <1>6, <1>7, <1>8, <1>9, <1>10, <1>11, <1>12, <1>13,
     <1>14, <1>15, <1>16, <1>17
     DEF Works, LlmAnswers, SubmitAnswers, PollAnswers, StoreAnswers

\* So does the song actor.
LEMMA HandleStep ==
  ASSUME IInv, Handle
  PROVE  IInv'
<1> USE DEF IInv
<1>0. /\ events # <<>>
      /\ UNCHANGED <<question, phase, late, crashes, reverts, history>>
  BY DEF Handle
<1>1. Tail(events) \in Seq(Statuses \cup {"stop"})
  BY <1>0 DEF RowOK
<1>2. CASE HandleStop
  <2>0. <<>> \in Seq(Statuses \cup {"stop"})
    OBVIOUS
  <2>1. RowOK'
    BY <1>1, <1>2, <2>0 DEF HandleStop, RowOK
  <2>2. WorkersOK'
    BY <1>2, CancelKeeps DEF HandleStop
  <2> QED
    BY <1>0, <1>2, <2>1, <2>2 DEF HandleStop, RestOK, history
<1>3. CASE HandleActionable
  <2>1. RowOK'
    BY <1>1, <1>3 DEF HandleActionable, RowOK
  <2>2. WorkersOK'
    BY <1>3, SpawnKeeps DEF HandleActionable
  <2> QED
    BY <1>0, <1>3, <2>1, <2>2 DEF HandleActionable, RestOK, history
<1>4. CASE HandleRetry
  <2>1. RowOK'
    <3>1. CASE song.status = "retry_pending"
      <4>1. /\ Retried \in Row
            /\ Retried.status = RetryFrom
            /\ RetryFrom \in Statuses \ {"retry_pending"}
        BY <3>1, RetriedRow
      <4>2. Heard(RetryFrom) \in Seq(Statuses \cup {"stop"})
        BY <4>1, HeardType
      <4>3. song' = Retried /\ events' = Tail(events) \o Heard(RetryFrom)
        BY <1>4, <3>1 DEF HandleRetry
      <4>4. events' \in Seq(Statuses \cup {"stop"})
        BY <1>1, <4>2, <4>3
      <4> QED
        BY <4>1, <4>3, <4>4 DEF RowOK
    <3>2. CASE song.status # "retry_pending"
      BY <1>1, <1>4, <3>2 DEF HandleRetry, RowOK
    <3> QED
      BY <3>1, <3>2
  <2>2. WorkersOK'
    BY <1>4 DEF HandleRetry, WorkersOK, OneLiveWorker
  <2> QED
    BY <1>0, <1>4, <2>1, <2>2 DEF HandleRetry, RestOK, history
<1>5. CASE HandleEnd
  <2>1. RowOK'
    BY <1>1, <1>5 DEF HandleEnd, RowOK
  <2>2. WorkersOK'
    <3>1. CASE UNCHANGED <<worker, tracked>>
      BY <3>1 DEF WorkersOK, OneLiveWorker
    <3>2. CASE Cancel
      BY <3>2, CancelKeeps
    <3> QED
      BY <1>5, <3>1, <3>2 DEF HandleEnd
  <2>3. playlist' \in {"active", "closing", "closed"}
    BY <1>5 DEF HandleEnd, RestOK
  <2> QED
    BY <1>0, <2>1, <2>2, <2>3 DEF RestOK, history
<1> QED
  BY <1>2, <1>3, <1>4, <1>5 DEF Handle

\* So do the playlist, the director, users and time.
LEMMA OutsideStep ==
  ASSUME IInv,
         \/ LateSubmitted \/ PlaylistUpdated \/ AskQuestion \/ AnswerQuestion
         \/ StartClosing \/ Reactivate \/ CloseNow \/ HandleClosed
         \/ UserRevert \/ UserDelete \/ UserPlayed \/ Ages \/ StaleCleanup
  PROVE  IInv'
<1> USE DEF IInv
<1>0. Gone \in Row /\ Gone.status = "deleted"
  BY BoundsAssumption DEF Gone, Row, Statuses, Settled
<1>1. CASE LateSubmitted
  <2>1. RowOK'
    <3>1. CASE UpdateAceTask
      BY <3>1, UpdateAceTaskKeeps
    <3>2. CASE UNCHANGED <<song, events, overtaken>>
      BY <3>2 DEF RowOK
    <3> QED
      BY <1>1, <3>1, <3>2 DEF LateSubmitted
  <2>2. WorkersOK'
    BY <1>1 DEF LateSubmitted, WorkersOK, OneLiveWorker
  <2>3. late' \in 0..MaxLate
    BY <1>1, BoundsAssumption DEF LateSubmitted, RestOK
  <2>4. overtaken' \in BOOLEAN
    <3>1. overtaken' = TRUE \/ overtaken' = overtaken
      BY <1>1 DEF LateSubmitted
    <3> QED
      BY <3>1 DEF RestOK
  <2> QED
    BY <1>1, <2>1, <2>2, <2>3, <2>4 DEF LateSubmitted, RestOK
<1>2. CASE PlaylistUpdated
  <2>1. WorkersOK'
    BY <1>2, SpawnKeeps DEF PlaylistUpdated
  <2> QED
    BY <1>2, <2>1 DEF PlaylistUpdated, RowOK, RestOK, environment, history
<1>3. CASE AskQuestion
  BY <1>3 DEF AskQuestion, RowOK, WorkersOK, OneLiveWorker, RestOK, history
<1>4. CASE AnswerQuestion
  <2>1. WorkersOK'
    BY <1>4, SpawnKeeps DEF AnswerQuestion
  <2> QED
    BY <1>4, <2>1 DEF AnswerQuestion, RowOK, RestOK, history
<1>5. CASE StartClosing
  <2>1. WorkersOK'
    <3>1. CASE Spawn
      BY <3>1, SpawnKeeps
    <3>2. CASE Cancel
      BY <3>2, CancelKeeps
    <3> QED
      BY <1>5, <3>1, <3>2 DEF StartClosing
  <2> QED
    BY <1>5, <2>1 DEF StartClosing, RowOK, RestOK, history
<1>6. CASE Reactivate
  <2>1. WorkersOK'
    BY <1>6, SpawnKeeps DEF Reactivate
  <2> QED
    BY <1>6, <2>1 DEF Reactivate, RowOK, RestOK, history
<1>7. CASE CloseNow
  BY <1>7 DEF CloseNow, RowOK, WorkersOK, OneLiveWorker, RestOK, history
<1>8. CASE HandleClosed
  <2>1. WorkersOK'
    BY <1>8, CancelKeeps DEF HandleClosed
  <2> QED
    BY <1>8, <2>1 DEF HandleClosed, RowOK, RestOK, environment, history
<1>9. CASE UserRevert
  <2>1. RowOK'
    BY <1>9, RevertKeeps DEF UserRevert
  <2>2. reverts' \in 0..MaxReverts
    BY <1>9, BoundsAssumption DEF UserRevert, RestOK
  <2> QED
    BY <1>9, <2>1, <2>2 DEF UserRevert, WorkersOK, OneLiveWorker, RestOK, history
<1>10. CASE UserDelete
  BY <1>0, <1>10 DEF UserDelete, RowOK, WorkersOK, OneLiveWorker, RestOK, environment, history
<1>11. CASE UserPlayed
  <2>1. RowOK'
    BY <1>11, SetStatusKeeps DEF UserPlayed, Statuses, Settled
  <2> QED
    BY <1>11, <2>1 DEF UserPlayed, WorkersOK, OneLiveWorker, RestOK, environment, history
<1>12. CASE Ages
  <2>1. RowOK'
    BY <1>12 DEF Ages, RowOK, Row
  <2> QED
    BY <1>12, <2>1 DEF Ages, WorkersOK, OneLiveWorker, RestOK, environment, history
<1>13. CASE StaleCleanup
  <2>1. WorkersOK'
    BY <1>13, CancelKeeps DEF StaleCleanup
  <2> QED
    BY <1>0, <1>13, <2>1 DEF StaleCleanup, RowOK, RestOK, environment, history
<1> QED
  BY <1>1, <1>2, <1>3, <1>4, <1>5, <1>6, <1>7, <1>8, <1>9, <1>10, <1>11, <1>12, <1>13

\* So do a crash and the startup after it.
LEMMA ServerStep ==
  ASSUME IInv, Crash \/ Restart \/ Reconcile \/ Sweep
  PROVE  IInv'
<1> USE DEF IInv
<1>1. CASE Crash
  <2>1. WorkersOK'
    BY <1>1, WorkersAssumption
       DEF Crash, WorkersOK, OneLiveWorker, Idle, Worker, Places, Statuses
  <2>2. crashes' \in 0..MaxCrashes /\ late' \in 0..MaxLate
    BY <1>1, BoundsAssumption DEF Crash, RestOK
  <2>3. RowOK'
    BY <1>1 DEF Crash, RowOK
  <2> QED
    BY <1>1, <2>1, <2>2, <2>3 DEF Crash, RestOK, history
<1>2. CASE Restart
  BY <1>2 DEF Restart, RowOK, WorkersOK, OneLiveWorker, RestOK, history
<1>3. CASE Reconcile
  <2>1. RowOK'
    <3>1. CASE UNCHANGED <<song, events>>
      BY <3>1 DEF RowOK
    <3>2. CASE RevertTransient
      BY <3>2, RevertKeeps
    <3> QED
      BY <1>3, <3>1, <3>2 DEF Reconcile
  <2> QED
    BY <1>3, <2>1 DEF Reconcile, WorkersOK, OneLiveWorker, RestOK, history
<1>4. CASE Sweep
  <2>0. Gone \in Row /\ Gone.status = "deleted"
    BY BoundsAssumption DEF Gone, Row, Statuses, Settled
  <2>1. playlist' \in {"active", "closing", "closed"}
    BY <1>4 DEF Sweep, RestOK
  <2>2. RowOK' /\ WorkersOK'
    <3>1. CASE UNCHANGED <<song, events, worker, tracked>>
      BY <3>1 DEF RowOK, WorkersOK, OneLiveWorker
    <3>2. CASE Spawn /\ UNCHANGED <<song, events>>
      BY <3>2, SpawnKeeps DEF RowOK
    <3>3. CASE song' = Gone /\ UNCHANGED <<events, worker, tracked>>
      BY <2>0, <3>3 DEF RowOK, WorkersOK, OneLiveWorker
    <3>4. CASE song.status = "retry_pending" /\ Update(Retried) /\ UNCHANGED <<worker, tracked>>
      <4>1. Retried \in Row /\ Retried.status # "retry_pending"
        BY <3>4, RetriedRow
      <4>2. RowOK'
        BY <3>4, <4>1, UpdateKeeps
      <4> QED
        BY <3>4, <4>2 DEF WorkersOK, OneLiveWorker
    <3> QED
      BY <1>4, <3>1, <3>2, <3>3, <3>4 DEF Sweep
  <2> QED
    BY <1>4, <2>1, <2>2 DEF Sweep, RestOK, history
<1> QED
  BY <1>1, <1>2, <1>3, <1>4

\* Every step keeps the invariant.
LEMMA NextHolds ==
  ASSUME IInv, [Next]_vars
  PROVE  IInv'
<1>1. CASE UNCHANGED vars
  BY <1>1 DEF vars, IInv, RowOK, WorkersOK, OneLiveWorker, RestOK
<1>2. CASE Next
  BY <1>2, WorkerStep, HandleStep, OutsideStep, ServerStep DEF Next
<1> QED
  BY <1>1, <1>2

\* The inductive invariant always holds.
THEOREM Invariance == Spec => []IInv
BY InitHolds, NextHolds, PTL DEF Spec

\* The row, the workers and the counters have their types in every reachable
\* state; above all, retryErrored never counts a fourth retry.
THEOREM TypeCorrect == Spec => []TypeOK
<1>1. IInv => TypeOK
  BY DEF IInv, RowOK, WorkersOK, RestOK, TypeOK
<1> QED
  BY <1>1, Invariance, PTL

\* songWorkers names the one worker that is alive and not cancelled.
THEOREM OneWorkerAtATime == Spec => []OneLiveWorker
<1>1. IInv => OneLiveWorker
  BY DEF IInv, WorkersOK
<1> QED
  BY <1>1, Invariance, PTL
-------------------------------------------------------------------------------
\* A song that is ready has no live worker, which is why nobody takes it back:
\* what a cancelled worker still does to the row is refused or has no effect.
\* The other conjunct says that no cancelled worker waits for the LLM or for a
\* submission, whose answers are written whatever the row is by then.
Ready == {"ready", "played"}

ReadyInv ==
    /\ \A w \in Workers : worker[w].at \in {"llm", "submitting"} => ~worker[w].aborted
    /\ song.status \in Ready /\ ~overtaken => tracked = NoWorker

ReadyStep ==
    song.status \in Ready /\ ~overtaken' => song'.status \in {song.status, "played", "deleted"}

\* No worker that is alive and not cancelled meets a song that is ready.
LEMMA LiveMeetsNoReady ==
  ASSUME IInv, ReadyInv, NEW w \in Workers, worker[w].at # "idle", ~worker[w].aborted
  PROVE  tracked = w /\ (song.status \notin Ready \/ overtaken)
<1>1. tracked = w
  BY DEF IInv, WorkersOK, OneLiveWorker
<1> QED
  BY <1>1, WorkersAssumption DEF ReadyInv

\* revertTransient() neither makes a song ready nor takes it back.
LEMMA RevertAndReady ==
  ASSUME RowOK, RevertTransient
  PROVE  /\ song.status \in Ready => song'.status = song.status
         /\ song'.status \in Ready => song.status \in Ready
<1>1. /\ song.status \in Ready => Reverted.status = song.status
      /\ Reverted.status \in Ready => song.status \in Ready
  BY DEF Reverted, Ready, RowOK, Row, InFlight
<1>2. song' = Reverted \/ song' = song
  BY DEF RevertTransient, Update
<1> QED
  BY <1>1, <1>2

\* Neither does an update to another status make it ready.
LEMMA UpdateAndReady ==
  ASSUME NEW row, Update(row), row.status \notin Ready
  PROVE  song'.status \notin Ready
BY DEF Update, Exists, Ready

\* A worker that ends leaves no worker that was not there.
LEMMA EndsAndWaiting ==
  ASSUME IInv, ReadyInv, NEW w \in Workers, Ends(w)
  PROVE  /\ \A v \in Workers :
               worker'[v].at \in {"llm", "submitting"} => ~worker'[v].aborted
         /\ tracked' \in {tracked, NoWorker}
         /\ tracked = w => tracked' = NoWorker
<1>1. worker \in [Workers -> Worker]
  BY DEF IInv, WorkersOK
<1> QED
  BY <1>1 DEF Ends, Idle, ReadyInv

LEMMA GoesAndWaiting ==
  ASSUME IInv, ReadyInv, NEW w \in Workers, NEW place, Goes(w, place),
         place \in {"llm", "submitting"} => ~worker[w].aborted
  PROVE  /\ \A v \in Workers :
               worker'[v].at \in {"llm", "submitting"} => ~worker'[v].aborted
         /\ tracked' = tracked
<1>1. worker \in [Workers -> Worker]
  BY DEF IInv, WorkersOK
<1> QED
  BY <1>1 DEF Goes, ReadyInv, Worker

LEMMA FailsAndReady ==
  ASSUME IInv, ReadyInv, NEW w \in Workers, worker[w].at # "idle", Fails(w),
         overtaken' = overtaken
  PROVE  ReadyInv' /\ ReadyStep
<1>1. /\ \A v \in Workers : worker'[v].at \in {"llm", "submitting"} => ~worker'[v].aborted
      /\ tracked' \in {tracked, NoWorker}
  BY EndsAndWaiting DEF Fails
<1>2. CASE worker[w].aborted
  BY <1>1, <1>2 DEF Fails, ReadyInv, ReadyStep
<1>3. CASE ~worker[w].aborted
  <2>1. song.status \notin Ready \/ overtaken
    BY <1>3, LiveMeetsNoReady
  <2>2. song'.status \notin Ready
    <3> DEFINE row == [song EXCEPT
                         !.status = IF song.retryCount < MaxRetries THEN "retry_pending"
                                    ELSE "error",
                         !.erroredAt = song.status]
    <3>1. row.status \notin Ready
      BY DEF IInv, RowOK, Row, Ready
    <3>2. Update(row)
      BY <1>3 DEF Fails, MarkError
    <3> HIDE DEF row
    <3> QED
      BY <3>1, <3>2, UpdateAndReady
  <2> QED
    BY <1>1, <2>1, <2>2 DEF ReadyInv, ReadyStep
<1> QED
  BY <1>2, <1>3

LEMMA SpawnAndReady ==
  ASSUME IInv, ReadyInv, Spawn
  PROVE  /\ \A v \in Workers :
               worker'[v].at \in {"llm", "submitting"} => ~worker'[v].aborted
         /\ song.status \in Ready => tracked' = tracked
<1>1. worker \in [Workers -> Worker]
  BY DEF IInv, WorkersOK
<1>2. FirstPlace \notin {"llm", "submitting"} /\ (song.status \in Ready => FirstPlace = "idle")
  BY DEF FirstPlace, Ready
<1> HIDE DEF FirstPlace
<1> QED
  BY <1>1, <1>2 DEF Spawn, ReadyInv

LEMMA CancelAndReady ==
  ASSUME IInv, ReadyInv, Cancel
  PROVE  /\ \A v \in Workers :
               worker'[v].at \in {"llm", "submitting"} => ~worker'[v].aborted
         /\ tracked' = NoWorker
<1>1. worker \in [Workers -> Worker]
  BY DEF IInv, WorkersOK
<1> QED
  BY <1>1 DEF Cancel, Idle, ReadyInv, Worker

\* A song that is ready is refused every update of the pipeline.
LEMMA ReadyRefuses ==
  ASSUME RowOK, NEW to \in {"saving", "generating_audio"}, song.status \in Ready
  PROVE  Refused(to)
BY DEF RowOK, Ready, Refused, Exists, Allowed

LEMMA SetStatusAndReady ==
  ASSUME RowOK, NEW s, s \notin Ready, SetStatus(s)
  PROVE  song'.status \notin Ready
<1> DEFINE row == [song EXCEPT !.status = s]
<1>1. row.status = s /\ Update(row)
  BY DEF RowOK, Row, SetStatus
<1> HIDE DEF row
<1> QED
  BY <1>1, UpdateAndReady

\* A worker's step does not take back a song that is ready, and a worker that
\* makes it ready is gone with the same step.
LEMMA WorkerAndReady ==
  ASSUME IInv, ReadyInv, NEW w \in Workers,
         Works(w) \/ LlmAnswers(w) \/ SubmitAnswers(w) \/ PollAnswers(w) \/ StoreAnswers(w)
  PROVE  ReadyInv' /\ ReadyStep
<1>0. RowOK
  BY DEF IInv
<1>1. CASE RevertMetadata(w)
  <2>1. /\ song.status \in Ready => song'.status = song.status
        /\ song'.status \in Ready => song.status \in Ready
    BY <1>0, <1>1, RevertAndReady DEF RevertMetadata
  <2>2. /\ \A v \in Workers : worker'[v].at \in {"llm", "submitting"} => ~worker'[v].aborted
        /\ tracked' = tracked
    BY <1>1, GoesAndWaiting DEF RevertMetadata
  <2> QED
    BY <1>1, <2>1, <2>2 DEF RevertMetadata, ReadyInv, ReadyStep, history
<1>2. CASE RevertAudio(w)
  <2>1. /\ song.status \in Ready => song'.status = song.status
        /\ song'.status \in Ready => song.status \in Ready
    BY <1>0, <1>2, RevertAndReady DEF RevertAudio
  <2>2. /\ \A v \in Workers : worker'[v].at \in {"llm", "submitting"} => ~worker'[v].aborted
        /\ tracked' = tracked
    BY <1>2, GoesAndWaiting DEF RevertAudio
  <2> QED
    BY <1>2, <2>1, <2>2 DEF RevertAudio, ReadyInv, ReadyStep, history
<1>3. CASE ClaimMetadata(w)
  <2>1. CASE Ends(w) /\ UNCHANGED <<song, events>>
    <3>1. overtaken' = overtaken
      BY <1>3 DEF ClaimMetadata, history
    <3> QED
      BY <2>1, <3>1, EndsAndWaiting DEF ReadyInv, ReadyStep
  <2>2. CASE SetStatus("generating_metadata") /\ Goes(w, "llm") /\ ~worker[w].aborted
             /\ song.status = "pending"
    <3>1. song'.status \notin Ready
      BY <1>0, <2>2, SetStatusAndReady DEF Ready
    <3>2. \A v \in Workers : worker'[v].at \in {"llm", "submitting"} => ~worker'[v].aborted
      BY <2>2, GoesAndWaiting
    <3> QED
      BY <2>2, <3>1, <3>2 DEF ReadyInv, ReadyStep, Ready
  <2>3. CASE Goes(w, "audio") /\ UNCHANGED <<song, events>>
    <3>1. overtaken' = overtaken
      BY <1>3 DEF ClaimMetadata, history
    <3>2. /\ \A v \in Workers :
                 worker'[v].at \in {"llm", "submitting"} => ~worker'[v].aborted
          /\ tracked' = tracked
      BY <2>3, GoesAndWaiting
    <3> QED
      BY <2>3, <3>1, <3>2 DEF ReadyInv, ReadyStep
  <2> QED
    BY <1>3, <2>1, <2>2, <2>3 DEF ClaimMetadata
<1>4. CASE CompleteMetadata(w)
  <2>1. song.status \notin Ready \/ overtaken
    BY <1>4, LiveMeetsNoReady DEF CompleteMetadata, ReadyInv
  <2> DEFINE row == [song EXCEPT !.status = "metadata_ready", !.metadata = TRUE]
  <2>2. row.status \notin Ready /\ Update(row)
    BY <1>0, <1>4 DEF CompleteMetadata, RowOK, Row, Ready
  <2> HIDE DEF row
  <2>3. song'.status \notin Ready
    BY <2>2, UpdateAndReady
  <2>4. worker \in [Workers -> Worker]
    BY DEF IInv, WorkersOK
  <2>5. \A v \in Workers : worker'[v].at \in {"llm", "submitting"} => ~worker'[v].aborted
    BY <1>4, <2>4 DEF CompleteMetadata, ReadyInv, Worker
  <2> QED
    BY <1>4, <2>1, <2>3, <2>5 DEF CompleteMetadata, ReadyInv, ReadyStep, history
<1>5. CASE LlmFails(w)
  BY <1>5, FailsAndReady DEF LlmFails, history
<1>6. CASE ClaimAudio(w)
  <2>0. overtaken' = overtaken
    BY <1>6 DEF ClaimAudio
  <2>1. CASE Ends(w) /\ UNCHANGED song
    BY <2>0, <2>1, EndsAndWaiting DEF ReadyInv, ReadyStep
  <2>2. CASE SetStatus("submitting_to_ace") /\ Goes(w, "submitting") /\ ~worker[w].aborted
             /\ song.status = "metadata_ready"
    <3>1. song'.status \notin Ready
      BY <1>0, <2>2, SetStatusAndReady DEF Ready
    <3>2. \A v \in Workers : worker'[v].at \in {"llm", "submitting"} => ~worker'[v].aborted
      BY <2>2, GoesAndWaiting
    <3> QED
      BY <2>2, <3>1, <3>2 DEF ReadyInv, ReadyStep, Ready
  <2> QED
    BY <1>6, <2>1, <2>2 DEF ClaimAudio
<1>7. CASE Submitted(w)
  <2>1. song.status \notin Ready \/ overtaken
    BY <1>7, LiveMeetsNoReady DEF Submitted, ReadyInv
  <2> DEFINE row == [song EXCEPT !.status = "generating_audio", !.task = TRUE,
                                 !.old = @ \ {"submit"}]
  <2>2. row.status \notin Ready /\ Update(row)
    BY <1>0, <1>7 DEF Submitted, UpdateAceTask, RowOK, Row, Ready
  <2> HIDE DEF row
  <2>3. song'.status \notin Ready
    BY <2>2, UpdateAndReady
  <2>4. \A v \in Workers : worker'[v].at \in {"llm", "submitting"} => ~worker'[v].aborted
    BY <1>7, GoesAndWaiting DEF Submitted
  <2> QED
    BY <1>7, <2>1, <2>3, <2>4 DEF Submitted, ReadyInv, ReadyStep, history
<1>8. CASE SubmitFails(w)
  BY <1>8, FailsAndReady DEF SubmitFails, history
<1>9. CASE AnsweredEarly(w)
  <2>1. /\ song.status \in Ready => song'.status = song.status
        /\ song'.status \in Ready => song.status \in Ready
    BY <1>0, <1>9, RevertAndReady DEF AnsweredEarly
  <2>2. /\ \A v \in Workers : worker'[v].at \in {"llm", "submitting"} => ~worker'[v].aborted
        /\ tracked' = tracked
    BY <1>9, GoesAndWaiting DEF AnsweredEarly
  <2> QED
    BY <1>9, <2>1, <2>2 DEF AnsweredEarly, ReadyInv, ReadyStep, history
<1>10. CASE PollSucceeds(w)
  <2>0. overtaken' = overtaken /\ worker[w].at = "polling"
    BY <1>10 DEF PollSucceeds, history
  <2>1. CASE Goes(w, "record") /\ UNCHANGED <<song, events>>
    <3>1. /\ \A v \in Workers :
                 worker'[v].at \in {"llm", "submitting"} => ~worker'[v].aborted
          /\ tracked' = tracked
      BY <2>1, GoesAndWaiting
    <3> QED
      BY <2>0, <2>1, <3>1 DEF ReadyInv, ReadyStep
  <2>2. CASE ~Refused("saving") /\ SetStatus("saving") /\ Goes(w, "record")
    <3>1. song.status \notin Ready
      BY <1>0, <2>2, ReadyRefuses
    <3>2. song'.status \notin Ready
      BY <1>0, <2>2, SetStatusAndReady DEF Ready
    <3>3. \A v \in Workers : worker'[v].at \in {"llm", "submitting"} => ~worker'[v].aborted
      BY <2>2, GoesAndWaiting
    <3> QED
      BY <3>1, <3>2, <3>3 DEF ReadyInv, ReadyStep
  <2>3. CASE Fails(w)
    BY <2>0, <2>3, FailsAndReady
  <2> QED
    BY <1>10, <2>1, <2>2, <2>3 DEF PollSucceeds
<1>11. CASE PollIsEmpty(w)
  <2>1. /\ \A v \in Workers : worker'[v].at \in {"llm", "submitting"} => ~worker'[v].aborted
        /\ tracked' \in {tracked, NoWorker}
    BY <1>11, EndsAndWaiting DEF PollIsEmpty
  <2> QED
    BY <1>11, <2>1 DEF PollIsEmpty, ReadyInv, ReadyStep, history
<1>12. CASE PollFails(w)
  <2>1. /\ song.status \in Ready => song'.status = song.status
        /\ song'.status \in Ready => song.status \in Ready
    BY <1>0, <1>12, RevertAndReady DEF PollFails
  <2>2. /\ \A v \in Workers : worker'[v].at \in {"llm", "submitting"} => ~worker'[v].aborted
        /\ tracked' = tracked
    BY <1>12, GoesAndWaiting DEF PollFails
  <2> QED
    BY <1>12, <2>1, <2>2 DEF PollFails, ReadyInv, ReadyStep, history
<1>13. CASE Errored(w)
  BY <1>13, FailsAndReady DEF Errored, history
<1>14. CASE Resume(w)
  <2>0. overtaken' = overtaken /\ worker[w].at = "resume"
    BY <1>14 DEF Resume, history
  <2>1. CASE Fails(w)
    BY <2>0, <2>1, FailsAndReady
  <2>2. CASE /\ ~Refused("generating_audio") /\ SetStatus("generating_audio")
             /\ Goes(w, IF song.task THEN "polling" ELSE "revert_audio")
    <3>1. song.status \notin Ready
      BY <1>0, <2>2, ReadyRefuses
    <3>2. song'.status \notin Ready
      BY <1>0, <2>2, SetStatusAndReady DEF Ready
    <3>3. \A v \in Workers : worker'[v].at \in {"llm", "submitting"} => ~worker'[v].aborted
      BY <2>2, GoesAndWaiting
    <3> QED
      BY <3>1, <3>2, <3>3 DEF ReadyInv, ReadyStep
  <2> QED
    BY <1>14, <2>1, <2>2 DEF Resume
<1>15. CASE Record(w)
  <2>1. song'.status = song.status
    BY <1>0, <1>15 DEF Record, RowOK, Row
  <2>2. /\ \A v \in Workers : worker'[v].at \in {"llm", "submitting"} => ~worker'[v].aborted
        /\ tracked' = tracked
    BY <1>15, GoesAndWaiting DEF Record
  <2> QED
    BY <1>15, <2>1, <2>2 DEF Record, ReadyInv, ReadyStep, history
<1>16. CASE Stored(w)
  <2>1. /\ \A v \in Workers : worker'[v].at \in {"llm", "submitting"} => ~worker'[v].aborted
        /\ tracked' \in {tracked, NoWorker}
        /\ tracked = w => tracked' = NoWorker
    BY <1>16, EndsAndWaiting DEF Stored
  <2>2. CASE worker[w].aborted
    <3>1. song'.status = song.status
      BY <1>0, <1>16, <2>2 DEF Stored, RowOK, Row
    <3> QED
      BY <1>16, <2>1, <3>1 DEF Stored, ReadyInv, ReadyStep, history
  <2>3. CASE ~worker[w].aborted
    <3>1. tracked = w /\ (song.status \notin Ready \/ overtaken)
      BY <1>16, <2>3, LiveMeetsNoReady DEF Stored
    <3> QED
      BY <1>16, <2>1, <3>1 DEF Stored, ReadyInv, ReadyStep, history
  <2> QED
    BY <2>2, <2>3
<1>17. CASE StoreFails(w)
  BY <1>17, FailsAndReady DEF StoreFails, history
<1> QED
  BY <1>1, <1>2, <1>3, <1>4, <1>5, <1>6, <1>7, <1>8, <1>9, <1>10, <1>11, <1>12, <1>13,
     <1>14, <1>15, <1>16, <1>17
     DEF Works, LlmAnswers, SubmitAnswers, PollAnswers, StoreAnswers

\* Nor does anybody else, a submission that was answered late apart.
LEMMA OthersAndReady ==
  ASSUME IInv, ReadyInv,
         \/ LateSubmitted \/ Handle \/ PlaylistUpdated \/ AskQuestion \/ AnswerQuestion
         \/ StartClosing \/ Reactivate \/ CloseNow \/ HandleClosed
         \/ UserRevert \/ UserDelete \/ UserPlayed \/ Ages \/ StaleCleanup
         \/ Crash \/ Restart \/ Reconcile \/ Sweep
  PROVE  ReadyInv' /\ ReadyStep
<1>0. RowOK /\ Gone.status = "deleted"
  BY DEF IInv, Gone
<1> DEFINE Waiting == \A v \in Workers :
                        worker'[v].at \in {"llm", "submitting"} => ~worker'[v].aborted
           SameStatus == /\ song.status \in Ready => song'.status = song.status
                         /\ song'.status \in Ready => song.status \in Ready
<1>a. ASSUME UNCHANGED <<worker, tracked>>
      PROVE  Waiting /\ tracked' = tracked
  BY <1>a DEF ReadyInv
<1>b. ASSUME Waiting, SameStatus, overtaken' = overtaken,
             \/ tracked' \in {tracked, NoWorker}
             \/ song.status \in Ready => tracked' = tracked
      PROVE  ReadyInv' /\ ReadyStep
  BY <1>b DEF ReadyInv, ReadyStep
<1>c. ASSUME UNCHANGED song PROVE SameStatus
  BY <1>c
<1>d. ASSUME song'.status \in {"deleted", "played"}, song.status \notin Ready => song'.status = "deleted",
             Waiting, tracked' \in {tracked, NoWorker}, overtaken' = overtaken
      PROVE  ReadyInv' /\ ReadyStep
  BY <1>d DEF ReadyInv, ReadyStep, Ready
<1>s. ASSUME Spawn
      PROVE  Waiting /\ (song.status \in Ready => tracked' = tracked)
  BY <1>s, SpawnAndReady
<1>k. ASSUME Cancel
      PROVE  Waiting /\ tracked' = NoWorker
  BY <1>k, CancelAndReady
<1>r. ASSUME RevertTransient
      PROVE  SameStatus
  BY <1>0, <1>r, RevertAndReady
<1> HIDE DEF Waiting, SameStatus
<1>1. CASE LateSubmitted
  <2>1. Waiting /\ tracked' = tracked
    BY <1>1, <1>a DEF LateSubmitted
  <2>2. CASE overtaken' = TRUE
    BY <2>1, <2>2 DEF ReadyInv, ReadyStep, Waiting
  <2>3. CASE UNCHANGED <<song, events, overtaken>>
    BY <2>1, <2>3, <1>b, <1>c
  <2> QED
    BY <1>1, <2>2, <2>3 DEF LateSubmitted
<1>2. CASE Handle
  <2>0. overtaken' = overtaken
    BY <1>2 DEF Handle, history
  <2>1. CASE HandleStop
    BY <2>0, <2>1, <1>b, <1>c, <1>k DEF HandleStop
  <2>2. CASE HandleActionable
    BY <2>0, <2>2, <1>b, <1>c, <1>s DEF HandleActionable
  <2>3. CASE HandleRetry
    <3>1. Waiting /\ tracked' = tracked
      BY <2>3, <1>a DEF HandleRetry
    <3>2. SameStatus
      <4>1. CASE song.status = "retry_pending"
        <5>1. Retried.status = RetryFrom
          BY <1>0, <4>1, RetriedRow
        <5>2. song.status \notin Ready /\ RetryFrom \notin Ready
          BY <4>1 DEF RetryFrom, Ready
        <5> QED
          BY <2>3, <4>1, <5>1, <5>2 DEF HandleRetry, SameStatus
      <4>2. CASE song.status # "retry_pending"
        BY <2>3, <4>2, <1>c DEF HandleRetry
      <4> QED
        BY <4>1, <4>2
    <3> QED
      BY <2>0, <3>1, <3>2, <1>b
  <2>4. CASE HandleEnd
    BY <2>0, <2>4, <1>a, <1>b, <1>c, <1>k DEF HandleEnd
  <2> QED
    BY <1>2, <2>1, <2>2, <2>3, <2>4 DEF Handle
<1>3. CASE PlaylistUpdated
  BY <1>3, <1>b, <1>c, <1>s DEF PlaylistUpdated, history
<1>4. CASE AskQuestion
  BY <1>4, <1>a, <1>b, <1>c DEF AskQuestion, history
<1>5. CASE AnswerQuestion
  BY <1>5, <1>b, <1>c, <1>s DEF AnswerQuestion, history
<1>6. CASE StartClosing
  BY <1>6, <1>b, <1>c, <1>k, <1>s DEF StartClosing, history
<1>7. CASE Reactivate
  BY <1>7, <1>b, <1>c, <1>s DEF Reactivate, history
<1>8. CASE CloseNow
  BY <1>8, <1>a, <1>b, <1>c DEF CloseNow, history
<1>9. CASE HandleClosed
  BY <1>9, <1>b, <1>c, <1>k DEF HandleClosed, history
<1>10. CASE UserRevert
  BY <1>10, <1>a, <1>b, <1>r DEF UserRevert, history
<1>11. CASE UserDelete
  BY <1>0, <1>11, <1>a, <1>d DEF UserDelete, history
<1>12. CASE UserPlayed
  <2>1. song'.status = "played" /\ song.status = "ready"
    BY <1>0, <1>12 DEF UserPlayed, SetStatus, Update, Exists, RowOK, Row
  <2>2. overtaken' = overtaken
    BY <1>12 DEF UserPlayed, history
  <2> QED
    BY <1>12, <2>1, <2>2, <1>a, <1>d DEF UserPlayed, Ready
<1>13. CASE Ages
  <2>1. song'.status = song.status
    BY <1>0, <1>13 DEF Ages, RowOK, Row
  <2> QED
    BY <1>13, <2>1, <1>a, <1>b DEF Ages, history, SameStatus
<1>14. CASE StaleCleanup
  BY <1>0, <1>14, <1>d, <1>k DEF StaleCleanup, history
<1>15. CASE Crash
  <2>1. Waiting /\ tracked' = NoWorker
    BY <1>15 DEF Crash, Idle, Waiting
  <2> QED
    BY <1>15, <2>1, <1>b, <1>c DEF Crash, history
<1>16. CASE Restart
  BY <1>16, <1>a, <1>b, <1>c DEF Restart, history
<1>17. CASE Reconcile
  BY <1>17, <1>a, <1>b, <1>c, <1>r DEF Reconcile, history
<1>18. CASE Sweep
  <2>0. overtaken' = overtaken
    BY <1>18 DEF Sweep, history
  <2>1. CASE UNCHANGED <<song, events, worker, tracked>>
    BY <2>0, <2>1, <1>a, <1>b, <1>c
  <2>2. CASE Spawn /\ UNCHANGED <<song, events>>
    BY <2>0, <2>2, <1>b, <1>c, <1>s
  <2>3. CASE song' = Gone /\ UNCHANGED <<events, worker, tracked>>
    BY <1>0, <2>0, <2>3, <1>a, <1>d
  <2>4. CASE song.status = "retry_pending" /\ Update(Retried) /\ UNCHANGED <<worker, tracked>>
    <3>1. Retried.status = RetryFrom
      BY <1>0, <2>4, RetriedRow
    <3>2. song.status \notin Ready /\ RetryFrom \notin Ready
      BY <2>4 DEF RetryFrom, Ready
    <3>3. song'.status \notin Ready
      BY <2>4, <3>1, <3>2, UpdateAndReady
    <3> QED
      BY <2>0, <2>4, <3>2, <3>3, <1>a, <1>b DEF SameStatus
  <2> QED
    BY <1>18, <2>1, <2>2, <2>3, <2>4 DEF Sweep
<1> QED
  BY <1>1, <1>2, <1>3, <1>4, <1>5, <1>6, <1>7, <1>8, <1>9, <1>10, <1>11, <1>12, <1>13,
     <1>14, <1>15, <1>16, <1>17, <1>18

\* No step takes a ready song back.
LEMMA NextAndReady ==
  ASSUME IInv, ReadyInv, [Next]_vars
  PROVE  ReadyInv' /\ ReadyStep
<1>1. CASE UNCHANGED vars
  BY <1>1 DEF vars, ReadyInv, ReadyStep
<1>2. CASE Next
  BY <1>2, WorkerAndReady, OthersAndReady DEF Next
<1> QED
  BY <1>1, <1>2

\* A song that is ready stays so until it is played or deleted, unless a
\* submission that was answered late writes the row: neither a cancelled
\* worker, a late answer of a queue, a retry, a revert nor a restart takes it
\* back.
THEOREM ReadyStaysReady == Spec => ReadyIsFinal
<1>1. Init => ReadyInv
  BY DEF Init, ReadyInv, Idle
<1>2. ReadyStep => (song.status \in {"ready", "played"} /\ ~overtaken' =>
                        song'.status \in {song.status, "played", "deleted"})
  BY DEF ReadyStep, Ready
<1>3. IInv /\ ReadyInv /\ [Next]_vars => ReadyInv'
  BY NextAndReady
<1>4. IInv /\ ReadyInv /\ [Next]_vars =>
        [song.status \in {"ready", "played"} /\ ~overtaken' =>
            song'.status \in {song.status, "played", "deleted"}]_vars
  BY <1>2, NextAndReady
<1> QED
  BY <1>1, <1>3, <1>4, Invariance, PTL DEF Spec, ReadyIsFinal
-------------------------------------------------------------------------------
\* What a step may do to the row.
RowMove ==
    \/ song' \in {song, Reverted, Gone}
    \/ song.status = "pending" /\ song' = [song EXCEPT !.status = "generating_metadata"]
    \/ song' = [song EXCEPT !.status = "metadata_ready", !.metadata = TRUE]
    \/ song.status = "metadata_ready" /\ song' = [song EXCEPT !.status = "submitting_to_ace"]
    \/ song' = [song EXCEPT !.status = "generating_audio", !.task = TRUE, !.old = @ \ {"submit"}]
    \/ song' = [song EXCEPT
                  !.status = IF song.retryCount < MaxRetries THEN "retry_pending" ELSE "error",
                  !.erroredAt = song.status]
    \/ \E s \in {"saving", "generating_audio", "played"} : song' = [song EXCEPT !.status = s]
    \/ song' = [song EXCEPT !.path = @ \/ Exists]
    \/ song' = [song EXCEPT !.path = TRUE, !.status = "ready"]
    \/ song.status = "retry_pending" /\ song' = Retried
    \/ \E o \in SUBSET {"start", "submit"} : song' = [song EXCEPT !.old = o]

LEMMA UpdateMoves ==
  ASSUME NEW row, Update(row)
  PROVE  song' \in {song, row}
BY DEF Update

LEMMA RevertMoves ==
  ASSUME RevertTransient
  PROVE  RowMove
BY UpdateMoves DEF RevertTransient, RowMove

LEMMA FailsMoves ==
  ASSUME NEW w \in Workers, Fails(w)
  PROVE  RowMove
BY UpdateMoves DEF Fails, MarkError, RowMove

LEMMA WorkerMoves ==
  ASSUME NEW w \in Workers,
         Works(w) \/ LlmAnswers(w) \/ SubmitAnswers(w) \/ PollAnswers(w) \/ StoreAnswers(w)
  PROVE  RowMove
<1>1. CASE RevertMetadata(w) \/ RevertAudio(w) \/ AnsweredEarly(w) \/ PollFails(w)
  BY <1>1, RevertMoves DEF RevertMetadata, RevertAudio, AnsweredEarly, PollFails
<1>2. CASE LlmFails(w) \/ SubmitFails(w) \/ Errored(w) \/ StoreFails(w)
  BY <1>2, FailsMoves DEF LlmFails, SubmitFails, Errored, StoreFails
<1>3. CASE ClaimMetadata(w)
  BY <1>3, UpdateMoves DEF ClaimMetadata, SetStatus, RowMove
<1>4. CASE CompleteMetadata(w)
  BY <1>4, UpdateMoves DEF CompleteMetadata, RowMove
<1>5. CASE ClaimAudio(w)
  BY <1>5, UpdateMoves DEF ClaimAudio, SetStatus, RowMove
<1>6. CASE Submitted(w)
  BY <1>6, UpdateMoves DEF Submitted, UpdateAceTask, RowMove
<1>7. CASE PollSucceeds(w)
  <2>1. UNCHANGED song \/ SetStatus("saving") \/ Fails(w)
    BY <1>7 DEF PollSucceeds
  <2> QED
    BY <2>1, UpdateMoves, FailsMoves DEF SetStatus, RowMove
<1>8. CASE PollIsEmpty(w)
  BY <1>8 DEF PollIsEmpty, RowMove
<1>9. CASE Resume(w)
  <2>1. SetStatus("generating_audio") \/ Fails(w)
    BY <1>9 DEF Resume
  <2> QED
    BY <2>1, UpdateMoves, FailsMoves DEF SetStatus, RowMove
<1>10. CASE Record(w)
  BY <1>10 DEF Record, RowMove
<1>11. CASE Stored(w)
  BY <1>11, UpdateMoves DEF Stored, RowMove
<1> QED
  BY <1>1, <1>2, <1>3, <1>4, <1>5, <1>6, <1>7, <1>8, <1>9, <1>10, <1>11
     DEF Works, LlmAnswers, SubmitAnswers, PollAnswers, StoreAnswers

LEMMA NextMoves ==
  ASSUME [Next]_vars
  PROVE  RowMove
<1>1. CASE UNCHANGED song
  BY <1>1 DEF RowMove
<1>2. CASE \E w \in Workers : Works(w) \/ LlmAnswers(w) \/ SubmitAnswers(w)
                                \/ PollAnswers(w) \/ StoreAnswers(w)
  BY <1>2, WorkerMoves
<1>3. CASE LateSubmitted
  BY <1>3, UpdateMoves DEF LateSubmitted, UpdateAceTask, RowMove
<1>4. CASE Handle
  BY <1>4 DEF Handle, HandleStop, HandleActionable, HandleRetry, HandleEnd, RowMove
<1>5. CASE UserRevert
  BY <1>5, RevertMoves DEF UserRevert
<1>6. CASE UserDelete \/ StaleCleanup
  BY <1>6 DEF UserDelete, StaleCleanup, RowMove
<1>7. CASE UserPlayed
  BY <1>7, UpdateMoves DEF UserPlayed, SetStatus, RowMove
<1>8. CASE Ages
  BY <1>8 DEF Ages, RowMove
<1>9. CASE Reconcile
  BY <1>9, <1>1, RevertMoves DEF Reconcile
<1>10. CASE Sweep
  BY <1>10, UpdateMoves DEF Sweep, RowMove
<1>11. CASE PlaylistUpdated \/ AskQuestion \/ AnswerQuestion \/ StartClosing \/ Reactivate
              \/ CloseNow \/ HandleClosed \/ Crash \/ Restart
  BY <1>11, <1>1 DEF PlaylistUpdated, AskQuestion, AnswerQuestion, StartClosing, Reactivate,
     CloseNow, HandleClosed, Crash, Restart
<1> QED
  BY <1>1, <1>2, <1>3, <1>4, <1>5, <1>6, <1>7, <1>8, <1>9, <1>10, <1>11 DEF Next, vars

\* A song with metadata is never where its metadata would be made, nor waits
\* for a retry that would take it there.
MetadataInv ==
    song.metadata => /\ song.status \notin {"pending", "generating_metadata"}
                     /\ song.status = "retry_pending" => song.erroredAt # "generating_metadata"

LEMMA MetadataStep ==
  ASSUME RowOK, MetadataInv, RowMove
  PROVE  /\ MetadataInv'
         /\ song'.status = "generating_metadata" /\ song.status # "generating_metadata"
                => ~song.metadata
<1> DEFINE Goal == /\ MetadataInv'
                   /\ song'.status = "generating_metadata" /\ song.status # "generating_metadata"
                         => ~song.metadata
<1>1. CASE song' \in {song, Reverted, Gone}
  <2>1. CASE song' = song
    BY <2>1 DEF MetadataInv
  <2>2. CASE song' = Reverted
    BY <2>2 DEF MetadataInv, Reverted, RowOK, Row, InFlight
  <2>3. CASE song' = Gone
    BY <2>3 DEF MetadataInv, Gone
  <2> QED
    BY <1>1, <2>1, <2>2, <2>3
<1>2. CASE song.status = "retry_pending" /\ song' = Retried
  BY <1>2 DEF MetadataInv, Retried, RetryFrom, RowOK, Row
<1>3. CASE song' = [song EXCEPT
                  !.status = IF song.retryCount < MaxRetries THEN "retry_pending" ELSE "error",
                  !.erroredAt = song.status]
  BY <1>3 DEF MetadataInv, RowOK, Row
<1>4. CASE song' = [song EXCEPT !.path = @ \/ Exists]
  BY <1>4 DEF MetadataInv, RowOK, Row
<1>5. CASE \E o \in SUBSET {"start", "submit"} : song' = [song EXCEPT !.old = o]
  BY <1>5 DEF MetadataInv, RowOK, Row
<1>6. CASE song.status = "pending" /\ song' = [song EXCEPT !.status = "generating_metadata"]
  BY <1>6 DEF MetadataInv, RowOK, Row
<1>7. CASE \/ song' = [song EXCEPT !.status = "metadata_ready", !.metadata = TRUE]
           \/ song.status = "metadata_ready" /\ song' = [song EXCEPT !.status = "submitting_to_ace"]
           \/ song' = [song EXCEPT !.status = "generating_audio", !.task = TRUE,
                                   !.old = @ \ {"submit"}]
           \/ \E s \in {"saving", "generating_audio", "played"} :
                  song' = [song EXCEPT !.status = s]
           \/ song' = [song EXCEPT !.path = TRUE, !.status = "ready"]
  <2>1. song'.status \in {"metadata_ready", "submitting_to_ace", "generating_audio", "saving",
                          "played", "ready"}
    BY <1>7 DEF RowOK, Row
  <2> QED
    BY <2>1 DEF MetadataInv
<1> QED
  BY <1>1, <1>2, <1>3, <1>4, <1>5, <1>6, <1>7 DEF RowMove

\* The LLM is not asked again for metadata that the row has: through retries,
\* reverts and crashes a song goes back behind its metadata only while it has
\* none.
THEOREM MetadataStays == Spec => MetadataIsMadeOnce
<1>1. Init => MetadataInv
  BY DEF Init, MetadataInv
<1>2. IInv /\ MetadataInv /\ [Next]_vars => MetadataInv'
  BY NextMoves, MetadataStep DEF IInv
<1>3. IInv /\ MetadataInv /\ [Next]_vars =>
        [song'.status = "generating_metadata" /\ song.status # "generating_metadata"
            => ~song.metadata]_vars
  BY NextMoves, MetadataStep DEF IInv
<1> QED
  BY <1>1, <1>2, <1>3, Invariance, PTL DEF Spec, MetadataIsMadeOnce
-------------------------------------------------------------------------------
\* What holds while no task that was accepted late has written the row: the
\* one worker of the song stands at a place that fits the row, a cancelled
\* worker is of no consequence, and a song without a worker has an event on its
\* way that gives it one.

Busy(w) == worker[w].at # "idle"

\* The song's worker is at p.
At(p) == \E w \in Workers : tracked = w /\ worker[w].at = p

In(e, seq) == \E i \in 1..Len(seq) : seq[i] = e
Heeds(e) == In(e, events)

\* A user has reverted the song under its worker.
Undone(status) == reverts > 0 /\ song.status = status

Generating(task) == song.status = "generating_audio" /\ song.task = task

\* What the row may be when a worker is at p, unless the song is settled
Fits(p) ==
    /\ p \in {"revert_metadata", "llm"} =>
           song.status = "generating_metadata" \/ Undone("pending")
    /\ p = "metadata" => song.status = "pending"
    /\ p = "revert_audio" =>
           song.status = "submitting_to_ace" \/ Generating(FALSE) \/ Undone("metadata_ready")
    /\ p \in {"audio", "failing"} => song.status = "metadata_ready"
    /\ p = "submitting" => song.status = "submitting_to_ace" \/ Undone("metadata_ready")
    /\ p = "polling" => Generating(TRUE) \/ Undone("metadata_ready")
    /\ p = "resume" => (song.status = "saving" /\ ~song.path) \/ Undone("metadata_ready")
    /\ p \in {"record", "storing"} =>
           song.status = "saving" \/ Generating(TRUE) \/ Undone("metadata_ready")
    /\ p = "storing" => song.path

\* Rows that only a worker can take further, and not by what a new one would do
\* first: a song is left in one of them by a crash alone.
Halfway ==
    \/ song.status = "submitting_to_ace" \/ Generating(FALSE)
    \/ song.status = "saving" /\ ~song.path

Actionable == {"pending", "metadata_ready", "submitting_to_ace", "generating_audio", "saving"}

\* A song that is up for its audio without a retry, a crash or a revert first
MayAsk ==
    /\ Open
    /\ song.status \notin Settled
    /\ \/ phase # "up"
       \/ song.status \in {"pending", "generating_metadata"}
       \/ song.status = "metadata_ready" /\ ~At("failing")
       \/ At("revert_audio") \/ At("resume")

Allowance == 1 + song.retryCount + crashes + reverts

NobodyWhileDown == phase # "up" => tracked = NoWorker /\ \A w \in Workers : ~Busy(w)

EndHasNoWorker == song.status \in {"ready", "played", "error"} => tracked = NoWorker
StopIsForSettled == Heeds("stop") => song.status \in Settled
CancelledIsIdle ==
    \A w \in Workers : Busy(w) /\ worker[w].aborted => ~Open \/ song.status \in Settled
OneBusyWorker ==
    song.status \notin Settled => \A w, v \in Workers : Busy(w) /\ Busy(v) => w = v
WorkersFit == song.status \notin Settled => \A w \in Workers : Fits(worker[w].at)
HalfwayHasWorker == phase = "up" /\ Open /\ tracked = NoWorker => ~Halfway
WaitingIsHeeded ==
    phase = "up" /\ Open /\ tracked = NoWorker /\ reverts = 0 =>
        /\ song.status = "retry_pending" => Heeds("retry_pending")
        /\ song.status \in {"pending", "metadata_ready"} /\ ~question =>
               \E e \in Actionable : Heeds(e)
AskedWithinAllowance ==
    Exists => /\ submissions <= Allowance
              /\ MayAsk => submissions < Allowance

Orderly ==
    /\ EndHasNoWorker /\ StopIsForSettled /\ CancelledIsIdle /\ OneBusyWorker
    /\ WorkersFit /\ HalfwayHasWorker /\ WaitingIsHeeded /\ AskedWithinAllowance

OrderInv == NobodyWhileDown /\ (~overtaken => Orderly)

\* The events that follow an update of the row.
LEMMA InAppended ==
  ASSUME NEW S, NEW s \in Seq(S), NEW t \in Seq(S), NEW e
  PROVE  In(e, s \o t) <=> In(e, s) \/ In(e, t)
<1>1. ASSUME In(e, s \o t) PROVE In(e, s) \/ In(e, t)
  <2>1. PICK i \in 1..Len(s \o t) : (s \o t)[i] = e
    BY <1>1 DEF In
  <2>2. CASE i <= Len(s)
    BY <2>1, <2>2 DEF In
  <2>3. CASE i > Len(s)
    <3>1. t[i - Len(s)] = e /\ i - Len(s) \in 1..Len(t)
      BY <2>1, <2>3
    <3> QED
      BY <3>1 DEF In
  <2> QED
    BY <2>1, <2>2, <2>3
<1>2. ASSUME In(e, s) PROVE In(e, s \o t)
  BY <1>2 DEF In
<1>3. ASSUME In(e, t) PROVE In(e, s \o t)
  <2>1. PICK i \in 1..Len(t) : t[i] = e
    BY <1>3 DEF In
  <2>2. (s \o t)[Len(s) + i] = e /\ Len(s) + i \in 1..Len(s \o t)
    BY <2>1
  <2> QED
    BY <2>2 DEF In
<1> QED
  BY <1>1, <1>2, <1>3

LEMMA InTail ==
  ASSUME NEW S, NEW s \in Seq(S), s # <<>>, NEW e
  PROVE  /\ In(e, Tail(s)) => In(e, s)
         /\ In(e, s) => e = Head(s) \/ In(e, Tail(s))
<1>1. ASSUME In(e, Tail(s)) PROVE In(e, s)
  <2>1. PICK i \in 1..Len(Tail(s)) : Tail(s)[i] = e
    BY <1>1 DEF In
  <2>2. s[i + 1] = e /\ i + 1 \in 1..Len(s)
    BY <2>1
  <2> QED
    BY <2>2 DEF In
<1>2. ASSUME In(e, s), e # Head(s) PROVE In(e, Tail(s))
  <2>1. PICK i \in 1..Len(s) : s[i] = e
    BY <1>2 DEF In
  <2>2. i # 1
    BY <1>2, <2>1
  <2>3. Tail(s)[i - 1] = e /\ i - 1 \in 1..Len(Tail(s))
    BY <2>1, <2>2
  <2> QED
    BY <2>3 DEF In
<1> QED
  BY <1>1, <1>2

LEMMA InHeard ==
  ASSUME NEW to \in Statuses, NEW e
  PROVE  In(e, Heard(to)) <=>
            \/ e = to /\ to # "generating_metadata"
            \/ e = "stop" /\ to \in {"ready", "error", "played"}
<1>1. \A x, y : In(e, <<x, y>>) <=> e \in {x, y}
  BY DEF In
<1>2. \A x : In(e, <<x>>) <=> e = x
  BY DEF In
<1>3. ~In(e, <<>>)
  BY DEF In
<1> QED
  BY <1>1, <1>2, <1>3 DEF Heard

\* An update adds what the actor hears to the events.
LEMMA UpdateHeeds ==
  ASSUME RowOK, NEW row \in Row, Update(row), Exists
  PROVE  /\ song' = row
         /\ \A e : Heeds(e)' <=>
               \/ Heeds(e)
               \/ e = row.status /\ row.status # "generating_metadata"
               \/ e = "stop" /\ row.status \in {"ready", "error", "played"}
<1>1. song' = row /\ events' = events \o Heard(row.status)
  BY DEF Update
<1>2. row.status \in Statuses
  BY DEF Row
<1>3. Heard(row.status) \in Seq(Statuses \cup {"stop"}) /\ events \in Seq(Statuses \cup {"stop"})
  BY <1>2, HeardType DEF RowOK
<1> QED
  BY <1>1, <1>2, <1>3, InAppended, InHeard DEF Heeds

\* While the server is down or starting there are no workers.
LEMMA NobodyKeeps ==
  ASSUME IInv, NobodyWhileDown, Next
  PROVE  NobodyWhileDown'
<1> USE DEF NobodyWhileDown, Busy
<1>1. CASE \E w \in Workers : Works(w) \/ LlmAnswers(w) \/ SubmitAnswers(w)
                                \/ PollAnswers(w) \/ StoreAnswers(w)
  <2>1. PICK w \in Workers : Works(w) \/ LlmAnswers(w) \/ SubmitAnswers(w)
                                \/ PollAnswers(w) \/ StoreAnswers(w)
    BY <1>1
  <2>2. worker[w].at # "idle"
    BY <2>1 DEF Works, LlmAnswers, SubmitAnswers, PollAnswers, StoreAnswers, RevertMetadata,
       RevertAudio, ClaimMetadata, CompleteMetadata, LlmFails, ClaimAudio, Submitted,
       SubmitFails, AnsweredEarly, PollSucceeds, PollIsEmpty, PollFails, Errored, Resume,
       Record, Stored, StoreFails
  <2>3. phase' = phase
    BY <2>1 DEF Works, LlmAnswers, SubmitAnswers, PollAnswers, StoreAnswers, RevertMetadata,
       RevertAudio, ClaimMetadata, CompleteMetadata, LlmFails, ClaimAudio, Submitted,
       SubmitFails, AnsweredEarly, PollSucceeds, PollIsEmpty, PollFails, Errored, Resume,
       Record, Stored, StoreFails, environment
  <2> QED
    BY <2>2, <2>3
<1>2. CASE LateSubmitted \/ AskQuestion \/ UserRevert \/ UserDelete \/ UserPlayed \/ Ages
           \/ Restart \/ Reconcile
  BY <1>2 DEF LateSubmitted, AskQuestion, UserRevert, UserDelete, UserPlayed, Ages, Restart,
     Reconcile, environment
<1>3. CASE Handle \/ PlaylistUpdated \/ AnswerQuestion \/ StartClosing \/ Reactivate
           \/ CloseNow \/ HandleClosed \/ StaleCleanup \/ Sweep
  BY <1>3 DEF Handle, PlaylistUpdated, AnswerQuestion, StartClosing, Reactivate, CloseNow,
     HandleClosed, StaleCleanup, Sweep, environment
<1>4. CASE Crash
  BY <1>4 DEF Crash, Idle
<1> QED
  BY <1>1, <1>2, <1>3, <1>4 DEF Next

-------------------------------------------------------------------------------
\* A song that is settled stays settled and is asked for no more; as it has no
\* live worker, only cancelled ones are left, and they change nothing.
SettledStep ==
    /\ song'.status \in Settled
    /\ \/ song'.status \in {song.status, "deleted"}
       \/ song.status = "ready" /\ song'.status = "played"
    /\ tracked' \in {tracked, NoWorker}
    /\ song.status = "deleted" => song'.status = "deleted"
    /\ song.status # "deleted" => tracked' = NoWorker
    /\ Exists' => /\ submissions' = submissions
                  /\ song'.retryCount = song.retryCount
                  /\ crashes' >= crashes /\ reverts' >= reverts

LEMMA SettledIsEnough ==
  ASSUME IInv, Orderly, song.status \in Settled, SettledStep, IInv'
  PROVE  Orderly'
<1>1. EndHasNoWorker'
  BY DEF SettledStep, EndHasNoWorker, Settled
<1>2. StopIsForSettled' /\ CancelledIsIdle' /\ OneBusyWorker' /\ WorkersFit'
  BY DEF SettledStep, StopIsForSettled, CancelledIsIdle, OneBusyWorker, WorkersFit
<1>3. HalfwayHasWorker' /\ WaitingIsHeeded'
  BY DEF SettledStep, HalfwayHasWorker, WaitingIsHeeded, Halfway, Generating, Settled
<1>4. AskedWithinAllowance'
  <2>1. ~MayAsk'
    BY DEF MayAsk, SettledStep
  <2>2. Exists' => Exists
    BY DEF SettledStep, Exists
  <2>3. Exists' => submissions' <= Allowance'
    <3>1. SUFFICES ASSUME Exists' PROVE submissions' <= Allowance'
      OBVIOUS
    <3>2. song.retryCount \in Nat
      BY BoundsAssumption DEF IInv, RowOK, Row
    <3>3. /\ crashes \in Nat /\ reverts \in Nat /\ submissions \in Nat
          /\ crashes' \in Nat /\ reverts' \in Nat
      BY BoundsAssumption DEF IInv, RestOK
    <3>4. /\ submissions' = submissions /\ song'.retryCount = song.retryCount
          /\ crashes' >= crashes /\ reverts' >= reverts
      BY <3>1 DEF SettledStep
    <3>5. submissions <= 1 + song.retryCount + crashes + reverts
      BY <2>2, <3>1 DEF AskedWithinAllowance, Orderly, Allowance
    <3> QED
      BY <3>2, <3>3, <3>4, <3>5 DEF Allowance
  <2> QED
    BY <2>1, <2>3 DEF AskedWithinAllowance
<1> QED
  BY <1>1, <1>2, <1>3, <1>4 DEF Orderly

\* Nothing but a worker that is not cancelled does anything to a settled row.
LEMMA SettledRevert ==
  ASSUME RowOK, song.status \in Settled, RevertTransient
  PROVE  song' = song
BY DEF RevertTransient, Reverted, Settled, InFlight, RowOK, Row

LEMMA SettledWorker ==
  ASSUME IInv, ReadyInv, Orderly, song.status \in Settled, NEW w \in Workers,
         Works(w) \/ LlmAnswers(w) \/ SubmitAnswers(w) \/ PollAnswers(w) \/ StoreAnswers(w)
  PROVE  SettledStep
<1>0. /\ RowOK /\ WorkersOK
      /\ crashes \in Nat /\ reverts \in Nat
  BY BoundsAssumption DEF IInv, RestOK
<1>1. CASE song.status = "deleted"
  <2>1. UNCHANGED song
    <3>1. ~Exists
      BY <1>1 DEF Exists
    <3>2. Record(w) => UNCHANGED song
      BY <1>0, <3>1 DEF Record, RowOK, Row
    <3>3. Stored(w) => UNCHANGED song
      BY <1>0, <3>1 DEF Stored, RowOK, Row, Update
    <3> HIDE DEF Exists
    <3>4. Works(w) \/ LlmAnswers(w) => UNCHANGED song
      BY <1>0, <3>1, <3>2, SettledRevert
         DEF Works, LlmAnswers, RevertMetadata, RevertAudio, ClaimMetadata, CompleteMetadata,
             LlmFails, ClaimAudio, Errored, Resume, Fails, MarkError, SetStatus, Update
    <3>5. SubmitAnswers(w) \/ PollAnswers(w) \/ StoreAnswers(w) => UNCHANGED song
      BY <1>0, <3>1, <3>3, SettledRevert
         DEF SubmitAnswers, PollAnswers, StoreAnswers, Submitted, SubmitFails, AnsweredEarly,
             PollSucceeds, PollIsEmpty, PollFails, StoreFails, UpdateAceTask, Fails, MarkError,
             SetStatus, Update
    <3> QED
      BY <3>4, <3>5
  <2>2. tracked' \in {tracked, NoWorker}
    <3>1. (\E p : Goes(w, p)) \/ Ends(w) \/ UNCHANGED tracked => tracked' \in {tracked, NoWorker}
      BY DEF Goes, Ends
    <3>2. Works(w) => (\E p : Goes(w, p)) \/ Ends(w)
      BY DEF Works, RevertMetadata, RevertAudio, ClaimMetadata, ClaimAudio, Errored, Resume,
         Record, Fails
    <3>3. LlmAnswers(w) \/ SubmitAnswers(w) => (\E p : Goes(w, p)) \/ Ends(w) \/ UNCHANGED tracked
      BY DEF LlmAnswers, SubmitAnswers, CompleteMetadata, LlmFails, Submitted, SubmitFails,
         AnsweredEarly, Fails
    <3>4. PollAnswers(w) \/ StoreAnswers(w) => (\E p : Goes(w, p)) \/ Ends(w)
      BY DEF PollAnswers, StoreAnswers, PollSucceeds, PollIsEmpty, PollFails, Stored, StoreFails,
         Fails
    <3> QED
      BY <3>1, <3>2, <3>3, <3>4
  <2> QED
    BY <1>1, <2>1, <2>2 DEF SettledStep, Exists
<1>2. CASE song.status # "deleted"
  <2>1. tracked = NoWorker /\ Exists
    BY <1>2 DEF Orderly, EndHasNoWorker, Settled, Exists
  <2>2. worker[w].at # "idle" => worker[w].aborted
    BY <1>0, <2>1, WorkersAssumption DEF WorkersOK, OneLiveWorker
  <2>3. worker[w].at \notin {"llm", "submitting"}
    BY <2>2 DEF ReadyInv
  <2>4. Refused("generating_audio") /\ Refused("saving")
    BY <1>2, <2>1 DEF Refused, Allowed, Settled
  <2>5. worker[w].at # "idle" /\ Fails(w) => UNCHANGED song /\ tracked' = NoWorker
    BY <2>1, <2>2 DEF Fails, Ends
  <2>6. ASSUME NEW p, Goes(w, p) \/ Ends(w) PROVE tracked' = NoWorker
    BY <2>1, <2>6 DEF Goes, Ends
  <2>7. CASE Stored(w)
    <3>1. song'.status = song.status /\ song'.retryCount = song.retryCount
      BY <1>0, <2>2, <2>7 DEF Stored, RowOK, Row
    <3> QED
      BY <1>0, <1>2, <2>6, <2>7, <3>1 DEF Stored, SettledStep, history, environment
  <2>8. CASE Record(w)
    <3>1. song'.status = song.status /\ song'.retryCount = song.retryCount
      BY <1>0, <2>8 DEF Record, RowOK, Row
    <3> QED
      BY <1>0, <1>2, <2>6, <2>8, <3>1 DEF Record, SettledStep, history, environment
  <2>9. CASE RevertMetadata(w) \/ RevertAudio(w)
    BY <1>0, <1>2, <2>6, <2>9, SettledRevert
       DEF RevertMetadata, RevertAudio, SettledStep, history, environment
  <2>10. CASE ClaimMetadata(w)
    BY <1>0, <1>2, <2>2, <2>6, <2>10 DEF ClaimMetadata, SettledStep, history, environment
  <2>11. CASE ClaimAudio(w)
    BY <1>0, <1>2, <2>2, <2>6, <2>11 DEF ClaimAudio, SettledStep, history, environment
  <2>12. CASE Errored(w) \/ StoreFails(w)
    BY <1>0, <1>2, <2>5, <2>12 DEF Errored, StoreFails, SettledStep, history, environment
  <2>13. CASE Resume(w)
    BY <1>0, <1>2, <2>4, <2>5, <2>13 DEF Resume, SettledStep, history, environment
  <2>14. CASE PollSucceeds(w)
    BY <1>0, <1>2, <2>4, <2>5, <2>6, <2>14
       DEF PollSucceeds, SettledStep, history, environment
  <2>15. CASE PollIsEmpty(w)
    BY <1>0, <1>2, <2>6, <2>15 DEF PollIsEmpty, SettledStep, history, environment
  <2>16. CASE PollFails(w)
    BY <1>0, <1>2, <2>6, <2>16, SettledRevert
       DEF PollFails, SettledStep, history, environment
  <2>17. CASE LlmAnswers(w) \/ SubmitAnswers(w)
    BY <2>3, <2>17 DEF LlmAnswers, SubmitAnswers, CompleteMetadata, LlmFails, Submitted,
       SubmitFails, AnsweredEarly
  <2> QED
    BY <2>7, <2>8, <2>9, <2>10, <2>11, <2>12, <2>13, <2>14, <2>15, <2>16, <2>17
       DEF Works, PollAnswers, StoreAnswers
<1> QED
  BY <1>1, <1>2

LEMMA SettledOthers ==
  ASSUME IInv, Orderly, song.status \in Settled, ~overtaken',
         \/ LateSubmitted \/ Handle \/ PlaylistUpdated \/ AskQuestion \/ AnswerQuestion
         \/ StartClosing \/ Reactivate \/ CloseNow \/ HandleClosed
         \/ UserRevert \/ UserDelete \/ UserPlayed \/ Ages \/ StaleCleanup
         \/ Crash \/ Restart \/ Reconcile \/ Sweep
  PROVE  SettledStep
<1>0. /\ RowOK
      /\ crashes \in Nat /\ reverts \in Nat
      /\ song.status # "deleted" => tracked = NoWorker
  BY BoundsAssumption DEF IInv, RestOK, Orderly, EndHasNoWorker, Settled
<1>s. Spawn => tracked' = tracked
  BY DEF Spawn, FirstPlace, Settled
<1>c. Cancel => tracked' = NoWorker
  BY DEF Cancel
<1>r. RevertTransient => song' = song
  BY <1>0, SettledRevert
<1>g. Gone.status = "deleted"
  BY DEF Gone
<1>o. song.status \notin InFlight /\ song.status # "retry_pending"
  BY DEF Settled, InFlight
<1> USE DEF SettledStep, Exists, history, environment
<1>1. CASE LateSubmitted
  BY <1>0, <1>1 DEF LateSubmitted
<1>2. CASE Handle
  BY <1>0, <1>2, <1>s, <1>c, <1>o
     DEF Handle, HandleStop, HandleActionable, HandleRetry, HandleEnd
<1>3. CASE PlaylistUpdated \/ AnswerQuestion \/ Reactivate \/ StartClosing
  BY <1>0, <1>3, <1>s, <1>c DEF PlaylistUpdated, AnswerQuestion, Reactivate, StartClosing
<1>4. CASE AskQuestion \/ CloseNow \/ HandleClosed \/ Restart
  BY <1>0, <1>4, <1>c DEF AskQuestion, CloseNow, HandleClosed, Restart
<1>5. CASE UserRevert \/ Reconcile
  BY <1>0, <1>5, <1>r DEF UserRevert, Reconcile
<1>6. CASE UserDelete \/ StaleCleanup
  BY <1>0, <1>6, <1>g, <1>o DEF UserDelete, StaleCleanup, Stale, Settled
<1>7. CASE UserPlayed
  <2>1. song' = [song EXCEPT !.status = "played"] /\ song.status = "ready"
    BY <1>7 DEF UserPlayed, SetStatus, Update
  <2>2. song'.status = "played" /\ song'.retryCount = song.retryCount
    BY <1>0, <2>1 DEF RowOK, Row
  <2> QED
    BY <1>0, <1>7, <2>1, <2>2 DEF UserPlayed, Settled
<1>8. CASE Ages
  BY <1>8 DEF Ages
<1>9. CASE Crash
  BY <1>0, <1>9 DEF Crash
<1>10. CASE Sweep
  BY <1>0, <1>10, <1>s, <1>g, <1>o DEF Sweep, Stale
<1> QED
  BY <1>1, <1>2, <1>3, <1>4, <1>5, <1>6, <1>7, <1>8, <1>9, <1>10

-------------------------------------------------------------------------------
\* A song that is not settled has one worker at most, and a step of it is all
\* that happens to the workers.
Moves(w, q) ==
    /\ worker' \in [Workers -> Worker]
    /\ \A v \in Workers \ {w} : worker'[v] = worker[v]
    /\ worker'[w].at = q
    /\ q # "idle" => worker'[w].aborted = worker[w].aborted
    /\ tracked' = IF q = "idle" /\ tracked = w THEN NoWorker ELSE tracked

LEMMA GoesMoves ==
  ASSUME WorkersOK, NEW w \in Workers, NEW q \in Places \ {"idle"}, Goes(w, q)
  PROVE  Moves(w, q)
BY DEF WorkersOK, Goes, Worker, Moves

LEMMA EndsMoves ==
  ASSUME WorkersOK, NEW w \in Workers, Ends(w)
  PROVE  Moves(w, "idle")
BY DEF WorkersOK, Ends, Worker, Moves, Idle, Places, Statuses

\* The one worker is the one that songWorkers names, or cancelled.
LEMMA Lone ==
  ASSUME IInv, Orderly, song.status \notin Settled, NEW w \in Workers, Busy(w)
  PROVE  /\ \A v \in Workers \ {w} : ~Busy(v)
         /\ tracked \in {w, NoWorker}
         /\ tracked = NoWorker => worker[w].aborted /\ ~Open
         /\ tracked = w => ~worker[w].aborted
         /\ Fits(worker[w].at)
         /\ \A p : At(p) <=> tracked = w /\ worker[w].at = p
<1>0. WorkersOK
  BY DEF IInv
<1>1. \A v \in Workers \ {w} : ~Busy(v)
  BY DEF Orderly, OneBusyWorker
<1>2. tracked \in {w, NoWorker}
  BY <1>0, <1>1 DEF WorkersOK, OneLiveWorker, Busy
<1>3. tracked = NoWorker => worker[w].aborted /\ ~Open
  BY <1>0, WorkersAssumption DEF WorkersOK, OneLiveWorker, Busy, Orderly, CancelledIsIdle
<1>4. tracked = w => ~worker[w].aborted
  BY <1>0 DEF WorkersOK, OneLiveWorker
<1>5. Fits(worker[w].at)
  BY DEF Orderly, WorkersFit
<1>6. \A p : At(p) <=> tracked = w /\ worker[w].at = p
  BY <1>2, WorkersAssumption DEF At
<1> QED
  BY <1>1, <1>2, <1>3, <1>4, <1>5, <1>6

\* What a step of the one worker must leave behind.
Leaves(w, q) ==
    /\ song'.status \notin Settled => Fits(q)'
    /\ song'.status \in {"ready", "played", "error"} /\ tracked = w => q = "idle"
    /\ Heeds("stop")' => Heeds("stop") \/ song'.status \in Settled
    /\ q = "idle" /\ tracked = w /\ Open =>
           /\ ~Halfway'
           /\ song'.status = "retry_pending" => Heeds("retry_pending")'
           /\ song'.status \in {"pending", "metadata_ready"} => question \/ reverts > 0
    /\ AskedWithinAllowance'

LEMMA MovesKeeps ==
  ASSUME IInv, IInv', NobodyWhileDown, Orderly, song.status \notin Settled,
         NEW w \in Workers, Busy(w), NEW q \in Places, Moves(w, q), Leaves(w, q),
         UNCHANGED <<playlist, question, phase, crashes, reverts>>
  PROVE  Orderly'
<1>1. /\ \A v \in Workers \ {w} : ~Busy(v)
      /\ tracked \in {w, NoWorker}
      /\ tracked = NoWorker => worker[w].aborted /\ ~Open
      /\ tracked = w => ~worker[w].aborted
  BY Lone
<1>2. \A v \in Workers \ {w} : worker'[v].at = "idle"
  BY <1>1 DEF Moves, Busy
<1>3. Open' <=> Open
  BY DEF Open
<1>4. EndHasNoWorker'
  BY <1>1 DEF EndHasNoWorker, Moves, Leaves
<1>5. StopIsForSettled'
  BY DEF StopIsForSettled, Leaves, Orderly
<1>6. CancelledIsIdle'
  BY <1>1, <1>2, <1>3 DEF CancelledIsIdle, Moves, Busy
<1>7. OneBusyWorker'
  BY <1>2 DEF OneBusyWorker, Busy
<1>8. WorkersFit'
  <2>1. Fits("idle")'
    BY DEF Fits
  <2> QED
    BY <1>2, <2>1 DEF WorkersFit, Moves, Leaves
<1>9. tracked' = NoWorker /\ Open' => q = "idle" /\ tracked = w /\ Open
  BY <1>1, <1>3, WorkersAssumption DEF Moves
<1>10. reverts \in Nat
  BY BoundsAssumption DEF IInv, RestOK
<1>11. HalfwayHasWorker' /\ WaitingIsHeeded'
  BY <1>9, <1>10 DEF HalfwayHasWorker, WaitingIsHeeded, Leaves
<1> QED
  BY <1>4, <1>5, <1>6, <1>7, <1>8, <1>11 DEF Orderly, Leaves

\* A step that neither asks for the audio nor makes the song one that may ask
LEMMA AsksNoMore ==
  ASSUME IInv, IInv', Orderly,
         Exists' => /\ Exists
                    /\ submissions' = submissions
                    /\ song'.retryCount = song.retryCount
                    /\ UNCHANGED <<crashes, reverts>>
                    /\ MayAsk' => MayAsk
  PROVE  AskedWithinAllowance'
BY DEF AskedWithinAllowance, Orderly, Allowance

\* A step of the one worker does so if the row is past its audio, or as it was.
LEMMA MayAskStep ==
  ASSUME IInv, IInv', NobodyWhileDown, Orderly, song.status \notin Settled,
         NEW w \in Workers, Busy(w), NEW q \in Places, Moves(w, q),
         UNCHANGED <<playlist, phase>>, MayAsk'
  PROVE  /\ Open /\ phase = "up"
         /\ song'.status \notin Settled
         /\ \/ song'.status \in {"pending", "generating_metadata"}
            \/ song'.status = "metadata_ready" /\ (tracked = w => q # "failing")
            \/ tracked = w /\ q \in {"revert_audio", "resume"}
<1>1. tracked \in {w, NoWorker} /\ (tracked = NoWorker => ~Open)
  BY Lone
<1>2. Open /\ phase = "up"
  BY WorkersAssumption DEF MayAsk, Open, NobodyWhileDown
<1>3. tracked = w /\ tracked' = IF q = "idle" THEN NoWorker ELSE w
  BY <1>1, <1>2, WorkersAssumption DEF Moves
<1>4. \A p \in {"failing", "revert_audio", "resume"} : At(p)' <=> q = p
  BY <1>3, WorkersAssumption DEF At, Moves
<1> QED
  BY <1>2, <1>3, <1>4 DEF MayAsk

\* What the operations of the song service do to a row that is not settled
LEMMA SetStatusDoes ==
  ASSUME RowOK, Exists, NEW s \in Statuses, SetStatus(s)
  PROVE  /\ song'.status = s
         /\ song'.task = song.task /\ song'.path = song.path
         /\ song'.retryCount = song.retryCount
         /\ \A e : Heeds(e)' <=> \/ Heeds(e)
                                 \/ e = s /\ s # "generating_metadata"
                                 \/ e = "stop" /\ s \in {"ready", "error", "played"}
<1> DEFINE row == [song EXCEPT !.status = s]
<1>1. /\ row \in Row
      /\ row.status = s /\ row.task = song.task /\ row.path = song.path
      /\ row.retryCount = song.retryCount
  BY DEF RowOK, Row
<1>2. Update(row)
  BY DEF SetStatus
<1> HIDE DEF row
<1> QED
  BY <1>1, <1>2, UpdateHeeds

LEMMA RevertDoes ==
  ASSUME RowOK, song.status \notin Settled, RevertTransient
  PROVE  /\ song'.path = song.path /\ song'.retryCount = song.retryCount
         /\ Heeds("stop")' => Heeds("stop")
         /\ \/ song.status = "generating_metadata" /\ song'.status = "pending"
            \/ song.status = "saving" /\ song.path /\ song'.status = "saving"
            \/ /\ song.status \in InFlight \ {"generating_metadata"}
               /\ ~(song.status = "saving" /\ song.path)
               /\ song'.status = "metadata_ready"
            \/ song.status \notin InFlight /\ song' = song
<1>1. /\ Reverted \in Row
      /\ Reverted.path = song.path /\ Reverted.retryCount = song.retryCount
      /\ Reverted.status \notin {"ready", "error", "played", "stop"}
      /\ \/ song.status = "generating_metadata" /\ Reverted.status = "pending"
         \/ song.status = "saving" /\ song.path /\ Reverted.status = "saving"
         \/ /\ song.status \in InFlight \ {"generating_metadata"}
            /\ ~(song.status = "saving" /\ song.path)
            /\ Reverted.status = "metadata_ready"
         \/ song.status \notin InFlight /\ Reverted = song
  <2>1. song \in Row
    BY DEF RowOK
  <2>2. CASE song.status = "generating_metadata"
    BY <2>1, <2>2 DEF Row, Reverted, Statuses, InFlight
  <2>3. CASE song.status = "saving" /\ song.path
    BY <2>1, <2>3 DEF Row, Reverted, Statuses, InFlight
  <2>4. CASE /\ song.status \in InFlight \ {"generating_metadata"}
             /\ ~(song.status = "saving" /\ song.path)
    BY <2>1, <2>4 DEF Row, Reverted, Statuses, InFlight
  <2>5. CASE song.status \notin InFlight
    BY <2>1, <2>5 DEF Row, Reverted, Statuses, InFlight, Settled
  <2> QED
    BY <2>2, <2>3, <2>4, <2>5
<1>2. CASE Reverted.status # song.status
  <2>1. Exists /\ Update(Reverted)
    BY <1>2 DEF RevertTransient, Settled, Exists
  <2> QED
    BY <1>1, <2>1, UpdateHeeds
<1>3. CASE Reverted.status = song.status
  BY <1>1, <1>3 DEF RevertTransient, Heeds
<1> QED
  BY <1>2, <1>3

LEMMA MarkErrorDoes ==
  ASSUME RowOK, Exists, MarkError
  PROVE  /\ song'.status \in {"retry_pending", "error"}
         /\ song'.retryCount = song.retryCount /\ song'.path = song.path
         /\ song'.erroredAt = song.status
         /\ Heeds("stop")' => Heeds("stop") \/ song'.status = "error"
         /\ song'.status = "retry_pending" => Heeds("retry_pending")'
<1> DEFINE row == [song EXCEPT
                     !.status = IF song.retryCount < MaxRetries THEN "retry_pending"
                                ELSE "error",
                     !.erroredAt = song.status]
<1>1. /\ row \in Row
      /\ row.status \in {"retry_pending", "error"} /\ row.erroredAt = song.status
      /\ row.retryCount = song.retryCount /\ row.path = song.path
  BY DEF RowOK, Row, Statuses, Settled
<1>2. Update(row)
  BY DEF MarkError
<1> HIDE DEF row
<1> QED
  BY <1>1, <1>2, UpdateHeeds

LEMMA UpdateAceTaskDoes ==
  ASSUME RowOK, Exists, UpdateAceTask
  PROVE  /\ song'.status = "generating_audio" /\ song'.task
         /\ song'.retryCount = song.retryCount
         /\ Heeds("stop")' => Heeds("stop")
<1> DEFINE row == [song EXCEPT !.status = "generating_audio", !.task = TRUE,
                               !.old = @ \ {"submit"}]
<1>1. /\ row \in Row /\ row.status = "generating_audio" /\ row.task
      /\ row.retryCount = song.retryCount
  BY DEF RowOK, Row, Statuses, InFlight
<1>2. Update(row)
  BY DEF UpdateAceTask
<1> HIDE DEF row
<1> QED
  BY <1>1, <1>2, UpdateHeeds

\* A stage that fails
LEMMA FailsOrderly ==
  ASSUME IInv, IInv', NobodyWhileDown, Orderly, song.status \notin Settled,
         NEW w \in Workers, Busy(w), Fails(w), UNCHANGED <<environment, submissions>>
  PROVE  Orderly'
<1>0. RowOK /\ WorkersOK /\ Exists
  BY DEF IInv, Exists, Settled
<1>1. /\ tracked \in {w, NoWorker}
      /\ tracked = NoWorker => worker[w].aborted /\ ~Open
      /\ tracked = w => ~worker[w].aborted
  BY Lone
<1>2. Moves(w, "idle") /\ "idle" \in Places
  BY <1>0, EndsMoves DEF Fails, Places
<1>3. Fits("idle")'
  BY DEF Fits
<1>4. CASE worker[w].aborted
  <2>1. UNCHANGED <<song, events>> /\ ~Open /\ tracked # w
    BY <1>1, <1>4 DEF Fails
  <2>2. ~MayAsk'
    BY <2>1 DEF MayAsk, Open, environment
  <2>3. AskedWithinAllowance'
    BY <2>1, <2>2, AsksNoMore DEF Exists, environment
  <2>4. Leaves(w, "idle")
    BY <1>3, <2>1, <2>3 DEF Leaves, Heeds
  <2> QED
    BY <1>2, <2>4, MovesKeeps DEF environment
<1>5. CASE ~worker[w].aborted
  <2>1. /\ song'.status \in {"retry_pending", "error"}
        /\ song'.retryCount = song.retryCount
        /\ Heeds("stop")' => Heeds("stop") \/ song'.status = "error"
        /\ song'.status = "retry_pending" => Heeds("retry_pending")'
    BY <1>0, <1>5, MarkErrorDoes DEF Fails
  <2>2. ~MayAsk'
    BY <1>2, <2>1, MayAskStep DEF environment
  <2>3. AskedWithinAllowance'
    BY <1>0, <2>1, <2>2, AsksNoMore DEF environment
  <2>4. ~Halfway'
    BY <2>1 DEF Halfway, Generating
  <2>5. Leaves(w, "idle")
    BY <1>3, <2>1, <2>3, <2>4 DEF Leaves, Settled
  <2> QED
    BY <1>2, <2>5, MovesKeeps DEF environment
<1> QED
  BY <1>4, <1>5

\* A worker that ends and leaves the row alone
LEMMA EndsOrderly ==
  ASSUME IInv, IInv', NobodyWhileDown, Orderly, song.status \notin Settled,
         NEW w \in Workers, Busy(w), Ends(w), UNCHANGED <<song, events, environment, submissions>>,
         worker[w].at # "failing",
         ~worker[w].aborted /\ Open =>
             /\ ~Halfway /\ song.status # "retry_pending"
             /\ song.status \in {"pending", "metadata_ready"} => question \/ reverts > 0
  PROVE  Orderly'
<1>0. RowOK /\ WorkersOK /\ Exists
  BY DEF IInv, Exists, Settled
<1>1. /\ tracked = w => ~worker[w].aborted
      /\ \A p : At(p) <=> tracked = w /\ worker[w].at = p
  BY Lone
<1>2. Moves(w, "idle") /\ "idle" \in Places
  BY <1>0, EndsMoves DEF Places
<1>3. MayAsk' => MayAsk
  <2>1. SUFFICES ASSUME MayAsk' PROVE MayAsk
    OBVIOUS
  <2>2. Open /\ song.status \in {"pending", "generating_metadata", "metadata_ready"}
    BY <1>2, <2>1, MayAskStep DEF environment
  <2> QED
    BY <1>1, <2>2 DEF MayAsk
<1>4. AskedWithinAllowance'
  BY <1>0, <1>3, AsksNoMore DEF environment
<1>5. Fits("idle")'
  BY DEF Fits
<1>6. Halfway' <=> Halfway
  BY DEF Halfway, Generating
<1>7. \A e : Heeds(e)' <=> Heeds(e)
  BY DEF Heeds
<1>8. ASSUME tracked = w, Open
      PROVE  /\ ~Halfway' /\ song'.status # "retry_pending"
             /\ song'.status \in {"pending", "metadata_ready"} => question \/ reverts > 0
  <2>1. ~worker[w].aborted
    BY <1>1, <1>8
  <2> QED
    BY <1>6, <1>8, <2>1
<1>9. Leaves(w, "idle")
  BY <1>4, <1>5, <1>7, <1>8 DEF Leaves
<1> QED
  BY <1>2, <1>9, MovesKeeps DEF environment

\* Every step of a worker on a song that is not settled
LEMMA WorkerOrderly ==
  ASSUME IInv, IInv', NobodyWhileDown, Orderly, song.status \notin Settled,
         NEW w \in Workers,
         Works(w) \/ LlmAnswers(w) \/ SubmitAnswers(w) \/ PollAnswers(w) \/ StoreAnswers(w),
         ~overtaken
  PROVE  Orderly'
<1>0. RowOK /\ WorkersOK /\ Exists /\ reverts \in Nat
  BY BoundsAssumption DEF IInv, RestOK, Exists, Settled
<1>1. Busy(w)
  BY DEF Busy, Works, LlmAnswers, SubmitAnswers, PollAnswers, StoreAnswers, RevertMetadata,
     RevertAudio, ClaimMetadata, CompleteMetadata, LlmFails, ClaimAudio, Submitted,
     SubmitFails, AnsweredEarly, PollSucceeds, PollIsEmpty, PollFails, Errored, Resume,
     Record, Stored, StoreFails
<1>2. /\ Fits(worker[w].at)
      /\ tracked \in {w, NoWorker}
      /\ tracked = NoWorker => worker[w].aborted /\ ~Open
      /\ \A p : At(p) <=> tracked = w /\ worker[w].at = p
  BY <1>1, Lone
<1>m. ASSUME NEW q \in Places, Moves(w, q), Leaves(w, q),
             UNCHANGED <<playlist, question, phase, crashes, reverts>>
      PROVE  Orderly'
  BY <1>1, <1>m, MovesKeeps
<1>g. ASSUME NEW q \in Places \ {"idle"}, Goes(w, q)
      PROVE  Moves(w, q)
  BY <1>0, <1>g, GoesMoves
<1>p. \A q \in {"metadata", "llm", "audio", "submitting", "polling", "failing", "record",
                "storing", "revert_audio"} : q \in Places \ {"idle"}
  BY DEF Places
<1>3. CASE RevertMetadata(w)
  <2>1. /\ worker[w].at = "revert_metadata" /\ Moves(w, "metadata")
        /\ UNCHANGED <<environment, history>>
    BY <1>3, <1>g, <1>p DEF RevertMetadata
  <2>2. song.status = "generating_metadata" \/ Undone("pending")
    BY <1>2, <2>1 DEF Fits
  <2>3. /\ song'.status = "pending" /\ song'.retryCount = song.retryCount
        /\ Heeds("stop")' => Heeds("stop")
    BY <1>0, <1>3, <2>2, RevertDoes DEF RevertMetadata, Undone, InFlight
  <2>4. ~MayAsk => ~Open
    BY <2>2 DEF MayAsk, Undone
  <2>5. MayAsk' => MayAsk
    BY <2>1, <2>4, <1>1, <1>p, MayAskStep DEF environment
  <2>6. AskedWithinAllowance'
    BY <1>0, <2>1, <2>3, <2>5, AsksNoMore DEF environment, history
  <2>7. Fits("metadata")'
    BY <2>3 DEF Fits
  <2>8. Leaves(w, "metadata")
    BY <2>3, <2>6, <2>7 DEF Leaves
  <2> QED
    BY <2>1, <2>8, <1>m, <1>p DEF environment
<1>4. CASE ClaimMetadata(w)
  <2>0. worker[w].at = "metadata" /\ UNCHANGED <<environment, history>>
    BY <1>4 DEF ClaimMetadata
  <2>1. song.status = "pending"
    BY <1>2, <2>0 DEF Fits
  <2>2. CASE /\ worker[w].aborted \/ ~Open \/ question
             /\ Ends(w) /\ UNCHANGED <<song, events>>
    BY <1>1, <2>0, <2>1, <2>2, EndsOrderly DEF environment, history, Halfway, Generating
  <2>3. CASE Open /\ SetStatus("generating_metadata") /\ Goes(w, "llm")
    <3>1. Moves(w, "llm")
      BY <2>3, <1>g, <1>p
    <3>2. /\ song'.status = "generating_metadata" /\ song'.retryCount = song.retryCount
          /\ Heeds("stop")' => Heeds("stop")
      BY <1>0, <2>3, SetStatusDoes DEF Statuses, InFlight
    <3>3. MayAsk
      BY <2>1, <2>3 DEF MayAsk, Settled
    <3>4. AskedWithinAllowance'
      BY <1>0, <2>0, <3>2, <3>3, AsksNoMore DEF environment, history
    <3>5. Leaves(w, "llm")
      BY <3>2, <3>4 DEF Leaves, Fits
    <3> QED
      BY <2>0, <3>1, <3>5, <1>m, <1>p DEF environment
  <2> QED
    BY <1>4, <2>1, <2>2, <2>3 DEF ClaimMetadata
<1>5. CASE CompleteMetadata(w)
  <2> DEFINE row == [song EXCEPT !.status = "metadata_ready", !.metadata = TRUE]
  <2>1. worker[w].at = "llm" /\ Update(row) /\ UNCHANGED <<tracked, environment, history>>
    BY <1>5 DEF CompleteMetadata
  <2>2. /\ row \in Row /\ row.status = "metadata_ready" /\ row.retryCount = song.retryCount
    BY <1>0 DEF RowOK, Row, Statuses
  <2> HIDE DEF row
  <2>3. /\ song'.status = "metadata_ready" /\ song'.retryCount = song.retryCount
        /\ Heeds("stop")' => Heeds("stop")
    BY <1>0, <2>1, <2>2, UpdateHeeds
  <2>4. Moves(w, "audio")
    BY <1>0, <1>5 DEF CompleteMetadata, Moves, WorkersOK, Worker, Places, Statuses
  <2>5. song.status = "generating_metadata" \/ Undone("pending")
    BY <1>2, <2>1 DEF Fits
  <2>6. Open => MayAsk
    BY <2>5 DEF MayAsk, Undone, Settled
  <2>7. MayAsk' => MayAsk
    BY <2>1, <2>4, <2>6, <1>1, <1>p, MayAskStep DEF environment
  <2>8. AskedWithinAllowance'
    BY <1>0, <2>1, <2>3, <2>7, AsksNoMore DEF environment, history
  <2>9. Leaves(w, "audio")
    BY <2>3, <2>8 DEF Leaves, Fits
  <2> QED
    BY <2>1, <2>4, <2>9, <1>m, <1>p DEF environment
<1>6. CASE LlmFails(w) \/ SubmitFails(w) \/ Errored(w) \/ StoreFails(w)
  <2>1. Fails(w) /\ UNCHANGED <<environment, history>>
    BY <1>6 DEF LlmFails, SubmitFails, Errored, StoreFails
  <2> QED
    BY <1>1, <2>1, FailsOrderly DEF history
<1>7. CASE RevertAudio(w)
  <2>1. /\ worker[w].at = "revert_audio" /\ Moves(w, "audio")
        /\ UNCHANGED <<environment, history>>
    BY <1>7, <1>g, <1>p DEF RevertAudio
  <2>2. \/ song.status = "submitting_to_ace" \/ Generating(FALSE)
        \/ Undone("metadata_ready")
    BY <1>2, <2>1 DEF Fits
  <2>3. /\ song'.status = "metadata_ready" /\ song'.retryCount = song.retryCount
        /\ Heeds("stop")' => Heeds("stop")
    BY <1>0, <1>7, <2>2, RevertDoes DEF RevertAudio, Undone, InFlight, Generating
  <2>4. Open => MayAsk
    BY <1>2, <2>1, WorkersAssumption DEF MayAsk
  <2>5. MayAsk' => MayAsk
    BY <2>1, <2>4, <1>1, <1>p, MayAskStep DEF environment
  <2>6. AskedWithinAllowance'
    BY <1>0, <2>1, <2>3, <2>5, AsksNoMore DEF environment, history
  <2>7. Leaves(w, "audio")
    BY <2>3, <2>6 DEF Leaves, Fits
  <2> QED
    BY <2>1, <2>7, <1>m, <1>p DEF environment
<1>8. CASE ClaimAudio(w)
  <2>0. worker[w].at = "audio" /\ UNCHANGED <<environment, overtaken>>
    BY <1>8 DEF ClaimAudio
  <2>1. song.status = "metadata_ready"
    BY <1>2, <2>0 DEF Fits
  <2>2. CASE /\ worker[w].aborted \/ ~Open
             /\ Ends(w) /\ UNCHANGED <<song, events, submissions>>
    BY <1>1, <2>0, <2>1, <2>2, EndsOrderly DEF environment
  <2>3. CASE /\ Open /\ SetStatus("submitting_to_ace") /\ Goes(w, "submitting")
             /\ submissions' = submissions + 1
    <3>1. Moves(w, "submitting")
      BY <2>3, <1>g, <1>p
    <3>2. /\ song'.status = "submitting_to_ace" /\ song'.retryCount = song.retryCount
          /\ Heeds("stop")' => Heeds("stop")
      BY <1>0, <2>3, SetStatusDoes DEF Statuses, InFlight
    <3>3. MayAsk
      BY <1>2, <2>0, <2>1, <2>3 DEF MayAsk, Settled
    <3>4. ~MayAsk'
      BY <2>0, <3>1, <3>2, <1>1, <1>p, MayAskStep DEF environment
    <3>5. AskedWithinAllowance'
      <4>1. submissions < 1 + song.retryCount + crashes + reverts
        BY <1>0, <3>3 DEF Orderly, AskedWithinAllowance, Allowance
      <4>2. song.retryCount \in Nat /\ crashes \in Nat /\ submissions \in Nat
        BY BoundsAssumption DEF IInv, RowOK, Row, RestOK
      <4>3. submissions' <= 1 + song'.retryCount + crashes' + reverts'
        BY <1>0, <2>0, <2>3, <3>2, <4>1, <4>2 DEF environment
      <4> QED
        BY <3>4, <4>3 DEF AskedWithinAllowance, Allowance
    <3>6. Leaves(w, "submitting")
      BY <3>2, <3>5 DEF Leaves, Fits
    <3> QED
      BY <2>0, <3>1, <3>6, <1>m, <1>p DEF environment
  <2> QED
    BY <1>8, <2>1, <2>2, <2>3 DEF ClaimAudio
<1>9. CASE Submitted(w)
  <2>1. /\ worker[w].at = "submitting" /\ Moves(w, "polling")
        /\ UNCHANGED <<environment, history>>
    BY <1>9, <1>g, <1>p DEF Submitted
  <2>2. /\ song'.status = "generating_audio" /\ song'.task
        /\ song'.retryCount = song.retryCount
        /\ Heeds("stop")' => Heeds("stop")
    BY <1>0, <1>9, UpdateAceTaskDoes DEF Submitted
  <2>3. ~MayAsk'
    BY <2>1, <2>2, <1>1, <1>p, MayAskStep DEF environment
  <2>4. AskedWithinAllowance'
    BY <1>0, <2>1, <2>2, <2>3, AsksNoMore DEF environment, history
  <2>5. song'.task = TRUE
    <3>1. song'.task \in BOOLEAN
      BY DEF IInv, RowOK, Row
    <3> QED
      BY <2>2, <3>1
  <2>6. Leaves(w, "polling")
    BY <2>2, <2>4, <2>5 DEF Leaves, Fits, Generating
  <2> QED
    BY <2>1, <2>6, <1>m, <1>p DEF environment
<1>10. CASE AnsweredEarly(w) \/ PollFails(w)
  <2>1. /\ worker[w].at \in {"submitting", "polling"} /\ Moves(w, "failing")
        /\ UNCHANGED <<playlist, question, phase, crashes, reverts, history>>
        /\ RevertTransient
    BY <1>10, <1>g, <1>p DEF AnsweredEarly, PollFails, environment
  <2>2. song.status \in {"submitting_to_ace", "generating_audio", "metadata_ready"}
    BY <1>2, <2>1 DEF Fits, Generating, Undone
  <2>3. /\ song'.status = "metadata_ready" /\ song'.retryCount = song.retryCount
        /\ Heeds("stop")' => Heeds("stop")
    BY <1>0, <2>1, <2>2, RevertDoes DEF InFlight
  <2>4. ~MayAsk'
    <3>1. MayAsk' => Open /\ (tracked = w => FALSE)
      BY <2>1, <2>3, <1>1, <1>p, MayAskStep
    <3> QED
      BY <1>2, <3>1
  <2>5. AskedWithinAllowance'
    BY <1>0, <2>1, <2>3, <2>4, AsksNoMore DEF history
  <2>6. Leaves(w, "failing")
    BY <2>3, <2>5 DEF Leaves, Fits
  <2> QED
    BY <2>1, <2>6, <1>m, <1>p
<1>11. CASE PollSucceeds(w)
  <2>0. worker[w].at = "polling" /\ UNCHANGED <<environment, history>>
    BY <1>11 DEF PollSucceeds
  <2>1. Generating(TRUE) \/ Undone("metadata_ready")
    BY <1>2, <2>0 DEF Fits
  <2>2. CASE Goes(w, "record") /\ UNCHANGED <<song, events>>
    <3>1. Moves(w, "record")
      BY <2>2, <1>g, <1>p
    <3>2. MayAsk' => MayAsk
      <4>1. MayAsk' => Open /\ song.status = "metadata_ready"
        BY <2>0, <2>1, <2>2, <3>1, <1>1, <1>p, MayAskStep DEF environment, Generating, Undone
      <4> QED
        BY <1>2, <2>0, <4>1 DEF MayAsk, Settled
    <3>3. AskedWithinAllowance'
      BY <1>0, <2>0, <2>2, <3>2, AsksNoMore DEF environment, history
    <3>4. Fits("record")'
      BY <2>0, <2>1, <2>2 DEF Fits, Generating, Undone, environment
    <3>5. song'.status \notin {"ready", "played", "error"} /\ (Heeds("stop")' => Heeds("stop"))
      BY <2>1, <2>2 DEF Generating, Undone, Heeds
    <3>6. Leaves(w, "record")
      BY <3>3, <3>4, <3>5 DEF Leaves
    <3> QED
      BY <2>0, <3>1, <3>6, <1>m, <1>p DEF environment
  <2>3. CASE SetStatus("saving") /\ Goes(w, "record")
    <3>1. Moves(w, "record")
      BY <2>3, <1>g, <1>p
    <3>2. /\ song'.status = "saving" /\ song'.retryCount = song.retryCount
          /\ Heeds("stop")' => Heeds("stop")
      BY <1>0, <2>3, SetStatusDoes DEF Statuses, InFlight
    <3>3. ~MayAsk'
      BY <2>0, <3>1, <3>2, <1>1, <1>p, MayAskStep DEF environment
    <3>4. AskedWithinAllowance'
      BY <1>0, <2>0, <3>2, <3>3, AsksNoMore DEF environment, history
    <3>5. Leaves(w, "record")
      BY <3>2, <3>4 DEF Leaves, Fits
    <3> QED
      BY <2>0, <3>1, <3>5, <1>m, <1>p DEF environment
  <2>4. CASE Fails(w)
    BY <1>1, <2>0, <2>4, FailsOrderly DEF history
  <2> QED
    BY <1>11, <2>2, <2>3, <2>4 DEF PollSucceeds
<1>12. CASE PollIsEmpty(w)
  <2>1. /\ worker[w].at = "polling" /\ Ends(w)
        /\ UNCHANGED <<song, events, environment, history>>
    BY <1>12 DEF PollIsEmpty
  <2>2. Generating(TRUE) \/ Undone("metadata_ready")
    BY <1>2, <2>1 DEF Fits
  <2> QED
    BY <1>1, <2>1, <2>2, EndsOrderly DEF Halfway, Generating, Undone, history
<1>13. CASE Resume(w)
  <2>0. worker[w].at = "resume" /\ UNCHANGED <<environment, history>>
    BY <1>13 DEF Resume
  <2>1. CASE Fails(w)
    BY <1>1, <2>0, <2>1, FailsOrderly DEF history
  <2>2. CASE /\ SetStatus("generating_audio")
             /\ Goes(w, IF song.task THEN "polling" ELSE "revert_audio")
    <3> DEFINE q == IF song.task THEN "polling" ELSE "revert_audio"
    <3>1. q \in Places \ {"idle"} /\ q \in {"polling", "revert_audio"}
      BY <1>p
    <3>2. Moves(w, q)
      BY <2>2, <3>1, <1>g
    <3>3. /\ song'.status = "generating_audio" /\ song'.retryCount = song.retryCount
          /\ song'.task = song.task
          /\ Heeds("stop")' => Heeds("stop")
      BY <1>0, <2>2, SetStatusDoes DEF Statuses, InFlight
    <3>4. song.task \in BOOLEAN
      BY <1>0 DEF RowOK, Row
    <3>5. Fits(q)'
      BY <3>3, <3>4 DEF Fits, Generating
    <3> HIDE DEF q
    <3>6. Open => MayAsk
      BY <1>2, <2>0, WorkersAssumption DEF MayAsk
    <3>7. MayAsk' => MayAsk
      BY <2>0, <3>1, <3>2, <3>6, <1>1, MayAskStep DEF environment
    <3>8. AskedWithinAllowance'
      BY <1>0, <2>0, <3>3, <3>7, AsksNoMore DEF environment, history
    <3>9. Leaves(w, q)
      BY <3>1, <3>3, <3>5, <3>8 DEF Leaves
    <3> QED
      BY <2>0, <3>1, <3>2, <3>9, <1>m DEF environment
  <2> QED
    BY <1>13, <2>1, <2>2 DEF Resume
<1>14. CASE Record(w)
  <2>1. /\ worker[w].at = "record" /\ Moves(w, "storing")
        /\ UNCHANGED <<events, environment, history>>
    BY <1>14, <1>g, <1>p DEF Record
  <2>2. song.status = "saving" \/ Generating(TRUE) \/ Undone("metadata_ready")
    BY <1>2, <2>1 DEF Fits
  <2>3. /\ song'.status = song.status /\ song'.retryCount = song.retryCount
        /\ song'.task = song.task /\ song'.path
    BY <1>0, <1>14 DEF Record, RowOK, Row
  <2>4. MayAsk' => MayAsk
    <3>1. MayAsk' => Open /\ song.status = "metadata_ready"
      BY <2>1, <2>2, <2>3, <1>1, <1>p, MayAskStep DEF environment, Generating, Undone
    <3> QED
      BY <1>2, <2>1, <3>1 DEF MayAsk, Settled
  <2>5. AskedWithinAllowance'
    BY <1>0, <2>1, <2>3, <2>4, AsksNoMore DEF environment, history
  <2>6. Fits("storing")'
    BY <2>1, <2>2, <2>3 DEF Fits, Generating, Undone, environment
  <2>7. song'.status \notin {"ready", "played", "error"} /\ (Heeds("stop")' => Heeds("stop"))
    BY <2>1, <2>2, <2>3 DEF Generating, Undone, Heeds
  <2>8. Leaves(w, "storing")
    BY <2>5, <2>6, <2>7 DEF Leaves
  <2> QED
    BY <2>1, <2>8, <1>m, <1>p DEF environment
<1>15. CASE Stored(w)
  <2>0. worker[w].at = "storing" /\ Ends(w) /\ UNCHANGED <<environment, history>>
    BY <1>15 DEF Stored
  <2>1. Moves(w, "idle") /\ "idle" \in Places
    BY <1>0, <2>0, EndsMoves DEF Places
  <2>2. (song.status = "saving" \/ Generating(TRUE) \/ Undone("metadata_ready")) /\ song.path
    BY <1>2, <2>0 DEF Fits
  <2>3. CASE worker[w].aborted
    <3>1. song' = song /\ UNCHANGED events
      BY <1>0, <1>15, <2>2, <2>3 DEF Stored, RowOK, Row
    <3> QED
      BY <1>1, <2>0, <2>3, <3>1, EndsOrderly DEF environment, history
  <2>4. CASE ~worker[w].aborted
    <3> DEFINE row == [song EXCEPT !.path = TRUE, !.status = "ready"]
    <3>1. row \in Row /\ row.status = "ready" /\ row.retryCount = song.retryCount
      BY <1>0 DEF RowOK, Row, Statuses, Settled
    <3>2. Update(row)
      BY <1>15, <2>4 DEF Stored
    <3> HIDE DEF row
    <3>3. song'.status = "ready" /\ song'.retryCount = song.retryCount
      BY <1>0, <3>1, <3>2, UpdateHeeds
    <3>4. ~MayAsk'
      BY <2>0, <2>1, <3>3, <1>1, MayAskStep DEF environment, Settled
    <3>5. AskedWithinAllowance'
      BY <1>0, <2>0, <3>3, <3>4, AsksNoMore DEF environment, history
    <3>6. ~Halfway'
      BY <3>3 DEF Halfway, Generating
    <3>7. Leaves(w, "idle")
      BY <3>3, <3>5, <3>6 DEF Leaves, Settled
    <3> QED
      BY <2>0, <2>1, <3>7, <1>m DEF environment
  <2> QED
    BY <2>3, <2>4
<1> QED
  BY <1>3, <1>4, <1>5, <1>6, <1>7, <1>8, <1>9, <1>10, <1>11, <1>12, <1>13, <1>14, <1>15
     DEF Works, LlmAnswers, SubmitAnswers, PollAnswers, StoreAnswers

-------------------------------------------------------------------------------
\* A song that is not settled gets a worker, or has one.
LEMMA SpawnOrderly ==
  ASSUME IInv, IInv', NobodyWhileDown, Orderly, song.status \notin Settled, Spawn,
         UNCHANGED <<song, submissions, crashes, reverts>>, Open' => Open,
         phase' = "up",
         phase # "up" => phase = "sweeping" /\ song.status # "retry_pending",
         Heeds("stop")' => Heeds("stop"),
         Heeds("retry_pending") => Heeds("retry_pending")'
  PROVE  Orderly'
<1>0. RowOK /\ WorkersOK /\ Exists
  BY DEF IInv, Exists, Settled
<1>1. EndHasNoWorker' /\ StopIsForSettled'
  BY DEF Orderly, EndHasNoWorker, StopIsForSettled, Settled
<1>2. FirstPlace = "idle" <=> song.status = "retry_pending"
  BY <1>0 DEF FirstPlace, RowOK, Row, Statuses, InFlight, Settled
<1>3. FirstPlace \in Places /\ (FirstPlace # "idle" => Fits(FirstPlace))
  BY <1>0 DEF FirstPlace, Fits, Places, Generating, RowOK, Row
<1>4. \A p : Fits(p)' <=> Fits(p)
  BY DEF Fits, Generating, Undone
<1>5. CASE ~(tracked = NoWorker /\ FirstPlace # "idle" /\ Open)
  <2>1. UNCHANGED <<worker, tracked>>
    BY <1>5 DEF Spawn
  <2>2. CancelledIsIdle' /\ OneBusyWorker' /\ WorkersFit'
    BY <1>4, <2>1 DEF Orderly, CancelledIsIdle, OneBusyWorker, WorkersFit, Busy
  <2>3. tracked' = NoWorker /\ Open' => song.status = "retry_pending" /\ phase = "up"
    BY <1>2, <1>5, <2>1
  <2>4. HalfwayHasWorker'
    BY <2>3 DEF HalfwayHasWorker, Halfway, Generating
  <2>5. WaitingIsHeeded'
    BY <2>1, <2>3 DEF WaitingIsHeeded, Orderly
  <2>6. MayAsk' => MayAsk
    BY <2>1 DEF MayAsk, At
  <2>7. AskedWithinAllowance'
    BY <1>0, <2>6, AsksNoMore
  <2> QED
    BY <1>1, <2>2, <2>4, <2>5, <2>7 DEF Orderly
<1>6. CASE tracked = NoWorker /\ FirstPlace # "idle" /\ Open
  <2>1. PICK w \in Workers :
          /\ worker' = [worker EXCEPT ![w] = [at |-> FirstPlace, aborted |-> FALSE,
                                              seen |-> song.status]]
          /\ tracked' = w
    BY <1>6 DEF Spawn
  <2>2. \A v \in Workers : ~Busy(v)
    BY <1>0, <1>6, WorkersAssumption
       DEF WorkersOK, OneLiveWorker, Busy, Orderly, CancelledIsIdle
  <2> HIDE DEF FirstPlace
  <2>3. /\ \A v \in Workers \ {w} : worker'[v].at = "idle"
        /\ worker'[w].at = FirstPlace /\ ~worker'[w].aborted
    BY <1>0, <2>1, <2>2 DEF WorkersOK, Worker, Busy
  <2>4. CancelledIsIdle' /\ OneBusyWorker'
    BY <2>3 DEF CancelledIsIdle, OneBusyWorker, Busy
  <2>5. WorkersFit'
    <3>1. Fits("idle")
      BY DEF Fits
    <3> QED
      BY <1>3, <1>4, <1>6, <2>3, <3>1 DEF WorkersFit
  <2>6. HalfwayHasWorker' /\ WaitingIsHeeded'
    BY <2>1, WorkersAssumption DEF HalfwayHasWorker, WaitingIsHeeded
  <2>7. MayAsk' => MayAsk
    <3>1. CASE phase # "up"
      BY <1>6, <3>1 DEF MayAsk
    <3>2. CASE phase = "up"
      <4>1. ~Halfway
        BY <1>6, <3>2 DEF Orderly, HalfwayHasWorker
      <4>2. FirstPlace \notin {"revert_audio", "resume"} \/ song.status = "generating_metadata"
        BY <1>0, <4>1 DEF FirstPlace, Halfway, Generating, RowOK, Row
      <4>3. \A p : At(p)' <=> FirstPlace = p
        BY <2>1, <2>3 DEF At
      <4>4. \A p : ~At(p)
        BY <1>6, WorkersAssumption DEF At
      <4> QED
        BY <1>6, <3>2, <4>2, <4>3, <4>4 DEF MayAsk
    <3> QED
      BY <3>1, <3>2
  <2>8. AskedWithinAllowance'
    BY <1>0, <2>7, AsksNoMore
  <2> QED
    BY <1>1, <2>4, <2>5, <2>6, <2>8 DEF Orderly
<1> QED
  BY <1>5, <1>6

\* The playlist is closed, and the workers stay or the one in the map is
\* cancelled.
LEMMA ClosedOrderly ==
  ASSUME IInv, IInv', Orderly, song.status \notin Settled,
         ~Open', Cancel \/ UNCHANGED <<worker, tracked>>,
         UNCHANGED <<song, submissions, crashes, reverts>>,
         Heeds("stop")' => Heeds("stop")
  PROVE  Orderly'
<1>0. Exists /\ WorkersOK
  BY DEF IInv, Exists, Settled
<1>1. \A w \in Workers : worker'[w].at \in {worker[w].at, "idle"}
  BY <1>0 DEF Cancel, Idle, WorkersOK, Worker
<1>2. EndHasNoWorker' /\ StopIsForSettled'
  BY DEF Orderly, EndHasNoWorker, StopIsForSettled, Settled
<1>3. CancelledIsIdle' /\ HalfwayHasWorker' /\ WaitingIsHeeded' /\ ~MayAsk'
  BY DEF CancelledIsIdle, HalfwayHasWorker, WaitingIsHeeded, MayAsk
<1>4. OneBusyWorker'
  BY <1>1 DEF Orderly, OneBusyWorker, Busy
<1>5. WorkersFit'
  <2>1. \A p : Fits(p)' <=> Fits(p)
    BY DEF Fits, Generating, Undone
  <2>2. Fits("idle")
    BY DEF Fits
  <2> QED
    BY <1>1, <2>1, <2>2 DEF Orderly, WorkersFit
<1>6. AskedWithinAllowance'
  BY <1>0, <1>3, AsksNoMore
<1> QED
  BY <1>2, <1>3, <1>4, <1>5, <1>6 DEF Orderly

\* The row is deleted.
LEMMA GoneOrderly ==
  ASSUME song'.status = "deleted"
  PROVE  Orderly'
BY DEF Orderly, EndHasNoWorker, StopIsForSettled, CancelledIsIdle, OneBusyWorker, WorkersFit,
   HalfwayHasWorker, WaitingIsHeeded, AskedWithinAllowance, Halfway, Generating, Exists, Settled

\* Neither the row nor the workers change, the playlist does not open, and no
\* event is lost that a song without a worker waits for.
LEMMA IdleOrderly ==
  ASSUME IInv, IInv', Orderly, song.status \notin Settled,
         UNCHANGED <<worker, tracked, submissions, crashes, reverts>>,
         Heeds("stop")' => Heeds("stop"),
         song.status = "retry_pending" /\ Heeds("retry_pending") => Heeds("retry_pending")',
         \A e \in Actionable : Heeds(e) => Heeds(e)',
         song'.status = song.status, song'.task = song.task, song'.path = song.path,
         song'.retryCount = song.retryCount,
         Open' => Open, phase' # "up" \/ phase' = phase, phase' # "up" => phase # "up",
         question => question'
  PROVE  Orderly'
<1>0. Exists
  BY DEF Exists, Settled
<1>1. EndHasNoWorker' /\ StopIsForSettled' /\ CancelledIsIdle' /\ OneBusyWorker'
  BY DEF Orderly, EndHasNoWorker, StopIsForSettled, CancelledIsIdle, OneBusyWorker, Busy
<1>2. WorkersFit'
  <2>1. \A p : Fits(p)' <=> Fits(p)
    BY DEF Fits, Generating, Undone
  <2> QED
    BY <2>1 DEF Orderly, WorkersFit
<1>3. HalfwayHasWorker'
  BY DEF Orderly, HalfwayHasWorker, Halfway, Generating
<1>4. WaitingIsHeeded'
  BY DEF Orderly, WaitingIsHeeded
<1>5. MayAsk' => MayAsk
  BY DEF MayAsk, At
<1>6. AskedWithinAllowance'
  BY <1>0, <1>5, AsksNoMore
<1> QED
  BY <1>1, <1>2, <1>3, <1>4, <1>6 DEF Orderly

\* A song in retry_pending goes on, and the actor hears of it.
LEMMA RetriedOrderly ==
  ASSUME IInv, IInv', NobodyWhileDown, Orderly, song.status = "retry_pending",
         song' = Retried, UNCHANGED <<worker, tracked, submissions, crashes, reverts>>,
         Heeds("stop")' => Heeds("stop"), In(RetryFrom, events')
  PROVE  Orderly'
<1>0. RowOK /\ WorkersOK /\ Exists /\ song.status \notin Settled
  BY DEF IInv, Exists, Settled
<1>1. /\ song'.status = RetryFrom
      /\ song'.retryCount = song.retryCount + 1
      /\ RetryFrom \in {"pending", "saving", "generating_audio", "metadata_ready"}
      /\ RetryFrom = "saving" => song'.path
      /\ RetryFrom = "generating_audio" => song'.task = TRUE
  BY <1>0 DEF Retried, RetryFrom, RowOK, Row
<1>2. \A w \in Workers : ~Busy(w)
  <2>1. \A p \in Places \ {"idle"} : ~Fits(p)
    BY <1>0 DEF Fits, Places, Generating, Undone
  <2> QED
    BY <1>0, <2>1 DEF Orderly, WorkersFit, Busy, WorkersOK, Worker
<1>3. EndHasNoWorker' /\ StopIsForSettled'
  BY <1>0, <1>1 DEF Orderly, EndHasNoWorker, StopIsForSettled
<1>4. CancelledIsIdle' /\ OneBusyWorker'
  BY <1>2 DEF CancelledIsIdle, OneBusyWorker, Busy
<1>5. WorkersFit'
  <2>1. Fits("idle")'
    BY DEF Fits
  <2> QED
    BY <1>2, <2>1 DEF WorkersFit, Busy
<1>6. HalfwayHasWorker'
  BY <1>1 DEF HalfwayHasWorker, Halfway, Generating
<1>7. WaitingIsHeeded'
  <2>1. RetryFrom \in Actionable
    BY <1>1 DEF Actionable
  <2>2. \E e \in Actionable : Heeds(e)'
    BY <2>1 DEF Heeds
  <2>3. song'.status # "retry_pending"
    BY <1>1
  <2> QED
    BY <2>2, <2>3 DEF WaitingIsHeeded
<1>8. AskedWithinAllowance'
  <2>1. submissions <= 1 + song.retryCount + crashes + reverts
    BY <1>0 DEF Orderly, AskedWithinAllowance, Allowance
  <2>2. song.retryCount \in Nat /\ crashes \in Nat /\ reverts \in Nat /\ submissions \in Nat
    BY BoundsAssumption DEF IInv, RowOK, Row, RestOK
  <2>3. submissions' < 1 + song'.retryCount + crashes' + reverts'
    BY <1>1, <2>1, <2>2
  <2>4. submissions' <= 1 + song'.retryCount + crashes' + reverts'
    BY <1>1, <2>1, <2>2
  <2> QED
    BY <2>3, <2>4 DEF AskedWithinAllowance, Allowance
<1> QED
  BY <1>3, <1>4, <1>5, <1>6, <1>7, <1>8 DEF Orderly

\* POST /api/songs/:id/revert
LEMMA UserRevertOrderly ==
  ASSUME IInv, IInv', Orderly, song.status \notin Settled, UserRevert
  PROVE  Orderly'
<1>0. /\ RowOK /\ Exists
      /\ reverts' = reverts + 1 /\ reverts \in Nat
      /\ UNCHANGED <<worker, tracked, playlist, question, phase, crashes, submissions>>
  BY BoundsAssumption DEF IInv, Exists, Settled, UserRevert, RestOK, history
<1>1. /\ song'.path = song.path /\ song'.retryCount = song.retryCount
      /\ Heeds("stop")' => Heeds("stop")
      /\ \/ song.status = "generating_metadata" /\ song'.status = "pending"
         \/ song.status = "saving" /\ song.path /\ song'.status = "saving"
         \/ /\ song.status \in InFlight \ {"generating_metadata"}
            /\ ~(song.status = "saving" /\ song.path)
            /\ song'.status = "metadata_ready"
         \/ song.status \notin InFlight /\ song' = song
  BY <1>0, RevertDoes DEF UserRevert
<1>2. EndHasNoWorker' /\ StopIsForSettled' /\ CancelledIsIdle' /\ OneBusyWorker'
  BY <1>0, <1>1 DEF Orderly, EndHasNoWorker, StopIsForSettled, CancelledIsIdle,
     OneBusyWorker, Busy, Open, Settled
<1>3. WorkersFit'
  <2>1. ASSUME NEW p, Fits(p) PROVE Fits(p)'
    BY <1>0, <1>1, <2>1 DEF Fits, Generating, Undone, InFlight
  <2> QED
    BY <1>0, <2>1 DEF Orderly, WorkersFit
<1>4. HalfwayHasWorker'
  BY <1>0, <1>1 DEF Orderly, HalfwayHasWorker, Halfway, Generating, InFlight, Open
<1>5. WaitingIsHeeded'
  BY <1>0 DEF WaitingIsHeeded
<1>6. AskedWithinAllowance'
  <2>1. submissions <= 1 + song.retryCount + crashes + reverts
    BY <1>0 DEF Orderly, AskedWithinAllowance, Allowance
  <2>2. song.retryCount \in Nat /\ crashes \in Nat /\ submissions \in Nat
    BY BoundsAssumption DEF IInv, RowOK, Row, RestOK
  <2>3. submissions' < 1 + song'.retryCount + crashes' + reverts'
    BY <1>0, <1>1, <2>1, <2>2
  <2>4. submissions' <= 1 + song'.retryCount + crashes' + reverts'
    BY <1>0, <1>1, <2>1, <2>2
  <2> QED
    BY <2>3, <2>4 DEF AskedWithinAllowance, Allowance
<1> QED
  BY <1>2, <1>3, <1>4, <1>5, <1>6 DEF Orderly

\* The song actor
LEMMA HandleOrderly ==
  ASSUME IInv, IInv', NobodyWhileDown, Orderly, song.status \notin Settled, Handle
  PROVE  Orderly'
<1>0. /\ RowOK /\ WorkersOK /\ Exists /\ phase = "up" /\ events # <<>>
      /\ events \in Seq(Statuses \cup {"stop"})
      /\ UNCHANGED <<question, phase, crashes, reverts, submissions>>
  BY DEF IInv, Exists, Settled, Handle, history, RowOK
<1>1. \A e : /\ In(e, Tail(events)) => Heeds(e)
             /\ Heeds(e) => e = Head(events) \/ In(e, Tail(events))
  BY <1>0, InTail DEF Heeds
<1>2. ~HandleStop
  <2>1. ASSUME HandleStop PROVE FALSE
    <3>1. Head(events) = "stop" /\ 1 \in 1..Len(events) /\ events[1] = Head(events)
      BY <1>0, <2>1 DEF HandleStop
    <3> QED
      BY <3>1 DEF Heeds, In, Orderly, StopIsForSettled
  <2> QED
    BY <2>1
\* An event that the song does not wait for is dropped.
<1>d. ASSUME UNCHANGED <<song, worker, tracked, playlist>>, events' = Tail(events),
             Head(events) \notin Actionable,
             Head(events) # "retry_pending" \/ song.status # "retry_pending"
      PROVE  Orderly'
  <2>1. Heeds("stop")' => Heeds("stop")
    BY <1>1, <1>d DEF Heeds
  <2>2. song.status = "retry_pending" /\ Heeds("retry_pending") => Heeds("retry_pending")'
    BY <1>1, <1>d DEF Heeds
  <2>3. \A e \in Actionable : Heeds(e) => Heeds(e)'
    BY <1>1, <1>d DEF Heeds
  <2> QED
    BY <1>0, <1>d, <2>1, <2>2, <2>3, IdleOrderly DEF Open
<1>3. CASE HandleActionable
  <2>1. /\ Head(events) # "retry_pending" /\ events' = Tail(events)
        /\ Spawn /\ UNCHANGED <<song, playlist>>
    BY <1>3 DEF HandleActionable
  <2>2. Heeds("stop")' => Heeds("stop")
    BY <1>1, <2>1 DEF Heeds
  <2>3. Heeds("retry_pending") => Heeds("retry_pending")'
    BY <1>1, <2>1 DEF Heeds
  <2> QED
    BY <1>0, <2>1, <2>2, <2>3, SpawnOrderly DEF Open
<1>4. CASE HandleRetry
  <2>1. CASE song.status = "retry_pending"
    <3>1. song' = Retried /\ events' = Tail(events) \o Heard(RetryFrom)
      BY <1>4, <2>1 DEF HandleRetry
    <3>2. RetryFrom \in {"pending", "saving", "generating_audio", "metadata_ready"}
      BY DEF RetryFrom
    <3>3. RetryFrom \in Statuses
      BY <3>2 DEF Statuses, InFlight
    <3> HIDE DEF RetryFrom
    <3>4. /\ Heard(RetryFrom) \in Seq(Statuses \cup {"stop"})
          /\ Tail(events) \in Seq(Statuses \cup {"stop"})
      BY <1>0, <3>3, HeardType
    <3>5. \A e : In(e, events') <=> In(e, Tail(events)) \/ e = RetryFrom
      <4>1. \A e : In(e, Heard(RetryFrom)) <=> e = RetryFrom
        BY <3>2, <3>3, InHeard
      <4>2. \A e : In(e, Tail(events) \o Heard(RetryFrom)) <=>
                    In(e, Tail(events)) \/ In(e, Heard(RetryFrom))
        BY <3>4, InAppended
      <4> QED
        BY <3>1, <4>1, <4>2
    <3>6. In(RetryFrom, events')
      BY <3>5
    <3>7. Heeds("stop")' => Heeds("stop")
      BY <1>1, <3>2, <3>5 DEF Heeds
    <3> QED
      BY <1>0, <1>4, <2>1, <3>1, <3>6, <3>7, RetriedOrderly DEF HandleRetry
  <2>2. CASE song.status # "retry_pending"
    <3>1. /\ UNCHANGED <<song, worker, tracked, playlist>>
          /\ events' = Tail(events) /\ Head(events) = "retry_pending"
      BY <1>4, <2>2 DEF HandleRetry
    <3> QED
      BY <1>d, <2>2, <3>1 DEF Actionable
  <2> QED
    BY <2>1, <2>2
<1>5. CASE HandleEnd
  <2>1. /\ UNCHANGED song /\ events' = Tail(events)
        /\ Head(events) \in {"ready", "error", "played"}
    BY <1>5 DEF HandleEnd
  <2>2. CASE UNCHANGED <<playlist, worker, tracked>>
    BY <1>d, <2>1, <2>2 DEF Actionable
  <2>3. CASE playlist' = "closed" /\ Cancel
    <3>1. Heeds("stop")' => Heeds("stop")
      BY <1>1, <2>1 DEF Heeds
    <3> QED
      BY <1>0, <2>1, <2>3, <3>1, ClosedOrderly DEF Open
  <2> QED
    BY <1>5, <2>2, <2>3 DEF HandleEnd
<1> QED
  BY <1>2, <1>3, <1>4, <1>5 DEF Handle

\* The playlist, the users, time, and the server
LEMMA OthersOrderly ==
  ASSUME IInv, IInv', NobodyWhileDown, Orderly, song.status \notin Settled, ~overtaken',
         \/ LateSubmitted \/ Handle \/ PlaylistUpdated \/ AskQuestion \/ AnswerQuestion
         \/ StartClosing \/ Reactivate \/ CloseNow \/ HandleClosed
         \/ UserRevert \/ UserDelete \/ UserPlayed \/ Ages \/ StaleCleanup
         \/ Crash \/ Restart \/ Reconcile \/ Sweep
  PROVE  Orderly'
<1>0. /\ RowOK /\ WorkersOK /\ Exists
  BY DEF IInv, Exists, Settled
<1>e. events' = events => \A e : Heeds(e)' <=> Heeds(e)
  BY DEF Heeds
<1>i. ASSUME UNCHANGED <<song, events, worker, tracked, submissions, crashes, reverts>>,
             Open' => Open, phase' # "up" \/ phase' = phase, phase' # "up" => phase # "up",
             question => question'
      PROVE  Orderly'
  BY <1>e, <1>i, IdleOrderly
<1>s. ASSUME Spawn, UNCHANGED <<song, events, submissions, crashes, reverts>>, Open' => Open,
             phase = "up", phase' = "up"
      PROVE  Orderly'
  BY <1>e, <1>s, SpawnOrderly
<1>c. ASSUME ~Open', Cancel \/ UNCHANGED <<worker, tracked>>,
             UNCHANGED <<song, events, submissions, crashes, reverts>>
      PROVE  Orderly'
  BY <1>c, <1>e, ClosedOrderly
<1> USE DEF history, environment
<1>1. CASE LateSubmitted
  <2>1. UNCHANGED <<song, events, worker, tracked, playlist, question, phase, crashes, reverts,
                    submissions>>
    BY <1>1 DEF LateSubmitted
  <2> QED
    BY <2>1, <1>i DEF Open
<1>2. CASE Handle
  BY <1>2, HandleOrderly
<1>3. CASE PlaylistUpdated \/ AnswerQuestion \/ Reactivate
  BY <1>3, <1>s DEF PlaylistUpdated, AnswerQuestion, Reactivate, Open
<1>4. CASE StartClosing
  BY <1>4, <1>s, <1>c DEF StartClosing, Open
<1>5. CASE CloseNow \/ HandleClosed
  BY <1>5, <1>c DEF CloseNow, HandleClosed, Open
<1>6. CASE AskQuestion
  BY <1>6, <1>i DEF AskQuestion, Open
<1>7. CASE UserRevert
  BY <1>7, UserRevertOrderly
<1>8. CASE UserDelete \/ StaleCleanup
  BY <1>8, GoneOrderly DEF UserDelete, StaleCleanup, Gone
<1>9. CASE UserPlayed
  BY <1>9 DEF UserPlayed, Settled
<1>10. CASE Ages
  <2>1. /\ song'.status = song.status /\ song'.task = song.task /\ song'.path = song.path
        /\ song'.retryCount = song.retryCount
        /\ UNCHANGED <<events, worker, tracked, environment, history>>
    BY <1>0, <1>10 DEF Ages, RowOK, Row
  <2> QED
    BY <2>1, <1>e, IdleOrderly DEF Open
<1>11. CASE Crash
  <2>1. /\ phase' # "up" /\ tracked' = NoWorker /\ events' = <<>> /\ song' = song
        /\ \A w \in Workers : ~Busy(w)'
        /\ crashes' = crashes + 1 /\ reverts' = reverts /\ submissions' = submissions
    BY <1>11 DEF Crash, Busy, Idle
  <2>2. ~Heeds("stop")'
    BY <2>1 DEF Heeds, In
  <2>3. EndHasNoWorker' /\ StopIsForSettled' /\ CancelledIsIdle' /\ OneBusyWorker'
    BY <2>1, <2>2 DEF EndHasNoWorker, StopIsForSettled, CancelledIsIdle, OneBusyWorker
  <2>4. WorkersFit'
    <3>1. Fits("idle")'
      BY DEF Fits
    <3>2. \A w \in Workers : worker'[w].at = "idle"
      BY <2>1 DEF Busy
    <3> QED
      BY <3>1, <3>2 DEF WorkersFit
  <2>5. HalfwayHasWorker' /\ WaitingIsHeeded'
    BY <2>1 DEF HalfwayHasWorker, WaitingIsHeeded
  <2>6. AskedWithinAllowance'
    <3>1. submissions <= 1 + song.retryCount + crashes + reverts
      BY <1>0 DEF Orderly, AskedWithinAllowance, Allowance
    <3>2. song.retryCount \in Nat /\ crashes \in Nat /\ reverts \in Nat /\ submissions \in Nat
      BY BoundsAssumption DEF IInv, RowOK, Row, RestOK
    <3>3. submissions' < 1 + song'.retryCount + crashes' + reverts'
      BY <2>1, <3>1, <3>2
    <3>4. submissions' <= 1 + song'.retryCount + crashes' + reverts'
      BY <2>1, <3>1, <3>2
    <3> QED
      BY <3>3, <3>4 DEF AskedWithinAllowance, Allowance
  <2> QED
    BY <2>3, <2>4, <2>5, <2>6 DEF Orderly
<1>12. CASE Restart
  BY <1>12, <1>i DEF Restart, Open
<1>13. CASE Reconcile
  <2>1. /\ phase = "reconciling" /\ phase' = "sweeping"
        /\ UNCHANGED <<worker, tracked, playlist, question, crashes, reverts, submissions>>
    BY <1>13 DEF Reconcile
  <2>2. CASE UNCHANGED <<song, events>>
    BY <2>1, <2>2, <1>i DEF Open
  <2>3. CASE RevertTransient
    <3>1. song'.retryCount = song.retryCount /\ (Heeds("stop")' => Heeds("stop"))
          /\ song'.status \notin {"ready", "error", "played"}
      BY <1>0, <2>3, RevertDoes DEF Settled
    <3>2. tracked = NoWorker /\ \A w \in Workers : ~Busy(w)
      BY <2>1 DEF NobodyWhileDown
    <3>3. EndHasNoWorker' /\ StopIsForSettled' /\ CancelledIsIdle' /\ OneBusyWorker'
      BY <2>1, <3>1, <3>2 DEF Orderly, EndHasNoWorker, StopIsForSettled, CancelledIsIdle,
         OneBusyWorker, Busy
    <3>4. WorkersFit'
      <4>1. Fits("idle")'
        BY DEF Fits
      <4> QED
        BY <2>1, <3>2, <4>1 DEF WorkersFit, Busy
    <3>5. HalfwayHasWorker' /\ WaitingIsHeeded'
      BY <2>1 DEF HalfwayHasWorker, WaitingIsHeeded
    <3>6. MayAsk' => MayAsk
      BY <2>1 DEF MayAsk, Open
    <3>7. AskedWithinAllowance'
      BY <1>0, <2>1, <3>1, <3>6, AsksNoMore
    <3> QED
      BY <3>3, <3>4, <3>5, <3>7 DEF Orderly
  <2> QED
    BY <1>13, <2>2, <2>3 DEF Reconcile
<1>14. CASE Sweep
  <2>1. /\ phase = "sweeping" /\ phase' = "up"
        /\ UNCHANGED <<question, crashes, reverts, submissions>>
        /\ playlist' \in IF playlist = "closing" /\ song.status \notin InFlight
                         THEN {"closing", "closed"} ELSE {playlist}
    BY <1>14 DEF Sweep
  <2>2. tracked = NoWorker /\ \A w \in Workers : ~Busy(w)
    BY <2>1 DEF NobodyWhileDown
  <2>3. CASE ~Open /\ UNCHANGED <<song, events, worker, tracked>>
    <3>1. ~Open'
      BY <2>1, <2>3 DEF Open
    <3> QED
      BY <2>1, <2>3, <3>1, <1>c
  <2>4. CASE Open /\ song.status # "retry_pending" /\ Spawn /\ UNCHANGED <<song, events>>
    BY <2>1, <2>4, <1>e, SpawnOrderly
  <2>5. CASE song' = Gone
    BY <2>5, GoneOrderly DEF Gone
  <2>6. CASE song.status = "retry_pending" /\ Update(Retried) /\ UNCHANGED <<worker, tracked>>
    <3>1. /\ Retried \in Row /\ Retried.status = RetryFrom
          /\ RetryFrom \in {"pending", "saving", "generating_audio", "metadata_ready"}
      BY <1>0, <2>6, RetriedRow DEF RetryFrom
    <3> HIDE DEF RetryFrom
    <3>2. song' = Retried /\ (Heeds("stop")' => Heeds("stop"))
      BY <1>0, <2>6, <3>1, UpdateHeeds
    <3>3. In(RetryFrom, events')
      <4>1. Heard(RetryFrom) \in Seq(Statuses \cup {"stop"}) /\ RetryFrom \in Statuses
        BY <3>1, HeardType DEF Statuses, InFlight
      <4>2. events' = events \o Heard(RetryFrom)
        BY <1>0, <2>6, <3>1 DEF Update
      <4>3. events \in Seq(Statuses \cup {"stop"})
        BY <1>0 DEF RowOK
      <4> QED
        BY <3>1, <4>1, <4>2, <4>3, InAppended, InHeard
    <3> QED
      BY <2>1, <2>6, <3>2, <3>3, RetriedOrderly
  <2> QED
    BY <1>14, <2>3, <2>4, <2>5, <2>6 DEF Sweep
<1> QED
  BY <1>1, <1>2, <1>3, <1>4, <1>5, <1>6, <1>7, <1>8, <1>9, <1>10, <1>11, <1>12, <1>13, <1>14

\* A late submission that has written the row has done so for good.
LEMMA OvertakenStays ==
  ASSUME Next, ~overtaken'
  PROVE  ~overtaken
<1> USE DEF history
<1>1. CASE \E w \in Workers : Works(w) \/ LlmAnswers(w) \/ SubmitAnswers(w)
                                \/ PollAnswers(w) \/ StoreAnswers(w)
  <2>1. PICK w \in Workers : Works(w) \/ LlmAnswers(w) \/ SubmitAnswers(w)
                                \/ PollAnswers(w) \/ StoreAnswers(w)
    BY <1>1
  <2>2. overtaken' = overtaken
    BY <2>1 DEF Works, LlmAnswers, SubmitAnswers, PollAnswers, StoreAnswers, RevertMetadata,
       RevertAudio, ClaimMetadata, CompleteMetadata, LlmFails, ClaimAudio, Submitted,
       SubmitFails, AnsweredEarly, PollSucceeds, PollIsEmpty, PollFails, Errored, Resume,
       Record, Stored, StoreFails
  <2> QED
    BY <2>2
<1>2. CASE LateSubmitted
  BY <1>2 DEF LateSubmitted
<1>3. CASE Handle \/ PlaylistUpdated \/ AskQuestion \/ AnswerQuestion \/ StartClosing
           \/ Reactivate \/ CloseNow \/ HandleClosed \/ UserRevert \/ UserDelete \/ UserPlayed
           \/ Ages \/ StaleCleanup \/ Crash \/ Restart \/ Reconcile \/ Sweep
  BY <1>3 DEF Handle, PlaylistUpdated, AskQuestion, AnswerQuestion, StartClosing, Reactivate,
     CloseNow, HandleClosed, UserRevert, UserDelete, UserPlayed, Ages, StaleCleanup, Crash,
     Restart, Reconcile, Sweep
<1> QED
  BY <1>1, <1>2, <1>3 DEF Next

LEMMA OrderInit ==
  ASSUME Init
  PROVE  OrderInv
<1>1. /\ song.status \in {"pending", "metadata_ready"} /\ song.retryCount = 0
      /\ song.status \in Actionable
      /\ events = <<song.status>> /\ tracked = NoWorker
      /\ \A w \in Workers : worker[w].at = "idle"
      /\ phase = "up" /\ crashes = 0 /\ reverts = 0 /\ submissions = 0
  BY DEF Init, Idle, Actionable
<1>2. Heeds(song.status) /\ ~Heeds("stop")
  BY <1>1 DEF Heeds, In
<1>3. EndHasNoWorker /\ StopIsForSettled /\ CancelledIsIdle /\ OneBusyWorker
  BY <1>1, <1>2 DEF EndHasNoWorker, StopIsForSettled, CancelledIsIdle, OneBusyWorker, Busy
<1>4. WorkersFit
  BY <1>1 DEF WorkersFit, Fits
<1>5. HalfwayHasWorker /\ WaitingIsHeeded
  BY <1>1, <1>2 DEF HalfwayHasWorker, WaitingIsHeeded, Halfway, Generating
<1>6. AskedWithinAllowance
  BY <1>1 DEF AskedWithinAllowance, Allowance
<1> QED
  BY <1>1, <1>3, <1>4, <1>5, <1>6 DEF OrderInv, Orderly, NobodyWhileDown

LEMMA OrderNext ==
  ASSUME IInv, ReadyInv, OrderInv, [Next]_vars
  PROVE  OrderInv'
<1>1. CASE UNCHANGED vars
  BY <1>1 DEF vars, OrderInv, Orderly, NobodyWhileDown, EndHasNoWorker, StopIsForSettled,
     CancelledIsIdle, OneBusyWorker, WorkersFit, HalfwayHasWorker, WaitingIsHeeded,
     AskedWithinAllowance, Busy, At, In, Heeds, Undone, Generating, Fits, Halfway, MayAsk,
     Allowance, Open, Exists
<1>2. CASE Next
  <2>0. IInv'
    BY NextHolds
  <2>1. NobodyWhileDown'
    BY <1>2, NobodyKeeps DEF OrderInv
  <2>2. SUFFICES ASSUME ~overtaken' PROVE Orderly'
    BY <2>1 DEF OrderInv
  <2>3. ~overtaken
    BY <1>2, <2>2, OvertakenStays
  <2>4. NobodyWhileDown /\ Orderly
    BY <2>3 DEF OrderInv
  <2>5. CASE \E w \in Workers : Works(w) \/ LlmAnswers(w) \/ SubmitAnswers(w)
                                  \/ PollAnswers(w) \/ StoreAnswers(w)
    <3>1. PICK w \in Workers : Works(w) \/ LlmAnswers(w) \/ SubmitAnswers(w)
                                  \/ PollAnswers(w) \/ StoreAnswers(w)
      BY <2>5
    <3> QED
      BY <2>0, <2>3, <2>4, <3>1, WorkerOrderly, SettledWorker, SettledIsEnough
  <2>6. CASE \/ LateSubmitted \/ Handle \/ PlaylistUpdated \/ AskQuestion \/ AnswerQuestion
             \/ StartClosing \/ Reactivate \/ CloseNow \/ HandleClosed
             \/ UserRevert \/ UserDelete \/ UserPlayed \/ Ages \/ StaleCleanup
             \/ Crash \/ Restart \/ Reconcile \/ Sweep
    BY <2>0, <2>2, <2>4, <2>6, OthersOrderly, SettledOthers, SettledIsEnough
  <2> QED
    BY <1>2, <2>5, <2>6 DEF Next
<1> QED
  BY <1>1, <1>2

\* The invariant of the whole proof
THEOREM Order == Spec => [](IInv /\ ReadyInv /\ OrderInv)
<1>1. Init => ReadyInv
  BY DEF Init, ReadyInv, Idle
<1>2. IInv /\ ReadyInv /\ [Next]_vars => ReadyInv'
  BY NextAndReady
<1> QED
  BY <1>1, <1>2, OrderInit, OrderNext, Invariance, PTL DEF Spec

\* When the actor has handled every event, a song that can go on has a worker,
\* although nothing polls for songs that have none: neither a retry, a worker
\* that ends, the answer to a question nor a restart leaves one behind.
THEOREM NobodyIsStranded == Spec => []NeverStranded
<1>1. OrderInv => NeverStranded
  <2>1. events = <<>> => \A e : ~Heeds(e)
    BY DEF Heeds, In
  <2> QED
    BY <2>1 DEF OrderInv, Orderly, WaitingIsHeeded, NeverStranded
<1> QED
  BY <1>1, Order, PTL

\* ACE is asked for a song's audio once, and once more for every retry, crash
\* and revert: between two of them no path leads back to the audio stage.
THEOREM AudioIsNotAskedAgain == Spec => []AudioIsAskedOnce
<1>1. OrderInv => AudioIsAskedOnce
  BY DEF OrderInv, Orderly, AskedWithinAllowance, Allowance, AudioIsAskedOnce
<1> QED
  BY <1>1, Order, PTL

-------------------------------------------------------------------------------
\* Audio whose file is known: the song is saving, or waits to save again.
Saving == song.status = "saving" /\ song.path
SavesAgain == song.status = "retry_pending" /\ song.erroredAt = "saving" /\ song.path

SavedStep ==
    /\ Saving => \/ song'.status \in {"ready", "error", "deleted"}
                 \/ song'.status \in {"saving", "retry_pending"} /\ song'.path
    /\ SavesAgain => song'.status \in {"retry_pending", "saving", "deleted"}

\* The one worker of such a song is about to record its file, or stores it.
LEMMA SavedWorker ==
  ASSUME IInv, Orderly, NEW w \in Workers,
         Works(w) \/ LlmAnswers(w) \/ SubmitAnswers(w) \/ PollAnswers(w) \/ StoreAnswers(w)
  PROVE  SavedStep
<1>0. RowOK /\ WorkersOK
  BY DEF IInv
<1>1. SUFFICES ASSUME Saving \/ SavesAgain PROVE SavedStep
  BY DEF SavedStep
<1>2. Exists /\ Fits(worker[w].at)
  BY <1>1 DEF Orderly, WorkersFit, Saving, SavesAgain, Settled, Exists
<1>3. /\ worker[w].at \in {"idle", "record", "storing"}
      /\ worker[w].at \in {"record", "storing"} => Saving
  BY <1>0, <1>1, <1>2 DEF Fits, Generating, Undone, Saving, SavesAgain, WorkersOK, Worker, Places
<1>4. Record(w) \/ Stored(w) \/ StoreFails(w)
  BY <1>3 DEF Works, LlmAnswers, SubmitAnswers, PollAnswers, StoreAnswers, RevertMetadata,
     RevertAudio, ClaimMetadata, CompleteMetadata, LlmFails, ClaimAudio, Submitted,
     SubmitFails, AnsweredEarly, PollSucceeds, PollIsEmpty, PollFails, Errored, Resume
<1>5. Saving
  BY <1>3, <1>4 DEF Record, Stored, StoreFails
<1>6. CASE Record(w)
  <2>1. song'.status = song.status /\ song'.path
    BY <1>0, <1>2, <1>6 DEF Record, RowOK, Row
  <2> QED
    BY <1>5, <2>1 DEF SavedStep, Saving, SavesAgain
<1>7. CASE Stored(w)
  <2>1. \/ song'.status = song.status /\ song'.path
        \/ song'.status = "ready"
    BY <1>0, <1>2, <1>7 DEF Stored, Update, RowOK, Row
  <2> QED
    BY <1>5, <2>1 DEF SavedStep, Saving, SavesAgain
<1>8. CASE StoreFails(w)
  <2>1. CASE worker[w].aborted
    BY <1>5, <1>8, <2>1 DEF StoreFails, Fails, SavedStep, Saving, SavesAgain
  <2>2. CASE ~worker[w].aborted
    <3>1. song'.status \in {"retry_pending", "error"} /\ song'.path = song.path
      BY <1>0, <1>2, <1>8, <2>2, MarkErrorDoes DEF StoreFails, Fails
    <3> QED
      BY <1>5, <3>1 DEF SavedStep, Saving, SavesAgain
  <2> QED
    BY <2>1, <2>2
<1> QED
  BY <1>4, <1>6, <1>7, <1>8

LEMMA SavedOthers ==
  ASSUME IInv, ~overtaken',
         \/ LateSubmitted \/ Handle \/ PlaylistUpdated \/ AskQuestion \/ AnswerQuestion
         \/ StartClosing \/ Reactivate \/ CloseNow \/ HandleClosed
         \/ UserRevert \/ UserDelete \/ UserPlayed \/ Ages \/ StaleCleanup
         \/ Crash \/ Restart \/ Reconcile \/ Sweep
  PROVE  SavedStep
<1>0. RowOK
  BY DEF IInv
<1>1. SUFFICES ASSUME Saving \/ SavesAgain PROVE SavedStep
  BY DEF SavedStep
<1> USE DEF SavedStep, Saving, SavesAgain
<1>u. song' = song => SavedStep
  BY <1>1
<1>g. song' = Gone => SavedStep
  BY DEF Gone
<1>r. RevertTransient => SavedStep
  <2>1. ASSUME RevertTransient PROVE song'.status = song.status /\ song'.path = song.path
    BY <1>0, <1>1, <2>1, RevertDoes DEF Settled, InFlight
  <2> QED
    BY <1>1, <2>1
<1>t. song.status = "retry_pending" /\ song' = Retried => SavedStep
  <2>1. ASSUME song.status = "retry_pending", song' = Retried PROVE song'.status = "saving"
    <3>1. Retried.status = RetryFrom
      BY <1>0, <2>1, RetriedRow
    <3> QED
      BY <1>1, <2>1, <3>1 DEF RetryFrom
  <2> QED
    BY <2>1
<1> HIDE DEF SavedStep
<1>2. CASE Handle
  BY <1>2, <1>u, <1>t DEF Handle, HandleStop, HandleActionable, HandleRetry, HandleEnd
<1>3. CASE UserRevert \/ Reconcile
  BY <1>3, <1>u, <1>r DEF UserRevert, Reconcile
<1>4. CASE UserDelete \/ StaleCleanup
  BY <1>4, <1>g DEF UserDelete, StaleCleanup
<1>5. CASE UserPlayed
  BY <1>1, <1>5 DEF UserPlayed
<1>6. CASE Ages
  <2>1. song'.status = song.status /\ song'.path = song.path
    BY <1>0, <1>6 DEF Ages, RowOK, Row
  <2> QED
    BY <1>1, <2>1 DEF SavedStep
<1>7. CASE Sweep
  <2>1. song.status = "retry_pending" /\ Update(Retried) => song' = Retried
    BY DEF Update, Exists
  <2> QED
    BY <1>7, <2>1, <1>u, <1>g, <1>t DEF Sweep
<1>8. CASE LateSubmitted \/ PlaylistUpdated \/ AskQuestion \/ AnswerQuestion \/ StartClosing
           \/ Reactivate \/ CloseNow \/ HandleClosed \/ Crash \/ Restart
  BY <1>8, <1>u DEF LateSubmitted, PlaylistUpdated, AskQuestion, AnswerQuestion, StartClosing,
     Reactivate, CloseNow, HandleClosed, Crash, Restart
<1> QED
  BY <1>2, <1>3, <1>4, <1>5, <1>6, <1>7, <1>8

\* Audio that ACE has finished is not thrown away while the song is saved, as
\* often as that fails, and whatever is reverted or crashes meanwhile.
THEOREM SavedAudioStays == Spec => SavedAudioIsKept
<1>1. ASSUME IInv, OrderInv, [Next]_vars, ~overtaken' PROVE SavedStep
  <2>1. CASE UNCHANGED vars
    BY <2>1 DEF vars, SavedStep, Saving, SavesAgain
  <2>2. CASE Next
    <3>1. Orderly
      BY <1>1, <2>2, OvertakenStays DEF OrderInv
    <3> QED
      BY <1>1, <2>2, <3>1, SavedWorker, SavedOthers DEF Next
  <2> QED
    BY <1>1, <2>1, <2>2
<1>2. IInv /\ OrderInv /\ [Next]_vars =>
        [ ~overtaken' =>
            /\ song.status = "saving" /\ song.path =>
                   \/ song'.status \in {"ready", "error", "deleted"}
                   \/ song'.status \in {"saving", "retry_pending"} /\ song'.path
            /\ song.status = "retry_pending" /\ song.erroredAt = "saving" /\ song.path =>
                   song'.status \in {"retry_pending", "saving", "deleted"} ]_vars
  BY <1>1 DEF SavedStep, Saving, SavesAgain
<1> QED
  BY <1>2, Order, PTL DEF Spec, SavedAudioIsKept
-------------------------------------------------------------------------------
\* What the playlist sees: how status and worker of the song may change.

\* The status stays, and a worker comes only to a song that can go on.
StatusStays ==
    /\ song'.status = song.status
    /\ song.status \in Settled => tracked' \in {tracked, NoWorker}

\* Its one worker takes it further, or leaves it.
WorkerTakes ==
    /\ song.status \notin Settled /\ tracked # NoWorker
    /\ \/ tracked' = tracked /\ song'.status \notin Settled
       \/ tracked' = NoWorker /\ song'.status # "deleted"

\* Whoever reverts or retries it does no more than that.
TurnsBack ==
    /\ song.status \in InFlight \cup {"retry_pending"} /\ song'.status \notin Settled
    /\ tracked' = tracked

IsPlayed == song.status = "ready" /\ song'.status = "played" /\ tracked' = tracked

IsDeleted == song'.status = "deleted" /\ tracked' \in {tracked, NoWorker}

StatusMove == StatusStays \/ WorkerTakes \/ TurnsBack \/ IsPlayed \/ IsDeleted

LEMMA Stages ==
  ASSUME NEW status \in Statuses
  PROVE  /\ StageOf(status) \in {"pending", "meta", "flight", "ready", "gone", "none"}
         /\ StageOf(status) = "none" <=> status = "deleted"
         /\ StageOf(status) = "ready" <=> status = "ready"
         /\ StageOf(status) = "gone" <=> status \in {"error", "played"}
         /\ StageOf(status) = "flight" <=> status \in InFlight \cup {"retry_pending"}
         /\ StageOf(status) \in {"pending", "meta", "flight"} <=> status \notin Settled
BY DEF StageOf, Statuses, InFlight, Settled

LEMMA MoveIsPromised ==
  ASSUME RowOK, RowOK', StatusMove
  PROVE  Pipeline!StagesNext
<1> DEFINE a == StageOf(song.status)
           b == StageOf(song'.status)
           m == tracked # NoWorker
           n == tracked' # NoWorker
<1>1. song.status \in Statuses /\ song'.status \in Statuses
  BY DEF RowOK, Row
<1>2. /\ a \in {"pending", "meta", "flight", "ready", "gone", "none"}
      /\ a = "none" <=> song.status = "deleted"
      /\ a = "ready" <=> song.status = "ready"
      /\ a = "gone" <=> song.status \in {"error", "played"}
      /\ a = "flight" <=> song.status \in InFlight \cup {"retry_pending"}
      /\ a \in {"pending", "meta", "flight"} <=> song.status \notin Settled
  BY <1>1, Stages
<1>3. /\ b \in {"pending", "meta", "flight", "ready", "gone", "none"}
      /\ b = "none" <=> song'.status = "deleted"
      /\ b = "ready" <=> song'.status = "ready"
      /\ b = "gone" <=> song'.status \in {"error", "played"}
      /\ b = "flight" <=> song'.status \in InFlight \cup {"retry_pending"}
      /\ b \in {"pending", "meta", "flight"} <=> song'.status \notin Settled
  BY <1>1, Stages
<1>4. song'.status = song.status => a = b
  OBVIOUS
<1> HIDE DEF a, b
<1>5. \/ b = a /\ (n <=> m)
      \/ b = a /\ m /\ ~n
      \/ b = a /\ ~m /\ n /\ a \in {"pending", "meta", "flight"}
      \/ m /\ n /\ a \in {"pending", "meta", "flight"} /\ b \in {"pending", "meta", "flight"}
      \/ /\ m /\ ~n /\ a \in {"pending", "meta", "flight"}
         /\ b \in {"pending", "meta", "flight", "ready", "gone"}
      \/ a = "flight" /\ b \in {"pending", "meta"} /\ (n <=> m)
      \/ a = "ready" /\ b = "gone" /\ (n <=> m)
      \/ a # "none" /\ b = "none" /\ (n => m)
  <2>1. CASE StatusStays
    BY <1>2, <1>4, <2>1 DEF StatusStays
  <2>2. CASE WorkerTakes
    BY <1>2, <1>3, <2>2 DEF WorkerTakes
  <2>3. CASE TurnsBack
    BY <1>2, <1>3, <2>3 DEF TurnsBack
  <2>4. CASE IsPlayed
    BY <1>2, <1>3, <2>4 DEF IsPlayed
  <2>5. CASE IsDeleted
    BY <1>2, <1>3, <1>4, <2>5 DEF IsDeleted
  <2> QED
    BY <2>1, <2>2, <2>3, <2>4, <2>5 DEF StatusMove
<1> DEFINE st == [s \in {"song"} |-> StageOf(song.status)]
           mt == [s \in {"song"} |-> tracked # NoWorker]
<1>6. /\ st["song"] = a /\ mt["song"] = m
      /\ st'["song"] = b /\ mt'["song"] = n
      /\ st' \in [{"song"} -> {"pending", "meta", "flight", "ready", "gone", "none"}]
      /\ mt' \in [{"song"} -> BOOLEAN]
  BY <1>3 DEF a, b
<1> QED
  BY <1>3, <1>5, <1>6
     DEF Pipeline!StagesNext, Pipeline!Created, Pipeline!TakenUp, Pipeline!GoesOn,
         Pipeline!Left, Pipeline!Reverted, Pipeline!FallsBack, Pipeline!Played,
         Pipeline!Deleted, Pipeline!Rests, Pipeline!Stays, Pipeline!Unfinished,
         Pipeline!Waiting

\* A revert takes a song back, or leaves it.
LEMMA RevertTurnsBack ==
  ASSUME RowOK, song.status \notin Settled, RevertTransient
  PROVE  /\ song'.status \notin Settled
         /\ song'.status = song.status \/ song.status \in InFlight
BY RevertDoes DEF Settled, InFlight

\* A worker that was cancelled writes no more than a revert, or what is in
\* flight anyway; the one that songWorkers names writes what it likes.
LEMMA WorkerIsPromised ==
  ASSUME IInv, ReadyInv, Orderly, song.status \notin Settled, NEW w \in Workers,
         Works(w) \/ LlmAnswers(w) \/ SubmitAnswers(w) \/ PollAnswers(w) \/ StoreAnswers(w)
  PROVE  StatusMove
<1>0. RowOK /\ WorkersOK /\ Exists
  BY DEF IInv, Settled, Exists
<1>1. Busy(w)
  BY DEF Busy, Works, LlmAnswers, SubmitAnswers, PollAnswers, StoreAnswers, RevertMetadata,
     RevertAudio, ClaimMetadata, CompleteMetadata, LlmFails, ClaimAudio, Submitted,
     SubmitFails, AnsweredEarly, PollSucceeds, PollIsEmpty, PollFails, Errored, Resume,
     Record, Stored, StoreFails
<1>2. /\ tracked \in {w, NoWorker}
      /\ tracked = w => ~worker[w].aborted
      /\ tracked = NoWorker => worker[w].aborted
  BY <1>1, Lone
<1>3. tracked = NoWorker => worker[w].at \notin {"llm", "submitting"}
  BY <1>2 DEF ReadyInv
<1>4. ASSUME NEW p, Goes(w, p) PROVE tracked' = tracked
  BY <1>4 DEF Goes
<1>5. Ends(w) => tracked' = NoWorker
  BY <1>2 DEF Ends
<1>6. ASSUME NEW s \in Statuses, SetStatus(s) PROVE song'.status = s
  BY <1>0, <1>6 DEF SetStatus, Update, RowOK, Row
<1>7. RevertTransient => /\ song'.status \notin Settled
                         /\ song'.status = song.status \/ song.status \in InFlight
  BY <1>0, RevertTurnsBack
<1>8. Fails(w) => StatusMove
  <2>1. SUFFICES ASSUME Fails(w) PROVE StatusMove
    OBVIOUS
  <2>2. CASE worker[w].aborted
    BY <2>1, <2>2, <1>2, <1>5 DEF Fails, StatusMove, StatusStays
  <2>3. CASE ~worker[w].aborted
    <3>1. song'.status \in {"retry_pending", "error"}
      BY <1>0, <2>1, <2>3, MarkErrorDoes DEF Fails
    <3> QED
      BY <1>2, <1>5, <2>1, <2>3, <3>1, WorkersAssumption DEF Fails, StatusMove, WorkerTakes
  <2> QED
    BY <2>2, <2>3
<1>9. CASE RevertMetadata(w) \/ RevertAudio(w) \/ AnsweredEarly(w) \/ PollFails(w)
  <2>1. RevertTransient /\ tracked' = tracked
    BY <1>4, <1>9 DEF RevertMetadata, RevertAudio, AnsweredEarly, PollFails
  <2> QED
    BY <1>7, <2>1 DEF StatusMove, StatusStays, TurnsBack
<1>10. CASE LlmFails(w) \/ SubmitFails(w) \/ Errored(w) \/ StoreFails(w)
  BY <1>8, <1>10 DEF LlmFails, SubmitFails, Errored, StoreFails
<1>11. CASE ClaimMetadata(w)
  <2>1. CASE UNCHANGED song
    BY <2>1, <1>4, <1>5, <1>11 DEF ClaimMetadata, StatusMove, StatusStays
  <2>2. CASE ~worker[w].aborted /\ SetStatus("generating_metadata") /\ Goes(w, "llm")
    <3>1. song'.status = "generating_metadata"
      BY <1>6, <2>2 DEF Statuses, InFlight
    <3> QED
      BY <1>2, <1>4, <2>2, <3>1 DEF StatusMove, WorkerTakes, Settled
  <2> QED
    BY <1>11, <2>1, <2>2 DEF ClaimMetadata
<1>12. CASE CompleteMetadata(w)
  <2>1. song'.status = "metadata_ready"
    BY <1>0, <1>12 DEF CompleteMetadata, Update, RowOK, Row
  <2> QED
    BY <1>3, <1>12, <2>1 DEF CompleteMetadata, StatusMove, WorkerTakes, Settled
<1>13. CASE ClaimAudio(w)
  <2>1. CASE worker[w].aborted \/ ~Open \/ song.status # "metadata_ready"
    BY <1>5, <1>13, <2>1 DEF ClaimAudio, StatusMove, StatusStays
  <2>2. CASE ~worker[w].aborted /\ SetStatus("submitting_to_ace") /\ Goes(w, "submitting")
    <3>1. song'.status = "submitting_to_ace"
      BY <1>6, <2>2 DEF Statuses, InFlight
    <3> QED
      BY <1>2, <1>4, <2>2, <3>1 DEF StatusMove, WorkerTakes, Settled
  <2> QED
    BY <1>13, <2>1, <2>2 DEF ClaimAudio
<1>14. CASE Submitted(w)
  <2>1. song'.status = "generating_audio"
    BY <1>0, <1>14 DEF Submitted, UpdateAceTask, Update, RowOK, Row
  <2>2. tracked # NoWorker /\ tracked' = tracked
    BY <1>3, <1>4, <1>14 DEF Submitted
  <2> QED
    BY <2>1, <2>2 DEF StatusMove, WorkerTakes, Settled
<1>15. CASE PollSucceeds(w)
  <2>1. CASE UNCHANGED song /\ Goes(w, "record")
    BY <1>4, <2>1 DEF StatusMove, StatusStays
  <2>2. CASE ~Refused("saving") /\ SetStatus("saving") /\ Goes(w, "record")
    <3>1. song'.status = "saving"
      BY <1>6, <2>2 DEF Statuses, InFlight
    <3>2. song.status \in InFlight \cup {"retry_pending"}
      BY <1>0, <2>2 DEF Refused, Allowed, RowOK, Row, Statuses, InFlight, Settled
    <3> QED
      BY <1>4, <2>2, <3>1, <3>2 DEF StatusMove, TurnsBack, Settled
  <2>3. CASE Fails(w)
    BY <1>8, <2>3
  <2> QED
    BY <1>15, <2>1, <2>2, <2>3 DEF PollSucceeds
<1>16. CASE PollIsEmpty(w)
  BY <1>5, <1>16 DEF PollIsEmpty, StatusMove, StatusStays
<1>17. CASE Resume(w)
  <2>1. CASE Fails(w)
    BY <1>8, <2>1
  <2>2. CASE ~Refused("generating_audio") /\ SetStatus("generating_audio") /\ tracked' = tracked
    <3>1. song'.status = "generating_audio"
      BY <1>6, <2>2 DEF Statuses, InFlight
    <3>2. song.status \in InFlight \cup {"retry_pending"}
      BY <1>0, <2>2 DEF Refused, Allowed, RowOK, Row, Statuses, InFlight, Settled
    <3> QED
      BY <2>2, <3>1, <3>2 DEF StatusMove, TurnsBack, Settled
  <2> QED
    BY <1>4, <1>17, <2>1, <2>2 DEF Resume
<1>18. CASE Record(w)
  <2>1. song'.status = song.status /\ tracked' = tracked
    BY <1>0, <1>4, <1>18 DEF Record, RowOK, Row
  <2> QED
    BY <2>1 DEF StatusMove, StatusStays
<1>19. CASE Stored(w)
  <2>1. CASE worker[w].aborted
    <3>1. song'.status = song.status
      BY <1>0, <1>19, <2>1 DEF Stored, RowOK, Row
    <3> QED
      BY <1>5, <1>19, <3>1 DEF Stored, StatusMove, StatusStays
  <2>2. CASE ~worker[w].aborted
    <3>1. song'.status = "ready"
      BY <1>0, <1>19, <2>2 DEF Stored, Update, RowOK, Row
    <3>2. tracked # NoWorker /\ tracked' = NoWorker
      BY <1>2, <1>5, <1>19, <2>2 DEF Stored
    <3> QED
      BY <3>1, <3>2 DEF StatusMove, WorkerTakes
  <2> QED
    BY <2>1, <2>2
<1> QED
  BY <1>9, <1>10, <1>11, <1>12, <1>13, <1>14, <1>15, <1>16, <1>17, <1>18, <1>19
     DEF Works, LlmAnswers, SubmitAnswers, PollAnswers, StoreAnswers

LEMMA OthersArePromised ==
  ASSUME IInv, song.status \notin Settled, ~overtaken',
         \/ LateSubmitted \/ Handle \/ PlaylistUpdated \/ AskQuestion \/ AnswerQuestion
         \/ StartClosing \/ Reactivate \/ CloseNow \/ HandleClosed
         \/ UserRevert \/ UserDelete \/ UserPlayed \/ Ages \/ StaleCleanup
         \/ Crash \/ Restart \/ Reconcile \/ Sweep
  PROVE  StatusMove
<1>0. RowOK /\ Exists
  BY DEF IInv, Settled, Exists
<1>u. UNCHANGED song => StatusMove
  BY DEF StatusMove, StatusStays
<1>g. song' = Gone /\ tracked' \in {tracked, NoWorker} => StatusMove
  BY DEF StatusMove, IsDeleted, Gone
<1>r. RevertTransient /\ UNCHANGED tracked => StatusMove
  BY <1>0, RevertTurnsBack DEF StatusMove, StatusStays, TurnsBack
<1>t. song.status = "retry_pending" /\ song' = Retried /\ UNCHANGED tracked => StatusMove
  <2>1. ASSUME song.status = "retry_pending", song' = Retried PROVE song'.status \notin Settled
    <3>1. Retried.status = RetryFrom
      BY <1>0, <2>1, RetriedRow
    <3> QED
      BY <2>1, <3>1 DEF RetryFrom, Settled
  <2> QED
    BY <2>1 DEF StatusMove, TurnsBack
<1>1. CASE Handle
  BY <1>1, <1>u, <1>t DEF Handle, HandleStop, HandleActionable, HandleRetry, HandleEnd
<1>2. CASE UserRevert \/ Reconcile
  BY <1>2, <1>u, <1>r DEF UserRevert, Reconcile
<1>3. CASE UserDelete \/ StaleCleanup
  BY <1>3, <1>g DEF UserDelete, StaleCleanup, Cancel
<1>4. CASE UserPlayed
  BY <1>4 DEF UserPlayed, Settled
<1>5. CASE Ages
  <2>1. song'.status = song.status
    BY <1>0, <1>5 DEF Ages, RowOK, Row
  <2> QED
    BY <2>1 DEF StatusMove, StatusStays
<1>6. CASE Sweep
  <2>1. song.status = "retry_pending" /\ Update(Retried) => song' = Retried
    BY <1>0 DEF Update
  <2> QED
    BY <1>6, <2>1, <1>u, <1>g, <1>t DEF Sweep
<1>7. CASE LateSubmitted \/ PlaylistUpdated \/ AskQuestion \/ AnswerQuestion \/ StartClosing
           \/ Reactivate \/ CloseNow \/ HandleClosed \/ Crash \/ Restart
  BY <1>7, <1>u DEF LateSubmitted, PlaylistUpdated, AskQuestion, AnswerQuestion, StartClosing,
     Reactivate, CloseNow, HandleClosed, Crash, Restart
<1> QED
  BY <1>1, <1>2, <1>3, <1>4, <1>5, <1>6, <1>7

\* The song's row and its workers are a song as a playlist counts on it: only
\* the worker that songWorkers names takes it further.
THEOREM SongIsAsPromised == Spec => ImplementsStages
<1>1. Init => Pipeline!StagesInit
  <2>1. ASSUME Init PROVE StageOf(song.status) \in {"pending", "meta"} /\ tracked = NoWorker
    BY <2>1 DEF Init, StageOf, InFlight
  <2> QED
    BY <2>1 DEF Pipeline!StagesInit, Pipeline!Waiting
<1>2. ASSUME IInv, IInv', ReadyInv, OrderInv, Next, ~overtaken' PROVE Pipeline!StagesNext
  <2>1. Orderly
    BY <1>2, OvertakenStays DEF OrderInv
  <2>2. StatusMove
    <3>1. CASE song.status \notin Settled
      BY <1>2, <2>1, <3>1, WorkerIsPromised, OthersArePromised DEF Next
    <3>2. CASE song.status \in Settled
      <4>1. SettledStep
        BY <1>2, <2>1, <3>2, SettledWorker, SettledOthers DEF Next
      <4>2. song.status = "ready" => tracked = NoWorker
        BY <2>1 DEF Orderly, EndHasNoWorker
      <4> QED
        BY <3>2, <4>1, <4>2 DEF SettledStep, StatusMove, StatusStays, IsPlayed, IsDeleted
    <3> QED
      BY <3>1, <3>2
  <2> QED
    BY <1>2, <2>2, MoveIsPromised DEF IInv
<1>3. IInv /\ IInv' /\ ReadyInv /\ OrderInv /\ [Next]_vars =>
        [~overtaken' => [Pipeline!StagesNext]_(Pipeline!stages)]_vars
  BY <1>2
<1> QED
  BY <1>1, <1>3, Order, PTL DEF Spec, ImplementsStages
===============================================================================

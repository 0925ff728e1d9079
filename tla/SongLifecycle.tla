---------------------------- MODULE SongLifecycle ----------------------------
(***************************************************************************)
(* The life of one song: its row in the database (song-service.ts), the    *)
(* SongWorker that takes it through the pipeline (song-worker.ts), the     *)
(* song actor that spawns workers when the row changes (song-actor.ts and  *)
(* worker/index.ts), its playlist as far as it opens and closes, what      *)
(* users do to the row, and crashes of the server with its startup.        *)
(*                                                                         *)
(* A worker's step ends where the worker waits for the LLM queue, the      *)
(* audio queue or the file store, or where it has written the row: every   *)
(* operation of the song service is one step, for a crash may come between *)
(* any two.  The queues are modules of their own; here their answers come  *)
(* at any time.                                                            *)
(***************************************************************************)
EXTENDS Naturals, FiniteSets, Sequences

CONSTANTS
    Workers,        \* names for the SongWorker objects alive at the same time
    NoWorker,       \* songWorkers has no entry
    MaxRetries,     \* 3 in markError
    MaxEvents,      \* bound: events the song actor may be behind
    MaxCrashes,     \* bound: crashes of the server
    MaxReverts,     \* bound: clicks on "revert"
    MaxLate         \* bound: submissions answered before ACE has accepted them

ASSUME BoundsAssumption ==
    {MaxRetries, MaxEvents, MaxCrashes, MaxReverts, MaxLate} \subseteq Nat
ASSUME WorkersAssumption == IsFiniteSet(Workers) /\ NoWorker \notin Workers

VARIABLES
    song,           \* the row
    events,         \* the events of the song on their way through its actor
    worker,         \* the SongWorker objects
    tracked,        \* songWorkers.get(songId)
    playlist,       \* playlists.status
    question,       \* a required question of the director is open
    phase,          \* of the server
    late,           \* submissions under way whose caller was answered already
    crashes,
    reverts,
    submissions,    \* history: how often ACE was asked for the audio until then
    overtaken       \* history: a late submission has written the row

vars == <<song, events, worker, tracked, playlist, question, phase, late, crashes,
          reverts, submissions, overtaken>>

history == <<submissions, overtaken>>
environment == <<playlist, question, phase, late, crashes, reverts>>

InFlight == {"generating_metadata", "submitting_to_ace", "generating_audio", "saving"}
Settled == {"ready", "played", "error", "deleted"}
Statuses == {"pending", "metadata_ready", "retry_pending"} \cup InFlight \cup Settled

\* The columns the pipeline goes by.  A row that is gone has status "deleted".
Row == [ status : Statuses,
         retryCount : 0..MaxRetries,
         erroredAt : Statuses \cup {"null"},    \* erroredAtStatus
         metadata : BOOLEAN,                    \* title, lyrics, caption...
         task : BOOLEAN,                        \* aceTaskId
         path : BOOLEAN,                        \* aceAudioPath
         old : SUBSET {"start", "submit"} ]     \* generationStartedAt, aceSubmittedAt:
                                                \* longer ago than STALE_TIMEOUT_MS

\* Where a worker stands: what it does next, or what it waits for.
Places == {"idle", "revert_metadata", "metadata", "llm", "revert_audio", "audio",
           "submitting", "polling", "failing", "resume", "record", "storing"}

\* this.aborted, and this.song.status, which lags behind the row.
Worker == [at : Places, aborted : BOOLEAN, seen : Statuses]

Idle == [at |-> "idle", aborted |-> FALSE, seen |-> "pending"]

TypeOK ==
    /\ song \in Row
    /\ events \in Seq(Statuses \cup {"stop"})
    /\ worker \in [Workers -> Worker]
    /\ tracked \in Workers \cup {NoWorker}
    /\ playlist \in {"active", "closing", "closed"}
    /\ question \in BOOLEAN
    /\ phase \in {"down", "reconciling", "sweeping", "up"}
    /\ late \in 0..MaxLate
    /\ crashes \in 0..MaxCrashes /\ reverts \in 0..MaxReverts
    /\ submissions \in Nat /\ overtaken \in BOOLEAN

-------------------------------------------------------------------------------
\* The operations of the song service.

Exists == song.status # "deleted"

\* deleteSong()
Gone == [ status |-> "deleted", retryCount |-> 0, erroredAt |-> "null",
          metadata |-> FALSE, task |-> FALSE, path |-> FALSE, old |-> {} ]

\* emit("song.status_changed"), as routeSongEventToActor hands it on: the ends
\* of the pipeline are followed by "song.actor.stop".
Heard(to) == IF to \in {"ready", "error", "played"} THEN <<to, "stop">>
             ELSE IF to = "generating_metadata" THEN <<>>
             ELSE <<to>>

\* An update that sets the status; none of them does anything to a row that
\* is gone.
Update(row) ==
    IF Exists
    THEN /\ song' = row
         /\ Len(events) < MaxEvents
         /\ events' = events \o Heard(row.status)
    ELSE UNCHANGED <<song, events>>

SetStatus(to) == Update([song EXCEPT !.status = to])

\* ALLOWED_SONG_TRANSITIONS
Allowed ==
    [ pending             |-> {"generating_metadata", "error"},
      generating_metadata |-> {"metadata_ready", "error", "retry_pending", "pending"},
      metadata_ready      |-> {"submitting_to_ace", "error", "retry_pending"},
      submitting_to_ace   |-> {"generating_audio", "error", "retry_pending", "metadata_ready"},
      generating_audio    |-> {"saving", "error", "retry_pending", "metadata_ready"},
      saving              |-> {"ready", "error", "generating_audio", "metadata_ready"},
      ready               |-> {"played"},
      played              |-> {"ready"},
      error               |-> {"pending", "metadata_ready", "retry_pending"},
      retry_pending       |-> {"pending", "metadata_ready", "generating_audio", "saving",
                               "error"} ]

\* updateStatus throws.
Refused(to) == Exists /\ to \notin Allowed[song.status]

\* Mutant of Reverted: whatever the row is, its audio is made again.
RevertedUnchecked ==
    IF song.status = "generating_metadata"
    THEN [song EXCEPT !.status = "pending", !.old = @ \ {"start"}]
    ELSE [song EXCEPT !.status = "metadata_ready", !.task = FALSE, !.old = {}]

\* revertTransient(): audio that is done is kept.
Reverted ==
    IF song.status = "generating_metadata"
    THEN [song EXCEPT !.status = "pending", !.old = @ \ {"start"}]
    ELSE IF song.status = "saving" /\ song.path
    THEN [song EXCEPT !.old = @ \ {"start"}]
    ELSE IF song.status \in InFlight
    THEN [song EXCEPT !.status = "metadata_ready", !.task = FALSE, !.old = {}]
    ELSE song

RevertTransient ==
    IF Reverted.status # song.status
    THEN Update(Reverted)
    ELSE song' = Reverted /\ UNCHANGED events

\* updateAceTask()
UpdateAceTask ==
    Update([song EXCEPT !.status = "generating_audio", !.task = TRUE,
                        !.old = @ \ {"submit"}])

\* markError()
MarkError ==
    Update([song EXCEPT
        !.status = IF song.retryCount < MaxRetries THEN "retry_pending" ELSE "error",
        !.erroredAt = song.status])

\* Mutant of RetryFrom: every retry starts over.
RetryFromStart == "pending"

\* Where retryErrored() lets a song go on.  (Its test for an error message of
\* the audio provider is not modelled: the message of a failed stage does
\* not reach the row, and a song whose audio failed was reverted before that.)
RetryFrom ==
    IF song.erroredAt = "generating_metadata" THEN "pending"
    ELSE IF song.erroredAt = "saving" /\ song.path THEN "saving"
    ELSE IF song.erroredAt \in {"generating_audio", "saving"} /\ song.task
    THEN "generating_audio"
    ELSE "metadata_ready"

\* retryErrored() of a song in retry_pending
Retried ==
    [song EXCEPT
        !.status = RetryFrom,
        !.retryCount = @ + 1,
        !.erroredAt = "null",
        !.task = @ /\ RetryFrom # "metadata_ready",
        !.path = @ /\ RetryFrom # "metadata_ready",
        !.old = IF RetryFrom = "metadata_ready" THEN {} ELSE @ \ {"start"}]

-------------------------------------------------------------------------------
\* Workers are made and cancelled.

\* getPlaylistActive()
Open == playlist \in {"active", "closing"}

\* Mutant of FirstPlace: the task of a song that is generating is forgotten.
FirstPlaceForgetsTask ==
    CASE song.status = "pending"             -> "metadata"
      [] song.status = "generating_metadata" -> "revert_metadata"
      [] song.status = "metadata_ready"      -> "audio"
      [] song.status = "submitting_to_ace"   -> "revert_audio"
      [] song.status = "generating_audio"    -> "revert_audio"
      [] song.status = "saving"              -> IF song.path THEN "record" ELSE "resume"
      [] OTHER                               -> "idle"

\* What a new worker does first, by the row it is given.
FirstPlace ==
    CASE song.status = "pending"             -> "metadata"
      [] song.status = "generating_metadata" -> "revert_metadata"
      [] song.status = "metadata_ready"      -> "audio"
      [] song.status = "submitting_to_ace"   -> "revert_audio"
      [] song.status = "generating_audio"    -> IF song.task THEN "polling" ELSE "revert_audio"
      [] song.status = "saving"              -> IF song.path THEN "record" ELSE "resume"
      [] OTHER                               -> "idle"

\* Mutant of Spawn: a song that has a worker gets another.
SpawnUntracked ==
    IF FirstPlace # "idle" /\ Open
    THEN \E w \in Workers :
             /\ worker[w].at = "idle"
             /\ worker' = [worker EXCEPT ![w] = [at |-> FirstPlace, aborted |-> FALSE,
                                                 seen |-> song.status]]
             /\ tracked' = w
    ELSE UNCHANGED <<worker, tracked>>

\* spawnSongWorker(): nothing if the song has a worker; a worker for a row it
\* can do nothing for is gone at once.
Spawn ==
    IF tracked = NoWorker /\ FirstPlace # "idle" /\ Open
    THEN \E w \in Workers :
             /\ worker[w].at = "idle"
             /\ worker' = [worker EXCEPT ![w] = [at |-> FirstPlace, aborted |-> FALSE,
                                                 seen |-> song.status]]
             /\ tracked' = w
    ELSE UNCHANGED <<worker, tracked>>

\* cancelSongWorker(): the queues reject what waits in them, so the worker is
\* done; one that waits for the file store goes on until it looks at
\* this.aborted.
Cancel ==
    /\ tracked' = NoWorker
    /\ worker' = [w \in Workers |->
           IF w # tracked THEN worker[w]
           ELSE IF worker[w].at \in {"llm", "submitting", "polling"} THEN Idle
           ELSE [worker[w] EXCEPT !.aborted = TRUE]]
-------------------------------------------------------------------------------
\* The worker's steps.

\* The worker goes to another place.
Goes(w, place) ==
    /\ worker' = [worker EXCEPT ![w].at = place]
    /\ UNCHANGED tracked

\* run() is over: the entry goes with it, unless cancelSongWorker took it.
Ends(w) ==
    /\ worker' = [worker EXCEPT ![w] = Idle]
    /\ tracked' = IF tracked = w THEN NoWorker ELSE tracked

\* The promise of the stage is rejected: handleErrorOutcome(), unless the
\* worker was cancelled.  run() is over before anybody handles the event.
Fails(w) ==
    /\ IF worker[w].aborted THEN UNCHANGED <<song, events>> ELSE MarkError
    /\ Ends(w)

\* revertTransient() before the work of an earlier worker is done again
RevertMetadata(w) ==
    /\ worker[w].at = "revert_metadata"
    /\ RevertTransient
    /\ Goes(w, "metadata")
    /\ UNCHANGED <<environment, history>>

RevertAudio(w) ==
    /\ worker[w].at = "revert_audio"
    /\ RevertTransient
    /\ Goes(w, "audio")
    /\ UNCHANGED <<environment, history>>

\* generateMetadata(), up to the LLM queue: the song is claimed unless the
\* playlist was closed or the director waits for an answer.  A song that is
\* not pending any more goes on to the audio stage if this.song says pending.
ClaimMetadata(w) ==
    /\ worker[w].at = "metadata"
    /\ \/ /\ worker[w].aborted \/ ~Open \/ question
          /\ Ends(w)
          /\ UNCHANGED <<song, events>>
       \/ /\ ~worker[w].aborted /\ Open /\ ~question
          /\ song.status = "pending"
          /\ SetStatus("generating_metadata")
          /\ Goes(w, "llm")
       \/ /\ ~worker[w].aborted /\ Open /\ ~question
          /\ song.status # "pending"
          /\ IF worker[w].seen = "pending" THEN Goes(w, "audio") ELSE Ends(w)
          /\ UNCHANGED <<song, events>>
    /\ UNCHANGED <<environment, history>>

\* The LLM queue answers: completeMetadata()
CompleteMetadata(w) ==
    /\ worker[w].at = "llm"
    /\ Update([song EXCEPT !.status = "metadata_ready", !.metadata = TRUE])
    /\ worker' = [worker EXCEPT ![w].at = "audio", ![w].seen = "metadata_ready"]
    /\ UNCHANGED <<tracked, environment, history>>

LlmFails(w) ==
    /\ worker[w].at = "llm"
    /\ Fails(w)
    /\ UNCHANGED <<environment, history>>

\* submitAndPollAudio(), up to the audio queue
ClaimAudio(w) ==
    /\ worker[w].at = "audio"
    /\ IF worker[w].aborted \/ ~Open \/ song.status # "metadata_ready"
       THEN /\ Ends(w)
            /\ UNCHANGED <<song, events, submissions>>
       ELSE /\ SetStatus("submitting_to_ace")
            /\ Goes(w, "submitting")
            /\ submissions' = IF overtaken THEN submissions ELSE submissions + 1
    /\ UNCHANGED <<environment, overtaken>>

\* ACE accepts the task.
Submitted(w) ==
    /\ worker[w].at = "submitting"
    /\ UpdateAceTask
    /\ Goes(w, "polling")
    /\ UNCHANGED <<environment, history>>

\* ACE or the queue refuses it.
SubmitFails(w) ==
    /\ worker[w].at = "submitting"
    /\ Fails(w)
    /\ UNCHANGED <<environment, history>>

\* The slot is polled before ACE has answered the submission, and two minutes
\* after its start the queue gives "not found" for an answer.  The submission
\* goes on.
AnsweredEarly(w) ==
    /\ worker[w].at = "submitting"
    /\ late < MaxLate
    /\ late' = late + 1
    /\ RevertTransient
    /\ Goes(w, "failing")
    /\ UNCHANGED <<playlist, question, phase, crashes, reverts, history>>

\* ACE accepts such a task, or does not.
LateSubmitted ==
    /\ late > 0
    /\ late' = late - 1
    /\ \/ UpdateAceTask /\ overtaken' = TRUE
       \/ UNCHANGED <<song, events, overtaken>>
    /\ UNCHANGED <<worker, tracked, playlist, question, phase, crashes, reverts, submissions>>

\* handleAudioResult() and the start of saveAndFinalize(): updateStatus("saving").
\* A song that was saving when its worker was made is not set to it again.
PollSucceeds(w) ==
    /\ worker[w].at = "polling"
    /\ \/ /\ worker[w].seen = "saving"
          /\ Goes(w, "record")
          /\ UNCHANGED <<song, events>>
       \/ /\ worker[w].seen # "saving" /\ ~Refused("saving")
          /\ SetStatus("saving")
          /\ Goes(w, "record")
       \/ /\ worker[w].seen # "saving" /\ Refused("saving")
          /\ Fails(w)
    /\ UNCHANGED <<environment, history>>

\* ACE says "succeeded" and names no file: nothing is done and nobody is told.
PollIsEmpty(w) ==
    /\ worker[w].at = "polling"
    /\ Ends(w)
    /\ UNCHANGED <<song, events, environment, history>>

\* ACE has failed or forgotten the task.
PollFails(w) ==
    /\ worker[w].at = "polling"
    /\ RevertTransient
    /\ Goes(w, "failing")
    /\ UNCHANGED <<environment, history>>

\* The error that follows
Errored(w) ==
    /\ worker[w].at = "failing"
    /\ Fails(w)
    /\ UNCHANGED <<environment, history>>

\* A song found "saving" without a file: updateStatus("generating_audio")
Resume(w) ==
    /\ worker[w].at = "resume"
    /\ IF Refused("generating_audio")
       THEN Fails(w)
       ELSE /\ SetStatus("generating_audio")
            /\ Goes(w, IF song.task THEN "polling" ELSE "revert_audio")
    /\ UNCHANGED <<environment, history>>

\* updateAceAudioPath()
Record(w) ==
    /\ worker[w].at = "record"
    /\ song' = [song EXCEPT !.path = @ \/ Exists]
    /\ Goes(w, "storing")
    /\ UNCHANGED <<events, environment, history>>

\* Mutant of Stored: the song is ready although the worker was cancelled meanwhile.
StoredUnchecked(w) ==
    /\ worker[w].at = "storing"
    /\ Update([song EXCEPT !.path = TRUE, !.status = "ready"])
    /\ Ends(w)
    /\ UNCHANGED <<environment, history>>

\* saveSongToNfs() is done: updateStoragePath() and, unless the worker was
\* cancelled meanwhile, markReady()
Stored(w) ==
    /\ worker[w].at = "storing"
    /\ IF worker[w].aborted
       THEN song' = [song EXCEPT !.path = @ \/ Exists] /\ UNCHANGED events
       ELSE Update([song EXCEPT !.path = TRUE, !.status = "ready"])
    /\ Ends(w)
    /\ UNCHANGED <<environment, history>>

StoreFails(w) ==
    /\ worker[w].at = "storing"
    /\ Fails(w)
    /\ UNCHANGED <<environment, history>>

\* What the worker does by itself.
Works(w) ==
    \/ RevertMetadata(w) \/ ClaimMetadata(w) \/ RevertAudio(w) \/ ClaimAudio(w)
    \/ Errored(w) \/ Resume(w) \/ Record(w)

\* The answers it waits for.
LlmAnswers(w) == CompleteMetadata(w) \/ LlmFails(w)
SubmitAnswers(w) == Submitted(w) \/ SubmitFails(w) \/ AnsweredEarly(w)
PollAnswers(w) == PollSucceeds(w) \/ PollIsEmpty(w) \/ PollFails(w)
StoreAnswers(w) == Stored(w) \/ StoreFails(w)

-------------------------------------------------------------------------------
\* The song actor.

\* song.actor.stop: the song's worker is cancelled.  What is behind it in the
\* actor's own queue is dropped; what comes later has a new actor.
HandleStop ==
    /\ Head(events) = "stop"
    /\ events' \in {<<>>, Tail(events)}
    /\ Cancel
    /\ UNCHANGED <<song, playlist>>

\* handleSongCreated and handleSongStatusChanged for what a worker can take on
HandleActionable ==
    /\ Head(events) \in {"pending", "metadata_ready", "submitting_to_ace",
                         "generating_audio", "saving"}
    /\ events' = Tail(events)
    /\ Spawn
    /\ UNCHANGED <<song, playlist>>

HandleRetry ==
    /\ Head(events) = "retry_pending"
    /\ IF song.status = "retry_pending"
       THEN song' = Retried /\ events' = Tail(events) \o Heard(RetryFrom)
       ELSE UNCHANGED song /\ events' = Tail(events)
    /\ UNCHANGED <<worker, tracked, playlist>>

\* The last song in flight of a closing playlist closes it; other songs of the
\* playlist may still be in flight.
HandleEnd ==
    /\ Head(events) \in {"ready", "error", "played"}
    /\ events' = Tail(events)
    /\ \/ UNCHANGED <<playlist, worker, tracked>>
       \/ /\ Head(events) # "played"
          /\ playlist = "closing"
          /\ song.status \notin InFlight
          /\ playlist' = "closed"
          /\ Cancel
    /\ UNCHANGED song

Handle ==
    /\ phase = "up"
    /\ events # <<>>
    /\ HandleStop \/ HandleActionable \/ HandleRetry \/ HandleEnd
    /\ UNCHANGED <<question, phase, late, crashes, reverts, history>>

-------------------------------------------------------------------------------
\* The playlist and the director.

\* handlePlaylistUpdated: spawnActionableSongsForPlaylist
PlaylistUpdated ==
    /\ phase = "up"
    /\ Spawn
    /\ UNCHANGED <<song, events, environment, history>>

\* A required question is asked, or answered, which updates the playlist.
AskQuestion ==
    /\ ~question
    /\ question' = TRUE
    /\ UNCHANGED <<song, events, worker, tracked, playlist, phase, late, crashes,
                   reverts, history>>

\* Mutant of AnswerQuestion: the playlist is not updated.
AnswerWithoutSpawn ==
    /\ phase = "up"
    /\ question
    /\ question' = FALSE
    /\ UNCHANGED <<song, events, worker, tracked, playlist, phase, late, crashes,
                   reverts, history>>

AnswerQuestion ==
    /\ phase = "up"
    /\ question
    /\ question' = FALSE
    /\ Spawn
    /\ UNCHANGED <<song, events, playlist, phase, late, crashes, reverts, history>>

\* updateStatus("closing") and handlePlaylistStatusChanged: closed at once if
\* no song is in flight, this one or another
StartClosing ==
    /\ phase = "up"
    /\ playlist = "active"
    /\ \/ /\ playlist' = "closing"
          /\ Spawn
       \/ /\ song.status \notin InFlight
          /\ playlist' = "closed"
          /\ Cancel
    /\ UNCHANGED <<song, events, question, phase, late, crashes, reverts, history>>

\* A heartbeat of a closing playlist
Reactivate ==
    /\ phase = "up"
    /\ playlist = "closing"
    /\ playlist' = "active"
    /\ Spawn
    /\ UNCHANGED <<song, events, question, phase, late, crashes, reverts, history>>

\* The user closes it.
CloseNow ==
    /\ phase = "up"
    /\ Open
    /\ playlist' = "closed"
    /\ UNCHANGED <<song, events, worker, tracked, question, phase, late, crashes,
                   reverts, history>>

\* handlePlaylistStatusChanged(closed): cancelPlaylistWorkers
HandleClosed ==
    /\ phase = "up"
    /\ playlist = "closed"
    /\ tracked # NoWorker
    /\ Cancel
    /\ UNCHANGED <<song, events, environment, history>>

-------------------------------------------------------------------------------
\* Users and time.

\* POST /api/songs/:id/revert
UserRevert ==
    /\ phase # "down"
    /\ reverts < MaxReverts
    /\ reverts' = reverts + 1
    /\ RevertTransient
    /\ UNCHANGED <<worker, tracked, playlist, question, phase, late, crashes, history>>

\* DELETE /api/songs/:id; no worker hears of it.
UserDelete ==
    /\ phase # "down"
    /\ Exists
    /\ song' = Gone
    /\ UNCHANGED <<events, worker, tracked, environment, history>>

\* The song has been played.
UserPlayed ==
    /\ phase # "down"
    /\ song.status = "ready"
    /\ SetStatus("played")
    /\ UNCHANGED <<worker, tracked, environment, history>>

\* Twenty minutes pass.
Ages ==
    /\ song.status \notin Settled
    /\ song' = [song EXCEPT !.old = {"start"} \cup (IF song.task THEN {"submit"} ELSE {})]
    /\ song' # song
    /\ UNCHANGED <<events, worker, tracked, environment, history>>

\* Mutant of Stale: songs that ACE works on are left alone.
StaleUnlessAtAce ==
    /\ song.status \in InFlight \ {"generating_audio"}
    /\ "start" \in song.old

\* getWorkQueue().staleSongs
Stale ==
    /\ song.status \in InFlight
    /\ IF song.status = "generating_audio" /\ song.task
       THEN "submit" \in song.old
       ELSE "start" \in song.old

\* staleSongCleanup()
StaleCleanup ==
    /\ phase = "up"
    /\ Open
    /\ Stale
    /\ Cancel
    /\ song' = Gone
    /\ UNCHANGED <<events, environment, history>>

-------------------------------------------------------------------------------
\* The server goes down and comes up again.

Crash ==
    /\ phase # "down"
    /\ crashes < MaxCrashes
    /\ crashes' = crashes + 1
    /\ phase' = "down"
    /\ events' = <<>>
    /\ worker' = [w \in Workers |-> Idle]
    /\ tracked' = NoWorker
    /\ late' = 0
    /\ UNCHANGED <<song, playlist, question, reverts, history>>

Restart ==
    /\ phase = "down"
    /\ phase' = "reconciling"
    /\ UNCHANGED <<song, events, worker, tracked, playlist, question, late, crashes,
                   reverts, history>>

\* reconcileAceState(): if ACE answers, a song in the audio pipeline whose task
\* it does not have any more, or that has none, is reverted.
Reconcile ==
    /\ phase = "reconciling"
    /\ phase' = "sweeping"
    /\ \/ UNCHANGED <<song, events>>
       \/ /\ song.status \in InFlight \ {"generating_metadata"}
          /\ RevertTransient
    /\ UNCHANGED <<worker, tracked, playlist, question, late, crashes, reverts, history>>

\* startupSweep(): the song gets a worker, is deleted if it is stale, or is
\* retried; a closing playlist with no song in flight is closed.
Sweep ==
    /\ phase = "sweeping"
    /\ phase' = "up"
    /\ \/ ~Open /\ UNCHANGED <<song, events, worker, tracked>>
       \/ Open /\ song.status # "retry_pending" /\ Spawn /\ UNCHANGED <<song, events>>
       \/ /\ Open /\ Stale
          /\ song' = Gone
          /\ UNCHANGED <<events, worker, tracked>>
       \/ /\ Open /\ song.status = "retry_pending"
          /\ Update(Retried)
          /\ UNCHANGED <<worker, tracked>>
    /\ playlist' \in IF playlist = "closing" /\ song.status \notin InFlight
                     THEN {"closing", "closed"} ELSE {playlist}
    /\ UNCHANGED <<question, late, crashes, reverts, history>>

-------------------------------------------------------------------------------
\* A song is created pending, or with its metadata.
Init ==
    /\ song \in [ status : {"pending", "metadata_ready"}, retryCount : {0},
                  erroredAt : {"null"}, metadata : BOOLEAN, task : {FALSE},
                  path : {FALSE}, old : {{}} ]
    /\ song.metadata <=> song.status = "metadata_ready"
    /\ events = <<song.status>>
    /\ worker = [w \in Workers |-> Idle]
    /\ tracked = NoWorker
    /\ playlist = "active"
    /\ question \in BOOLEAN
    /\ phase = "up"
    /\ late = 0
    /\ crashes = 0
    /\ reverts = 0
    /\ submissions = 0
    /\ overtaken = FALSE

Next ==
    \/ \E w \in Workers : Works(w) \/ LlmAnswers(w) \/ SubmitAnswers(w)
                              \/ PollAnswers(w) \/ StoreAnswers(w)
    \/ LateSubmitted
    \/ Handle
    \/ PlaylistUpdated \/ AskQuestion \/ AnswerQuestion
    \/ StartClosing \/ Reactivate \/ CloseNow \/ HandleClosed
    \/ UserRevert \/ UserDelete \/ UserPlayed \/ Ages \/ StaleCleanup
    \/ Crash \/ Restart \/ Reconcile \/ Sweep

\* Workers go on, the LLM queue, the submission and the file store answer, the
\* actor handles its events, time passes and the cleanup runs, and a server
\* that is down is started again.  No answer to a poll is assumed: the audio
\* queue can lose it.
Fairness ==
    /\ \A w \in Workers : WF_vars(Works(w) \/ LlmAnswers(w) \/ SubmitAnswers(w)
                                 \/ StoreAnswers(w))
    /\ WF_vars(Handle)
    /\ WF_vars(Ages)
    /\ WF_vars(StaleCleanup)
    /\ WF_vars(Restart \/ Reconcile \/ Sweep)

Spec == Init /\ [][Next]_vars

FairSpec == Spec /\ Fairness

-------------------------------------------------------------------------------
\* songWorkers names the one worker that is alive and not cancelled: a song is
\* never worked on twice, and no worker is out of reach of cancelSongWorker.
OneLiveWorker ==
    \A w \in Workers : tracked = w <=> worker[w].at # "idle" /\ ~worker[w].aborted

\* When the server is up and the actor has handled every event, a song that can
\* go on has a worker: nothing polls for such songs, so one that is missed
\* waits until somebody touches its playlist.  A song waits only for the answer
\* to a required question.  (A revert under a worker that then ends silently
\* does strand the song, and so can a task that is accepted late.)
NeverStranded ==
    phase = "up" /\ events = <<>> /\ Open /\ tracked = NoWorker /\ reverts = 0 /\ ~overtaken
        => /\ song.status # "retry_pending"
           /\ song.status \in {"pending", "metadata_ready"} => question

\* Audio that ACE has finished is not thrown away: a song that is saving with
\* its file known goes on from there, through retries and crashes.
SavedAudioIsKept ==
    [][ ~overtaken' =>
        /\ song.status = "saving" /\ song.path =>
               \/ song'.status \in {"ready", "error", "deleted"}
               \/ song'.status \in {"saving", "retry_pending"} /\ song'.path
        /\ song.status = "retry_pending" /\ song.erroredAt = "saving" /\ song.path =>
               song'.status \in {"retry_pending", "saving", "deleted"} ]_vars

\* A song that is ready stays so until it is played or deleted.
ReadyIsFinal ==
    [][ song.status \in {"ready", "played"} /\ ~overtaken' =>
            song'.status \in {song.status, "played", "deleted"} ]_vars

\* ACE is asked for a song once, and again only for each retry, crash, revert
\* and task that is accepted late.
AudioIsAskedOnce ==
    submissions <= 1 + song.retryCount + crashes + reverts \/ overtaken \/ ~Exists

\* Metadata that is there is not generated again.
MetadataIsMadeOnce ==
    [][ song'.status = "generating_metadata" /\ song.status # "generating_metadata"
            => ~song.metadata ]_vars

\* If the director's questions are answered and none is asked any more, the
\* song becomes ready, fails for good or is deleted, or its playlist is closed.
Settles ==
    <>[]~question => <>(song.status \in Settled \/ playlist = "closed")

\* The song as its playlist sees it; one to be retried is in flight still.
StageOf(status) ==
    CASE status = "metadata_ready"                  -> "meta"
      [] status \in InFlight \cup {"retry_pending"} -> "flight"
      [] status \in {"error", "played"}              -> "gone"
      [] status = "deleted"                         -> "none"
      [] OTHER                                      -> status

Pipeline == INSTANCE SongStages
                WITH Songs <- {"song"}, Renewable <- FALSE,
                     stage <- [s \in {"song"} |-> StageOf(song.status)],
                     manned <- [s \in {"song"} |-> tracked # NoWorker]

\* The playlist sees a song that only its one worker takes further, whatever cancelled
\* workers, users and crashes do, until a submission given up long ago writes the row.
ImplementsStages ==
    Pipeline!StagesInit /\ [][~overtaken' => [Pipeline!StagesNext]_(Pipeline!stages)]_vars

===============================================================================

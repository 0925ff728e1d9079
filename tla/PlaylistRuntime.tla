---------------------------- MODULE PlaylistRuntime ----------------------------
(***************************************************************************)
(* One playlist: its row (playlist-service.ts), the buffer of songs the    *)
(* worker keeps ahead of the listener, the heartbeat timer, opening and    *)
(* closing (worker/index.ts), the actors its events and its songs' events  *)
(* go through, what users and the director do to it, and crashes of the    *)
(* server with its startup sweep.                                          *)
(*                                                                         *)
(* The database answers within the same turn of the event loop.  So once a *)
(* request, a timer or an answer of the LLM or ACE has set something off,  *)
(* all that follows from it (events, handlers, claims) happens before the  *)
(* next one: Idle.  Within that turn the handlers of different actors      *)
(* interleave.  Only behind the startup, which waits for ACE, do several   *)
(* events queue up.                                                        *)
(*                                                                         *)
(* Songs are kept relative to the playlist: whether they are ahead of its  *)
(* position and of its current epoch.  The way of one song is the module   *)
(* SongLifecycle; here it is pending, in flight, or done.                  *)
(***************************************************************************)
EXTENDS Naturals, FiniteSets, Sequences

CONSTANTS
    Songs,          \* names for the songs in the table at the same time
    BufferSize,     \* 5 in getWorkQueue
    TopUp,          \* IDLE_ROOM_MANUAL_TOP_UP_COUNT
    MaxMail,        \* bound: events that queue behind the startup
    MaxCrashes,     \* bound: crashes of the server
    Modes,          \* playlists.mode: "endless", "oneshot"
    RoomModes       \* bound: the modes of the playlists that rooms play

ASSUME SongsAssumption == IsFiniteSet(Songs) /\ {"playlist", "free"} \cap Songs = {}
ASSUME BoundsAssumption ==
    BufferSize \in Nat \ {0} /\ TopUp \in Nat /\ MaxMail \in Nat /\ MaxCrashes \in Nat
ASSUME ModesAssumption == Modes \subseteq {"endless", "oneshot"}

VARIABLES
    mode,
    status,         \* playlists.status; "deleted": there is no such row
    songs,          \* the rows of its songs
    worker,         \* songWorkers.get(song.id)
    mail,           \* events on their way through the runtime and the playlist actor
    songMail,       \* the same for each song's actor
    lock,           \* bufferLocks: who runs checkBufferDeficit
    due,            \* what each one's check will do, by what it has read
    seen,           \* playlistEpochs.get(id) is the current epoch
    timer,          \* heartbeatTimers has the playlist
    phase,          \* of the server
    planning,       \* the initial plan is being made, "playlist.created" comes after it
    question,       \* a required question of the director is open
    present,        \* somebody has the playlist open: heartbeats come
    crashes,
    wish,           \* history: what users wanted last
    lost,           \* history: songs the buffer lost since it was checked last
    vanished,       \* history: a song it may have waited for was deleted while closing
    belated,        \* history: an event had to wait for the startup
    primed          \* history: a room has added songs while the lock was taken

actors == <<mail, songMail, lock, due, seen, timer>>
history == <<wish, lost, vanished, belated, primed>>
surroundings == <<phase, planning, question, present, crashes>>
vars == <<mode, status, songs, worker, actors, surroundings, history>>

None == [status |-> "none", ahead |-> FALSE, fresh |-> FALSE, asked |-> FALSE]

\* ahead: orderIndex > currentOrderIndex.  fresh: promptEpoch = the playlist's.
\* asked: isInterrupt.  meta is metadata_ready at rest, gone stands for error
\* and played.
Row == [ status : {"pending", "flight", "meta", "ready", "gone"},
         ahead : BOOLEAN, fresh : BOOLEAN, asked : BOOLEAN ] \cup {None}

Checkers == Songs \cup {"playlist"}

NoDue == [create |-> 0, close |-> FALSE]

Events == {"created", "steered", "heartbeat", "updated", "closing", "closed",
           "reopened", "deleted", "check", "fill"}

TypeOK ==
    /\ mode \in Modes
    /\ status \in {"active", "closing", "closed", "deleted"}
    /\ songs \in [Songs -> Row]
    /\ worker \in [Songs -> {"none", "new", "busy"}]
    /\ mail \in Seq(Events)
    /\ songMail \in [Songs -> Seq({"created", "ready", "fill", "settled"})]
    /\ lock \in Checkers \cup {"free"}
    /\ due \in [Checkers -> [create : 0..BufferSize, close : BOOLEAN]]
    /\ {seen, timer, planning, question, present, vanished, belated, primed} \subseteq BOOLEAN
    /\ phase \in {"up", "starting"}
    /\ crashes \in 0..MaxCrashes
    /\ wish \in {"open", "shut"}
    /\ lost \in 0..BufferSize

-------------------------------------------------------------------------------
\* What getWorkQueue() tells.

Open == status \in {"active", "closing"}

ActiveStatuses == {"pending", "flight", "meta", "ready"}

\* songsAhead
Counts(row) == row.ahead /\ row.fresh /\ row.status \in ActiveStatuses

Ahead(rows) == Cardinality({s \in Songs : Counts(rows[s])})

\* bufferDeficit
Deficit(rows) == IF Ahead(rows) < BufferSize THEN BufferSize - Ahead(rows) ELSE 0

InFlight == {s \in Songs : songs[s].status = "flight"}

\* transientCount = 0
NoneInFlight(rows) == \A s \in Songs : rows[s].status # "flight"

\* totalSongs
Total(rows) == Cardinality({s \in Songs : rows[s] # None})

Actionable(s) == songs[s].status \in {"pending", "meta", "flight"}

\* A name whose song is not there, or is done and counts nowhere: a new song
\* can have it.
Spare(s) ==
    /\ worker[s] = "none" /\ songMail[s] = <<>>
    /\ songs[s].status \in {"none", "ready", "gone"} /\ ~Counts(songs[s])

\* Everything that was set off has come to its end.
Idle ==
    /\ phase = "up"
    /\ mail = <<>> /\ lock = "free"
    /\ \A s \in Songs : songMail[s] = <<>> /\ worker[s] # "new"

\* When a request can be served.
Served == Idle \/ (phase = "starting" /\ Len(mail) < MaxMail)

\* Bound: there are names for the songs the next check will create.
Fits(rows) ==
    Deficit(rows) <=
        Cardinality({s \in Songs : rows[s].status \in {"none", "ready", "gone"}
                                   /\ ~Counts(rows[s]) /\ worker[s] = "none"})

-------------------------------------------------------------------------------
\* Workers.

\* spawnSongWorker() for the songs of S: those that are tracked are left alone.
Spawned(S) == [s \in Songs |-> IF s \in S /\ worker[s] = "none" THEN "new" ELSE worker[s]]

\* spawnActionableSongsForPlaylist()
SpawnActionable ==
    /\ worker' = IF Open THEN Spawned({s \in Songs : Actionable(s)}) ELSE worker
    /\ seen' = (seen \/ Open)

\* The playlist may be closing and wait for one of these songs, and nobody is told.
Vanishes(S) ==
    vanished' = (vanished \/ (status = "closing" /\ \E s \in S : Actionable(s)))

\* Songs go out of the buffer, and no check follows.
Becomes(rows) ==
    /\ songs' = rows
    /\ lost' = LET n == lost + Cardinality({s \in Songs : Counts(songs[s]) /\ ~Counts(rows[s])})
               IN  IF n > BufferSize THEN BufferSize ELSE n

\* The rows without those of S.
Without(S, rows) == [s \in Songs |-> IF s \in S THEN None ELSE rows[s]]

\* The rows with the songs of S back at their metadata.
BackToMeta(S) == [s \in Songs |-> IF s \in S THEN [songs[s] EXCEPT !.status = "meta"]
                                              ELSE songs[s]]

\* SongWorker.run() up to where it waits for the LLM or ACE: a playlist that is
\* not open any more and an open question end it, else it claims its song.  One
\* that was generating metadata is pending again before that.
Claim(s) ==
    /\ worker[s] = "new"
    /\ \/ /\ ~Open
          /\ worker' = [worker EXCEPT ![s] = "none"]
          /\ UNCHANGED songs
       \/ /\ Open /\ question /\ songs[s].status \in {"pending", "flight"}
          /\ worker' = [worker EXCEPT ![s] = "none"]
          /\ songs' = [songs EXCEPT ![s].status = "pending"]
       \/ /\ Open /\ Actionable(s) /\ (songs[s].status = "pending" => ~question)
          /\ worker' = [worker EXCEPT ![s] = "busy"]
          /\ songs' = [songs EXCEPT ![s].status = "flight"]
       \/ /\ Open /\ ~Actionable(s)
          /\ worker' = [worker EXCEPT ![s] = "none"]
          /\ UNCHANGED songs
    /\ UNCHANGED <<mode, status, actors, surroundings, history>>

\* Mutant of SongReady: also when its worker was cancelled.
SongReadyCancelled(s) ==
    /\ Idle /\ songs[s].status = "flight"
    /\ worker' = [worker EXCEPT ![s] = "none"]
    /\ songs' = [songs EXCEPT ![s].status = "ready"]
    /\ songMail' = [songMail EXCEPT ![s] = Append(@, "ready")]
    /\ mail' = Append(mail, "updated")
    /\ UNCHANGED <<mode, status, lock, due, seen, timer, surroundings, history>>

\* markReady() and incrementGenerated(), with their events.  The song may have
\* been deleted meanwhile; then only the playlist's counter goes up.
SongReady(s) ==
    /\ Idle /\ worker[s] = "busy"
    /\ worker' = [worker EXCEPT ![s] = "none"]
    /\ IF songs[s] = None
       THEN UNCHANGED <<songs, songMail>>
       ELSE /\ songs' = [songs EXCEPT ![s].status = "ready"]
            /\ songMail' = [songMail EXCEPT ![s] = Append(@, "ready")]
    /\ mail' = Append(mail, "updated")
    /\ UNCHANGED <<mode, status, lock, due, seen, timer, surroundings, history>>

\* markError() after the last retry.
SongFails(s) ==
    /\ Idle /\ worker[s] = "busy"
    /\ worker' = [worker EXCEPT ![s] = "none"]
    /\ IF songs[s] = None
       THEN UNCHANGED <<songs, songMail, lost>>
       ELSE /\ Becomes([songs EXCEPT ![s].status = "gone"])
            /\ songMail' = [songMail EXCEPT ![s] = Append(@, "settled")]
    /\ UNCHANGED <<mode, status, mail, lock, due, seen, timer, surroundings, wish,
                   vanished, belated, primed>>

\* markError() and retryErrored(): the song is pending, or has its metadata, and
\* the handler of that status spawns the next worker.
SongRetries(s) ==
    /\ Idle /\ worker[s] = "busy" /\ songs[s].status = "flight"
    /\ \E to \in {"pending", "meta", "flight"} :
           songs' = [songs EXCEPT ![s].status = to]
    /\ worker' = [worker EXCEPT ![s] = IF Open THEN "new" ELSE "none"]
    /\ UNCHANGED <<mode, status, actors, surroundings, history>>

-------------------------------------------------------------------------------
\* checkBufferDeficit(), by the playlist's actor or that of a song (who).

\* What the check reads: how many songs to create, and whether a oneshot is done.
Wanted(rows) ==
    [ create |-> IF mode = "endless" THEN Deficit(rows) ELSE IF Total(rows) = 0 THEN 1 ELSE 0,
      close  |-> mode = "oneshot" /\ NoneInFlight(rows) /\ Total(rows) > 0 ]

\* Mutant of StartCheck: it does not wait for the check that is under way.
StartCheckUnlocked(who) ==
    /\ lock' = who
    /\ due' = [due EXCEPT ![who] = IF status = "active" THEN Wanted(songs) ELSE NoDue]
    /\ lost' = IF status = "active" THEN 0 ELSE lost
    /\ primed' = FALSE

\* The lock is taken and the table is read.
StartCheck(who) ==
    /\ lock = "free"
    /\ lock' = who
    /\ due' = [due EXCEPT ![who] = IF status = "active" THEN Wanted(songs) ELSE NoDue]
    /\ lost' = IF status = "active" THEN 0 ELSE lost
    /\ primed' = FALSE

\* updateStatus(id, "closing"), which refuses a playlist that is not active.
CloseOneshot(who, rest) ==
    IF due[who].close /\ status = "active"
    THEN status' = "closing" /\ mail' = Append(rest, "closing")
    ELSE UNCHANGED status /\ mail' = rest

New == [status |-> "pending", ahead |-> TRUE, fresh |-> TRUE, asked |-> FALSE]

\* createPending() for each song of S, with the events.
WithNew(rows, S) == [s \in Songs |-> IF s \in S THEN New ELSE rows[s]]
WithCreated(box, S) == [s \in Songs |-> IF s \in S THEN Append(box[s], "created") ELSE box[s]]

\* The songs are created, a oneshot is closed, the lock is given back; rest is
\* the playlist's mail and box the songs' once the handler has ended.
EndCheck(who, rest, box) ==
    /\ \E S \in SUBSET {s \in Songs : Spare(s)} :
           /\ Cardinality(S) = IF status = "deleted" THEN 0 ELSE due[who].create
           /\ songs' = WithNew(songs, S)
           /\ songMail' = WithCreated(box, S)
    /\ CloseOneshot(who, rest)
    /\ lock' = "free" /\ primed' = FALSE
    /\ due' = [due EXCEPT ![who] = NoDue]

-------------------------------------------------------------------------------
\* Handlers of the song actors.

\* handleSongCreated()
HandleSongCreated(s) ==
    /\ songMail[s] # <<>> /\ Head(songMail[s]) = "created"
    /\ songMail' = [songMail EXCEPT ![s] = Tail(@)]
    /\ worker' = IF Open /\ songs[s] # None THEN Spawned({s}) ELSE worker
    /\ UNCHANGED <<mode, status, songs, mail, lock, due, seen, timer, surroundings, history>>

\* handleSongStatusChanged(), to = "ready": first the buffer, unless another
\* check is under way.
HandleSongReady(s) ==
    /\ songMail[s] # <<>> /\ Head(songMail[s]) = "ready"
    /\ \/ /\ StartCheck(s)
          /\ songMail' = [songMail EXCEPT ![s][1] = "fill"]
       \/ /\ lock # "free"
          /\ songMail' = [songMail EXCEPT ![s][1] = "settled"]
          /\ UNCHANGED <<lock, due, lost, primed>>
    /\ UNCHANGED <<mode, status, songs, worker, mail, seen, timer, surroundings, wish,
                   vanished, belated>>

FillBySong(s) ==
    /\ songMail[s] # <<>> /\ Head(songMail[s]) = "fill"
    /\ EndCheck(s, mail, [songMail EXCEPT ![s][1] = "settled"])
    /\ UNCHANGED <<mode, worker, seen, timer, surroundings, wish, lost, vanished, belated>>

\* Mutant of ClosesWith: a song that fails is not asked about.
ClosesWithNothing == FALSE

\* The last song in flight of a closing playlist has ended.
ClosesWith == status = "closing" /\ NoneInFlight(songs)

\* cancelPlaylistWorkers(), clearHeartbeatTimer(), playlistEpochs.delete()
ClosedByHandler ==
    /\ worker' = [s \in Songs |-> "none"]
    /\ timer' = FALSE
    /\ seen' = FALSE

\* handleSongStatusChanged(), to = "ready" or "error": the closing check.
HandleSongSettled(s) ==
    /\ songMail[s] # <<>> /\ Head(songMail[s]) = "settled"
    /\ songMail' = [songMail EXCEPT ![s] = Tail(@)]
    /\ IF ClosesWith
       THEN /\ status' = "closed"
            /\ mail' = Append(mail, "closed")
            /\ ClosedByHandler
       ELSE UNCHANGED <<status, mail, worker, timer, seen>>
    /\ UNCHANGED <<mode, songs, lock, due, surroundings, history>>

-------------------------------------------------------------------------------
\* Handlers of the playlist's actor.

\* Behind the startup the events wait in the runtime.
Next1(event) == phase = "up" /\ mail # <<>> /\ Head(mail) = event

\* The handler goes on with checkBufferDeficit().
ThenCheck == mail' = [mail EXCEPT ![1] = "check"]

HandleCreated ==
    /\ Next1("created")
    /\ IF status = "active"
       THEN seen' = TRUE /\ timer' = TRUE /\ ThenCheck
       ELSE UNCHANGED <<seen, timer>> /\ mail' = Tail(mail)
    /\ UNCHANGED <<mode, status, songs, worker, songMail, lock, due, surroundings, history>>

\* The songs of older epochs that were not started: those users asked for stay.
OldPending == {s \in Songs : songs[s].status = "pending" /\ ~songs[s].fresh /\ ~songs[s].asked}

\* handlePlaylistSteered(): an epoch that was seen already, by the sweep or with
\* another event, is passed over.
HandleSteered ==
    /\ Next1("steered")
    /\ seen' = TRUE
    /\ IF seen \/ status = "deleted"
       THEN UNCHANGED <<songs, worker, vanished>> /\ mail' = Tail(mail)
       ELSE /\ Vanishes(OldPending)
            /\ songs' = Without(OldPending, songs)
            /\ worker' = [s \in Songs |-> IF s \in OldPending THEN "none" ELSE worker[s]]
            /\ ThenCheck
    /\ UNCHANGED <<mode, status, songMail, lock, due, timer, surroundings, wish, lost, belated, primed>>

HandleHeartbeat ==
    /\ Next1("heartbeat")
    /\ timer' = TRUE
    /\ mail' = Tail(mail)
    /\ UNCHANGED <<mode, status, songs, worker, songMail, lock, due, seen, surroundings,
                   history>>

\* Mutant of HandleUpdated: only the buffer is looked at.
HandleUpdatedUnspawned ==
    /\ Next1("updated")
    /\ ThenCheck
    /\ UNCHANGED <<mode, status, songs, worker, songMail, lock, due, seen, timer, surroundings,
                   history>>

\* Mutant of HandleUpdated: only the songs there are get workers.
HandleUpdatedUnchecked ==
    /\ Next1("updated")
    /\ SpawnActionable
    /\ mail' = Tail(mail)
    /\ UNCHANGED <<mode, status, songs, songMail, lock, due, timer, surroundings, history>>

HandleUpdated ==
    /\ Next1("updated")
    /\ SpawnActionable
    /\ ThenCheck
    /\ UNCHANGED <<mode, status, songs, songMail, lock, due, timer, surroundings, history>>

\* handlePlaylistStatusChanged(), to = "closing": closed at once if nothing is in
\* flight.  What the status is by now is only looked at by updateStatus().
HandleClosing ==
    /\ Next1("closing")
    /\ IF ~NoneInFlight(songs)
       THEN SpawnActionable /\ mail' = Tail(mail) /\ UNCHANGED <<status, timer>>
       ELSE IF status = "closed"
       THEN mail' = Tail(mail) /\ UNCHANGED <<status, worker, timer, seen>>
       ELSE /\ IF Open
               THEN status' = "closed" /\ mail' = Append(Tail(mail), "closed")
               ELSE UNCHANGED status /\ mail' = Tail(mail)
            /\ ClosedByHandler
    /\ UNCHANGED <<mode, songs, songMail, lock, due, surroundings, history>>

\* "playlist.actor.stop" follows: what the actor was sent before it is dropped.
StopsActor == \E n \in 1..Len(mail) : mail' = SubSeq(mail, n + 1, Len(mail))

HandleClosed ==
    /\ Next1("closed")
    /\ ClosedByHandler
    /\ StopsActor
    /\ UNCHANGED <<mode, status, songs, songMail, lock, due, surroundings, history>>

HandleDeleted ==
    /\ Next1("deleted")
    /\ ClosedByHandler
    /\ lock' = "free"
    /\ StopsActor
    /\ UNCHANGED <<mode, status, songs, songMail, due, surroundings, history>>

\* to = "active"
HandleReopened ==
    /\ Next1("reopened")
    /\ timer' = TRUE
    /\ SpawnActionable
    /\ ThenCheck
    /\ UNCHANGED <<mode, status, songs, songMail, lock, due, surroundings, history>>

\* A check that finds the lock taken does nothing.
CheckByPlaylist ==
    /\ Next1("check")
    /\ \/ StartCheck("playlist") /\ mail' = [mail EXCEPT ![1] = "fill"]
       \/ lock # "free" /\ mail' = Tail(mail) /\ UNCHANGED <<lock, due, lost, primed>>
    /\ UNCHANGED <<mode, status, songs, worker, songMail, seen, timer, surroundings, wish,
                   vanished, belated>>

FillByPlaylist ==
    /\ Next1("fill")
    /\ EndCheck("playlist", Tail(mail), songMail)
    /\ UNCHANGED <<mode, worker, seen, timer, surroundings, wish, lost, vanished, belated>>

HandlePlaylist ==
    \/ HandleCreated \/ HandleSteered \/ HandleHeartbeat \/ HandleUpdated \/ HandleClosing
    \/ HandleClosed \/ HandleDeleted \/ HandleReopened \/ CheckByPlaylist \/ FillByPlaylist

HandleSong(s) ==
    \/ HandleSongCreated(s) \/ HandleSongReady(s) \/ FillBySong(s) \/ HandleSongSettled(s)

-------------------------------------------------------------------------------
\* Requests and timers.  Behind the startup their events wait.

Late == belated' = (belated \/ phase = "starting")

\* Mutant of Heartbeat: an open page keeps a playlist from closing, but does not open it again.
HeartbeatOnly ==
    /\ Served /\ status # "deleted"
    /\ present' = TRUE
    /\ wish' = "open"
    /\ mail' = Append(mail, "heartbeat")
    /\ Late
    /\ UNCHANGED <<mode, status, songs, worker, songMail, lock, due, seen, timer, phase, planning,
                   question, crashes, lost, vanished, primed>>

\* heartbeat(): somebody opens the playlist, or has it open.
Heartbeat ==
    /\ Served /\ status # "deleted"
    /\ present' = TRUE
    /\ wish' = "open"
    /\ IF mode # "oneshot" /\ status = "closing"
       THEN /\ status' = "active"
            /\ mail' = mail \o <<"heartbeat", "reopened">>
            /\ vanished' = FALSE
       ELSE /\ mail' = Append(mail, "heartbeat")
            /\ UNCHANGED <<status, vanished>>
    /\ Late
    /\ UNCHANGED <<mode, songs, worker, songMail, lock, due, seen, timer, phase, planning,
                   question, crashes, lost, primed>>

Leave ==
    /\ present
    /\ present' = FALSE
    /\ UNCHANGED <<mode, status, songs, worker, actors, phase, planning, question, crashes,
                   history>>

\* updateStatus() by a user; ALLOWED_PLAYLIST_TRANSITIONS.
SetStatus(to) ==
    /\ Served
    /\ to \in [active |-> {"closing", "closed"}, closing |-> {"active", "closed"},
               closed |-> {}, deleted |-> {}][status]
    /\ status' = to
    /\ mail' = Append(mail, IF to = "active" THEN "reopened" ELSE to)
    /\ wish' = IF to = "active" THEN "open" ELSE "shut"
    /\ present' = (present \/ to = "active")
    /\ vanished' = FALSE
    /\ Late
    /\ UNCHANGED <<mode, songs, worker, songMail, lock, due, seen, timer, phase, planning,
                   question, crashes, lost, primed>>

\* deletePlaylist() and deleteExpiredTemporaryPlaylists(); the rows of the songs
\* go with it.
DeletePlaylist ==
    /\ Served /\ status # "deleted"
    /\ status' = "deleted"
    /\ songs' = [s \in Songs |-> None]
    /\ mail' = Append(mail, "deleted")
    /\ wish' = "shut"
    /\ Late
    /\ UNCHANGED <<mode, worker, songMail, lock, due, seen, timer, surroundings, lost, vanished, primed>>

\* updatePosition(): the songs of A are ahead now, more or less than before.  Other
\* edits of the row tell the worker the same and leave the songs as they are.
UpdatePosition(A) ==
    LET now == {s \in Songs : songs[s].ahead}
        rows == [s \in Songs |-> [songs[s] EXCEPT !.ahead = s \in A]]
    IN  /\ Served /\ status # "deleted"
        /\ A \subseteq {s \in Songs : songs[s] # None} /\ (A \subseteq now \/ now \subseteq A)
        /\ Fits(rows)
        /\ songs' = rows
        /\ mail' = Append(mail, "updated")
        /\ Late
        /\ UNCHANGED <<mode, status, worker, songMail, lock, due, seen, timer, surroundings,
                       wish, lost, vanished, primed>>

\* steer()
Steer ==
    LET rows == [s \in Songs |-> [songs[s] EXCEPT !.fresh = FALSE]]
    IN  /\ Served /\ status # "deleted"
        /\ Fits(IF crashes < MaxCrashes \/ phase = "starting" THEN rows
                ELSE Without({s \in Songs : rows[s].status = "pending" /\ ~rows[s].asked}, rows))
        /\ songs' = rows
        /\ seen' = FALSE
        /\ mail' = Append(mail, "steered")
        /\ Late
        /\ UNCHANGED <<mode, status, worker, songMail, lock, due, timer, surroundings, wish,
                       lost, vanished, primed>>

\* createPending() with isInterrupt, by a user.
AskSong(s) ==
    /\ Idle /\ status = "active" /\ mode = "endless"
    /\ Spare(s)
    /\ \E rows \in {[songs EXCEPT ![s] = [New EXCEPT !.asked = TRUE]]} :
           Fits(rows) /\ songs' = rows
    /\ songMail' = [songMail EXCEPT ![s] = <<"created">>]
    /\ UNCHANGED <<mode, status, worker, mail, lock, due, seen, timer, surroundings, history>>

\* The end of primePlaylistForIdleRoomStart(): a room that had nothing to play has found a
\* song that is ready, and adds a fixed number behind it, whatever the buffer lacks and
\* whoever has the lock.  Its heartbeat() and updatePosition() come before, as actions of
\* their own, in the same turn: an endless playlist is not closing, and its position is that
\* of the song; what they set off may still be under way.  Bound: there are names for all.
PrimeRoom(S) ==
    LET names == {s \in Songs : Spare(s)}
    IN  /\ phase = "up" /\ present /\ status # "deleted" /\ mode \in RoomModes
        /\ mode = "oneshot" \/ status # "closing"
        /\ \E s \in Songs : songs[s].status = "ready" /\ ~songs[s].ahead
        /\ S \subseteq names /\ Cardinality(S) = TopUp
        /\ Fits(WithNew(songs, S))
        /\ \A who \in Checkers : due[who].create <= Cardinality(names \ S)
        /\ songs' = WithNew(songs, S)
        /\ songMail' = WithCreated(songMail, S)
        /\ primed' = (primed \/ lock # "free")
        /\ UNCHANGED <<mode, status, worker, mail, lock, due, seen, timer, surroundings, wish,
                       lost, vanished, belated>>

\* deleteSong() by a user: the song's worker is not told.
DeleteSong(s) ==
    /\ Idle /\ songs[s] # None
    /\ Fits(Without({s}, songs))
    /\ Becomes(Without({s}, songs))
    /\ Vanishes({s})
    /\ UNCHANGED <<mode, status, worker, actors, surroundings, wish, belated, primed>>

\* staleSongCleanup()
StaleCleanup(S) ==
    /\ Idle /\ Open
    /\ S # {} /\ S \subseteq InFlight
    /\ Becomes(Without(S, songs))
    /\ worker' = [s \in Songs |-> IF s \in S THEN "none" ELSE worker[s]]
    /\ Vanishes(S)
    /\ UNCHANGED <<mode, status, actors, surroundings, wish, belated, primed>>

AskQuestion ==
    /\ Idle /\ Open /\ ~question
    /\ question' = TRUE
    /\ UNCHANGED <<mode, status, songs, worker, actors, phase, planning, present, crashes,
                   history>>

\* answerDirectorQuestion()
AnswerQuestion ==
    /\ Served /\ question
    /\ question' = FALSE
    /\ mail' = Append(mail, "updated")
    /\ Late
    /\ UNCHANGED <<mode, status, songs, worker, songMail, lock, due, seen, timer, phase, planning,
                   present, crashes, wish, lost, vanished, primed>>

\* announceCreated(), when the initial plan is there or has failed.
FinishPlanning ==
    /\ Idle /\ planning
    /\ planning' = FALSE
    /\ mail' = Append(mail, "created")
    /\ UNCHANGED <<mode, status, songs, worker, songMail, lock, due, seen, timer, phase,
                   question, present, crashes, history>>

\* No heartbeat for HEARTBEAT_STALE_MS; those of an open page come more often.
TimerFires ==
    /\ Idle /\ timer /\ ~present
    /\ timer' = FALSE
    /\ IF status = "active"
       THEN status' = "closing" /\ mail' = Append(mail, "closing")
       ELSE UNCHANGED <<status, mail>>
    /\ UNCHANGED <<mode, songs, worker, songMail, lock, due, seen, surroundings, history>>

-------------------------------------------------------------------------------
\* The server goes down and comes up again.

Crash ==
    /\ crashes < MaxCrashes
    /\ crashes' = crashes + 1
    /\ phase' = "starting"
    /\ worker' = [s \in Songs |-> "none"]
    /\ mail' = <<>>
    /\ songMail' = [s \in Songs |-> <<>>]
    /\ lock' = "free" /\ due' = [who \in Checkers |-> NoDue]
    /\ seen' = FALSE /\ timer' = FALSE
    /\ planning' = FALSE
    /\ UNCHANGED <<mode, status, songs, question, present, history>>

\* Mutant of SweepCloses: a closing playlist is left as it is.
SweepClosesNever(rows) == FALSE

\* The closing check of the sweep goes by the table as it was read at its start.
SweepCloses(rows) == status = "closing" /\ NoneInFlight(rows)

\* reconcileAceState() and startupSweep(): ACE has lost the tasks of some songs,
\* every song that can go on gets a worker, stale ones are deleted again, and a
\* closing playlist with nothing in flight is closed.  The check of the buffer of
\* an active one is the last part, before the events that waited.
Sweep ==
    /\ phase = "starting"
    /\ phase' = "up"
    /\ IF ~Open
       THEN UNCHANGED <<status, songs, worker, mail, seen, timer, lost, vanished>>
       ELSE \E reverted \in SUBSET InFlight : \E stale \in SUBSET (InFlight \ reverted) :
            /\ Becomes(Without(stale, BackToMeta(reverted)))
            /\ worker' = [s \in Songs |-> IF s \notin stale /\ Actionable(s)
                                          THEN "new" ELSE "none"]
            /\ status' = IF SweepCloses(BackToMeta(reverted)) THEN "closed" ELSE status
            /\ mail' = IF SweepCloses(BackToMeta(reverted)) THEN Append(mail, "closed")
                       ELSE IF status = "active" THEN <<"check">> \o mail ELSE mail
            /\ seen' = TRUE
            /\ timer' = (status = "active")
            /\ Vanishes(stale)
    /\ UNCHANGED <<mode, songMail, lock, due, planning, question, present, crashes, wish,
                   belated, primed>>

-------------------------------------------------------------------------------
\* The playlist is created by a user who looks at it.
Init ==
    /\ mode \in Modes
    /\ status = "active"
    /\ songs = [s \in Songs |-> None]
    /\ worker = [s \in Songs |-> "none"]
    /\ planning \in BOOLEAN
    /\ mail = IF planning THEN <<>> ELSE <<"created">>
    /\ songMail = [s \in Songs |-> <<>>]
    /\ lock = "free" /\ due = [who \in Checkers |-> NoDue]
    /\ seen = FALSE /\ timer = FALSE
    /\ phase = "up"
    /\ question = FALSE /\ present = TRUE
    /\ crashes = 0
    /\ wish = "open" /\ lost = BufferSize
    /\ vanished = FALSE /\ belated = FALSE /\ primed = FALSE

Users ==
    \/ Heartbeat \/ Leave \/ DeletePlaylist \/ Steer \/ AskQuestion \/ AnswerQuestion
    \/ \E to \in {"active", "closing", "closed"} : SetStatus(to)
    \/ \E A \in SUBSET Songs : UpdatePosition(A)
    \/ \E s \in Songs : AskSong(s) \/ DeleteSong(s)

Next ==
    \/ Users
    \/ HandlePlaylist
    \/ \E s \in Songs : \/ HandleSong(s) \/ Claim(s)
                        \/ SongReady(s) \/ SongFails(s) \/ SongRetries(s)
    \/ FinishPlanning \/ TimerFires
    \/ \E S \in SUBSET Songs : StaleCleanup(S) \/ PrimeRoom(S)
    \/ Crash \/ Sweep

Spec == Init /\ [][Next]_vars

\* Handlers run, workers go on, a song in flight ends, timers fire, the initial plan
\* comes or fails, and the startup ends.
Fairness ==
    /\ WF_vars(HandlePlaylist)
    /\ \A s \in Songs : WF_vars(HandleSong(s)) /\ WF_vars(Claim(s))
    /\ \A s \in Songs : SF_vars(SongReady(s) \/ SongFails(s))
    /\ SF_vars(FinishPlanning) /\ SF_vars(TimerFires) /\ WF_vars(Sweep)

FairSpec == Spec /\ Fairness

-------------------------------------------------------------------------------
\* The buffer of an active playlist lacks no more songs than it has lost
\* since it was looked at last.  (A song that fails or is deleted leads to no
\* check: it is made up for at the next change of the playlist.)
BufferKept ==
    Idle /\ status = "active" /\ mode = "endless" /\ ~planning => Deficit(songs) <= lost

\* Checks of the buffer that overlap never create more songs than it holds, unless a room
\* adds its own between the numbers a check read and the songs it creates.
BufferBounded ==
    [][ mode = "endless" /\ (\E who \in Checkers : due[who].create > 0 /\ due'[who] = NoDue)
            => Ahead(songs') <= BufferSize \/ primed ]_vars

\* A playlist that is closing waits for a song in flight, whose end will close it,
\* or for one that fell back behind an open question, unless the song it waited for
\* was deleted, which nobody is told.
ClosingHasWork ==
    Idle /\ status = "closing" =>
        \/ ~NoneInFlight(songs)
        \/ question /\ \E s \in Songs : songs[s].status = "pending"
        \/ vanished

\* Every song of an open playlist that can go on has a worker; songs wait only
\* for the answer to a question.  Nothing works for a playlist that is closed or
\* deleted.
NoSongForgotten ==
    Idle => \A s \in Songs :
        /\ Open /\ ~question /\ Actionable(s) => worker[s] = "busy"
        /\ ~Open => worker[s] = "none"

\* A playlist somebody looks at and wants stays active, or becomes active again,
\* unless it is a oneshot: neither an old event, a timer, a check nor a restart closes
\* it.
WatchedStaysOpen ==
    [][ mode = "endless" /\ Open /\ present' /\ wish' = "open" /\ ~belated'
            => status' = "active" ]_vars

\* A playlist everybody has left is closed in the end, as long as questions are
\* answered and no song it waits for is deleted.
AbandonedIsClosed ==
    <>[]~present /\ []<>~question => <>(~Open \/ vanished)

Pipeline == INSTANCE SongStages
                WITH Renewable <- TRUE,
                     stage <- [s \in Songs |-> songs[s].status],
                     manned <- [s \in Songs |-> worker[s] # "none"]

\* The songs of a playlist do only what the pipeline promises of them.
SongsAsPromised == Pipeline!StagesSpec

===============================================================================

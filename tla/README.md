# A TLA+ verification of Infinitune

Infinitune generates music without end: a playlist asks a language model for
songs, an ACE-Step server renders their audio, and rooms of devices play them.
This directory holds TLA+ models of the program in this repository, the TLC
configurations that check them on small instances, and proofs that TLAPS checks
for every instance. Paths below are relative to the repository; `server/` is
short for `apps/server/src/`.

    tlc -workers 2 -config MCAudioQueue.cfg MCAudioQueue.tla
    tlapm AudioQueue_proofs.tla

`PROJECT.json` lists components, runs, mutants, theorems, the source lines of
every definition, and the hazards the properties are there for.

## The system

| Part | Source | State | Operations | Talks to |
|---|---|---|---|---|
| LLM and image queues | `server/worker/runtime/queue-actors.ts` | sorted list of requests, map of running ones, limit | enqueue, cancel a song, change a priority or the limit, end of a call | song workers await its promises |
| Audio queue | same file | sorted list, one slot | the same, submission, polls every 2 s | ACE over HTTP, song workers |
| Song pipeline | `server/services/song-service.ts`, `server/worker/song-worker.ts`, `server/worker/runtime/song-actor.ts` | row of `songs`, `songWorkers`, the workers' own place | claim, complete, submit, save, fail, retry, revert, delete | queues, event bus, file store |
| Playlist runtime | `server/worker/index.ts`, `server/services/playlist-service.ts` | row of `playlists`, buffer locks, timers, epochs | create songs up to the buffer, steer, close, reactivate, clean up, sweep at startup | song pipeline, director |
| Director, agents | `server/agents/` | runs, channel messages, memories | ask, answer, plan | playlist runtime, Codex |
| Rooms | `server/room/`, `packages/shared/src/pick-next-song.ts`, `apps/web/src/hooks/useRoom*.ts` | devices, playback, queue of songs | join, command, sync, song ended, refresh | players over WebSocket, song service |
| Codex client | `server/external/codex-app-server-client.ts` | pending requests and turns, the child process | call, time out, abort, exit, dispose | child process, LLM queue |
| CLI daemon | `apps/cli/src/daemon/runtime.ts` | mode, socket, timers, waiters, local queue | join, leave, play a playlist by itself, skip, refresh, assignments, IPC | rooms, API, engine |
| Audio engine | `apps/cli/src/audio/ffplay-engine.ts` | the song, one ffplay process, level, timers | load, play, pause, seek, stop, volume | child processes |
| Events to pages | `server/events/`, `apps/web/src/integrations/api/` | listeners, sockets, the page's cache of queries | emit, forward, invalidate, fetch | every service, every page |
| Routes, views, CLI commands | `server/routes`, `apps/web`, `apps/cli/src/cli.ts` | none to speak of | translate users' wishes | services |

The server is one Node process. SQLite is called synchronously, so a service
operation is atomic; what interleaves are waits for the LLM, ACE, the file
store and clients. The services emit events on a synchronous bus; a song's
events go through an actor of its own that handles them one after the other.
A crash can come between any two writes, and the startup goes by the rows alone.

What is hard here: answers that come after their question was given up
(submissions, polls, turns, fetches), bookkeeping keyed by song while requests of
one song overlap, retries that have to go on from what is left in the row, workers
that are cancelled but still run, songs that are waited for by nobody who polls,
checks of a buffer that overlap, exits of processes that come late, and caches
that hear of a change by strings nothing compares.

Correct means, component by component: the queues lose no request, exceed no
limit and serve by priority; the audio queue tells each caller about its own
task; a song has one worker at a time, has one whenever it can go on, ends, and
nothing made for it is made twice or thrown away; a playlist keeps its buffer
and closes when its songs are done or everybody has left; a room's devices agree on
what plays; a call of the Codex client settles with its own answer; the daemon plays
what its session asked for, and one thing at a time; a page at rest shows what it
was told of.

## Modules

`QueueOrder` - the order of both kinds of queue: `compareQueueItems`, the stable
sort, and filtering by position. Pure operators.

`RequestResponseQueue` - class RequestResponseQueue. One action per event of its
actor (`Enqueue`, `CancelSong`, `RefreshConcurrency`, `UpdatePendingPriority`)
and `Finish`, the end of a running call. The code drains by a `drain` event
after each change; nothing can come between the two that sees the difference,
so `Drain` is part of the actions. `active` is the code's Map by song, `running`
the calls that really run; the history variable `doubled` remembers songs two of
whose calls ran together. A cancelled call is only told to abort (`aborted`): it
keeps its entry, and its caller waits, until it settles.

`RequestService` - what both kinds of queue promise a song worker, without a list or a map: who asks is told of
an end once; a request is begun once at most, while none that has to come before goes on waiting; and it is
withdrawn only when asked. How many are begun at a time it leaves open. `RequestResponseQueue` implements it
(`ImplementsService`), and so does `AudioQueue` until it is confused (`ServesUntilConfused`).

`AudioQueue` - class AudioQueue with the ACE service. `slot` is the object in
`state.active`, named by its request; a poll remembers the slot object and task
it was made for; `SubmitFulfilled`, `SubmitRejected` and `PollReply` act, as the
code's callbacks do, on whatever the slot holds by then. The history variable
`confused` is true once one of them acted on a slot that another request has; a reply that
meets an empty slot changes nothing and does not count. `Said` is
what `pollAce` makes of ACE's answer; `GracePassed` stands for the two minutes of
NOT_FOUND_GRACE_MS.

`SongLifecycle` - one song. `song` is its row, with the columns the pipeline goes
by: content is reduced to whether there is metadata, a task and a file, and
times to whether they are older than STALE_TIMEOUT_MS (`old`). `worker` holds the
SongWorker objects by the place they stand at (the states of their XState
machine, split where they wait), `tracked` is `songWorkers.get(songId)`, `events`
the song's events on their way through its actor. Each operation of the song
service that writes the row is an operator (`Reverted`, `MarkError`, `Retried`,
...), each step of the worker between two waits or writes an action, each
handler of `worker/index.ts` an action. Steps between two writes are finer than
the runtime schedules them: a superset of its interleavings, needed for crashes
between them. Other songs of the playlist show only in choices (a closing
playlist may or may not close). The queues answer at any time here.

`SongStages` - what the pipeline promises a playlist about its songs, without rows, events or machines: only the
worker that `songWorkers` names takes a song further; without it a song falls back to where its work can begin
again, is played or deleted; what is done is not taken up again. `SongLifecycle` implements it for one song
(`ImplementsStages`; `StageOf` is the song as the playlist sees it), and `PlaylistRuntime`, whose song is no more than
such a stage, keeps to it for several at once (`SongsAsPromised`): what the two modules say of a song agrees.

`PickNextSong` - the two ways a room chooses a song, `pickNextSong` and
`pickIdleResumeSong`, as operators. `Precedes` is what the comment above
`pickNextSong` promises, stated for two songs at a time without its algorithm.

`Room` - one room with one playlist, its browser players and the two channels of
each player's socket. `current` and `isPlaying` are the room's playback, `ended` is
`songEndedHandled`, `later` the timer of the throttled broadcast, `devices` and
`open` differ while a socket is half open or a device was removed although it
lives. `UpdateQueue` is what every event of the playlist, every join and every
played song leads to. The handler of a message is one action: the promises it
starts are settled before the next message, so the room's queue is the table of
songs. A player has `view` (what it shows and reports), `loaded` (its audio
element), `sounding`, and `starting`, a start scheduled by `setTimeout`. Commands
come from any device. A state message that would tell a player what it knows
already is left out (`Knows`), and the state that follows a nextSong is part of
that message; both keep the channels short and change nothing a player does.
Constants switch on what the properties are sensitive to: `Syncing` (a
sync may be under way when the song changes), `HalfOpen` (the server
may learn late that a socket is gone), `Prompt` (a message takes less than half a
second), `Commands`. A song lasts longer than the half second before its start and
than the debounce, so `SongEnds` waits for these where its player has heard of the
song.

`PlaylistRuntime` - one playlist with several songs. `status` and `songs` are rows,
a song as it stands to the playlist (ahead of its position, of its epoch, asked
for) and in the coarse states pending, in flight, at rest, ready, gone. `mail` and
`songMail` are the mailboxes of the playlist's and the songs' actors, `worker` is
`songWorkers`, `lock` is `bufferLocks`, `due` what a check of the buffer that holds the
lock has decided by what it has read (`StartCheck`, `EndCheck`), `seen` whether
`playlistEpochs` has the current epoch, `timer` the heartbeat timer. Each handler of
`worker/index.ts` is an action or a part of one; users and the director create,
steer, ask, answer, close, reopen and delete; the server crashes, and `Sweep` is its
startup. SQLite answers within the turn, so the model lets nothing from outside
in before a turn's events and handlers have run (`Idle`); within a turn the actors
interleave. `PrimeRoom` is what an idle room does to its playlist when it finds a song to play: it
adds `TopUp` songs (five) whatever the buffer lacks and whoever has the lock, to oneshots and closed
playlists too; the heartbeat and the change of position that go with it are `Heartbeat` and `UpdatePosition`,
which come before it. Left out are rooms that prime while the startup runs.

`CodexClient` - calls of the language model through the Codex app server. `call` has
each call at the promise it waits for, `proc`, `initialized`, `start` are the
client's fields, `children` the processes as they are, `inbox` and `out` what is in the
pipes. Output comes in chunks whose messages are handled one after the other before
any promise goes on (`HandleMessage`, then `Continue`). `who` and `step` of a message are
what the client cannot see: the property about answers compares them with what it
matches by number.

`Player` - what the daemon relies on of its audio engine: one song, and whether it is
scheduled, heard, paused, over or dead. `FfplayEngine` is the engine: `ff` are its
fields, `os` the ffplay processes, whose exits come when they like, each with the two levels it is heard
through: `own`, which it was started with (`-volume`), and `sink`, that of its sink input, which `pactl`
sets and which for a new process is whatever the sound server remembers of the stream; `State` is what
the daemon sees, and with it the engine implements Player (`ImplementsPlayer`).
`DaemonRuntime` EXTENDS Player and is the daemon: mode, socket, timers, waiters and
the local queue are the fields of the class, `fetches`, `marking` and `registering` the
promises under way, `fresh` whether the session that made a request still lasts. A
handler is an action. `PlaylistIds` has the ids by which the daemon and the page name playlists.

`QueryCache` - one query of a page and all that tells it to be fetched anew. The
operators `Writes`, `Forwarded`, `RoutingKey`, `Invalidated`, `Hooks` and `Reads` hold what the
services announce, what the bridge sends on, what the page invalidates for it, and
by what keys and from which tables its queries are: five files that have to agree. `++` joins
two such tables, `Kept` leaves out the events the bridge does not send on.
`behind` is the difference between what is cached and the tables, `unread` that of
an answer under way, `mail` what is on the socket. React Query is external: its fetches are
cancelled by an invalidation once there is an answer, and not before.

`MC...` modules give the constants their values for TLC; `..._proofs` modules hold
theorems. `Processes_proofs` is about `FfplayEngine` and `CodexClient`, the two that drive
processes, and `Clients_proofs` about `DaemonRuntime` and `QueryCache`, the two that follow the
server; names that two of them would share have a prefix in the second (`CodexSpec`, `PageSpec`). Operators whose comment begins "Mutant of" are altered forms of the
definition that follows; no specification uses them. For each property one of
them makes TLC find it violated, so none holds by the shape of the model.

## What the runs check

| Run | Instance | What holds (distinct states) |
|---|---|---|
| `llm` | 4 requests of 3 songs (two of the same), priorities 0..1, limit 1 or 2, 2 clock values | `NoLostRequest`, `MapIsExact`, `ImplementsService`, `EveryRequestSettles` (69,568) |
| `audio` | 2 submissions of one song, 2 overlapping polls, 2 priorities | `ServesUntilConfused`, `SuccessIsOwn`, `AnsweredUnlessConfused` (26,417) |
| `song` | 2 worker objects, 2 retries, 1 crash, 1 revert, 1 late submission, 3 events | `OneLiveWorker`, `NeverStranded`, `AudioIsAskedOnce`, `SavedAudioIsKept`, `ImplementsStages`, `MetadataIsMadeOnce` (1,425,608) |
| `song_live` | 1 retry, 1 crash, no revert, no late submission | `Settles` (33,426) |
| `room` | 2 players, 3 songs (one an interrupt, one of another epoch), 1 skip, deletion or steering, 1 lost connection or restart, half-open sockets | `PlayedOnce`, `LockedToRoom`, `Debounced`, `RightNext` (1,348,703) |
| `room_live` | 1 player, 2 songs, syncs at any time, 1 command, 1 lost connection or restart | `ViewIsCurrent`, `EverySongGetsItsTurn` (64,736) |
| `playlist` | 2 songs over a buffer of 1, both modes, 1 song added by an idle room, 1 crash, 1 event that waits for the startup | `BufferKept`, `ClosingHasWork`, `NoSongForgotten`, `BufferBounded`, `WatchedStaysOpen`, `SongsAsPromised` (1,237,476) |
| `playlist_live` | 1 song, the rest the same | `AbandonedIsClosed` (37,186) |
| `codex` | 2 calls, 1 turn allowed, a process each | `PendingHasProcess`, `AnswerIsOwn`, `NoOrphan`, `EveryCallSettles` (412,557) |
| `engine` | 2 songs, 2 levels and mute, 2 processes, 2 retries | `MutedIsSilent`, `ImplementsPlayer` (265,352) |
| `daemon` | 1 playlist, 2 songs, 2 refresh timers | `ConnectedIsJoined`, `NobodyWaitsInVain`, `LeftIsSilent`, `RoomPlaysRoom` (1,123,508) |
| `cache` | every query, 1 playlist, 2 changes | `OthersChangesShow`, `OwnChangesShow`, `PolledCatchesUp` (726,474) |

Invariants and action properties that the theorems below establish for every instance (the TypeOK of most
modules, `NoIdleCapacity`, `PriorityRespected`, `SlotNeverIdle`, `QueuedIsAwaited`, `TaskIsOwn`, `ReadyIsFinal`, `NeverSilent`, `OneSounds`,
`LostOnlyByConfusion`, `PausedIsSilent`, `RoomHasSocket`, `TimersOwned` and others) are in no
run of their own.

Bounds. Two requests of one song are the least in which an answer can meet a slot
or a map entry of somebody else; for the LLM queue another two wait. Two polls
overlap, a third would only repeat the second. The safety properties of the
audio queue are proved for any number of all of these; its run adds liveness, which
three requests put out of reach. MaxClock = 1 gives equal and different
times of arrival. For a song, two worker objects are the live one and a cancelled
one that is still storing; three events let the actor lag behind a retry
altogether; two retries (three in the code) make one that follows another and
one that is refused; one crash, revert and late submission each meet every
place of the worker. In a room, two players are
the least that can report one end twice or disagree; three songs are the current
one, an interrupt and one of another epoch (two songs of one epoch on either side of the
current one need a fourth, and are left to `PickNextIsRight`); one command and one lost connection
each meet every point of a change of song. Selections are left to `room_live` and,
with several players, to the theorems: in `room` they double the states. MaxCommands counts commands, deletions
and steerings, MaxDrops lost connections and restarts, and MaxInFlight = 1 lets the
server work on while players lag by one message (a handler may add two).
For a playlist, a buffer of one, a top-up of one and a second song are the least in which two checks
can both find the buffer short, and in which a song is over the buffer (passed by
the listener, waiting behind a question, asked for by a user); MaxMail bounds the
events that queue behind the startup, the only place where they do; RoomModes has rooms play endless
playlists only in `playlist` (with oneshots too it passes with 2,168,064 states) and both kinds in
`playlist_live`; a second crash would
start from the same rows. Of two Codex calls one starts the process and one joins
it, or meets its exit; MaxTurns = 1 makes the second one too many; a call needs no more
than one process. Two ffplay processes are the one that is heard and
one whose exit is late, which is then forgotten by the engine; more of the latter are all
alike, as the proof shows. Two songs tell a first, a last and a next one; two refresh timers
one that is held and one that leaked. React Query keeps queries
apart, so one query stands for all; of two changes one can come before a fetch
is read and one after it, or one announced and one not; with two playlists the
safety properties hold as well (2,340,255 states), the second one adding
only invalidations nobody needs. History variables are what the properties need and influence no step.

Some properties have conditions, each for a behaviour the code really has.

* `ServesUntilConfused`, `SuccessIsOwn` and `AnsweredUnlessConfused` (and, proved only,
  `LostOnlyByConfusion` and `TaskIsOwn`) stop at the first late answer that acts on another request's slot.
  `MapIsExact` leaves out songs whose calls ran together.
* `NeverStranded` leaves out rows a user reverted under their worker, and with
  `SavedAudioIsKept`, `ImplementsStages` and `AudioIsAskedOnce` rows that a submission given up
  long ago has overwritten (`overtaken`): such a song may be at work again after it was done.
* `PlayedOnce` and `LockedToRoom` hold while no sync is under way when the song changes
  (`Syncing` FALSE): a stale one sets the room back to a song that was
  played. For the same reason `EverySongGetsItsTurn` has the premise that no sync ever
  names another song than the room's: the room may return to a song that
  nobody plays, and then no end is reported. `Debounced` speaks of advances by the end of a song
  or a skip: `selectSong`, a refresh and a join start no debounce, and an end report
  under way then skips the song they chose. It also needs messages that arrive within
  half a second; the debounce is no more than a time. The properties of players
  speak of those the room counts as its devices: a device removed by the late close of its older
  socket (`room-manager.ts:88`) plays on without hearing of anything until it reconnects,
  and a room whose only player it was is silent after the song; `room_live` has HalfOpen FALSE for it.
* `BufferKept` counts what the buffer has `lost` since it was checked: a song that fails, goes out
  of date or is deleted leads to no check. `BufferBounded` is about the checks: what a room adds is not counted against
  them, and one during which a room adds songs is excused (`primed`). `ClosingHasWork` leaves out playlists whose last
  song was deleted while they closed (`vanished`). `WatchedStaysOpen` leaves out events
  that had to wait for the startup (`belated`): a "closing" that is handled late cancels
  what a heartbeat has opened again meanwhile.
* `MutedIsSilent` leaves out the time in which the engine knows that `pactl` failed. It does not say that what is not
  muted is heard.
* `NoOrphan` allows a process that was forgotten because an older one's exit was taken
  for its own (`stale`). `EveryCallSettles` says that a call ends, not that it ends with its result.
* The properties of the daemon hold until an answer comes for a session that has ended (`late`).
* `OthersChangesShow` excuses changes of others whose message was lost with the socket or while it was down (`Lost`), and no
  change that no message would have told of. A message for "playlists" names no playlist, so losing it excuses
  what is outdated of every playlist's row. `OwnChangesShow` excuses changes whose answer was lost. Both excuse those the page
  was told of during a first fetch or one nobody waits for, and those whose fetch was given up (`excused`). They speak of
  what a query follows (`FollowsAll`, `FollowsOwn`), which is the code's own choice: what is left out there is
  listed below.

### What the code does otherwise

Met while modelling. The modules have these behaviours as they are, and the conditions above
keep them apart from what holds.

Queues and songs

* `clearSlot` (queue-actors.ts:389) does not look whose slot it
  clears. Ticks do not wait for the poll before, so two polls of a task can both
  end it; the second frees the slot of the request that started in between,
  whose caller, and with it its song worker, waits until the song is stale.
* A user who reverts a song while its worker waits for the
  LLM makes it pending; if the LLM then fails, `markError` notes "pending" as the
  status of the error, for which `retryErrored` (song-service.ts:394) has no branch:
  the song goes on as metadata_ready and is submitted without metadata.
* A file that cannot be stored takes the song from saving
  to retry_pending, which ALLOWED_SONG_TRANSITIONS (song-status.ts) does not list; `markError` does
  not ask it. What the table lacks, not the retry, is wrong.

Rooms

* `handleSync` (room.ts:348) takes the song a player reports for the
  room's own. A report sent before a selection arrives after it and sets the room
  back; who plays goes on with the selected song, and who joins now is sent the old
  one.
* The start at `startAt` is a `setTimeout` nobody cancels
  (useRoomPlayer.ts:120): a pause in the half second before it pauses an element that
  is silent yet, and then the timer starts it. A player that joins a paused
  room plays too, for `sendCurrentSongTo` does not say that the room is paused.

Playlists

* A oneshot whose only song is pending (behind a question, or retried) has nothing in
  flight, so the next check of its buffer closes it as complete and gives the song up (worker/index.ts:1012).
* README.md:278 says a heartbeat "reactivates both `closing` and `closed` playlists"; `heartbeat`
  (playlist-service.ts:401) does so for closing ones only. README.md:302 speaks of a "self-sustaining loop", of
  which songs that fail or are deleted are no part: nothing checks the buffer for them.
* A room that has been idle adds five songs to its playlist (room-event-handler.ts:58) past the lock of the buffer and
  whatever it lacks, so that more than five may be ahead; in a closed playlist or a oneshot they are added too.
* A closing playlist whose last song is deleted stays closing until the next start of the server.
* The startup records the epoch it finds; a steering that queued behind it is then taken for
  one that was handled, and old pending songs stay.
* A "closing" that queued behind the startup is handled although a heartbeat has made the playlist
  active since.
* `assignDeviceToPlaylist` (device-service.ts:129) frees the old assignment and makes the new one
  in two statements without a transaction.

Codex

* `turn/completed` in the same chunk as the answer to `turn/start` is handled before the turn
  is registered, and dropped: the call waits for the whole timeout.
* The limit on turns is looked at two awaits before the turn is registered, so calls that
  begin together all pass it.
* The exit event has no process: that of an old process, coming after the next one was
  started, rejects what was asked of the new one, which goes on running unheld.

Daemon

* A refresh that is answered after the session was left starts a song (runtime.ts:1356), against
  "Leave the active local playlist session and stop local playback" (apps/cli/man/infi.1:96).
* Two `startLocal` that overlap leave a refresh interval that nothing can clear.
* A skip of the last local song leaves it playing while `currentSong` is null.
* The two levels of a song multiply (ffplay-engine.ts:250 and :355): one that was spawned muted stays silent when it is unmuted
  live, and one that was spawned at 50 percent and is set to 60 is heard at less than either. A level that the sound server
  remembers for the stream (:271) holds for the songs after it.
* A pause while a start is scheduled does nothing. SIGTERM to a process that is stopped (SIGSTOP) waits
  until it is continued, which nothing does. A program that cannot be spawned
  reports no end, and a local playlist stops with it.

Pages

* Deleting a playlist deletes its songs, messages and memories (`onDelete: "cascade"` in db/schema.ts), but only
  "playlists" is announced: queries of songs, chat and memory go on showing them.
* The query `["songs", "batch", ...]` is under no key an event invalidates; devices,
  assignments, sessions and rooms have no events; and the columns of listening have none either.
* Events that are sent while the socket is down are not made up for when it is up again, so
  "auto-invalidate" (hooks.ts:6) holds for a page that was never cut off.
* A change during the first fetch of a query invalidates it, and the old answer that
  then arrives counts as fresh.
* A memory that is made global is announced for its new scope only; it is invalidated all the same, because
  the page refetches every memory query for any of them.

### Fairness

* Queues: a running call or a submission settles, for every client has a timeout
  or an abort signal (WF on `Finish`, on `SubmitFulfilled \/ SubmitRejected`); the
  runtime ticks every two seconds (WF on `TickPolls`), the two minutes pass, ACE
  finishes what it runs, and it does not fail every poll (SF on `PollReply`).
* Song: a worker goes on, the LLM queue, the submission and the file store answer
  (`EveryRequestSettles` and the timeouts are the reason); the actor handles its
  events; time passes and the cleanup interval fires; a server that is down is
  started again. No answer to a poll is assumed, since the audio queue can lose
  it: a song that waits for ever is ended by `StaleCleanup`. Nothing is assumed of
  users or of the director; `Settles` has the premise that questions end.
* Room: messages arrive and are handled, timers fire, a song that sounds ends, and a
  player that lost its connection reconnects (WF on each; the hook retries for
  ever). Nothing is assumed of users, and songs need not become ready.
* Playlist: handlers run, workers claim, the songs in flight end, the initial
  plan comes or fails (SF where crashes can interrupt for ever), the timer fires,
  and a crashed server starts again. Nothing is assumed of users.
* Codex: promises go on and output is read (WF), every timer fires, and a process
  that ended reports its exit. No answer is assumed: the timeouts are what ends a call.
* Page: an interval that a query has goes on while the query is shown (WF), and of the fetches
  made again and again not all fail (SF on `Serve`, `Arrive`). Nothing is assumed of the socket.

## What is proved

All theorems hold for any values of the constants that satisfy the named
assumptions: finite sets of requests, workers, calls and songs, SongOf a function, priorities
and bounds natural numbers, and no-value constants outside the sets. The playlist of
a room is finite, without which a sort would have no first song; nothing is
assumed of the places and times of its songs, which may be equal.

* `QueueOrder_proofs`: the sort returns a permutation (`SortedIsPermutation`) that is
  in order (`SortedIsInOrder`); a filter returns the chosen items in their order
  (`KeptIsSubsequence`). Both queues' proofs rest on these.
* `RequestResponseQueue_proofs`: `IInv` is TypeOK, the order of the list, that each
  request is at one place at most and awaited there, no idle capacity, and the map's exactness
  outside `doubled`. The list's order has to be in it because a start takes the
  head; the one-place part because `Finish` would otherwise free a song twice.
  From it: `NoLostRequest`, `NoIdleCapacity`, `MapIsExact`, `PriorityRespected` and
  `StartsWithinLimit`. The last counts the running requests of songs outside
  `doubled` by an injection into the songs of the map. `QueueIsAService` is the refinement:
  the list as a set of items, what runs, and the promises implement `RequestService`, with one
  lemma per event. What `Drain` takes is the head of a list in order, so nothing that has to come
  before is left (`DrainBegins`).
* `AudioQueue_proofs`: `IInv` adds to the stated invariants that the list is in order,
  has one item a request and none of a request that was started, and that a poll
  asks for the task of its own request; without the last a poll that was made
  before the slot changed could bring a success that is not its own. From it:
  `SlotNeverIdle`, `QueuedIsAwaited`, `LostOnlyByConfusion`, `TaskIsOwn`, `SuccessIsOwn`,
  `PriorityRespected`, and `QueueServesUntilConfused`: the initial state is the service's, and every step that does not
  confuse the queue is one of the service's or a stutter. Without that condition it would be false: a late answer
  that clears another's slot ends a request whose caller is never told.
* `SongLifecycle_proofs`: `IInv` is RowOK (the row's type, and a song in retry_pending
  has a retry left, without which `Retried` would leave its range), WorkersOK (with
  `OneLiveWorker`, which is inductive by itself: a worker is only made when none is
  tracked) and RestOK. `ReadyIsFinal` needs `ReadyInv`: while the row is ready and not
  overtaken no worker is tracked, and no cancelled worker waits for the LLM or a
  submission, the two whose answers are written whatever the row is by then.
  `MetadataIsMadeOnce` needs that a row with metadata is neither pending nor to be
  retried from generating_metadata; it goes through `NextMoves`, which says what
  any step can do to the row. `NeverStranded`, `AudioIsAskedOnce` and `SavedAudioIsKept` share `OrderInv`,
  which relates the status to the step the one worker has reached and to the events under way: each waiting
  status has an event its actor will heed (`WaitingIsHeeded`), or a worker, or a server that is down; no worker is at
  a step its status has left (`WorkersFit`); and the submissions made are counted against the attempts the row has
  behind it (`AskedWithinAllowance`). None of the three is inductive without it: that a worker ends after it wrote a waiting
  status says nothing unless the event of this write is known to be still in the queue. `SongIsAsPromised` is the
  refinement of `SongStages`: `StatusMove` lists what a step can make of the status and the worker, one lemma says that the
  workers keep to it, another that everybody else does, and `MoveIsPromised` that the list is the abstract one. It needs
  `Orderly` for a song that is done: its worker has left, and none that was cancelled can still write the row.
* `Room_proofs`, on the choice of a song: `PickNextIsRight`, that `pickNextSong` finds no song only when
  there is none, and else one that no other has to come before, in the sense of
  `Precedes`; `PickIdleResumeIsReady`, that a room is not left idle while a song is ready.
* `Room_proofs`, on the room: `TypeOK`, which is inductive. `NeverSilent` is inductive with it.
  `ViewIsCurrent` follows from `Told`: the last message to each device names the
  current song, or it shows it already, unless the timer is set. `RightNext` is
  `PickNextIsRight` at the only handler that sets `ended`. `PlayedOnce` and
  `LockedToRoom` share an inductive invariant: no sync is under way (`NoSyncs`), a room that
  does not know its playlist hears nobody (`Served`), and `Quiet`: the current song has
  audio, a song the room advanced to will not become ready again, and
  each device, once it has heard what is under way, has the current song loaded (`Locked`, by
  `Loads` on channel and audio element). Without the audio the greeting of a join would
  not load the song. `Debounced` adds `Settled`: after an advance, every `nextSong` to a device is followed by a `nextSongAt`
  (`Passed`), so once the debounce, which waits for the second kind, is over, no song is under way to a device and by
  `Locked` each plays the current one. The three theorems assume ~Syncing, as their run does.
* `Processes_proofs`, on the engine: `EngineInv` is TypeOK with three facts: every process but the one that is held has been told to
  terminate, and the held one has not (`Processes`); what the fields say of the song and of that process agrees
  (`Fields`); and the level last applied is one of the two it is heard through (`Level`). Without the first a late
  exit could be taken for the end of a song. From it: `OneSounds`, `PausedIsSilent`, `MutedIsSilent` (a process with a level of 0 is silent whatever the other is), and `EngineIsAPlayer`: the initial state is
  Player's and every step is one of Player's or a stutter, with one step of the proof per action, so
  `ImplementsPlayer` holds for any songs, levels, retries and number of processes.
* `Processes_proofs`, on the Codex client: `CodexInv` is `CodexTypeOK`, `AnswerIsOwn`, `NoOrphan` and two more. `StartAndProc` says how `initialized`,
  `startPromise` and `proc` go together; `PendingHasProcess` is part of it. `Numbers` says that every request and answer under way,
  also those of processes that are no longer current, has a number that was given out, and that a call that waits
  for this number is the one that asked; it needs that the numbers go on across processes.
* `Clients_proofs`, on the daemon: `IInv` is TypeOK, the stated invariants and three that they need: what
  each mode leaves empty (`Modes`), what can be under way and for which session (`Waits`), and that a session that was left, or a daemon that
  shuts down, has no queue and no current song (`Left`). `LeftIsSilent` needs the last because a player that is
  silent now would be started from a queue that is not empty. From it: `RoomHasSocket`, `ConnectedIsJoined`, `NobodyWaitsInVain`, `LeftIsSilent`,
  `RoomPlaysRoom`, `TimersOwned`. The proofs use of the engine only what Player says of it, which the
  refinement justifies.
* `Clients_proofs`, on the page: the tables first, part by part: every write of a followed table says so in an event that the bridge sends on
  and whose keys reach every query that follows it (`WritesAnnounced`, `EventIsPassedOn`, `MessageIsHeard`), and so do the keys of every hook
  (`HooksHeeded`, `AnswerIsHeard`). Then `PageInv`: a change an answer lacks is excused, or word of it is on its way, or the
  query is fetched or will be when it is shown again. It is said of the answer in the cache (`BehindComes`) and of the one under way
  (`UnreadComes`), for the second becomes the first. From it: `OthersChangesShow`, `OwnChangesShow`, for any number of playlists.
* `PlaylistRuntime_proofs`: none of its properties is inductive, for each speaks of a playlist at rest; `IInv` says what
  there is until then. For `NoSongForgotten` it is `Tracked`: a song that can go on has its worker, or the event that will
  start one is in the mail of its actor or under way in its handler; `Ends` adds what an end of the playlist leaves behind.
  For `ClosingHasWork`, `ClosingGoesOn` names the events that lead to the end of a closing playlist, and `ToldReopened` what
  follows one that finds it closing no more. For `BufferKept`, `Kept` says that the buffer lacks no more than `lost`, or that
  something on its way leads to a check; a check is left out while another holds the lock, and `CheckCovers` says that this one makes
  up for what is missing, with what it has decided to create and has not yet. `BufferBounded` needs `CreatesFit`: what is
  ahead and what the holder has yet to create fit into the buffer together, unless a room has primed the playlist since the
  holder read its numbers (`primed`); `Locks` says who holds it. `WatchedStaysOpen` needs
  `WatchedInv` and `OnlyOneshots`: while somebody looks, no decision to close is under way. `SongsAreAsPromised` is the
  refinement of `SongStages`: `Moves` says what a step makes of a song and its worker (`MovesStep`), also where one
  handler moves many. It needs `BusyRows`, that the song of a busy worker is in flight or deleted, and `NewRows`, that the
  worker "created" starts finds no song that is done. TLC
  checked `IInv` on the run's instance first. Which event comes before which in a mail is asked with three predicates
  (`In`, `FillFirst`, `Reopens`), how many songs are ahead by `Ahead` and `Deficit`; lemmas on these answer for all handlers.

Every invariant and every action property that a run checks is proved. Only model-checked is liveness (`EveryRequestSettles`,
`AnsweredUnlessConfused`, `Settles`, `EverySongGetsItsTurn`, `AbandonedIsClosed`, `EveryCallSettles`, `PolledCatchesUp`), which is
out of the prover's reach.

## Plan

Done, in this order: `QueueOrder`, `RequestService`, `RequestResponseQueue`, `AudioQueue`, `SongStages`, `SongLifecycle`, `PickNextSong`, `Room`,
`PlaylistRuntime`, `CodexClient`, `Player` and `FfplayEngine`, `DaemonRuntime`, `QueryCache`. What would come next:

1. The runs of the director (one at a time for each playlist, wakes that join it) and the plans they write.
2. What `Room` leaves out: controllers and changes of role, individual modes of devices.
3. An abstract specification of a room, as Player is for the engine, RequestService for the queues and SongStages for
   the songs: one song at a time and none twice.

## Not modelled, and why

Prompts, lyrics, tags and the content of metadata; HTTP, SQL and file formats;
authentication and the access checks of routes; the views of the web interface and the commands of the CLI, which are sequential code
without shared state and more than half of the lines of this repository, so that the share of lines modelled here
is far below the share of its control. Model catalogues (`routes/autoplayer.ts`) and the clients of services (`external/llm.ts`, ...):
requests that settle. The numbers of `calculatePriority`: a function without state, while the queues are checked for
any priorities and any change of them. Covers and personas: nothing waits for them. Of the Codex client, `turn/interrupt`; of the daemon, its HTTP server and the
playback it reports; of songs, how their age adds up over the queues: `old` may become
true at any time instead. Runs of the director beyond the questions songs wait for. The superseded queue classes under
`server/worker/` are created by nobody. `PROJECT.json` has the list by component.

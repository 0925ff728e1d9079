--------------------------------- MODULE Room ---------------------------------
(***************************************************************************)
(* A listening room: class Room of the server, its song events and its     *)
(* WebSocket handler, with the browser players in it (useRoomConnection    *)
(* and useRoomPlayer).  One room, one playlist, players only; any device   *)
(* gives commands.                                                         *)
(*                                                                         *)
(* The server handles one message to its end: the promises a handler       *)
(* starts (mark as played, read the songs again) are settled before the    *)
(* next message, so the queue the room holds is the table of songs, status *)
(* here.  The two directions of a socket are FIFO channels.  A message     *)
(* says what the receiver keeps of it: the position in the song, volume,   *)
(* preloading and the modes of single devices are left out, and a nextSong *)
(* is one message with the state message sent right after it.              *)
(***************************************************************************)
EXTENDS PickNextSong, Sequences

CONSTANTS
    Players,        \* the devices that play
    Commands,       \* the room commands given: a subset of AllCommands
    Syncing,        \* whether a player's sync may be under way when the song changes
    HalfOpen,       \* whether the server may learn late that a socket is gone
    Prompt,         \* whether a message always takes less than half a second
    MaxCommands,    \* bound on what users do: commands, deletions, steering
    MaxDrops,       \* bound on lost connections and restarts of the server
    MaxInFlight     \* bound: the server works on when no player lags by more

AllCommands == {"play", "pause", "skip", "select"}

ASSUME RoomAssumption ==
    /\ Commands \subseteq AllCommands
    /\ Syncing \in BOOLEAN
    /\ HalfOpen \in BOOLEAN
    /\ Prompt \in BOOLEAN
    /\ MaxCommands \in Nat
    /\ MaxDrops \in Nat
    /\ MaxInFlight \in Nat

VARIABLES
    status,         \* the songs as the table and songQueue have them
    epoch,          \* playlistEpoch
    synced,         \* the room exists and knows its playlist
    current,        \* playback.currentSongId
    isPlaying,      \* playback.isPlaying
    ended,          \* songEndedHandled
    later,          \* stateBroadcastTimer is set
    devices,        \* the players in devices
    open,           \* the players whose socket is open and has joined
    halfOpen,       \* the players with an older socket the server holds open
    inbox,          \* messages from the server to each player
    outbox,         \* messages from each player to the server
    view,           \* the player's conn.playback.currentSongId
    loaded,         \* the song in its audio element
    sounding,       \* its audio element plays
    starting,       \* a start at startAt is scheduled
    advanced,       \* history: songs the room has advanced to of itself
    byEnd,          \* history: the last change was made by handleSongEnded
    commands, drops \* counters for the bounds

table == <<status, epoch>>
playback == <<current, isPlaying>>
links == <<devices, open, halfOpen>>
audio == <<view, loaded, sounding, starting>>
bounds == <<commands, drops>>
vars == <<table, synced, playback, ended, later, links, inbox, outbox, audio,
          advanced, byEnd, bounds>>

SongOrNone == Songs \cup {None}
SongStatus == {"generating", "ready", "played", "deleted"}

State(s) == [kind |-> "state", song |-> s]
NextSong(s) == [kind |-> "nextSong", song |-> s]
NextSongAt(s) == [kind |-> "nextSongAt", song |-> s]
Execute(play) == [kind |-> "execute", play |-> play]
ToPlayer == [kind : {"state", "nextSong", "nextSongAt"}, song : SongOrNone]
            \cup [kind : {"execute"}, play : BOOLEAN]

\* The song of an end report is history: the code's message carries none.
Sync(s) == [kind |-> "sync", song |-> s]
SongEnded(s) == [kind |-> "songEnded", song |-> s]
ToServer == [kind : {"sync", "songEnded"}, song : SongOrNone]

TypeOK ==
    /\ status \in [Songs -> SongStatus]
    /\ epoch \in Nat
    /\ synced \in BOOLEAN
    /\ current \in SongOrNone
    /\ isPlaying \in BOOLEAN
    /\ ended \in BOOLEAN
    /\ later \in BOOLEAN
    /\ devices \subseteq Players
    /\ open \subseteq Players
    /\ halfOpen \subseteq Players
    /\ inbox \in [Players -> Seq(ToPlayer)]
    /\ outbox \in [Players -> Seq(ToServer)]
    /\ view \in [Players -> SongOrNone]
    /\ loaded \in [Players -> SongOrNone]
    /\ sounding \in [Players -> BOOLEAN]
    /\ starting \in [Players -> BOOLEAN]
    /\ advanced \subseteq Songs
    /\ byEnd \in BOOLEAN
    /\ commands \in Nat
    /\ drops \in Nat

Init ==
    /\ status = [s \in Songs |-> "generating"]
    /\ epoch = 0
    /\ synced = FALSE
    /\ current = None
    /\ isPlaying = FALSE
    /\ ended = FALSE
    /\ later = FALSE
    /\ devices = {}
    /\ open = {}
    /\ halfOpen = {}
    /\ inbox = [p \in Players |-> <<>>]
    /\ outbox = [p \in Players |-> <<>>]
    /\ view = [p \in Players |-> None]
    /\ loaded = [p \in Players |-> None]
    /\ sounding = [p \in Players |-> FALSE]
    /\ starting = [p \in Players |-> FALSE]
    /\ advanced = {}
    /\ byEnd = FALSE
    /\ commands = 0
    /\ drops = 0

-------------------------------------------------------------------------------
(* Songs and messages. *)

Ready(songs) == {s \in Songs : songs[s] = "ready"}

\* song.audioUrl: a song that is ready or was played has one.
HasAudio(s) == s # None /\ status[s] \in {"ready", "played"}

\* getCurrentSong: the current song as far as the queue holds it.
KnownCurrent == IF current # None /\ status[current] # "deleted" THEN current ELSE None

\* Mutant of CurrentPlayed: a song that ends stays as it is.
CurrentUnmarked == status

\* markCurrentSongPlayed: nothing to mark without a current song, and a song
\* that is gone stays so.
CurrentPlayed == [s \in Songs |-> IF s = KnownCurrent THEN "played" ELSE status[s]]

\* The players a broadcast reaches.
Reached == devices \cap open

\* The last word a player has, or is about to have, on the current song.
Knows(box, p, s) ==
    IF box[p] = <<>> THEN view[p] = s
    ELSE box[p][Len(box[p])] \in {State(s), NextSong(s), NextSongAt(s)}

\* broadcastState.  A state message that tells a player nothing is left out.
TellState(box, to, s) ==
    [p \in Players |->
        IF p \in to /\ ~Knows(box, p, s) THEN Append(box[p], State(s)) ELSE box[p]]

Tell(box, to, m) == [p \in Players |-> IF p \in to THEN Append(box[p], m) ELSE box[p]]

\* The bound on lag.
Calm == \A p \in Players : Len(inbox[p]) <= MaxInFlight

-------------------------------------------------------------------------------
(* The room. *)

\* The song updateQueue starts of itself: none while the current song is in the
\* new queue.
AutoStart(songs, newEpoch, cur, playing) ==
    IF cur # None /\ songs[cur] # "deleted" THEN None
    ELSE IF cur = None /\ ~playing THEN PickIdleResume(Ready(songs))
    ELSE PickNext(Ready(songs), None, None, newEpoch)

\* updateQueue(songs, newEpoch) in a room whose playback is cur and playing,
\* with box already sent.
UpdateQueue(songs, newEpoch, cur, playing, box, to) ==
    LET kept == cur # None /\ songs[cur] # "deleted"
        next == AutoStart(songs, newEpoch, cur, playing)
    IN  /\ status' = songs
        /\ epoch' = newEpoch
        /\ current' = IF kept THEN cur ELSE next
        /\ isPlaying' = IF kept THEN playing ELSE next # None
        /\ inbox' = IF next # None THEN Tell(box, to, NextSongAt(next))
                                   ELSE TellState(box, to, current')

\* refreshRooms, after an event of the playlist: a room that does not know its
\* playlist yet is not reached.
Refresh(songs, newEpoch) ==
    /\ IF synced
       THEN /\ UpdateQueue(songs, newEpoch, current, isPlaying, inbox, Reached)
            /\ advanced' = IF current' # current THEN advanced \cup ({current'} \ {None})
                                                 ELSE advanced
            /\ byEnd' = (byEnd /\ current' = current)
       ELSE /\ status' = songs
            /\ epoch' = newEpoch
            /\ UNCHANGED <<playback, inbox, advanced, byEnd>>
    /\ UNCHANGED <<synced, ended, later, links, outbox, audio, drops>>

\* What a user does counts against the bound.
UserActs ==
    /\ Calm
    /\ commands < MaxCommands
    /\ commands' = commands + 1

\* The worker finishes a song.
SongReady(s) ==
    /\ Calm
    /\ status[s] = "generating"
    /\ Refresh([status EXCEPT ![s] = "ready"], epoch)
    /\ UNCHANGED commands

SongDeleted(s) ==
    /\ UserActs
    /\ status[s] # "deleted"
    /\ Refresh([status EXCEPT ![s] = "deleted"], epoch)

\* The playlist is steered: songs asked for from now on are of a new epoch.
Steered ==
    /\ UserActs
    /\ Refresh(status, epoch + 1)

\* handleSongEnded, for a report and for the skip command: only the first within
\* a second advances.  The played song's event then refreshes the queue.
HandleSongEnded ==
    IF ended
    THEN UNCHANGED <<table, playback, ended, inbox, advanced, byEnd>>
    ELSE LET next == PickNext(Ready(status), current, KnownCurrent, epoch)
         IN  /\ ended' = TRUE
             /\ UpdateQueue(CurrentPlayed, epoch, next, next # None,
                    IF next # None THEN Tell(inbox, Reached, NextSongAt(next))
                                   ELSE TellState(inbox, Reached, None), Reached)
             /\ advanced' = advanced \cup ({next} \ {None})
             /\ byEnd' = TRUE

\* Mutants of DebounceOver: it is over at once; it is never over.
DebounceOverAtOnce ==
    /\ ended
    /\ ended' = FALSE
    /\ UNCHANGED <<table, synced, playback, later, links, inbox, outbox, audio,
                   advanced, byEnd, bounds>>
DebounceNeverOver == FALSE

\* The timeout of handleSongEnded, a second later.  When messages are prompt,
\* those sent before the last change was known everywhere have arrived by then.
DebounceOver ==
    /\ ended
    /\ Prompt => \A p \in open :
            /\ \A k \in DOMAIN inbox[p] : inbox[p][k].kind # "nextSongAt"
            /\ \A k \in DOMAIN outbox[p] : outbox[p][k].kind # "songEnded"
    /\ ended' = FALSE
    /\ UNCHANGED <<table, synced, playback, later, links, inbox, outbox, audio,
                   advanced, byEnd, bounds>>

\* Mutant of HandleSync: within a second of the last, no state is sent at all.
HandleSyncUntold(s) ==
    /\ current' = IF s # None THEN s ELSE current
    /\ \/ inbox' = TellState(inbox, Reached, current')
       \/ inbox' = inbox
    /\ UNCHANGED <<table, isPlaying, ended, later, advanced, byEnd>>

\* handleSync: the state goes out at once or when the throttling timer fires.  The
\* timer is left out when the state would be the same.
HandleSync(s) ==
    /\ current' = IF s # None THEN s ELSE current
    /\ \/ inbox' = TellState(inbox, Reached, current') /\ later' = later
       \/ inbox' = inbox /\ later' = (later \/ current' # current)
    /\ UNCHANGED <<table, isPlaying, ended, advanced, byEnd>>

\* The timer of throttledBroadcastState.
StateTimer ==
    /\ Calm
    /\ later
    /\ later' = FALSE
    /\ inbox' = TellState(inbox, Reached, current)
    /\ UNCHANGED <<table, synced, playback, ended, links, outbox, audio, advanced,
                   byEnd, bounds>>

-------------------------------------------------------------------------------
(* Commands, from any device in the room. *)

Command(c) ==
    /\ UserActs
    /\ c \in Commands
    /\ synced

\* play and pause; toggle is one of them, and stop is pause and a seek.
PlayOrPause(play) ==
    /\ Command(IF play THEN "play" ELSE "pause")
    /\ isPlaying' = play
    /\ inbox' = TellState(Tell(inbox, Reached, Execute(play)), Reached, current)
    /\ UNCHANGED <<table, synced, current, ended, later, links, outbox, audio,
                   advanced, byEnd, drops>>

Skip ==
    /\ Command("skip")
    /\ HandleSongEnded
    /\ UNCHANGED <<synced, later, links, outbox, audio, drops>>

\* selectSong: the debounce of handleSongEnded has no part in it.
Select(s) ==
    /\ Command("select")
    /\ HasAudio(s)
    /\ status' = CurrentPlayed
    /\ current' = s
    /\ isPlaying' = TRUE
    /\ inbox' = Tell(inbox, Reached, NextSongAt(s))
    /\ byEnd' = FALSE
    /\ UNCHANGED <<epoch, synced, ended, later, links, outbox, audio, advanced,
                   drops>>

-------------------------------------------------------------------------------
(* Sockets. *)

\* Mutant of Greeting: a player that joins is shown the song and not sent it.
GreetingUnsent == State(current)

\* The state message of addDevice and the song of sendCurrentSongTo.
Greeting == IF HasAudio(current) THEN NextSong(current) ELSE State(current)

\* A player connects and its join is handled: addDevice, then syncRoom.
Join(p) ==
    /\ Calm
    /\ p \notin open
    /\ open' = open \cup {p}
    /\ devices' = devices \cup {p}
    /\ synced' = TRUE
    /\ UpdateQueue(status, epoch, current, isPlaying,
           [TellState(inbox, Reached, current) EXCEPT ![p] = <<Greeting>>],
           Reached \cup {p})
    /\ advanced' = IF current' # current THEN advanced \cup ({current'} \ {None})
                                         ELSE advanced
    /\ byEnd' = FALSE
    /\ UNCHANGED <<ended, later, halfOpen, outbox, audio, bounds>>

\* A player loses its connection, with all that is under way.  The server sees
\* the socket close (removeDevice), or holds it open for now.
Drop(p) ==
    /\ Calm
    /\ p \in open
    /\ drops < MaxDrops
    /\ drops' = drops + 1
    /\ open' = open \ {p}
    /\ outbox' = [outbox EXCEPT ![p] = <<>>]
    /\ LET box == [inbox EXCEPT ![p] = <<>>]
       IN  \/ /\ devices' = devices \ {p}
              /\ halfOpen' = halfOpen
              /\ inbox' = TellState(box, Reached \ {p}, current)
           \/ /\ HalfOpen
              /\ p \notin halfOpen
              /\ halfOpen' = halfOpen \cup {p}
              /\ devices' = devices
              /\ inbox' = box
    /\ UNCHANGED <<table, synced, playback, ended, later, audio, advanced,
                   byEnd, commands>>

\* The close of an older socket reaches the server: leaveRoom knows the device,
\* not the socket.
LateClose(p) ==
    /\ Calm
    /\ p \in halfOpen
    /\ halfOpen' = halfOpen \ {p}
    /\ devices' = devices \ {p}
    /\ inbox' = TellState(inbox, Reached \ {p}, current)
    /\ UNCHANGED <<table, synced, playback, ended, later, open, outbox, audio,
                   advanced, byEnd, bounds>>

\* Rooms are kept in memory only.  The current song was not marked as played.
Restart ==
    /\ drops < MaxDrops
    /\ drops' = drops + 1
    /\ synced' = FALSE
    /\ current' = None
    /\ isPlaying' = FALSE
    /\ ended' = FALSE
    /\ later' = FALSE
    /\ devices' = {}
    /\ open' = {}
    /\ halfOpen' = {}
    /\ inbox' = [p \in Players |-> <<>>]
    /\ outbox' = [p \in Players |-> <<>>]
    /\ advanced' = advanced \ {current}
    /\ byEnd' = FALSE
    /\ UNCHANGED <<table, audio, commands>>

\* The server handles a message.  It looks the room up by the socket, so it also
\* listens to a device that is no longer in devices.
Handle(p) ==
    /\ Calm
    /\ outbox[p] # <<>>
    /\ outbox' = [outbox EXCEPT ![p] = Tail(@)]
    /\ LET m == Head(outbox[p])
       IN  \/ /\ m.kind = "sync"
              /\ HandleSync(m.song)
           \/ /\ m.kind = "songEnded"
              /\ HandleSongEnded
              /\ UNCHANGED later
    /\ UNCHANGED <<synced, links, audio, bounds>>

-------------------------------------------------------------------------------
(* The player. *)

\* A message of the server.  Loading another song stops the one before.
Receive(p) ==
    /\ inbox[p] # <<>>
    /\ inbox' = [inbox EXCEPT ![p] = Tail(@)]
    /\ LET m == Head(inbox[p])
       IN  \/ /\ m.kind = "state"
              /\ view' = [view EXCEPT ![p] = m.song]
              /\ UNCHANGED <<loaded, sounding, starting, outbox>>
           \/ /\ m.kind \in {"nextSong", "nextSongAt"}
              /\ view' = [view EXCEPT ![p] = m.song]
              /\ loaded' = [loaded EXCEPT ![p] = m.song]
              /\ sounding' = [sounding EXCEPT ![p] = m.kind = "nextSong"]
              /\ starting' = [starting EXCEPT ![p] = @ \/ m.kind = "nextSongAt"]
              /\ UNCHANGED outbox
           \/ /\ m.kind = "execute"
              /\ sounding' = [sounding EXCEPT ![p] = m.play /\ loaded[p] # None]
              /\ outbox' = IF Syncing /\ ~m.play /\ loaded[p] # None
                           THEN [outbox EXCEPT ![p] = Append(@, Sync(view[p]))]
                           ELSE outbox
              /\ UNCHANGED <<view, loaded, starting>>
    /\ UNCHANGED <<table, synced, playback, ended, later, links, advanced,
                   byEnd, bounds>>

\* The timer for startAt.
StartAt(p) ==
    /\ starting[p]
    /\ starting' = [starting EXCEPT ![p] = FALSE]
    /\ sounding' = [sounding EXCEPT ![p] = TRUE]
    /\ UNCHANGED <<table, synced, playback, ended, later, links, inbox, outbox, view,
                   loaded, advanced, byEnd, bounds>>

\* The report of every second, of the song the room last named; the one before
\* has arrived by then.
SyncTick(p) ==
    /\ Syncing
    /\ p \in open
    /\ sounding[p]
    /\ \A k \in DOMAIN outbox[p] : outbox[p][k].kind # "sync"
    /\ outbox' = [outbox EXCEPT ![p] = Append(@, Sync(view[p]))]
    /\ UNCHANGED <<table, synced, playback, ended, later, links, inbox, audio,
                   advanced, byEnd, bounds>>

\* The player has the song the room has come to.
HasHeard(p) ==
    /\ p \in Reached
    /\ current # None
    /\ \A k \in DOMAIN inbox[p] : inbox[p][k].kind # "nextSongAt"

\* The audio reaches its end; without a connection the report is lost.  A song
\* lasts longer than the half second to a start and than the debounce that began
\* when it was chosen.
SongEnds(p) ==
    /\ sounding[p]
    /\ ~starting[p]
    /\ HasHeard(p) => ~ended
    /\ sounding' = [sounding EXCEPT ![p] = FALSE]
    /\ outbox' = IF p \in open THEN [outbox EXCEPT ![p] = Append(@, SongEnded(loaded[p]))]
                 ELSE outbox
    /\ UNCHANGED <<table, synced, playback, ended, later, links, inbox, view, loaded,
                   starting, advanced, byEnd, bounds>>

-------------------------------------------------------------------------------

Next ==
    \/ \E s \in Songs : SongReady(s) \/ SongDeleted(s) \/ Select(s)
    \/ \E play \in BOOLEAN : PlayOrPause(play)
    \/ \E p \in Players : \/ Join(p) \/ Drop(p) \/ LateClose(p) \/ Handle(p)
                          \/ Receive(p) \/ StartAt(p) \/ SyncTick(p) \/ SongEnds(p)
    \/ Steered \/ Skip \/ DebounceOver \/ StateTimer \/ Restart

Spec == Init /\ [][Next]_vars

\* Messages arrive, timers fire, songs end and players reconnect.
FairSpec ==
    /\ Spec
    /\ WF_vars(DebounceOver) /\ WF_vars(StateTimer)
    /\ \A p \in Players : /\ WF_vars(Join(p))
                          /\ WF_vars(Handle(p))
                          /\ WF_vars(Receive(p))
                          /\ WF_vars(StartAt(p))
                          /\ WF_vars(SongEnds(p))

-------------------------------------------------------------------------------
(* Properties. *)

\* The room is never silent while a song could play: without a current song no
\* song of the queue is ready.  Songs become ready, are deleted, end, and the
\* server restarts; each path has its own way to start the next song.
NeverSilent == synced /\ current = None => Ready(status) = {}

\* A player that has heard everything shows the room's song: every change of the
\* current song, a sync's included, is told to every device.
ViewIsCurrent == \A p \in Reached : inbox[p] = <<>> /\ ~later => view[p] = current

\* A song the room has advanced to of itself is current or not ready any more, so
\* the room does not play it a second time of itself.
PlayedOnce == \A s \in advanced : s = current \/ status[s] # "ready"

\* While the room has a song, a player in it that has heard everything has this
\* song in its audio element, whatever was selected, ended, lost or restarted.
LockedToRoom ==
    current # None => \A p \in Reached : inbox[p] = <<>> => loaded[p] = current

\* The debounce is long enough: after an advance by handleSongEnded, once it is
\* over, no report of another song's end is under way that would end the current
\* song too.  A song selected, started by a refresh, or a join, is not covered.
Debounced ==
    Prompt /\ byEnd /\ ~ended /\ current # None =>
        \A p \in Reached : \A k \in DOMAIN outbox[p] :
            outbox[p][k].kind = "songEnded" => outbox[p][k].song = current

\* The song that follows the end of another, or a skip, is the one pickNextSong
\* promises: no song that is ready has to come before it.
RightSong ==
    ~ended /\ ended' /\ current' # None =>
        \A t \in Ready(status) \ {current} : ~Precedes(t, current', KnownCurrent, epoch)
RightNext == [][RightSong]_vars

\* A sync under way names another song than the current one.
StaleSync ==
    \E p \in Players : \E k \in DOMAIN outbox[p] :
        outbox[p][k].kind = "sync" /\ outbox[p][k].song \notin {None, current}

\* A song that is ready gets its turn: it is played to its end, or dismissed, or
\* deleted.  A report lost with its connection does not hold the room up, because
\* the player starts the song again when it is back.  A stale sync can, even one
\* from before the song was ready: it may bring back a song nobody plays.
EverySongGetsItsTurn ==
    []~StaleSync => \A s \in Songs : status[s] = "ready" ~> status[s] # "ready"
===============================================================================

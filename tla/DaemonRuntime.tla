----------------------------- MODULE DaemonRuntime -----------------------------
(***************************************************************************)
(* apps/cli/src/daemon/runtime.ts: the daemon behind the infi command.  In *)
(* room mode it follows a room over a WebSocket, in local mode it plays a  *)
(* playlist by itself; commands come over IPC, assignments by polling.     *)
(*                                                                         *)
(* The daemon is one JavaScript process.  What it awaits are the start of  *)
(* a local session and its refreshes (fetches), the reports of a song that *)
(* is over (marking) and the registration of the device (registering); each *)
(* may be answered after anything else has happened.  Sockets it has let   *)
(* go of are ignored by its handlers, and so is all they still say.        *)
(*                                                                         *)
(* playback and connectionState, which are only reported, names, keys and  *)
(* the HTTP server are left out.                                           *)
(***************************************************************************)
EXTENDS Player, PlaylistIds, FiniteSetsExt

CONSTANTS
    StartSongsFromEnd,      \* LOCAL_START_SONGS_FROM_END
    MaxTimers               \* bound: refresh timers that exist

ASSUME DaemonAssumption ==
    /\ IsFiniteSet(Songs)
    /\ StartSongsFromEnd \in Nat
    /\ MaxTimers \in Nat \ {0}

VARIABLES
    mode,           \* this.mode
    roomId,
    ws,             \* the current socket
    reconnect,      \* reconnectTimer
    ackTimer,       \* joinAckFallbackTimer
    acked,          \* joinAcknowledged
    stateReceived,  \* roomStateReceived
    connected,
    deviceMode,     \* roomDeviceMode
    waiting,        \* connectionWaiters: somebody waits for the room to be joined
    local,          \* localPlaylistId
    queue,          \* the queue, a set: its order is that of Songs
    current,        \* currentSong
    timers,         \* refresh timers that exist
    timer,          \* localRefreshTimer is set
    fetches,        \* refreshes under way
    marking,        \* ends of songs that are being reported
    marked,         \* one of them has nothing to report
    registering,    \* the registration of the device under way
    shouldRun,
    left,           \* history: the session was left, and none begun since
    loaded,         \* history: who has loaded the song
    late            \* history: an answer came after the session it was for

socket == <<ws, reconnect, ackTimer, acked, stateReceived, connected, deviceMode, waiting>>
session == <<mode, roomId, local, queue, current>>
waits == <<timers, timer, fetches, marking, marked, registering>>
history == <<left, loaded, late>>
daemon == <<session, socket, waits, shouldRun, history>>
vars == <<player, daemon>>

\* A request is fresh while the session lasts that has made it.
Fetch == [first : BOOLEAN, fresh : BOOLEAN]

SessionOK ==
    /\ mode \in {"room", "local"}
    /\ roomId \in Playlists \cup {None} /\ local \in Playlists \cup {None}
    /\ queue \subseteq Songs /\ current \in Songs \cup {NoSong}

SocketOK ==
    /\ ws \in {"none", "connecting", "open"}
    /\ reconnect \in BOOLEAN /\ ackTimer \in BOOLEAN
    /\ acked \in BOOLEAN /\ stateReceived \in BOOLEAN /\ connected \in BOOLEAN
    /\ deviceMode \in {"default", "individual"}
    /\ waiting \in BOOLEAN

WaitsOK ==
    /\ timers \in 0..MaxTimers /\ timer \in BOOLEAN
    /\ fetches \subseteq Fetch
    /\ marking \subseteq BOOLEAN /\ marked \in BOOLEAN
    /\ registering \in {"no", "timer", "configure"}

HistoryOK ==
    /\ shouldRun \in BOOLEAN
    /\ left \in BOOLEAN /\ loaded \in {None, "room", "local"} /\ late \in BOOLEAN

TypeOK == PlayerTypeOK /\ SessionOK /\ SocketOK /\ WaitsOK /\ HistoryOK

Init ==
    /\ PlayerInit
    /\ mode = "room"
    /\ roomId = None /\ local = None
    /\ ws = "none" /\ waiting = FALSE /\ deviceMode = "default"
    /\ reconnect = FALSE /\ ackTimer = FALSE
    /\ acked = FALSE /\ stateReceived = FALSE /\ connected = FALSE
    /\ queue = {} /\ current = NoSong
    /\ timers = 0 /\ timer = FALSE
    /\ fetches = {} /\ marking = {} /\ marked = FALSE /\ registering = "no"
    /\ shouldRun = TRUE
    /\ left = FALSE /\ loaded = None /\ late = FALSE

-------------------------------------------------------------------------------
\* The socket.

\* disconnect(), apart from what it does to the room.
Disconnects ==
    /\ ws' = "none"
    /\ reconnect' = FALSE /\ ackTimer' = FALSE
    /\ acked' = FALSE /\ stateReceived' = FALSE /\ connected' = FALSE
    /\ deviceMode' = "default"
    /\ waiting' = FALSE

\* Mutant of Connects: what the last socket was told is believed of the next.
ConnectsStill(joining) ==
    /\ ws' = "connecting"
    /\ reconnect' = FALSE /\ ackTimer' = FALSE
    /\ connected' = FALSE
    /\ deviceMode' = "default"
    /\ waiting' = joining
    /\ UNCHANGED <<acked, stateReceived>>

\* connect() to a room; after joinRoom, somebody waits.
Connects(joining) ==
    /\ ws' = "connecting"
    /\ reconnect' = FALSE /\ ackTimer' = FALSE
    /\ acked' = FALSE /\ stateReceived' = FALSE /\ connected' = FALSE
    /\ deviceMode' = "default"
    /\ waiting' = joining

\* markRoomConnected()
MarksConnected ==
    IF acked' /\ stateReceived' /\ ~connected
    THEN /\ connected' = TRUE
         /\ waiting' = FALSE
    ELSE UNCHANGED <<connected, waiting>>

WsOpen ==
    /\ ws = "connecting"
    /\ ws' = "open" /\ ackTimer' = TRUE /\ connected' = FALSE
    /\ UNCHANGED <<reconnect, acked, stateReceived, deviceMode, waiting>>
    /\ UNCHANGED <<session, waits, shouldRun, history, player>>

\* The room server does not answer a join: it is taken to be an old one.
AckTimer ==
    /\ ackTimer
    /\ ackTimer' = FALSE
    /\ UNCHANGED <<ws, reconnect, stateReceived, deviceMode>>
    /\ IF connected \/ acked THEN UNCHANGED <<acked, connected, waiting>>
       ELSE acked' = TRUE /\ MarksConnected
    /\ UNCHANGED <<session, waits, shouldRun, history, player>>

JoinAck ==
    /\ ws = "open"
    /\ acked' = TRUE
    /\ UNCHANGED stateReceived
    /\ MarksConnected
    /\ UNCHANGED <<ws, reconnect, ackTimer, deviceMode>>
    /\ UNCHANGED <<session, waits, shouldRun, history, player>>

\* Mutant of RoomState: that the room is joined is not looked at again.
RoomStateUnmarked ==
    /\ ws = "open"
    /\ stateReceived' = TRUE
    /\ current' \in Songs \cup {NoSong}
    /\ deviceMode' \in {"default", "individual"}
    /\ acked' \in {acked, TRUE}
    /\ UNCHANGED <<connected, waiting>>
    /\ UNCHANGED <<ws, reconnect, ackTimer, mode, roomId, local, queue>>
    /\ UNCHANGED <<waits, shouldRun, history, player>>

\* "state": one without a protocol version stands for the acknowledgement as well.
RoomState ==
    /\ ws = "open"
    /\ stateReceived' = TRUE
    /\ current' \in Songs \cup {NoSong}
    /\ deviceMode' \in {"default", "individual"}
    /\ acked' \in {acked, TRUE}
    /\ MarksConnected
    /\ UNCHANGED <<ws, reconnect, ackTimer, mode, roomId, local, queue>>
    /\ UNCHANGED <<waits, shouldRun, history, player>>

Queue ==
    /\ ws = "open"
    /\ queue' \in SUBSET Songs
    /\ UNCHANGED <<mode, roomId, local, current>>
    /\ UNCHANGED <<socket, waits, shouldRun, history, player>>

Execute ==
    /\ ws = "open"
    /\ Play \/ Pause \/ Toggle \/ Seek
    /\ UNCHANGED daemon

NextSong(s, later) ==
    /\ ws = "open"
    /\ IF song = s /\ ~later THEN UNCHANGED <<player, loaded>>
       ELSE LoadSong(s, later) /\ loaded' = "room"
    /\ UNCHANGED <<session, socket, waits, shouldRun, left, late>>

\* The "error" event of the socket, and the error message of the room.
WsError ==
    /\ ws # "none"
    /\ waiting' = (waiting /\ connected)
    /\ UNCHANGED <<ws, reconnect, ackTimer, acked, stateReceived, connected, deviceMode>>
    /\ UNCHANGED <<session, waits, shouldRun, history, player>>

\* Mutant of WsClose: only a connection that worked is made again.
WsCloseOnce ==
    /\ ws # "none"
    /\ ws' = "none" /\ connected' = FALSE /\ ackTimer' = FALSE
    /\ waiting' = (waiting /\ connected)
    /\ reconnect' = (reconnect \/ (shouldRun /\ roomId # None /\ connected))
    /\ UNCHANGED <<acked, stateReceived, deviceMode>>
    /\ UNCHANGED <<session, waits, shouldRun, history, player>>

WsClose ==
    /\ ws # "none"
    /\ ws' = "none" /\ connected' = FALSE /\ ackTimer' = FALSE
    /\ waiting' = (waiting /\ connected)
    /\ reconnect' = (reconnect \/ (shouldRun /\ roomId # None))
    /\ UNCHANGED <<acked, stateReceived, deviceMode>>
    /\ UNCHANGED <<session, waits, shouldRun, history, player>>

\* connect() does nothing outside room mode or without a room.
Reconnect ==
    /\ reconnect
    /\ IF mode = "room" /\ roomId # None THEN Connects(FALSE)
       ELSE /\ reconnect' = FALSE
            /\ UNCHANGED <<ws, ackTimer, acked, stateReceived, connected, deviceMode,
                           waiting>>
    /\ UNCHANGED <<session, waits, shouldRun, history, player>>

\* waitUntilConnected() gives up.
WaiterTimeout ==
    /\ waiting
    /\ waiting' = FALSE
    /\ UNCHANGED <<ws, reconnect, ackTimer, acked, stateReceived, connected, deviceMode>>
    /\ UNCHANGED <<session, waits, shouldRun, history, player>>

-------------------------------------------------------------------------------
\* Sessions.

\* Whoever waits now waits for a session that is over.
Outdates(new) ==
    /\ fetches' = {[f EXCEPT !.fresh = FALSE] : f \in fetches} \cup new
    /\ marking' = {FALSE : m \in marking}
    /\ UNCHANGED <<marked, registering>>

DropsTimer == timer' = FALSE /\ timers' = IF timer THEN timers - 1 ELSE timers

\* ffplay.stop(true) and resetPlaybackState()
Resets ==
    /\ Stop
    /\ loaded' = None
    /\ queue' = {} /\ current' = NoSong

\* stopLocalMode() in so far as it depends on the mode.
ResetsLocal ==
    IF mode = "local" THEN Resets ELSE UNCHANGED <<player, loaded, queue, current>>

\* Mutant of JoinRoom: the local song is left to the room.
JoinRoomOver(r) ==
    /\ shouldRun
    /\ mode' = "room" /\ roomId' = r /\ local' = None
    /\ DropsTimer /\ Outdates({})
    /\ queue' = {} /\ current' = NoSong
    /\ Connects(TRUE)
    /\ left' = FALSE
    /\ UNCHANGED <<player, loaded, late, shouldRun>>

\* joinRoom, up to the wait for the connection.
JoinRoom(r) ==
    /\ shouldRun
    /\ mode' = "room" /\ roomId' = r /\ local' = None
    /\ DropsTimer /\ Outdates({})
    /\ IF mode = "local" THEN Resets
       ELSE queue' = {} /\ UNCHANGED <<current, player, loaded>>
    /\ Connects(TRUE)
    /\ left' = FALSE
    /\ UNCHANGED <<late, shouldRun>>

\* startLocalMode(), up to the answer of the first refresh.
StartLocal(p) ==
    /\ shouldRun
    /\ mode' = "local" /\ roomId' = None /\ local' = p
    /\ Disconnects
    /\ DropsTimer /\ Outdates({[first |-> TRUE, fresh |-> TRUE]})
    /\ Resets
    /\ left' = FALSE
    /\ UNCHANGED <<late, shouldRun>>

LeavesRoom ==
    /\ roomId' = None
    /\ Disconnects
    /\ Resets
    /\ left' = TRUE
    /\ UNCHANGED <<mode, local>>

LeaveRoom ==
    /\ shouldRun /\ mode = "room"
    /\ LeavesRoom
    /\ UNCHANGED <<waits, late, shouldRun>>

\* Mutant of LeavePlaylist: the song plays on.
LeavePlaylistPlaying ==
    /\ shouldRun /\ mode = "local"
    /\ local' = None
    /\ DropsTimer /\ Outdates({})
    /\ queue' = {} /\ current' = NoSong
    /\ connected' = FALSE
    /\ left' = TRUE
    /\ UNCHANGED <<player, loaded, mode, roomId, ws, reconnect, ackTimer, acked, stateReceived,
                   deviceMode, waiting, late, shouldRun>>

LeavePlaylist ==
    /\ shouldRun /\ mode = "local"
    /\ local' = None
    /\ DropsTimer /\ Outdates({})
    /\ Resets
    /\ connected' = FALSE
    /\ left' = TRUE
    /\ UNCHANGED <<mode, roomId, ws, reconnect, ackTimer, acked, stateReceived,
                   deviceMode, waiting, late, shouldRun>>

ClearSession ==
    /\ shouldRun
    /\ mode' = "room" /\ roomId' = None /\ local' = None
    /\ Disconnects
    /\ DropsTimer /\ Outdates({})
    /\ Resets
    /\ left' = TRUE
    /\ UNCHANGED <<late, shouldRun>>

\* shutdown(), before it waits for the servers to close.
Shutdown ==
    /\ shouldRun
    /\ shouldRun' = FALSE
    /\ roomId' = None /\ local' = None
    /\ Disconnects
    /\ DropsTimer /\ Outdates({})
    /\ Stop /\ loaded' = None
    /\ IF mode = "local" THEN queue' = {} /\ current' = NoSong ELSE UNCHANGED <<queue, current>>
    /\ left' = TRUE
    /\ UNCHANGED <<mode, late>>

\* configure with another playbackMode.
ConfigureRoom ==
    /\ shouldRun /\ mode = "local"
    /\ mode' = "room" /\ local' = None
    /\ Disconnects
    /\ DropsTimer /\ Outdates({})
    /\ Resets
    /\ UNCHANGED <<roomId, left, late, shouldRun>>

\* What the room has had played goes on.
ConfigureLocal ==
    /\ shouldRun /\ mode = "room"
    /\ mode' = "local" /\ roomId' = None
    /\ Disconnects
    /\ UNCHANGED <<local, queue, current, waits, history, shouldRun, player>>

-------------------------------------------------------------------------------
\* The device.

\* deviceRegistrationTimer, and configure with another server or name.
Register(why) ==
    /\ shouldRun
    /\ registering = "no"
    /\ registering' = why
    /\ UNCHANGED <<timers, timer, fetches, marking, marked>>
    /\ UNCHANGED <<session, socket, shouldRun, history, player>>

\* refreshDeviceRegistration() in room mode, with the playlist the server has assigned.
RegisteredRoom(a) ==
    IF a = None
    THEN IF roomId # None THEN LeavesRoom ELSE UNCHANGED <<session, socket, player, loaded, left>>
    ELSE /\ roomId' = a
         /\ left' = FALSE
         /\ IF registering = "configure" \/ roomId # a THEN Connects(FALSE) ELSE UNCHANGED socket
         /\ UNCHANGED <<mode, local, queue, current, player, loaded>>

\* After it, configure refreshes a local session.
RefreshesLocal ==
    fetches' = fetches \cup IF registering = "configure" /\ mode = "local" /\ local # None /\ shouldRun
                            THEN {[first |-> FALSE, fresh |-> TRUE]} ELSE {}

Registered(a) ==
    /\ registering # "no"
    /\ registering' = "no"
    /\ IF mode = "room" THEN RegisteredRoom(a)
       ELSE UNCHANGED <<session, socket, player, loaded, left>>
    /\ RefreshesLocal
    /\ UNCHANGED <<timers, timer, marking, marked, late, shouldRun>>

\* The registration has failed: configure connects all the same.
RegistrationFails ==
    /\ registering # "no"
    /\ registering' = "no"
    /\ IF registering = "configure" /\ mode = "room" /\ roomId # None THEN Connects(FALSE)
       ELSE UNCHANGED socket
    /\ RefreshesLocal
    /\ UNCHANGED <<timers, timer, marking, marked, session, history, player, shouldRun>>

-------------------------------------------------------------------------------
\* Local playback.

\* pickLocalStartSong()
StartSong(q) ==
    LET old == {s \in q : s + StartSongsFromEnd <= Max(q)}
    IN IF old = {} THEN Min(q) ELSE Max(old)

PlaysLocal(s) ==
    /\ current' = s
    /\ LoadSong(s, FALSE)
    /\ loaded' = "local"

\* localRefreshTimer
RefreshTimer ==
    /\ timers > 0
    /\ shouldRun /\ mode = "local" /\ local # None
    /\ fetches' = fetches \cup {[first |-> FALSE, fresh |-> TRUE]}
    /\ UNCHANGED <<timers, timer, marking, marked, registering>>
    /\ UNCHANGED <<session, socket, shouldRun, history, player>>

\* refreshLocalQueue() and reconcileLocalQueue(); with the first, the timer begins.
Fetched(f, q) ==
    /\ fetches' = fetches \ {f}
    /\ queue' = q
    /\ connected' = TRUE
    /\ IF current \notin q /\ q # {} THEN PlaysLocal(StartSong(q))
       ELSE /\ current' = IF current \in q THEN current ELSE NoSong
            /\ UNCHANGED <<player, loaded>>
    /\ IF f.first THEN timers < MaxTimers /\ timers' = timers + 1 /\ timer' = TRUE
       ELSE UNCHANGED <<timers, timer>>
    /\ late' = (late \/ ~f.fresh)
    /\ UNCHANGED <<mode, roomId, local, marking, marked, registering, shouldRun, left>>
    /\ UNCHANGED <<ws, reconnect, ackTimer, acked, stateReceived, deviceMode, waiting>>

FetchFails(f) ==
    /\ fetches' = fetches \ {f}
    /\ connected' = FALSE
    /\ late' = (late \/ ~f.fresh)
    /\ UNCHANGED <<timers, timer, marking, marked, registering>>
    /\ UNCHANGED <<session, shouldRun, left, loaded, player>>
    /\ UNCHANGED <<ws, reconnect, ackTimer, acked, stateReceived, deviceMode, waiting>>

\* handleLocalSongEnded(), up to the answers to its reports.
SongEnded ==
    IF current # NoSong /\ local # None
    THEN marking' = marking \cup {TRUE} /\ UNCHANGED marked
    ELSE marked' = TRUE /\ UNCHANGED marking

\* The rest of it: the mode is not looked at again.
PlaysNext ==
    LET ahead == {s \in queue : s > current}
        next == IF current = NoSong THEN IF queue = {} THEN {} ELSE {StartSong(queue)}
                ELSE IF ahead = {} THEN {} ELSE {Min(ahead)}
    IN IF next = {} THEN current' = NoSong /\ UNCHANGED <<player, loaded>>
       ELSE \E s \in next : PlaysLocal(s)

GoesOn ==
    /\ marked
    /\ marked' = FALSE
    /\ PlaysNext
    /\ UNCHANGED <<mode, roomId, local, queue, timers, timer, fetches, marking, registering>>
    /\ UNCHANGED <<socket, shouldRun, left, late>>

Marked(fresh) ==
    /\ marking' = marking \ {fresh}
    /\ PlaysNext
    /\ late' = (late \/ ~fresh)
    /\ UNCHANGED <<mode, roomId, local, queue, timers, timer, fetches, marked, registering>>
    /\ UNCHANGED <<socket, shouldRun, left>>

\* onEnded(): in room mode only the room is told.
Ended ==
    /\ Ends
    /\ IF mode = "local" THEN SongEnded ELSE UNCHANGED <<marking, marked>>
    /\ UNCHANGED <<timers, timer, fetches, registering>>
    /\ UNCHANGED <<session, socket, shouldRun, history>>

-------------------------------------------------------------------------------
\* Commands.  In room mode most of them only go to the room.

Skip ==
    /\ shouldRun /\ mode = "local"
    /\ SongEnded
    /\ UNCHANGED <<timers, timer, fetches, registering>>
    /\ UNCHANGED <<session, socket, shouldRun, history, player>>

SelectSong(s) ==
    /\ shouldRun /\ mode = "local"
    /\ s \in queue
    /\ PlaysLocal(s)
    /\ UNCHANGED <<mode, roomId, local, queue, socket, waits, shouldRun, left, late>>

\* play in local mode
PlayLocal ==
    /\ shouldRun /\ mode = "local"
    /\ IF (song # NoSong /\ state # "playing") \/ current # NoSong
       THEN Play /\ UNCHANGED <<current, loaded>>
       ELSE queue # {} /\ PlaysLocal(StartSong(queue))
    /\ UNCHANGED <<mode, roomId, local, queue, socket, waits, shouldRun, left, late>>

\* The others, and play and pause ahead of the room.
Command ==
    /\ shouldRun
    /\ \/ mode = "local" /\ (Pause \/ Toggle \/ Seek)
       \/ mode = "room" /\ connected /\ ws = "open" /\ deviceMode = "default" /\ (Play \/ Pause)
    /\ UNCHANGED daemon

-------------------------------------------------------------------------------
Engine == (Starts \/ Fails) /\ UNCHANGED daemon

Room ==
    \/ WsOpen \/ AckTimer \/ JoinAck \/ RoomState \/ Queue \/ Execute \/ WsError \/ WsClose
    \/ Reconnect \/ WaiterTimeout
    \/ \E s \in Songs, later \in BOOLEAN : NextSong(s, later)

Answer ==
    \/ \E f \in fetches : FetchFails(f) \/ \E q \in SUBSET Songs : Fetched(f, q)
    \/ \E fresh \in marking : Marked(fresh)
    \/ RegistrationFails \/ \E a \in Playlists \cup {None} : Registered(a)

Ipc ==
    \/ LeaveRoom \/ LeavePlaylist \/ ClearSession \/ Shutdown \/ ConfigureRoom \/ ConfigureLocal
    \/ Skip \/ PlayLocal \/ Command
    \/ \E p \in Playlists : JoinRoom(p) \/ StartLocal(p)
    \/ \E s \in Songs : SelectSong(s)

\* What is settled already goes on before anything else happens.
Next ==
    \/ GoesOn
    \/ /\ ~marked
       /\ \/ Engine \/ Room \/ Answer \/ Ipc
          \/ RefreshTimer \/ Ended
          \/ \E why \in {"timer", "configure"} : Register(why)

Spec == Init /\ [][Next]_vars

-------------------------------------------------------------------------------
\* In room mode the daemon takes itself to be connected only when its socket has been
\* told both the state of the room and that it has joined: not by its last socket.
ConnectedIsJoined ==
    /\ mode = "room" /\ connected /\ ~late => ws = "open" /\ acked /\ stateReceived
    /\ ws = "connecting" => ~acked /\ ~stateReceived

\* Once the room has been joined nobody is left waiting for it to be.
NobodyWaitsInVain ==
    waiting /\ ~late => ws # "none" /\ ~(acked /\ stateReceived)

\* The daemon is in a room exactly as long as it has a socket to it or is about to make
\* one, and never has both.
RoomHasSocket ==
    /\ mode = "room" /\ roomId # None /\ shouldRun => ws # "none" \/ reconnect
    /\ reconnect => ws = "none" /\ mode = "room"
    /\ ws # "none" => mode = "room" /\ roomId # None

\* A session that was left, or a daemon that shuts down, plays nothing and starts
\* nothing, unless an answer came that was asked for before.
LeftIsSilent == left /\ ~late => song = NoSong

\* What is played in a room is what the room has asked for.
RoomPlaysRoom == mode = "room" /\ song # NoSong /\ ~late => loaded = "room"

\* There is never a refresh timer that nothing could stop.
TimersOwned == ~late => timers = IF timer THEN 1 ELSE 0
===============================================================================

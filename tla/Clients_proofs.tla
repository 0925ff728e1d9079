----------------------------- MODULE Clients_proofs -----------------------------
(***********************************************************************************)
(* What holds of the two programs that follow the server over a socket: the daemon *)
(* and the page, for every set of songs and playlists.  Each part is about a       *)
(* specification of its own.                                                       *)
(*                                                                                 *)
(* For the daemon most rests on two facts about modes.  Only in room mode is there *)
(* a socket or one to come (RoomHasSocket), so nothing a room says reaches a local *)
(* session; and an answer that is fresh is one of a local session that goes on     *)
(* (Waits), so until a stale one comes nothing a local session has asked for       *)
(* reaches a room, or what follows a session that was left.                        *)
(*                                                                                 *)
(* For the page the first half is about the tables it and the server are made of,  *)
(* whose parts are spread over the services, the bridge and the page:              *)
(*   - every operation that changes what somebody may follow says so, in an event  *)
(*     that names the playlist where it matters (WritesAnnounced);                 *)
(*   - the bridge passes this event on as a message that tells of the change       *)
(*     (EventIsPassedOn), and the keys the page invalidates for such a message     *)
(*     reach every query that follows what has changed (MessageIsHeard);           *)
(*   - the keys a hook invalidates reach every query that follows what its request *)
(*     changes (HooksHeeded, AnswerIsHeard).                                       *)
(* Each table is proved part by part; the lemmas Joined... put the parts together. *)
(* The second half is the inductive invariant.  A change that is followed and that *)
(* an answer lacks is excused, or on its way to the page (Comes); once the page    *)
(* has heard of it the query is being fetched, or will be when it is shown again.  *)
(* This has to be said of the answer in the cache (BehindComes) and of the one     *)
(* that is under way (UnreadComes), as the second becomes the first.               *)
(***********************************************************************************)
EXTENDS DaemonRuntime, QueryCache, QueueOrder_proofs, WellFoundedInduction


-------------------------------------------------------------------------------
(* The daemon.                                                             *)

\* A session is either in a room or local.
Modes ==
    /\ mode = "local" => roomId = None
    /\ mode = "room" => local = None
    /\ ackTimer => ws = "open"
    /\ waiting /\ ~late => ~connected

\* Who waits for an answer that is fresh is a local session that goes on.
Waits ==
    /\ marked => mode = "local"
    /\ timer => timers > 0
    /\ \A f \in fetches : f.fresh => mode = "local" /\ local # None
    /\ \A f \in fetches : f.fresh /\ f.first /\ ~late => ~timer
    /\ TRUE \in marking => mode = "local" /\ local # None

\* What is left of a session.
Left ==
    left => /\ roomId = None /\ local = None
            /\ (shouldRun \/ mode = "local") /\ ~late => queue = {} /\ current = NoSong

\* The inductive invariant.
IInv ==
    /\ TypeOK
    /\ Modes /\ Waits /\ Left
    /\ RoomHasSocket /\ ConnectedIsJoined /\ NobodyWaitsInVain
    /\ LeftIsSilent /\ RoomPlaysRoom /\ TimersOwned

-------------------------------------------------------------------------------
\* There is no endless chain of ever smaller sets of songs.
LEMMA SetsOfSongsAreWellFounded ==
    IsWellFoundedOn(StrictSubsetOrdering(Songs), SUBSET Songs)
<1>1. FiniteSubsetsOf(Songs) = SUBSET Songs
    BY DaemonAssumption, PlaylistsAssumption, FS_FiniteSubsetsOfFinite, Zenon
<1>2. IsWellFoundedOn(StrictSubsetOrdering(Songs), FiniteSubsetsOf(Songs))
    BY FS_StrictSubsetOrderingWellFounded, Zenon
<1>3. QED
    BY <1>1, <1>2, Zenon

\* Of the songs of a queue one is the last.
LEMMA MaxIsLast ==
    ASSUME NEW q \in SUBSET Songs, q # {}
    PROVE  Max(q) \in q /\ \A s \in q : Max(q) >= s
<1> DEFINE Above(s) == {t \in q : s < t}
           Sets == {Above(s) : s \in q}
           R == StrictSubsetOrdering(Songs)
<1>1. q \subseteq Nat
    BY SongsAssumption
<1>2. \E x \in Sets : \A y \in Sets : ~(<<y, x>> \in R)
    <2>1. IsWellFoundedOn(R, SUBSET Songs)
        BY SetsOfSongsAreWellFounded
    <2>2. Sets \subseteq SUBSET Songs /\ Sets # {}
        OBVIOUS
    <2> HIDE DEF Sets, R
    <2>3. QED
        BY <2>1, <2>2, WFMin
<1>3. PICK s \in q : \A y \in Sets : ~(<<y, Above(s)>> \in R)
    BY <1>2
<1>4. ASSUME NEW t \in q, s < t
      PROVE  FALSE
    <2>1. s \in Nat /\ t \in Nat
        BY <1>1
    <2>2. t \in Above(s) /\ t \notin Above(t)
        BY <1>4, <2>1
    <2>3. Above(t) \subseteq Above(s)
        <3> SUFFICES ASSUME NEW u \in q, t < u
                     PROVE  s < u
            OBVIOUS
        <3>1. u \in Nat
            BY <1>1
        <3>2. QED
            BY <1>4, <2>1, <3>1
    <2>4. Above(t) \in SUBSET Songs /\ Above(s) \in SUBSET Songs /\ Above(t) \in Sets
        OBVIOUS
    <2> HIDE DEF Above, Sets
    <2>5. QED
        BY <1>3, <2>2, <2>3, <2>4 DEF StrictSubsetOrdering
<1>5. \A t \in q : s >= t
    BY <1>1, <1>4
<1>6. QED
    BY <1>5 DEF Max

\* Of the songs of a queue one is the first.
LEMMA MinIsFirst ==
    ASSUME NEW q \in SUBSET Songs, q # {}
    PROVE  Min(q) \in q
<1> DEFINE Below(s) == {t \in q : t < s}
           Sets == {Below(s) : s \in q}
           R == StrictSubsetOrdering(Songs)
<1>1. q \subseteq Nat
    BY SongsAssumption
<1>2. \E x \in Sets : \A y \in Sets : ~(<<y, x>> \in R)
    <2>1. IsWellFoundedOn(R, SUBSET Songs)
        BY SetsOfSongsAreWellFounded
    <2>2. Sets \subseteq SUBSET Songs /\ Sets # {}
        OBVIOUS
    <2> HIDE DEF Sets, R
    <2>3. QED
        BY <2>1, <2>2, WFMin
<1>3. PICK s \in q : \A y \in Sets : ~(<<y, Below(s)>> \in R)
    BY <1>2
<1>4. ASSUME NEW t \in q, t < s
      PROVE  FALSE
    <2>1. s \in Nat /\ t \in Nat
        BY <1>1
    <2>2. t \in Below(s) /\ t \notin Below(t)
        BY <1>4, <2>1
    <2>3. Below(t) \subseteq Below(s)
        <3> SUFFICES ASSUME NEW u \in q, u < t
                     PROVE  u < s
            OBVIOUS
        <3>1. u \in Nat
            BY <1>1
        <3>2. QED
            BY <1>4, <2>1, <3>1
    <2>4. Below(t) \in SUBSET Songs /\ Below(s) \in SUBSET Songs /\ Below(t) \in Sets
        OBVIOUS
    <2> HIDE DEF Below, Sets
    <2>5. QED
        BY <1>3, <2>2, <2>3, <2>4 DEF StrictSubsetOrdering
<1>5. \A t \in q : s =< t
    BY <1>1, <1>4
<1>6. QED
    BY <1>5 DEF Min

\* pickLocalStartSong() returns a song of the queue.
LEMMA StartSongIsQueued ==
    ASSUME NEW q \in SUBSET Songs, q # {}
    PROVE  StartSong(q) \in q
<1> DEFINE old == {s \in q : s + StartSongsFromEnd <= Max(q)}
<1>1. CASE old = {}
    BY <1>1, MinIsFirst DEF StartSong
<1>2. CASE old # {}
    <2>1. old \in SUBSET Songs
        OBVIOUS
    <2>2. Max(old) \in old
        BY <1>2, <2>1, MaxIsLast
    <2>3. QED
        BY <1>2, <2>2 DEF StartSong
<1>3. QED
    BY <1>1, <1>2

\* What the player is told apart from loading a song leaves it the song it has.
LEMMA PlayerKeepsItsSong ==
    ASSUME PlayerTypeOK, Play \/ Pause \/ Toggle \/ Seek \/ Starts \/ Ends \/ Fails
    PROVE  PlayerTypeOK' /\ UNCHANGED song
BY DEF PlayerTypeOK, Play, Pause, Toggle, Seek, Starts, Ends, Fails, NoSong

LEMMA LoadSongIs ==
    ASSUME NEW s \in Songs, NEW later \in BOOLEAN, LoadSong(s, later)
    PROVE  PlayerTypeOK' /\ song' = s
BY SongsAssumption DEF PlayerTypeOK, LoadSong, NoSong

LEMMA StopIs ==
    ASSUME Stop
    PROVE  PlayerTypeOK' /\ song' = NoSong
BY DEF PlayerTypeOK, Stop, NoSong

\* A song that is played locally is one of the queue or none is.
LEMMA PlaysNextIs ==
    ASSUME TypeOK, PlaysNext
    PROVE  /\ PlayerTypeOK' /\ current' \in Songs \cup {NoSong}
           /\ \/ current' = NoSong /\ UNCHANGED <<player, loaded>>
              \/ loaded' = "local" /\ (queue # {} \/ current # NoSong)
           /\ queue = {} /\ current = NoSong => UNCHANGED song
<1> DEFINE ahead == {s \in queue : s > current}
           next == IF current = NoSong THEN IF queue = {} THEN {} ELSE {StartSong(queue)}
                   ELSE IF ahead = {} THEN {} ELSE {Min(ahead)}
<1>1. queue \in SUBSET Songs /\ PlayerTypeOK
    BY DEF TypeOK, SessionOK
<1>2. next \subseteq queue
    <2>1. ahead \in SUBSET Songs
        BY <1>1
    <2>2. ahead # {} => Min(ahead) \in ahead
        BY <2>1, MinIsFirst
    <2>3. queue # {} => StartSong(queue) \in queue
        BY <1>1, StartSongIsQueued
    <2>4. QED
        BY <2>2, <2>3
<1>3. CASE next = {}
    <2>1. current' = NoSong /\ UNCHANGED <<player, loaded>>
        BY <1>3 DEF PlaysNext
    <2>2. QED
        BY <1>1, <2>1 DEF player, PlayerTypeOK
<1>4. CASE next # {}
    <2>1. PICK s \in next : PlaysLocal(s)
        BY <1>4 DEF PlaysNext
    <2>2. s \in Songs /\ s \in queue
        BY <1>1, <1>2
    <2> HIDE DEF next
    <2>3. current' = s /\ LoadSong(s, FALSE) /\ loaded' = "local"
        BY <2>1 DEF PlaysLocal
    <2>4. PlayerTypeOK'
        BY <2>2, <2>3, LoadSongIs
    <2>5. QED
        BY <2>2, <2>3, <2>4
<1>5. QED
    BY <1>3, <1>4

\* What was waited for is stale.
LEMMA OutdatesIs ==
    ASSUME WaitsOK, NEW new \in SUBSET Fetch, Outdates(new)
    PROVE  /\ fetches' \subseteq Fetch /\ marking' \subseteq BOOLEAN
           /\ \A f \in fetches' : f \in new \/ ~f.fresh
           /\ TRUE \notin marking'
           /\ UNCHANGED <<marked, registering>>
<1>1. \A f \in Fetch : [f EXCEPT !.fresh = FALSE] \in Fetch /\ ~[f EXCEPT !.fresh = FALSE].fresh
    BY DEF Fetch
<1>2. fetches' = {[f EXCEPT !.fresh = FALSE] : f \in fetches} \cup new
    BY DEF Outdates
<1>3. fetches' \subseteq Fetch /\ \A f \in fetches' : f \in new \/ ~f.fresh
    BY <1>1, <1>2 DEF WaitsOK
<1>4. marking' \subseteq {FALSE}
    BY DEF Outdates
<1>5. QED
    BY <1>3, <1>4 DEF Outdates

LEMMA DropsTimerIs ==
    ASSUME WaitsOK, Waits, TimersOwned, DropsTimer
    PROVE  timers' \in 0..MaxTimers /\ timer' = FALSE /\ (~late => timers' = 0)
BY DaemonAssumption, PlaylistsAssumption DEF WaitsOK, Waits, TimersOwned, DropsTimer

\* Only a local session is refreshed.
LEMMA RefreshesLocalIs ==
    ASSUME WaitsOK, RefreshesLocal
    PROVE  /\ fetches' \subseteq Fetch
           /\ \A f \in fetches' : \/ f \in fetches
                                  \/ ~f.first /\ mode = "local" /\ local # None
<1> DEFINE r == [first |-> FALSE, fresh |-> TRUE]
<1>1. r \in Fetch /\ ~r.first
    BY DEF Fetch
<1>2. \/ fetches' = fetches
      \/ fetches' = fetches \cup {r} /\ mode = "local" /\ local # None
    BY DEF RefreshesLocal
<1> HIDE DEF r
<1>3. QED
    BY <1>1, <1>2 DEF WaitsOK

\* The queue that was fetched is played from, unless the current song is in it.
LEMMA FetchedIs ==
    ASSUME TypeOK, NEW f \in fetches, NEW q \in SUBSET Songs, Fetched(f, q)
    PROVE  /\ PlayerTypeOK' /\ current' \in Songs \cup {NoSong}
           /\ UNCHANGED <<song, loaded>> \/ loaded' = "local"
<1>1. CASE current \notin q /\ q # {}
    <2>1. StartSong(q) \in Songs
        BY <1>1, StartSongIsQueued
    <2>2. current' = StartSong(q) /\ LoadSong(StartSong(q), FALSE) /\ loaded' = "local"
        BY <1>1 DEF Fetched, PlaysLocal
    <2>3. QED
        BY <2>1, <2>2, LoadSongIs
<1>2. CASE ~(current \notin q /\ q # {})
    BY <1>2 DEF Fetched, TypeOK, PlayerTypeOK, SessionOK, player
<1>3. QED
    BY <1>1, <1>2

LEMMA PlayLocalIs ==
    ASSUME TypeOK, PlayLocal
    PROVE  /\ PlayerTypeOK' /\ current' \in Songs \cup {NoSong}
           /\ \/ UNCHANGED <<song, current, loaded>>
              \/ loaded' = "local" /\ queue # {}
<1>1. CASE (song # NoSong /\ state # "playing") \/ current # NoSong
    <2>1. Play /\ UNCHANGED <<current, loaded>>
        BY <1>1 DEF PlayLocal
    <2>2. QED
        BY <2>1, PlayerKeepsItsSong DEF TypeOK, SessionOK
<1>2. CASE ~((song # NoSong /\ state # "playing") \/ current # NoSong)
    <2>1. queue # {} /\ PlaysLocal(StartSong(queue))
        BY <1>2 DEF PlayLocal
    <2>2. StartSong(queue) \in Songs
        BY <2>1, StartSongIsQueued DEF TypeOK, SessionOK
    <2>3. QED
        BY <2>1, <2>2, LoadSongIs DEF PlaysLocal
<1>3. QED
    BY <1>1, <1>2

\* What a step leaves alone it keeps.
LEMMA Same ==
    ASSUME IInv
    PROVE  /\ UNCHANGED <<song, state>> => PlayerTypeOK'
           /\ UNCHANGED <<mode, roomId, local, queue, current>> => SessionOK'
           /\ UNCHANGED <<ws, reconnect, ackTimer, acked, stateReceived, connected, deviceMode,
                          waiting>> => SocketOK'
           /\ UNCHANGED <<timers, timer, fetches, marking, marked, registering>> => WaitsOK'
           /\ UNCHANGED <<shouldRun, left, loaded, late>> => HistoryOK'
           /\ UNCHANGED <<mode, roomId, local, ws, ackTimer, connected, waiting, late>> => Modes'
           /\ UNCHANGED <<mode, local, timers, timer, fetches, marking, marked, late>> => Waits'
           /\ UNCHANGED <<mode, roomId, local, queue, current, shouldRun, left, late>> => Left'
           /\ UNCHANGED <<mode, roomId, ws, reconnect, shouldRun>> => RoomHasSocket'
           /\ UNCHANGED <<mode, ws, acked, stateReceived, connected, late>> => ConnectedIsJoined'
           /\ UNCHANGED <<ws, acked, stateReceived, waiting, late>> => NobodyWaitsInVain'
           /\ UNCHANGED <<song, left, late>> => LeftIsSilent'
           /\ UNCHANGED <<mode, song, loaded, late>> => RoomPlaysRoom'
           /\ UNCHANGED <<timers, timer, late>> => TimersOwned'
<1>1. UNCHANGED <<song, state>> => PlayerTypeOK'
    BY DEF IInv, TypeOK, PlayerTypeOK
<1>2. UNCHANGED <<mode, roomId, local, queue, current>> => SessionOK'
    BY DEF IInv, TypeOK, SessionOK
<1>3. UNCHANGED <<ws, reconnect, ackTimer, acked, stateReceived, connected, deviceMode,
                  waiting>> => SocketOK'
    BY DEF IInv, TypeOK, SocketOK
<1>4. UNCHANGED <<timers, timer, fetches, marking, marked, registering>> => WaitsOK'
    BY DEF IInv, TypeOK, WaitsOK
<1>5. UNCHANGED <<shouldRun, left, loaded, late>> => HistoryOK'
    BY DEF IInv, TypeOK, HistoryOK
<1>6. UNCHANGED <<mode, roomId, local, ws, ackTimer, connected, waiting, late>> => Modes'
    BY DEF IInv, TypeOK, Modes
<1>7. UNCHANGED <<mode, local, timers, timer, fetches, marking, marked, late>> => Waits'
    <2> SUFFICES ASSUME UNCHANGED <<mode, local, timers, timer, fetches, marking, marked, late>>
                 PROVE  Waits'
        OBVIOUS
    <2>1. marked => mode = "local"
        BY DEF IInv, Waits
    <2>2. timer => timers > 0
        BY DEF IInv, Waits
    <2>3. TRUE \in marking => mode = "local" /\ local # None
        BY DEF IInv, Waits
    <2>4. \A f \in fetches : f.fresh => mode = "local" /\ local # None
        BY DEF IInv, Waits
    <2>5. \A f \in fetches : f.fresh /\ f.first /\ ~late => ~timer
        BY DEF IInv, Waits
    <2>6. QED
        BY <2>1, <2>2, <2>3, <2>4, <2>5 DEF Waits
<1>8. UNCHANGED <<mode, roomId, local, queue, current, shouldRun, left, late>> => Left'
    BY DEF IInv, TypeOK, Left
<1>9. UNCHANGED <<mode, roomId, ws, reconnect, shouldRun>> => RoomHasSocket'
    BY DEF IInv, TypeOK, RoomHasSocket
<1>10. UNCHANGED <<mode, ws, acked, stateReceived, connected, late>> => ConnectedIsJoined'
    BY DEF IInv, TypeOK, ConnectedIsJoined
<1>11. UNCHANGED <<ws, acked, stateReceived, waiting, late>> => NobodyWaitsInVain'
    BY DEF IInv, TypeOK, NobodyWaitsInVain
<1>12. UNCHANGED <<song, left, late>> => LeftIsSilent'
    BY DEF IInv, TypeOK, LeftIsSilent
<1>13. UNCHANGED <<mode, song, loaded, late>> => RoomPlaysRoom'
    BY DEF IInv, TypeOK, RoomPlaysRoom
<1>14. UNCHANGED <<timers, timer, late>> => TimersOwned'
    BY DEF IInv, TypeOK, TimersOwned
<1>15. QED
    BY <1>1, <1>2, <1>3, <1>4, <1>5, <1>6, <1>7, <1>8, <1>9, <1>10, <1>11, <1>12, <1>13, <1>14

\* markRoomConnected() makes connected true only when both answers are there, and then
\* nobody waits any longer.
LEMMA MarksConnectedIs ==
    ASSUME SocketOK, MarksConnected
    PROVE  /\ connected' \in BOOLEAN /\ waiting' \in BOOLEAN
           /\ connected' => connected \/ (acked' /\ stateReceived')
           /\ waiting' => waiting
           /\ waiting' => connected' = connected
           /\ waiting' /\ acked' /\ stateReceived' => connected
BY DEF SocketOK, MarksConnected

\* When a session ends, what it waits for is stale and its timer is stopped.
LEMMA SessionEnds ==
    ASSUME WaitsOK, Waits, TimersOwned, ~marked,
           DropsTimer, NEW new \in SUBSET Fetch, Outdates(new), UNCHANGED late,
           \A f \in new : f.fresh => mode' = "local" /\ local' # None
    PROVE  WaitsOK' /\ Waits' /\ TimersOwned'
<1>1. /\ fetches' \subseteq Fetch /\ marking' \subseteq BOOLEAN
      /\ \A f \in fetches' : f \in new \/ ~f.fresh
      /\ TRUE \notin marking'
      /\ UNCHANGED <<marked, registering>>
    BY OutdatesIs
<1>2. timers' \in 0..MaxTimers /\ timer' = FALSE /\ (~late => timers' = 0)
    BY DropsTimerIs
<1>3. WaitsOK'
    BY <1>1, <1>2 DEF WaitsOK
<1>4. Waits'
    BY <1>1, <1>2 DEF Waits
<1>5. TimersOwned'
    BY <1>2 DEF TimersOwned
<1>6. QED
    BY <1>3, <1>4, <1>5

-------------------------------------------------------------------------------
\* Every step of the daemon keeps the invariant.
LEMMA StepOK ==
    ASSUME IInv, Next, ~marked
    PROVE  IInv'
<1> USE DaemonAssumption, PlaylistsAssumption DEF IInv, TypeOK
<1>1. CASE WsOpen
    <2>1. UNCHANGED <<song, state, mode, roomId, local, queue, current, timers, timer,
        fetches, marking, marked, registering, shouldRun, left, loaded, late>>
        BY <1>1 DEF WsOpen, session, waits, history, player
    <2>2. /\ PlayerTypeOK' /\ SessionOK' /\ WaitsOK' /\ HistoryOK' /\ Waits'
           /\ Left' /\ LeftIsSilent' /\ RoomPlaysRoom' /\ TimersOwned'
        BY <2>1, Same
    <2>3. SocketOK'
        BY <1>1 DEF WsOpen, SocketOK
    <2>4. Modes'
        BY <1>1 DEF WsOpen, session, history, Modes
    <2>5. RoomHasSocket'
        BY <1>1 DEF WsOpen, session, history, RoomHasSocket
    <2>6. ConnectedIsJoined'
        BY <1>1 DEF WsOpen, session, waits, history, ConnectedIsJoined
    <2>7. NobodyWaitsInVain'
        BY <1>1 DEF WsOpen, session, waits, history, NobodyWaitsInVain
    <2>8. QED
        BY <2>1, <2>2, <2>3, <2>4, <2>5, <2>6, <2>7
<1>2. CASE AckTimer
    <2>1. UNCHANGED <<song, state, mode, roomId, local, queue, current, ws, reconnect,
        timers, timer, fetches, marking, marked, registering, shouldRun, left, loaded,
        late>>
        BY <1>2 DEF AckTimer, session, waits, history, player
    <2>2. /\ PlayerTypeOK' /\ SessionOK' /\ WaitsOK' /\ HistoryOK' /\ Waits'
           /\ Left' /\ RoomHasSocket' /\ LeftIsSilent' /\ RoomPlaysRoom' /\ TimersOwned'
        BY <2>1, Same
    <2>3. SocketOK'
        BY <1>2, MarksConnectedIs DEF AckTimer, SocketOK
    <2>4. Modes'
        BY <1>2, MarksConnectedIs DEF AckTimer, session, history, Modes
    <2>5. ConnectedIsJoined'
        BY <1>2, MarksConnectedIs DEF AckTimer, session, waits, history, ConnectedIsJoined,
            Modes, RoomHasSocket, Waits
    <2>6. NobodyWaitsInVain'
        BY <1>2, MarksConnectedIs DEF AckTimer, session, waits, history, NobodyWaitsInVain
    <2>7. QED
        BY <2>1, <2>2, <2>3, <2>4, <2>5, <2>6
<1>3. CASE JoinAck
    <2>1. UNCHANGED <<song, state, mode, roomId, local, queue, current, ws, reconnect,
        timers, timer, fetches, marking, marked, registering, shouldRun, left, loaded,
        late>>
        BY <1>3 DEF JoinAck, session, waits, history, player
    <2>2. /\ PlayerTypeOK' /\ SessionOK' /\ WaitsOK' /\ HistoryOK' /\ Waits'
           /\ Left' /\ RoomHasSocket' /\ LeftIsSilent' /\ RoomPlaysRoom' /\ TimersOwned'
        BY <2>1, Same
    <2>3. SocketOK'
        BY <1>3, MarksConnectedIs DEF JoinAck, SocketOK
    <2>4. Modes'
        BY <1>3, MarksConnectedIs DEF JoinAck, session, history, Modes
    <2>5. ConnectedIsJoined'
        BY <1>3, MarksConnectedIs DEF JoinAck, session, waits, history, ConnectedIsJoined
    <2>6. NobodyWaitsInVain'
        BY <1>3, MarksConnectedIs DEF JoinAck, session, waits, history, NobodyWaitsInVain,
            ConnectedIsJoined, RoomHasSocket, Modes, Waits
    <2>7. QED
        BY <2>1, <2>2, <2>3, <2>4, <2>5, <2>6
<1>4. CASE RoomState
    <2>1. UNCHANGED <<song, state, mode, roomId, local, ws, reconnect, timers, timer,
        fetches, marking, marked, registering, shouldRun, left, loaded, late>>
        BY <1>4 DEF RoomState, waits, history, player
    <2>2. /\ PlayerTypeOK' /\ WaitsOK' /\ HistoryOK' /\ Waits' /\ RoomHasSocket'
           /\ LeftIsSilent' /\ RoomPlaysRoom' /\ TimersOwned'
        BY <2>1, Same
    <2>3. SessionOK'
        BY <1>4, MarksConnectedIs DEF RoomState, SessionOK
    <2>4. SocketOK'
        BY <1>4, MarksConnectedIs DEF RoomState, SocketOK
    <2>5. Modes'
        BY <1>4, MarksConnectedIs DEF RoomState, history, Modes
    <2>6. Left'
        BY <1>4, MarksConnectedIs DEF RoomState, waits, history, Left, RoomHasSocket,
            Waits, Modes
    <2>7. ConnectedIsJoined'
        <3>1. connected' => connected \/ (acked' /\ stateReceived')
            BY <1>4, MarksConnectedIs DEF RoomState
        <3>2. ws = "open" /\ UNCHANGED <<mode, ws, late>>
            BY <1>4 DEF RoomState, history
        <3>3. stateReceived' /\ acked' \in {acked, TRUE}
            BY <1>4 DEF RoomState
        <3>4. acked => acked'
            BY <3>3, Zenon
        <3>5. mode = "room" /\ connected /\ ~late => acked
            BY DEF ConnectedIsJoined
        <3>6. QED
            BY <3>1, <3>2, <3>3, <3>4, <3>5 DEF ConnectedIsJoined
    <2>8. NobodyWaitsInVain'
        BY <1>4, MarksConnectedIs DEF RoomState, waits, history, NobodyWaitsInVain,
            ConnectedIsJoined, RoomHasSocket, Modes, Waits
    <2>9. QED
        BY <2>1, <2>2, <2>3, <2>4, <2>5, <2>6, <2>7, <2>8
<1>5. CASE Queue
    <2>1. UNCHANGED <<song, state, mode, roomId, local, ws, reconnect, ackTimer, acked,
        stateReceived, connected, deviceMode, waiting, timers, timer, fetches, marking,
        marked, registering, shouldRun, left, loaded, late>>
        BY <1>5 DEF Queue, socket, waits, history, player
    <2>2. /\ PlayerTypeOK' /\ SocketOK' /\ WaitsOK' /\ HistoryOK' /\ Modes'
           /\ Waits' /\ RoomHasSocket' /\ ConnectedIsJoined' /\ NobodyWaitsInVain' /\ LeftIsSilent'
           /\ RoomPlaysRoom' /\ TimersOwned'
        BY <2>1, Same
    <2>3. SessionOK'
        BY <1>5 DEF Queue, SessionOK
    <2>4. Left'
        BY <1>5 DEF Queue, socket, waits, history, Left, RoomHasSocket, Waits, Modes
    <2>5. QED
        BY <2>1, <2>2, <2>3, <2>4
<1>6. CASE Execute
    <2>1. UNCHANGED <<mode, roomId, local, queue, current, ws, reconnect, ackTimer, acked,
        stateReceived, connected, deviceMode, waiting, timers, timer, fetches, marking,
        marked, registering, shouldRun, left, loaded, late>>
        BY <1>6 DEF Execute, daemon, session, socket, waits, history
    <2>2. /\ SessionOK' /\ SocketOK' /\ WaitsOK' /\ HistoryOK' /\ Modes'
           /\ Waits' /\ Left' /\ RoomHasSocket' /\ ConnectedIsJoined' /\ NobodyWaitsInVain'
           /\ TimersOwned'
        BY <2>1, Same
    <2>3. PlayerTypeOK'
        BY <1>6, PlayerKeepsItsSong DEF Execute
    <2>4. LeftIsSilent'
        BY <1>6, PlayerKeepsItsSong DEF Execute, daemon, session, socket, waits, history,
            LeftIsSilent
    <2>5. RoomPlaysRoom'
        BY <1>6, PlayerKeepsItsSong DEF Execute, daemon, session, socket, waits, history,
            RoomPlaysRoom
    <2>6. QED
        BY <2>1, <2>2, <2>3, <2>4, <2>5
<1>7. ASSUME NEW s \in Songs, NEW later \in BOOLEAN, NextSong(s, later)
      PROVE  IInv'
    <2>1. UNCHANGED <<mode, roomId, local, queue, current, ws, reconnect, ackTimer, acked,
        stateReceived, connected, deviceMode, waiting, timers, timer, fetches, marking,
        marked, registering, shouldRun, left, late>>
        BY <1>7 DEF NextSong, session, socket, waits
    <2>2. /\ SessionOK' /\ SocketOK' /\ WaitsOK' /\ Modes' /\ Waits'
           /\ Left' /\ RoomHasSocket' /\ ConnectedIsJoined' /\ NobodyWaitsInVain' /\ TimersOwned'
        BY <2>1, Same
    <2>3. PlayerTypeOK'
        BY <1>7, LoadSongIs DEF NextSong, player, PlayerTypeOK
    <2>4. HistoryOK'
        BY <1>7, LoadSongIs DEF NextSong, HistoryOK
    <2>5. LeftIsSilent'
        BY <1>7, LoadSongIs DEF NextSong, session, socket, waits, player, LeftIsSilent,
            Left, RoomHasSocket, Waits
    <2>6. RoomPlaysRoom'
        BY <1>7, LoadSongIs DEF NextSong, session, socket, waits, player, RoomPlaysRoom
    <2>7. QED
        BY <2>1, <2>2, <2>3, <2>4, <2>5, <2>6
<1>8. CASE WsError
    <2>1. UNCHANGED <<song, state, mode, roomId, local, queue, current, ws, reconnect,
        acked, stateReceived, connected, timers, timer, fetches, marking, marked,
        registering, shouldRun, left, loaded, late>>
        BY <1>8 DEF WsError, session, waits, history, player
    <2>2. /\ PlayerTypeOK' /\ SessionOK' /\ WaitsOK' /\ HistoryOK' /\ Waits'
           /\ Left' /\ RoomHasSocket' /\ ConnectedIsJoined' /\ LeftIsSilent' /\ RoomPlaysRoom'
           /\ TimersOwned'
        BY <2>1, Same
    <2>3. SocketOK'
        BY <1>8 DEF WsError, SocketOK
    <2>4. Modes'
        BY <1>8 DEF WsError, session, history, Modes
    <2>5. NobodyWaitsInVain'
        BY <1>8 DEF WsError, session, waits, history, NobodyWaitsInVain
    <2>6. QED
        BY <2>1, <2>2, <2>3, <2>4, <2>5
<1>9. CASE WsClose
    <2>1. UNCHANGED <<song, state, mode, roomId, local, queue, current, timers, timer,
        fetches, marking, marked, registering, shouldRun, left, loaded, late>>
        BY <1>9 DEF WsClose, session, waits, history, player
    <2>2. /\ PlayerTypeOK' /\ SessionOK' /\ WaitsOK' /\ HistoryOK' /\ Waits'
           /\ Left' /\ LeftIsSilent' /\ RoomPlaysRoom' /\ TimersOwned'
        BY <2>1, Same
    <2>3. SocketOK'
        BY <1>9 DEF WsClose, SocketOK
    <2>4. Modes'
        BY <1>9 DEF WsClose, session, history, Modes
    <2>5. RoomHasSocket'
        BY <1>9 DEF WsClose, session, history, RoomHasSocket
    <2>6. ConnectedIsJoined'
        BY <1>9 DEF WsClose, session, waits, history, ConnectedIsJoined
    <2>7. NobodyWaitsInVain'
        BY <1>9 DEF WsClose, session, waits, history, NobodyWaitsInVain, ConnectedIsJoined,
            RoomHasSocket, Modes, Waits
    <2>8. QED
        BY <2>1, <2>2, <2>3, <2>4, <2>5, <2>6, <2>7
<1>10. CASE Reconnect
    <2>1. UNCHANGED <<song, state, mode, roomId, local, queue, current, timers, timer,
        fetches, marking, marked, registering, shouldRun, left, loaded, late>>
        BY <1>10 DEF Reconnect, Connects, session, waits, history, player
    <2>2. /\ PlayerTypeOK' /\ SessionOK' /\ WaitsOK' /\ HistoryOK' /\ Waits'
           /\ Left' /\ LeftIsSilent' /\ RoomPlaysRoom' /\ TimersOwned'
        BY <2>1, Same
    <2>3. SocketOK'
        BY <1>10 DEF Reconnect, Connects, SocketOK
    <2>4. Modes'
        BY <1>10 DEF Reconnect, Connects, session, history, Modes
    <2>5. RoomHasSocket'
        BY <1>10 DEF Reconnect, Connects, session, history, RoomHasSocket
    <2>6. ConnectedIsJoined'
        BY <1>10 DEF Reconnect, Connects, session, waits, history, ConnectedIsJoined
    <2>7. NobodyWaitsInVain'
        BY <1>10 DEF Reconnect, Connects, session, waits, history, NobodyWaitsInVain
    <2>8. QED
        BY <2>1, <2>2, <2>3, <2>4, <2>5, <2>6, <2>7
<1>11. CASE WaiterTimeout
    <2>1. UNCHANGED <<song, state, mode, roomId, local, queue, current, ws, reconnect,
        acked, stateReceived, connected, timers, timer, fetches, marking, marked,
        registering, shouldRun, left, loaded, late>>
        BY <1>11 DEF WaiterTimeout, session, waits, history, player
    <2>2. /\ PlayerTypeOK' /\ SessionOK' /\ WaitsOK' /\ HistoryOK' /\ Waits'
           /\ Left' /\ RoomHasSocket' /\ ConnectedIsJoined' /\ LeftIsSilent' /\ RoomPlaysRoom'
           /\ TimersOwned'
        BY <2>1, Same
    <2>3. SocketOK'
        BY <1>11 DEF WaiterTimeout, SocketOK
    <2>4. Modes'
        BY <1>11 DEF WaiterTimeout, session, history, Modes
    <2>5. NobodyWaitsInVain'
        BY <1>11 DEF WaiterTimeout, session, waits, history, NobodyWaitsInVain
    <2>6. QED
        BY <2>1, <2>2, <2>3, <2>4, <2>5
<1>12. ASSUME NEW r \in Playlists, JoinRoom(r)
      PROVE  IInv'
    <2>1. WaitsOK' /\ Waits' /\ TimersOwned'
        BY <1>12, SessionEnds DEF JoinRoom
    <2>2. PlayerTypeOK'
        BY <1>12, StopIs DEF JoinRoom, Connects, Resets, player, PlayerTypeOK
    <2>3. SessionOK'
        BY <1>12, StopIs DEF JoinRoom, Connects, Resets, SessionOK
    <2>4. SocketOK'
        BY <1>12, StopIs DEF JoinRoom, Connects, Resets, SocketOK
    <2>5. HistoryOK'
        BY <1>12, StopIs DEF JoinRoom, Connects, Resets, HistoryOK
    <2>6. Modes'
        BY <1>12, StopIs DEF JoinRoom, Connects, Resets, Modes
    <2>7. Left'
        BY <1>12, StopIs DEF JoinRoom, Connects, Resets, Left
    <2>8. RoomHasSocket'
        BY <1>12, StopIs DEF JoinRoom, Connects, Resets, RoomHasSocket
    <2>9. ConnectedIsJoined'
        BY <1>12, StopIs DEF JoinRoom, Connects, Resets, ConnectedIsJoined
    <2>10. NobodyWaitsInVain'
        BY <1>12, StopIs DEF JoinRoom, Connects, Resets, NobodyWaitsInVain
    <2>11. LeftIsSilent'
        BY <1>12, StopIs DEF JoinRoom, Connects, Resets, player, LeftIsSilent
    <2>12. RoomPlaysRoom'
        <3>1. CASE mode = "local"
            <4>1. song' = NoSong
                BY <1>12, <3>1, StopIs DEF JoinRoom, Resets
            <4>2. QED
                BY <4>1 DEF RoomPlaysRoom
        <3>2. CASE mode = "room"
            <4>1. UNCHANGED <<mode, song, loaded, late>>
                BY <1>12, <3>2 DEF JoinRoom, player
            <4>2. QED
                BY <4>1 DEF RoomPlaysRoom
        <3>3. QED
            BY <3>1, <3>2 DEF SessionOK
    <2>13. QED
        BY <2>1, <2>2, <2>3, <2>4, <2>5, <2>6, <2>7, <2>8, <2>9, <2>10, <2>11, <2>12
<1>13. ASSUME NEW p \in Playlists, StartLocal(p)
      PROVE  IInv'
    <2>1. WaitsOK' /\ Waits' /\ TimersOwned'
        <3>1. {[first |-> TRUE, fresh |-> TRUE]} \in SUBSET Fetch
            BY DEF Fetch
        <3>2. mode' = "local" /\ local' # None /\ UNCHANGED late
            BY <1>13 DEF StartLocal
        <3>3. QED
            BY <1>13, <3>1, <3>2, SessionEnds DEF StartLocal
    <2>2. PlayerTypeOK'
        BY <1>13, StopIs DEF StartLocal, Disconnects, Resets, Fetch
    <2>3. SessionOK'
        BY <1>13, StopIs DEF StartLocal, Disconnects, Resets, Fetch, SessionOK
    <2>4. SocketOK'
        BY <1>13, StopIs DEF StartLocal, Disconnects, Resets, Fetch, SocketOK
    <2>5. HistoryOK'
        BY <1>13, StopIs DEF StartLocal, Disconnects, Resets, Fetch, HistoryOK
    <2>6. Modes'
        BY <1>13, StopIs DEF StartLocal, Disconnects, Resets, Fetch, Modes
    <2>7. Left'
        BY <1>13, StopIs DEF StartLocal, Disconnects, Resets, Fetch, Left
    <2>8. RoomHasSocket'
        BY <1>13, StopIs DEF StartLocal, Disconnects, Resets, Fetch, RoomHasSocket
    <2>9. ConnectedIsJoined'
        BY <1>13, StopIs DEF StartLocal, Disconnects, Resets, Fetch, ConnectedIsJoined
    <2>10. NobodyWaitsInVain'
        BY <1>13, StopIs DEF StartLocal, Disconnects, Resets, Fetch, NobodyWaitsInVain
    <2>11. LeftIsSilent'
        BY <1>13, StopIs DEF StartLocal, Disconnects, Resets, Fetch, LeftIsSilent
    <2>12. RoomPlaysRoom'
        BY <1>13, StopIs DEF StartLocal, Disconnects, Resets, Fetch, RoomPlaysRoom
    <2>13. QED
        BY <2>1, <2>2, <2>3, <2>4, <2>5, <2>6, <2>7, <2>8, <2>9, <2>10, <2>11, <2>12
<1>14. CASE LeaveRoom
    <2>1. UNCHANGED <<timers, timer, fetches, marking, marked, registering, late>>
        BY <1>14 DEF LeaveRoom, LeavesRoom, Disconnects, Resets, waits
    <2>2. WaitsOK' /\ TimersOwned'
        BY <2>1, Same
    <2>3. PlayerTypeOK'
        BY <1>14, StopIs DEF LeaveRoom, LeavesRoom, Disconnects, Resets
    <2>4. SessionOK'
        BY <1>14, StopIs DEF LeaveRoom, LeavesRoom, Disconnects, Resets, SessionOK
    <2>5. SocketOK'
        BY <1>14, StopIs DEF LeaveRoom, LeavesRoom, Disconnects, Resets, SocketOK
    <2>6. HistoryOK'
        BY <1>14, StopIs DEF LeaveRoom, LeavesRoom, Disconnects, Resets, HistoryOK
    <2>7. Modes'
        BY <1>14, StopIs DEF LeaveRoom, LeavesRoom, Disconnects, Resets, Modes
    <2>8. Waits'
        BY <1>14, StopIs DEF LeaveRoom, LeavesRoom, Disconnects, Resets, waits, Waits
    <2>9. Left'
        BY <1>14, StopIs DEF LeaveRoom, LeavesRoom, Disconnects, Resets, waits, Left,
            RoomHasSocket, Waits, Modes
    <2>10. RoomHasSocket'
        BY <1>14, StopIs DEF LeaveRoom, LeavesRoom, Disconnects, Resets, RoomHasSocket
    <2>11. ConnectedIsJoined'
        BY <1>14, StopIs DEF LeaveRoom, LeavesRoom, Disconnects, Resets, waits,
            ConnectedIsJoined
    <2>12. NobodyWaitsInVain'
        BY <1>14, StopIs DEF LeaveRoom, LeavesRoom, Disconnects, Resets, waits,
            NobodyWaitsInVain
    <2>13. LeftIsSilent'
        BY <1>14, StopIs DEF LeaveRoom, LeavesRoom, Disconnects, Resets, waits,
            LeftIsSilent
    <2>14. RoomPlaysRoom'
        BY <1>14, StopIs DEF LeaveRoom, LeavesRoom, Disconnects, Resets, waits,
            RoomPlaysRoom
    <2>15. QED
        BY <2>1, <2>2, <2>3, <2>4, <2>5, <2>6, <2>7, <2>8, <2>9, <2>10, <2>11, <2>12, <2>13, <2>14
<1>15. CASE LeavePlaylist
    <2>1. UNCHANGED <<ws, acked, stateReceived, waiting, late>>
        BY <1>15 DEF LeavePlaylist, Resets
    <2>2. NobodyWaitsInVain'
        BY <2>1, Same
    <2>3. WaitsOK' /\ Waits' /\ TimersOwned'
        BY <1>15, SessionEnds DEF LeavePlaylist
    <2>4. PlayerTypeOK'
        BY <1>15, StopIs DEF LeavePlaylist, Resets
    <2>5. SessionOK'
        BY <1>15, StopIs DEF LeavePlaylist, Resets, SessionOK
    <2>6. SocketOK'
        BY <1>15, StopIs DEF LeavePlaylist, Resets, SocketOK
    <2>7. HistoryOK'
        BY <1>15, StopIs DEF LeavePlaylist, Resets, HistoryOK
    <2>8. Modes'
        BY <1>15, StopIs DEF LeavePlaylist, Resets, Modes
    <2>9. Left'
        BY <1>15, StopIs DEF LeavePlaylist, Resets, Left, RoomHasSocket, Waits, Modes
    <2>10. RoomHasSocket'
        BY <1>15, StopIs DEF LeavePlaylist, Resets, RoomHasSocket
    <2>11. ConnectedIsJoined'
        BY <1>15, StopIs DEF LeavePlaylist, Resets, ConnectedIsJoined
    <2>12. LeftIsSilent'
        BY <1>15, StopIs DEF LeavePlaylist, Resets, LeftIsSilent
    <2>13. RoomPlaysRoom'
        BY <1>15, StopIs DEF LeavePlaylist, Resets, RoomPlaysRoom
    <2>14. QED
        BY <2>1, <2>2, <2>3, <2>4, <2>5, <2>6, <2>7, <2>8, <2>9, <2>10, <2>11, <2>12, <2>13
<1>16. CASE ClearSession
    <2>1. WaitsOK' /\ Waits' /\ TimersOwned'
        BY <1>16, SessionEnds DEF ClearSession
    <2>2. PlayerTypeOK'
        BY <1>16, StopIs DEF ClearSession, Disconnects, Resets
    <2>3. SessionOK'
        BY <1>16, StopIs DEF ClearSession, Disconnects, Resets, SessionOK
    <2>4. SocketOK'
        BY <1>16, StopIs DEF ClearSession, Disconnects, Resets, SocketOK
    <2>5. HistoryOK'
        BY <1>16, StopIs DEF ClearSession, Disconnects, Resets, HistoryOK
    <2>6. Modes'
        BY <1>16, StopIs DEF ClearSession, Disconnects, Resets, Modes
    <2>7. Left'
        BY <1>16, StopIs DEF ClearSession, Disconnects, Resets, Left
    <2>8. RoomHasSocket'
        BY <1>16, StopIs DEF ClearSession, Disconnects, Resets, RoomHasSocket
    <2>9. ConnectedIsJoined'
        BY <1>16, StopIs DEF ClearSession, Disconnects, Resets, ConnectedIsJoined
    <2>10. NobodyWaitsInVain'
        BY <1>16, StopIs DEF ClearSession, Disconnects, Resets, NobodyWaitsInVain
    <2>11. LeftIsSilent'
        BY <1>16, StopIs DEF ClearSession, Disconnects, Resets, LeftIsSilent
    <2>12. RoomPlaysRoom'
        BY <1>16, StopIs DEF ClearSession, Disconnects, Resets, RoomPlaysRoom
    <2>13. QED
        BY <2>1, <2>2, <2>3, <2>4, <2>5, <2>6, <2>7, <2>8, <2>9, <2>10, <2>11, <2>12
<1>17. CASE Shutdown
    <2>1. WaitsOK' /\ Waits' /\ TimersOwned'
        BY <1>17, SessionEnds DEF Shutdown
    <2>2. PlayerTypeOK'
        BY <1>17, StopIs DEF Shutdown, Disconnects
    <2>3. SessionOK'
        BY <1>17, StopIs DEF Shutdown, Disconnects, SessionOK
    <2>4. SocketOK'
        BY <1>17, StopIs DEF Shutdown, Disconnects, SocketOK
    <2>5. HistoryOK'
        BY <1>17, StopIs DEF Shutdown, Disconnects, HistoryOK
    <2>6. Modes'
        BY <1>17, StopIs DEF Shutdown, Disconnects, Modes
    <2>7. Left'
        BY <1>17, StopIs DEF Shutdown, Disconnects, Left
    <2>8. RoomHasSocket'
        BY <1>17, StopIs DEF Shutdown, Disconnects, RoomHasSocket
    <2>9. ConnectedIsJoined'
        BY <1>17, StopIs DEF Shutdown, Disconnects, ConnectedIsJoined
    <2>10. NobodyWaitsInVain'
        BY <1>17, StopIs DEF Shutdown, Disconnects, NobodyWaitsInVain
    <2>11. LeftIsSilent'
        BY <1>17, StopIs DEF Shutdown, Disconnects, LeftIsSilent
    <2>12. RoomPlaysRoom'
        BY <1>17, StopIs DEF Shutdown, Disconnects, RoomPlaysRoom
    <2>13. QED
        BY <2>1, <2>2, <2>3, <2>4, <2>5, <2>6, <2>7, <2>8, <2>9, <2>10, <2>11, <2>12
<1>18. CASE ConfigureRoom
    <2>1. WaitsOK' /\ Waits' /\ TimersOwned'
        BY <1>18, SessionEnds DEF ConfigureRoom
    <2>2. PlayerTypeOK'
        BY <1>18, StopIs DEF ConfigureRoom, Disconnects, Resets
    <2>3. SessionOK'
        BY <1>18, StopIs DEF ConfigureRoom, Disconnects, Resets, SessionOK
    <2>4. SocketOK'
        BY <1>18, StopIs DEF ConfigureRoom, Disconnects, Resets, SocketOK
    <2>5. HistoryOK'
        BY <1>18, StopIs DEF ConfigureRoom, Disconnects, Resets, HistoryOK
    <2>6. Modes'
        BY <1>18, StopIs DEF ConfigureRoom, Disconnects, Resets, Modes
    <2>7. Left'
        BY <1>18, StopIs DEF ConfigureRoom, Disconnects, Resets, Left
    <2>8. RoomHasSocket'
        BY <1>18, StopIs DEF ConfigureRoom, Disconnects, Resets, RoomHasSocket, Modes
    <2>9. ConnectedIsJoined'
        BY <1>18, StopIs DEF ConfigureRoom, Disconnects, Resets, ConnectedIsJoined
    <2>10. NobodyWaitsInVain'
        BY <1>18, StopIs DEF ConfigureRoom, Disconnects, Resets, NobodyWaitsInVain
    <2>11. LeftIsSilent'
        BY <1>18, StopIs DEF ConfigureRoom, Disconnects, Resets, LeftIsSilent
    <2>12. RoomPlaysRoom'
        BY <1>18, StopIs DEF ConfigureRoom, Disconnects, Resets, RoomPlaysRoom
    <2>13. QED
        BY <2>1, <2>2, <2>3, <2>4, <2>5, <2>6, <2>7, <2>8, <2>9, <2>10, <2>11, <2>12
<1>19. CASE ConfigureLocal
    <2>1. UNCHANGED <<song, state, timers, timer, fetches, marking, marked, registering,
        shouldRun, left, loaded, late>>
        BY <1>19 DEF ConfigureLocal, Disconnects, waits, history, player
    <2>2. PlayerTypeOK' /\ WaitsOK' /\ HistoryOK' /\ LeftIsSilent' /\ TimersOwned'
        BY <2>1, Same
    <2>3. SessionOK'
        BY <1>19 DEF ConfigureLocal, Disconnects, SessionOK
    <2>4. SocketOK'
        BY <1>19 DEF ConfigureLocal, Disconnects, SocketOK
    <2>5. Modes'
        BY <1>19 DEF ConfigureLocal, Disconnects, history, Modes
    <2>6. Waits'
        BY <1>19 DEF ConfigureLocal, Disconnects, waits, history, Waits
    <2>7. Left'
        BY <1>19 DEF ConfigureLocal, Disconnects, waits, history, Left
    <2>8. RoomHasSocket'
        BY <1>19 DEF ConfigureLocal, Disconnects, history, RoomHasSocket
    <2>9. ConnectedIsJoined'
        BY <1>19 DEF ConfigureLocal, Disconnects, waits, history, ConnectedIsJoined
    <2>10. NobodyWaitsInVain'
        BY <1>19 DEF ConfigureLocal, Disconnects, waits, history, NobodyWaitsInVain
    <2>11. RoomPlaysRoom'
        BY <1>19 DEF ConfigureLocal, Disconnects, waits, history, player, RoomPlaysRoom
    <2>12. QED
        BY <2>1, <2>2, <2>3, <2>4, <2>5, <2>6, <2>7, <2>8, <2>9, <2>10, <2>11
<1>20. ASSUME NEW why \in {"timer", "configure"}, Register(why)
      PROVE  IInv'
    <2>1. UNCHANGED <<song, state, mode, roomId, local, queue, current, ws, reconnect,
        ackTimer, acked, stateReceived, connected, deviceMode, waiting, timers, timer,
        fetches, marking, marked, shouldRun, left, loaded, late>>
        BY <1>20 DEF Register, session, socket, history, player
    <2>2. /\ PlayerTypeOK' /\ SessionOK' /\ SocketOK' /\ HistoryOK' /\ Modes'
           /\ Waits' /\ Left' /\ RoomHasSocket' /\ ConnectedIsJoined' /\ NobodyWaitsInVain'
           /\ LeftIsSilent' /\ RoomPlaysRoom' /\ TimersOwned'
        BY <2>1, Same
    <2>3. WaitsOK'
        BY <1>20 DEF Register, WaitsOK, Fetch
    <2>4. QED
        BY <2>1, <2>2, <2>3
<1>21. ASSUME NEW a \in Playlists \cup {None}, Registered(a)
      PROVE  IInv'
    <2>1. UNCHANGED <<timers, timer, late>>
        BY <1>21 DEF Registered, RegisteredRoom, LeavesRoom, Disconnects, Connects, Resets
    <2>2. TimersOwned'
        BY <2>1, Same
    <2>3. PlayerTypeOK'
        BY <1>21, RefreshesLocalIs, StopIs DEF Registered, RegisteredRoom, LeavesRoom,
            Disconnects, Connects, Resets, player, PlayerTypeOK
    <2>4. SessionOK'
        BY <1>21, RefreshesLocalIs, StopIs DEF Registered, RegisteredRoom, LeavesRoom,
            Disconnects, Connects, Resets, session, SessionOK
    <2>5. SocketOK'
        BY <1>21, RefreshesLocalIs, StopIs DEF Registered, RegisteredRoom, LeavesRoom,
            Disconnects, Connects, Resets, socket, SocketOK
    <2>6. WaitsOK'
        BY <1>21, RefreshesLocalIs, StopIs DEF Registered, RegisteredRoom, LeavesRoom,
            Disconnects, Connects, Resets, WaitsOK, Fetch
    <2>7. HistoryOK'
        BY <1>21, RefreshesLocalIs, StopIs DEF Registered, RegisteredRoom, LeavesRoom,
            Disconnects, Connects, Resets, HistoryOK
    <2>8. Modes'
        BY <1>21, RefreshesLocalIs, StopIs DEF Registered, RegisteredRoom, LeavesRoom,
            Disconnects, Connects, Resets, session, socket, Modes
    <2>9. Waits'
        BY <1>21, RefreshesLocalIs, StopIs DEF Registered, RegisteredRoom, LeavesRoom,
            Disconnects, Connects, Resets, session, socket, Waits
    <2>10. Left'
        BY <1>21, RefreshesLocalIs, StopIs DEF Registered, RegisteredRoom, LeavesRoom,
            Disconnects, Connects, Resets, session, socket, Left, RoomHasSocket, Waits,
            Modes
    <2>11. RoomHasSocket'
        BY <1>21, RefreshesLocalIs, StopIs DEF Registered, RegisteredRoom, LeavesRoom,
            Disconnects, Connects, Resets, session, socket, RoomHasSocket
    <2>12. ConnectedIsJoined'
        BY <1>21, RefreshesLocalIs, StopIs DEF Registered, RegisteredRoom, LeavesRoom,
            Disconnects, Connects, Resets, session, socket, ConnectedIsJoined
    <2>13. NobodyWaitsInVain'
        BY <1>21, RefreshesLocalIs, StopIs DEF Registered, RegisteredRoom, LeavesRoom,
            Disconnects, Connects, Resets, session, socket, NobodyWaitsInVain
    <2>14. LeftIsSilent'
        BY <1>21, RefreshesLocalIs, StopIs DEF Registered, RegisteredRoom, LeavesRoom,
            Disconnects, Connects, Resets, session, socket, player, LeftIsSilent
    <2>15. RoomPlaysRoom'
        BY <1>21, RefreshesLocalIs, StopIs DEF Registered, RegisteredRoom, LeavesRoom,
            Disconnects, Connects, Resets, session, socket, player, RoomPlaysRoom
    <2>16. QED
        BY <2>1, <2>2, <2>3, <2>4, <2>5, <2>6, <2>7, <2>8, <2>9, <2>10, <2>11, <2>12, <2>13, <2>14,
           <2>15
<1>22. CASE RegistrationFails
    <2>1. UNCHANGED <<song, state, mode, roomId, local, queue, current, timers, timer,
        shouldRun, left, loaded, late>>
        BY <1>22 DEF RegistrationFails, Connects, session, history, player
    <2>2. /\ PlayerTypeOK' /\ SessionOK' /\ HistoryOK' /\ Left' /\ LeftIsSilent'
           /\ RoomPlaysRoom' /\ TimersOwned'
        BY <2>1, Same
    <2>3. SocketOK'
        BY <1>22, RefreshesLocalIs DEF RegistrationFails, Connects, socket, SocketOK
    <2>4. WaitsOK'
        BY <1>22, RefreshesLocalIs DEF RegistrationFails, Connects, WaitsOK, Fetch
    <2>5. Modes'
        BY <1>22, RefreshesLocalIs DEF RegistrationFails, Connects, session, socket,
            history, Modes
    <2>6. Waits'
        BY <1>22, RefreshesLocalIs DEF RegistrationFails, Connects, session, socket,
            history, Waits
    <2>7. RoomHasSocket'
        BY <1>22, RefreshesLocalIs DEF RegistrationFails, Connects, session, socket,
            history, RoomHasSocket
    <2>8. ConnectedIsJoined'
        BY <1>22, RefreshesLocalIs DEF RegistrationFails, Connects, session, socket,
            history, ConnectedIsJoined
    <2>9. NobodyWaitsInVain'
        BY <1>22, RefreshesLocalIs DEF RegistrationFails, Connects, session, socket,
            history, NobodyWaitsInVain
    <2>10. QED
        BY <2>1, <2>2, <2>3, <2>4, <2>5, <2>6, <2>7, <2>8, <2>9
<1>23. CASE RefreshTimer
    <2>1. UNCHANGED <<song, state, mode, roomId, local, queue, current, ws, reconnect,
        ackTimer, acked, stateReceived, connected, deviceMode, waiting, timers, timer,
        shouldRun, left, loaded, late>>
        BY <1>23 DEF RefreshTimer, session, socket, history, player
    <2>2. /\ PlayerTypeOK' /\ SessionOK' /\ SocketOK' /\ HistoryOK' /\ Modes'
           /\ Left' /\ RoomHasSocket' /\ ConnectedIsJoined' /\ NobodyWaitsInVain' /\ LeftIsSilent'
           /\ RoomPlaysRoom' /\ TimersOwned'
        BY <2>1, Same
    <2>3. WaitsOK'
        <3> DEFINE r == [first |-> FALSE, fresh |-> TRUE]
        <3>1. r \in Fetch /\ ~r.first
            BY DEF Fetch
        <3>2. /\ fetches' = fetches \cup {r} /\ mode = "local" /\ local # None
              /\ UNCHANGED <<mode, local, timers, timer, marking, marked, registering, late>>
            BY <1>23 DEF RefreshTimer, session, history
        <3> HIDE DEF r
        <3>3. QED
            BY <3>1, <3>2 DEF WaitsOK
    <2>4. Waits'
        <3> DEFINE r == [first |-> FALSE, fresh |-> TRUE]
        <3>1. r \in Fetch /\ ~r.first
            BY DEF Fetch
        <3>2. /\ fetches' = fetches \cup {r} /\ mode = "local" /\ local # None
              /\ UNCHANGED <<mode, local, timers, timer, marking, marked, registering, late>>
            BY <1>23 DEF RefreshTimer, session, history
        <3> HIDE DEF r
        <3>3. QED
            BY <3>1, <3>2 DEF Waits
    <2>5. QED
        BY <2>1, <2>2, <2>3, <2>4
<1>24. ASSUME NEW f \in fetches, NEW q \in SUBSET Songs, Fetched(f, q)
      PROVE  IInv'
    <2>1. UNCHANGED <<mode, roomId, ws, reconnect, shouldRun>>
        BY <1>24 DEF Fetched
    <2>2. RoomHasSocket'
        BY <2>1, Same
    <2>3. PlayerTypeOK'
        BY <1>24, FetchedIs DEF Fetched, player
    <2>4. SessionOK'
        BY <1>24, FetchedIs DEF Fetched, SessionOK
    <2>5. SocketOK'
        BY <1>24, FetchedIs DEF Fetched, SocketOK
    <2>6. WaitsOK'
        <3>1. /\ f \in Fetch /\ fetches' \subseteq fetches
              /\ UNCHANGED <<mode, local, marking, marked, registering>>
            BY <1>24 DEF Fetched, WaitsOK
        <3>2. /\ f.first => timers < MaxTimers /\ timers' = timers + 1 /\ timer' = TRUE
              /\ ~f.first => UNCHANGED <<timers, timer>>
            BY <1>24 DEF Fetched
        <3>3. late' = (late \/ ~f.fresh) /\ (f.fresh => mode = "local" /\ local # None)
            BY <1>24 DEF Fetched, Waits
        <3>4. timers' \in 0..MaxTimers
            <4>1. /\ timers \in 0..MaxTimers
                  /\ timers' = timers \/ (timers < MaxTimers /\ timers' = timers + 1)
                BY <3>1, <3>2 DEF WaitsOK, Fetch
            <4>2. QED
                BY <4>1
        <3>5. timer' \in BOOLEAN
            BY <3>1, <3>2 DEF WaitsOK, Fetch
        <3>6. QED
            BY <3>1, <3>4, <3>5 DEF WaitsOK
    <2>7. HistoryOK'
        BY <1>24, FetchedIs DEF Fetched, HistoryOK
    <2>8. Modes'
        <3>1. /\ UNCHANGED <<mode, roomId, local, ackTimer, ws, waiting>>
              /\ late' = (late \/ ~f.fresh)
            BY <1>24 DEF Fetched
        <3>2. f \in Fetch /\ (f.fresh => mode = "local")
            BY <1>24 DEF WaitsOK, Waits
        <3>3. mode = "local" /\ waiting /\ ~late => FALSE
            BY DEF NobodyWaitsInVain, RoomHasSocket
        <3>4. waiting' /\ ~late' => ~connected'
            BY <3>1, <3>2, <3>3 DEF Fetch
        <3>5. QED
            BY <3>1, <3>4 DEF Modes
    <2>9. Waits'
        <3>1. /\ f \in Fetch /\ fetches' \subseteq fetches
              /\ UNCHANGED <<mode, local, marking, marked, registering>>
            BY <1>24 DEF Fetched, WaitsOK
        <3>2. /\ f.first => timers < MaxTimers /\ timers' = timers + 1 /\ timer' = TRUE
              /\ ~f.first => UNCHANGED <<timers, timer>>
            BY <1>24 DEF Fetched
        <3>3. late' = (late \/ ~f.fresh) /\ (f.fresh => mode = "local" /\ local # None)
            BY <1>24 DEF Fetched, Waits
        <3>4. timer' => timers' > 0
            <4>1. timers \in Nat /\ (timer => timers > 0)
                BY DEF WaitsOK, Waits
            <4>2. timers' = timers + 1 \/ UNCHANGED <<timers, timer>>
                BY <3>1, <3>2 DEF Fetch
            <4>3. timers \in Nat => timers + 1 > 0
                OBVIOUS
            <4>4. QED
                BY <4>1, <4>2, <4>3
        <3>5. ASSUME NEW g \in fetches', g.fresh, g.first, ~late', timer'
              PROVE  FALSE
            <4>1. g \in fetches /\ ~late /\ f.fresh /\ g # f
                BY <1>24, <3>1, <3>3, <3>5 DEF Fetched, Fetch
            <4>2. ~timer
                BY <3>5, <4>1 DEF Waits
            <4>3. f.first
                BY <3>1, <3>2, <3>5, <4>2 DEF Fetch
            <4>4. g \in Fetch
                BY <4>1 DEF WaitsOK
            <4>5. g = f
                BY <3>1, <3>5, <4>1, <4>3, <4>4 DEF Fetch
            <4>6. QED
                BY <4>1, <4>5
        <3>6. QED
            BY <3>1, <3>4, <3>5 DEF Waits
    <2>10. Left'
        BY <1>24, FetchedIs DEF Fetched, Left, RoomHasSocket, Waits, Modes
    <2>11. ConnectedIsJoined'
        BY <1>24, FetchedIs DEF Fetched, ConnectedIsJoined, Modes, RoomHasSocket, Waits
    <2>12. NobodyWaitsInVain'
        BY <1>24, FetchedIs DEF Fetched, NobodyWaitsInVain
    <2>13. LeftIsSilent'
        BY <1>24, FetchedIs DEF Fetched, player, LeftIsSilent, Left, RoomHasSocket, Waits
    <2>14. RoomPlaysRoom'
        BY <1>24, FetchedIs DEF Fetched, player, RoomPlaysRoom, Waits, Modes,
            RoomHasSocket
    <2>15. TimersOwned'
        <3>1. /\ f \in Fetch /\ fetches' \subseteq fetches
              /\ UNCHANGED <<mode, local, marking, marked, registering>>
            BY <1>24 DEF Fetched, WaitsOK
        <3>2. /\ f.first => timers < MaxTimers /\ timers' = timers + 1 /\ timer' = TRUE
              /\ ~f.first => UNCHANGED <<timers, timer>>
            BY <1>24 DEF Fetched
        <3>3. late' = (late \/ ~f.fresh) /\ (f.fresh => mode = "local" /\ local # None)
            BY <1>24 DEF Fetched, Waits
        <3>4. ~late' => ~late /\ f.fresh
            BY <3>1, <3>3 DEF Fetch
        <3>5. f.first /\ ~late' => ~timer /\ timers = 0
            BY <1>24, <3>4 DEF Waits, TimersOwned
        <3>6. QED
            BY <3>1, <3>2, <3>4, <3>5 DEF TimersOwned, Fetch
    <2>16. QED
        BY <2>1, <2>2, <2>3, <2>4, <2>5, <2>6, <2>7, <2>8, <2>9, <2>10, <2>11, <2>12, <2>13, <2>14,
           <2>15
<1>25. ASSUME NEW f \in fetches, FetchFails(f)
      PROVE  IInv'
    <2>1. UNCHANGED <<song, state, mode, roomId, local, queue, current, ws, reconnect,
        shouldRun>>
        BY <1>25 DEF FetchFails, session, player
    <2>2. PlayerTypeOK' /\ SessionOK' /\ RoomHasSocket'
        BY <2>1, Same
    <2>3. SocketOK'
        BY <1>25 DEF FetchFails, SocketOK
    <2>4. WaitsOK'
        BY <1>25 DEF FetchFails, WaitsOK, Fetch
    <2>5. HistoryOK'
        BY <1>25 DEF FetchFails, HistoryOK
    <2>6. Modes'
        BY <1>25 DEF FetchFails, session, Modes
    <2>7. Waits'
        BY <1>25 DEF FetchFails, session, Waits
    <2>8. Left'
        BY <1>25 DEF FetchFails, session, Left
    <2>9. ConnectedIsJoined'
        BY <1>25 DEF FetchFails, session, ConnectedIsJoined
    <2>10. NobodyWaitsInVain'
        BY <1>25 DEF FetchFails, session, NobodyWaitsInVain
    <2>11. LeftIsSilent'
        BY <1>25 DEF FetchFails, session, player, LeftIsSilent
    <2>12. RoomPlaysRoom'
        BY <1>25 DEF FetchFails, session, player, RoomPlaysRoom
    <2>13. TimersOwned'
        BY <1>25 DEF FetchFails, session, TimersOwned
    <2>14. QED
        BY <2>1, <2>2, <2>3, <2>4, <2>5, <2>6, <2>7, <2>8, <2>9, <2>10, <2>11, <2>12, <2>13
<1>26. ASSUME NEW fresh \in marking, Marked(fresh)
      PROVE  IInv'
    <2>1. UNCHANGED <<mode, roomId, ws, reconnect, ackTimer, acked, stateReceived,
        connected, deviceMode, waiting, shouldRun>>
        BY <1>26 DEF Marked, socket
    <2>2. SocketOK' /\ RoomHasSocket'
        BY <2>1, Same
    <2>3. PlayerTypeOK'
        BY <1>26, PlaysNextIs DEF Marked
    <2>4. SessionOK'
        BY <1>26, PlaysNextIs DEF Marked, SessionOK
    <2>5. WaitsOK'
        BY <1>26, PlaysNextIs DEF Marked, WaitsOK, Fetch
    <2>6. HistoryOK'
        BY <1>26, PlaysNextIs DEF Marked, HistoryOK
    <2>7. Modes'
        BY <1>26, PlaysNextIs DEF Marked, socket, Modes
    <2>8. Waits'
        BY <1>26, PlaysNextIs DEF Marked, socket, Waits
    <2>9. Left'
        BY <1>26, PlaysNextIs DEF Marked, socket, Left
    <2>10. ConnectedIsJoined'
        BY <1>26, PlaysNextIs DEF Marked, socket, ConnectedIsJoined
    <2>11. NobodyWaitsInVain'
        BY <1>26, PlaysNextIs DEF Marked, socket, NobodyWaitsInVain
    <2>12. LeftIsSilent'
        BY <1>26, PlaysNextIs DEF Marked, socket, LeftIsSilent, Left, RoomHasSocket, Waits
    <2>13. RoomPlaysRoom'
        BY <1>26, PlaysNextIs DEF Marked, socket, RoomPlaysRoom, Waits, Modes,
            RoomHasSocket
    <2>14. TimersOwned'
        BY <1>26, PlaysNextIs DEF Marked, TimersOwned
    <2>15. QED
        BY <2>1, <2>2, <2>3, <2>4, <2>5, <2>6, <2>7, <2>8, <2>9, <2>10, <2>11, <2>12, <2>13, <2>14
<1>27. CASE Ended
    <2>1. UNCHANGED <<mode, roomId, local, queue, current, ws, reconnect, ackTimer, acked,
        stateReceived, connected, deviceMode, waiting, timers, timer, shouldRun, left,
        loaded, late>>
        BY <1>27 DEF Ended, SongEnded, session, socket, history
    <2>2. /\ SessionOK' /\ SocketOK' /\ HistoryOK' /\ Modes' /\ Left'
           /\ RoomHasSocket' /\ ConnectedIsJoined' /\ NobodyWaitsInVain' /\ TimersOwned'
        BY <2>1, Same
    <2>3. PlayerTypeOK'
        BY <1>27, PlayerKeepsItsSong DEF Ended, SongEnded
    <2>4. WaitsOK'
        BY <1>27, PlayerKeepsItsSong DEF Ended, SongEnded, WaitsOK, Fetch
    <2>5. Waits'
        BY <1>27, PlayerKeepsItsSong DEF Ended, SongEnded, session, socket, history, Waits
    <2>6. LeftIsSilent'
        BY <1>27, PlayerKeepsItsSong DEF Ended, SongEnded, session, socket, history,
            LeftIsSilent
    <2>7. RoomPlaysRoom'
        BY <1>27, PlayerKeepsItsSong DEF Ended, SongEnded, session, socket, history,
            RoomPlaysRoom
    <2>8. QED
        BY <2>1, <2>2, <2>3, <2>4, <2>5, <2>6, <2>7
<1>28. CASE Skip
    <2>1. UNCHANGED <<song, state, mode, roomId, local, queue, current, ws, reconnect,
        ackTimer, acked, stateReceived, connected, deviceMode, waiting, timers, timer,
        shouldRun, left, loaded, late>>
        BY <1>28 DEF Skip, SongEnded, session, socket, history, player
    <2>2. /\ PlayerTypeOK' /\ SessionOK' /\ SocketOK' /\ HistoryOK' /\ Modes'
           /\ Left' /\ RoomHasSocket' /\ ConnectedIsJoined' /\ NobodyWaitsInVain' /\ LeftIsSilent'
           /\ RoomPlaysRoom' /\ TimersOwned'
        BY <2>1, Same
    <2>3. WaitsOK'
        BY <1>28 DEF Skip, SongEnded, WaitsOK, Fetch
    <2>4. Waits'
        BY <1>28 DEF Skip, SongEnded, session, socket, history, Waits
    <2>5. QED
        BY <2>1, <2>2, <2>3, <2>4
<1>29. ASSUME NEW s \in Songs, SelectSong(s)
      PROVE  IInv'
    <2>1. UNCHANGED <<mode, roomId, local, ws, reconnect, ackTimer, acked, stateReceived,
        connected, deviceMode, waiting, timers, timer, fetches, marking, marked,
        registering, shouldRun, late>>
        BY <1>29 DEF SelectSong, PlaysLocal, socket, waits
    <2>2. /\ SocketOK' /\ WaitsOK' /\ Modes' /\ Waits' /\ RoomHasSocket'
           /\ ConnectedIsJoined' /\ NobodyWaitsInVain' /\ TimersOwned'
        BY <2>1, Same
    <2>3. PlayerTypeOK'
        BY <1>29, LoadSongIs DEF SelectSong, PlaysLocal
    <2>4. SessionOK'
        BY <1>29, LoadSongIs DEF SelectSong, PlaysLocal, SessionOK
    <2>5. HistoryOK'
        BY <1>29, LoadSongIs DEF SelectSong, PlaysLocal, HistoryOK
    <2>6. Left'
        BY <1>29, LoadSongIs DEF SelectSong, PlaysLocal, socket, waits, Left
    <2>7. LeftIsSilent'
        BY <1>29, LoadSongIs DEF SelectSong, PlaysLocal, socket, waits, LeftIsSilent, Left,
            RoomHasSocket, Waits
    <2>8. RoomPlaysRoom'
        BY <1>29, LoadSongIs DEF SelectSong, PlaysLocal, socket, waits, RoomPlaysRoom
    <2>9. QED
        BY <2>1, <2>2, <2>3, <2>4, <2>5, <2>6, <2>7, <2>8
<1>30. CASE PlayLocal
    <2>1. UNCHANGED <<mode, roomId, local, ws, reconnect, ackTimer, acked, stateReceived,
        connected, deviceMode, waiting, timers, timer, fetches, marking, marked,
        registering, shouldRun, late>>
        BY <1>30 DEF PlayLocal, socket, waits
    <2>2. /\ SocketOK' /\ WaitsOK' /\ Modes' /\ Waits' /\ RoomHasSocket'
           /\ ConnectedIsJoined' /\ NobodyWaitsInVain' /\ TimersOwned'
        BY <2>1, Same
    <2>3. PlayerTypeOK'
        BY <1>30, PlayLocalIs DEF PlayLocal
    <2>4. SessionOK'
        BY <1>30, PlayLocalIs DEF PlayLocal, SessionOK
    <2>5. HistoryOK'
        BY <1>30, PlayLocalIs DEF PlayLocal, HistoryOK
    <2>6. Left'
        BY <1>30, PlayLocalIs DEF PlayLocal, socket, waits, Left
    <2>7. LeftIsSilent'
        BY <1>30, PlayLocalIs DEF PlayLocal, socket, waits, LeftIsSilent, Left,
            RoomHasSocket, Waits
    <2>8. RoomPlaysRoom'
        BY <1>30, PlayLocalIs DEF PlayLocal, socket, waits, RoomPlaysRoom
    <2>9. QED
        BY <2>1, <2>2, <2>3, <2>4, <2>5, <2>6, <2>7, <2>8
<1>31. CASE Command
    <2>1. UNCHANGED <<mode, roomId, local, queue, current, ws, reconnect, ackTimer, acked,
        stateReceived, connected, deviceMode, waiting, timers, timer, fetches, marking,
        marked, registering, shouldRun, left, loaded, late>>
        BY <1>31 DEF Command, daemon, session, socket, waits, history
    <2>2. /\ SessionOK' /\ SocketOK' /\ WaitsOK' /\ HistoryOK' /\ Modes'
           /\ Waits' /\ Left' /\ RoomHasSocket' /\ ConnectedIsJoined' /\ NobodyWaitsInVain'
           /\ TimersOwned'
        BY <2>1, Same
    <2>3. PlayerTypeOK'
        BY <1>31, PlayerKeepsItsSong DEF Command
    <2>4. LeftIsSilent'
        BY <1>31, PlayerKeepsItsSong DEF Command, daemon, session, socket, waits, history,
            LeftIsSilent
    <2>5. RoomPlaysRoom'
        BY <1>31, PlayerKeepsItsSong DEF Command, daemon, session, socket, waits, history,
            RoomPlaysRoom
    <2>6. QED
        BY <2>1, <2>2, <2>3, <2>4, <2>5
<1>32. CASE Engine
    <2>1. UNCHANGED <<mode, roomId, local, queue, current, ws, reconnect, ackTimer, acked,
        stateReceived, connected, deviceMode, waiting, timers, timer, fetches, marking,
        marked, registering, shouldRun, left, loaded, late>>
        BY <1>32 DEF Engine, daemon, session, socket, waits, history
    <2>2. /\ SessionOK' /\ SocketOK' /\ WaitsOK' /\ HistoryOK' /\ Modes'
           /\ Waits' /\ Left' /\ RoomHasSocket' /\ ConnectedIsJoined' /\ NobodyWaitsInVain'
           /\ TimersOwned'
        BY <2>1, Same
    <2>3. PlayerTypeOK'
        BY <1>32, PlayerKeepsItsSong DEF Engine
    <2>4. LeftIsSilent'
        BY <1>32, PlayerKeepsItsSong DEF Engine, daemon, session, socket, waits, history,
            LeftIsSilent
    <2>5. RoomPlaysRoom'
        BY <1>32, PlayerKeepsItsSong DEF Engine, daemon, session, socket, waits, history,
            RoomPlaysRoom
    <2>6. QED
        BY <2>1, <2>2, <2>3, <2>4, <2>5
<1>33. CASE Room
    BY <1>33, <1>1, <1>2, <1>3, <1>4, <1>5, <1>6, <1>8, <1>9, <1>10, <1>11, <1>7 DEF Room
<1>34. CASE Answer
    BY <1>34, <1>25, <1>24, <1>26, <1>22, <1>21 DEF Answer
<1>35. CASE Ipc
    BY <1>35, <1>14, <1>15, <1>16, <1>17, <1>18, <1>19, <1>28, <1>30, <1>31, <1>12, <1>13,
        <1>29 DEF Ipc
<1>36. QED
    BY <1>32, <1>23, <1>27, <1>20, <1>33, <1>34, <1>35 DEF Next, GoesOn

\* What is left of handleLocalSongEnded() when nothing had to be reported.
LEMMA GoesOnOK ==
    ASSUME IInv, GoesOn
    PROVE  IInv'
<1> USE DEF IInv, TypeOK
<1>1. /\ PlayerTypeOK' /\ current' \in Songs \cup {NoSong}
      /\ \/ current' = NoSong /\ UNCHANGED <<player, loaded>>
         \/ loaded' = "local" /\ (queue # {} \/ current # NoSong)
      /\ queue = {} /\ current = NoSong => UNCHANGED song
    BY PlaysNextIs DEF GoesOn
<1>2. /\ UNCHANGED <<mode, roomId, local, queue, timers, timer, fetches, marking, registering>>
      /\ UNCHANGED <<socket, shouldRun, left, late>>
      /\ mode = "local" /\ marked' = FALSE
    BY DEF GoesOn, Waits
<1>3. SessionOK' /\ HistoryOK'
    BY <1>1, <1>2 DEF SessionOK, HistoryOK
<1>4. WaitsOK'
    BY <1>2 DEF WaitsOK
<1>5. /\ SocketOK' /\ Modes' /\ RoomHasSocket'
      /\ ConnectedIsJoined' /\ NobodyWaitsInVain' /\ TimersOwned'
    BY <1>2, Same DEF socket
<1>6. Waits'
    BY <1>2 DEF Waits
<1>7. Left' /\ LeftIsSilent'
    BY <1>1, <1>2 DEF Left, LeftIsSilent
<1>8. RoomPlaysRoom'
    BY <1>2 DEF RoomPlaysRoom
<1>9. QED
    BY <1>1, <1>3, <1>4, <1>5, <1>6, <1>7, <1>8

LEMMA InitOK == Init => IInv
<1> SUFFICES ASSUME Init PROVE IInv
    OBVIOUS
<1> USE DaemonAssumption, PlaylistsAssumption DEF Init
<1>1. PlayerTypeOK
    BY DEF PlayerInit, PlayerTypeOK, NoSong
<1>2. song = NoSong
    BY DEF PlayerInit
<1>3. SessionOK
    BY DEF SessionOK
<1>4. SocketOK
    BY DEF SocketOK
<1>5. WaitsOK
    <2>1. 0 \in 0..MaxTimers
        BY DaemonAssumption, PlaylistsAssumption
    <2>2. QED
        BY <2>1 DEF WaitsOK
<1>6. HistoryOK
    BY DEF HistoryOK
<1>7. Modes /\ Left /\ RoomHasSocket
    BY DEF Modes, Left, RoomHasSocket
<1>8. Waits
    BY DEF Waits
<1>9. ConnectedIsJoined /\ NobodyWaitsInVain /\ TimersOwned
    BY DEF ConnectedIsJoined, NobodyWaitsInVain, TimersOwned
<1>10. LeftIsSilent /\ RoomPlaysRoom
    BY <1>2 DEF LeftIsSilent, RoomPlaysRoom
<1>11. QED
    BY <1>1, <1>3, <1>4, <1>5, <1>6, <1>7, <1>8, <1>9, <1>10 DEF IInv, TypeOK

-------------------------------------------------------------------------------
\* The invariant holds in every reachable state of runtime.ts.
THEOREM Invariance == Spec => []IInv
<1>1. IInv /\ Next => IInv'
    BY StepOK, GoesOnOK DEF Next
<1>2. IInv /\ UNCHANGED vars => IInv'
    <2> SUFFICES ASSUME IInv, UNCHANGED vars PROVE IInv'
        OBVIOUS
    <2>1. UNCHANGED <<song, state>> /\ UNCHANGED <<session, socket, waits, shouldRun, history>>
        BY DEF vars, player, daemon
    <2>2. QED
        BY <2>1, Same DEF session, socket, waits, history, IInv, TypeOK
<1>3. IInv /\ [Next]_vars => IInv'
    BY <1>1, <1>2
<1>4. QED
    BY InitOK, <1>3, PTL DEF Spec

\* What the daemon keeps has its types.
THEOREM TypeCorrect == Spec => []TypeOK
<1>1. IInv => TypeOK
    BY DEF IInv
<1>2. QED
    BY <1>1, Invariance, PTL

\* A room that is joined has a socket or will get one, and nothing else has: whatever
\* comes between connect(), its timers and the registration of the device.
THEOREM RoomAlwaysHasSocket == Spec => []RoomHasSocket
<1>1. IInv => RoomHasSocket
    BY DEF IInv
<1>2. QED
    BY <1>1, Invariance, PTL

\* markRoomConnected() never believes the last socket of the next.
THEOREM ConnectedMeansJoined == Spec => []ConnectedIsJoined
<1>1. IInv => ConnectedIsJoined
    BY DEF IInv
<1>2. QED
    BY <1>1, Invariance, PTL

\* connectionWaiters are told when the room is joined and when its socket is gone.
THEOREM WaitersAreTold == Spec => []NobodyWaitsInVain
<1>1. IInv => NobodyWaitsInVain
    BY DEF IInv
<1>2. QED
    BY <1>1, Invariance, PTL

\* After leaveRoom, leavePlaylist, clearSession and shutdown nothing is heard, until an
\* answer comes that was asked for before.
THEOREM LeavingIsSilent == Spec => []LeftIsSilent
<1>1. IInv => LeftIsSilent
    BY DEF IInv
<1>2. QED
    BY <1>1, Invariance, PTL

\* What local mode plays does not go on in a room.
THEOREM RoomsPlayTheirSongs == Spec => []RoomPlaysRoom
<1>1. IInv => RoomPlaysRoom
    BY DEF IInv
<1>2. QED
    BY <1>1, Invariance, PTL

\* Until a late answer comes stopLocalMode() can stop every timer there is.
THEOREM NoStrayTimer == Spec => []TimersOwned
<1>1. IInv => TimersOwned
    BY DEF IInv
<1>2. QED
    BY <1>1, Invariance, PTL

-----------------------------------------------------------------------------
(* Tables in one.                                                          *)

LEMMA Joined ==
    ASSUME NEW f, NEW g
    PROVE  /\ DOMAIN (f ++ g) = DOMAIN f \cup DOMAIN g
           /\ \A x \in DOMAIN (f ++ g) : \/ x \in DOMAIN f /\ (f ++ g)[x] = f[x]
                                         \/ x \in DOMAIN g /\ (f ++ g)[x] = g[x]
BY DEF ++

-----------------------------------------------------------------------------
(* What the writes change, and what they say.                              *)

EventNames == SongEvents \cup PlaylistEvents
                \cup {"agent.chat_message", "agent.memory_updated", "settings.changed"}

Spoken == EventNames \X (Playlists \cup {None})

\* The kinds of tables whose changes are told, and by what.
ToldKinds == {"settings", "row", "songs", "chat", "memory"}

TellsKind(name, kind) ==
    /\ kind = "settings" => name = "settings.changed"
    /\ kind = "row" => name \in PlaylistEvents \ {"playlist.heartbeat"}
    /\ kind = "songs" => name \in SongEvents
    /\ kind = "chat" => name = "agent.chat_message"
    /\ kind = "memory" => name = "agent.memory_updated"

Tells(event, t) ==
    /\ TellsKind(event[1], t[1])
    /\ t[1] \in {"songs", "chat"} => event[2] = t[2]
    /\ t[1] = "memory" => event[2] \in {t[2], None}

RowWriters == {"updateParams", "updatePosition", "incrementGenerated", "resetDefaults",
               "toggleStar", "updateManagerBrief", "create", "updateStatus", "steer",
               "deletePlaylist", "reactivate", "postHumanDirection"}

SongWriters == {"createPending", "createWithMetadata", "claimMetadata", "claimAudio",
                "completeMetadata", "updateSongStatus", "updateAceTask", "markReady",
                "markError", "retryErrored", "revertTransient", "revertAllTransient",
                "recoverPlaylist", "rateSong", "updateMetadata", "updateCover", "deleteSong",
                "reorderSong", "reindexPlaylist"}

ChatWriters == {"postChannelMessage", "markChannelQuestionAnswered", "postHumanChat",
                "postHumanDirection", "answerDirectorQuestion"}

MemoryWriters == {"writeMemory", "updateMemory", "deleteMemory", "markMemoryUsed",
                  "globalizeMemory"}

\* The operations that change the tables of a kind.
WritesKind(name, kind) ==
    /\ kind = "settings" => name = "set"
    /\ kind = "row" => name \in RowWriters
    /\ kind = "songs" => name \in SongWriters
    /\ kind = "chat" => name \in ChatWriters
    /\ kind = "memory" => name \in MemoryWriters
    /\ kind = "devices" => name \in {"issueDeviceToken", "touchDevice", "revokeDeviceToken"}
    /\ kind = "assigned" => name \in {"assignDeviceToPlaylist", "unassignDeviceFromPlaylist"}
    /\ kind = "room" => name \in {"handleCommand", "moveRoom"}

WrittenBy(o, t) ==
    /\ WritesKind(o[1], t[1])
    /\ t[1] = "chat" => t[2] = o[2]

AnnouncedBy(o, w) ==
    /\ w.says \in Seq(Spoken)
    /\ \A t \in w.changes :
           /\ t[1] \in ToldKinds => \E i \in DOMAIN w.says : Tells(w.says[i], t)
           /\ WrittenBy(o, t)

Announced(f) == \A o \in DOMAIN f : AnnouncedBy(o, f[o])

LEMMA JoinedAnnounced ==
    ASSUME NEW f, NEW g, Announced(f), Announced(g)
    PROVE  Announced(f ++ g)
BY Joined DEF Announced

LEMMA WritingAnnounced ==
    ASSUME NEW names, NEW playlists \in SUBSET (Playlists \cup {None}), NEW kinds,
           NEW n \in Nat, NEW events \in [1..n -> EventNames],
           \A kind \in kinds \cap ToldKinds : \E i \in 1..n : TellsKind(events[i], kind),
           \A name \in names, kind \in kinds : WritesKind(name, kind)
    PROVE  Announced(Writing(names, playlists, kinds, events))
<1> DEFINE w == Writing(names, playlists, kinds, events)
<1>1. /\ DOMAIN w = names \X playlists
      /\ \A o \in names \X playlists :
             /\ w[o].changes = kinds \X {o[2]}
             /\ w[o].says = [i \in DOMAIN events |-> <<events[i], o[2]>>]
    BY DEF Writing, Write
<1> HIDE DEF w
<1> SUFFICES ASSUME NEW o \in names \X playlists
             PROVE  AnnouncedBy(o, w[o])
    BY <1>1 DEF Announced, w
<1>2. o[1] \in names /\ o[2] \in playlists
    OBVIOUS
<1>3. w[o].says = [i \in 1..n |-> <<events[i], o[2]>>]
    BY <1>1
<1>4. /\ DOMAIN w[o].says = 1..n
      /\ \A i \in 1..n : w[o].says[i][1] = events[i] /\ w[o].says[i][2] = o[2]
    <2>1. DOMAIN w[o].says = 1..n /\ \A i \in 1..n : w[o].says[i] = <<events[i], o[2]>>
        BY <1>3
    <2> QED
        BY <2>1
<1>5. w[o].says \in Seq(Spoken)
    <2>1. \A i \in 1..n : <<events[i], o[2]>> \in Spoken
        BY <1>2 DEF Spoken
    <2> QED
        BY <1>3, <2>1, IsASeq
<1>6. ASSUME NEW t \in w[o].changes
      PROVE  /\ t[1] \in ToldKinds => \E i \in DOMAIN w[o].says : Tells(w[o].says[i], t)
             /\ WrittenBy(o, t)
    <2>1. t[1] \in kinds /\ t[2] = o[2]
        <3>1. t \in kinds \X {o[2]}
            BY <1>1
        <3> QED
            BY <3>1
    <2>2. WrittenBy(o, t)
        BY <1>2, <2>1 DEF WrittenBy
    <2>3. ASSUME t[1] \in ToldKinds
          PROVE  \E i \in DOMAIN w[o].says : Tells(w[o].says[i], t)
        <3>1. PICK i \in 1..n : TellsKind(events[i], t[1])
            BY <2>1, <2>3
        <3> QED
            BY <1>4, <2>1, <3>1 DEF Tells
    <2> QED
        BY <2>2, <2>3
<1> QED
    BY <1>5, <1>6 DEF AnnouncedBy

LEMMA OneEvent ==
    ASSUME NEW names, NEW playlists \in SUBSET (Playlists \cup {None}), NEW kinds,
           NEW e \in EventNames, \A kind \in kinds : TellsKind(e, kind),
           \A name \in names, kind \in kinds : WritesKind(name, kind)
    PROVE  Announced(Writing(names, playlists, kinds, <<e>>))
<1>1. <<e>> \in [1..1 -> EventNames] /\ 1 \in 1..1 /\ <<e>>[1] = e
    OBVIOUS
<1> QED
    BY <1>1, WritingAnnounced

LEMMA WritesAnnounced == Announced(Writes)
<1>1. /\ Playlists \in SUBSET (Playlists \cup {None})
      /\ {None} \in SUBSET (Playlists \cup {None})
      /\ Playlists \cup {None} \in SUBSET (Playlists \cup {None})
    OBVIOUS
<1> USE DEF ToldKinds, TellsKind, WritesKind, EventNames, RowWriters, SongWriters, ChatWriters,
            MemoryWriters, PlaylistEvents, SongEvents
<1>2. ASSUME NEW names, NEW playlists \in SUBSET (Playlists \cup {None}), NEW kinds,
             kinds \cap ToldKinds = {},
             \A name \in names, kind \in kinds : WritesKind(name, kind)
      PROVE  Announced(Writing(names, playlists, kinds, <<>>))
    <2>1. <<>> \in [1..0 -> EventNames]
        OBVIOUS
    <2> HIDE DEF ToldKinds, EventNames, WritesKind
    <2> QED
        BY <1>2, <2>1, WritingAnnounced
<1>3. Announced(SettingWrites)
    BY <1>1, OneEvent DEF SettingWrites
<1>4. Announced(PlaylistWrites)
    <2>1. Announced(Writing({"updateParams", "updatePosition", "incrementGenerated",
                             "resetDefaults", "toggleStar", "updateManagerBrief"},
                            Playlists, {"row"}, <<"playlist.updated">>))
        BY <1>1, OneEvent
    <2>2. Announced(Writing({"create"}, Playlists, {"row"}, <<"playlist.created">>))
        BY <1>1, OneEvent
    <2>3. Announced(Writing({"updateStatus"}, Playlists, {"row"},
                            <<"playlist.status_changed">>))
        BY <1>1, OneEvent
    <2>4. Announced(Writing({"steer"}, Playlists, {"row"}, <<"playlist.steered">>))
        BY <1>1, OneEvent
    <2>5. Announced(Writing({"deletePlaylist"}, Playlists, {"row", "gone"},
                            <<"playlist.deleted">>))
        BY <1>1, OneEvent
    <2>6. Announced(Writing({"heartbeat"}, Playlists, {"seen"}, <<"playlist.heartbeat">>))
        BY <1>1, OneEvent
    <2>7. Announced(Writing({"reactivate"}, Playlists, {"row", "seen"},
                            <<"playlist.heartbeat", "playlist.status_changed">>))
        <3> DEFINE says == <<"playlist.heartbeat", "playlist.status_changed">>
        <3>1. says \in [1..2 -> EventNames] /\ 2 \in 1..2 /\ says[2] = "playlist.status_changed"
            OBVIOUS
        <3>2. \A kind \in {"row", "seen"} \cap ToldKinds : TellsKind(says[2], kind)
            BY <3>1
        <3>3. \A name \in {"reactivate"}, kind \in {"row", "seen"} : WritesKind(name, kind)
            OBVIOUS
        <3> HIDE DEF says, ToldKinds, TellsKind, WritesKind, EventNames
        <3>4. Announced(Writing({"reactivate"}, Playlists, {"row", "seen"}, says))
            BY <1>1, <3>1, <3>2, <3>3, WritingAnnounced
        <3> QED
            BY <3>4 DEF says
    <2> QED
        BY <2>1, <2>2, <2>3, <2>4, <2>5, <2>6, <2>7, JoinedAnnounced DEF PlaylistWrites
<1>5. Announced(SongWrites)
    <2>1. Announced(Writing({"createPending", "createWithMetadata"}, Playlists, {"songs"},
                            <<"song.created">>))
        BY <1>1, OneEvent
    <2>2. Announced(Writing({"claimMetadata", "claimAudio", "completeMetadata",
                             "updateSongStatus", "updateAceTask", "markReady", "markError",
                             "retryErrored", "revertTransient"}, Playlists, {"songs"},
                            <<"song.status_changed">>))
        BY <1>1, OneEvent
    <2>3. Announced(Writing({"revertAllTransient", "recoverPlaylist", "rateSong",
                             "updateMetadata", "updateCover"}, Playlists, {"songs"},
                            <<"song.metadata_updated">>))
        BY <1>1, OneEvent
    <2>4. Announced(Writing({"deleteSong"}, Playlists, {"songs"}, <<"song.deleted">>))
        BY <1>1, OneEvent
    <2>5. Announced(Writing({"reorderSong", "reindexPlaylist"}, Playlists, {"songs"},
                            <<"song.reordered">>))
        BY <1>1, OneEvent
    <2>6. Announced(Writing({"touch", "updateStoragePath", "updateAceAudioPath",
                             "updateAudioDuration", "updateCoverProcessingMs",
                             "updatePersonaExtract", "incrementListenCount", "addPlayDuration"},
                            Playlists, {"plays"}, <<>>))
        BY <1>1, <1>2
    <2> QED
        BY <2>1, <2>2, <2>3, <2>4, <2>5, <2>6, JoinedAnnounced DEF SongWrites
<1>6. Announced(ChannelWrites)
    BY <1>1, OneEvent DEF ChannelWrites
<1>7. Announced(DirectorWrites)
    <2>1. Announced(Writing({"postHumanChat"}, Playlists, {"chat"}, <<"agent.chat_message">>))
        BY <1>1, OneEvent
    <2>2. Announced(Writing({"postHumanDirection"}, Playlists, {"chat", "row"},
                            <<"agent.chat_message", "playlist.steered", "agent.chat_message">>))
        <3> DEFINE says == <<"agent.chat_message", "playlist.steered", "agent.chat_message">>
        <3>1. /\ says \in [1..3 -> EventNames] /\ 1 \in 1..3 /\ 2 \in 1..3
              /\ says[1] = "agent.chat_message" /\ says[2] = "playlist.steered"
            OBVIOUS
        <3>2. \A kind \in {"chat", "row"} \cap ToldKinds :
                  TellsKind(says[1], kind) \/ TellsKind(says[2], kind)
            BY <3>1
        <3>3. \A name \in {"postHumanDirection"}, kind \in {"chat", "row"} :
                  WritesKind(name, kind)
            OBVIOUS
        <3> HIDE DEF says, ToldKinds, TellsKind, WritesKind, EventNames
        <3>4. Announced(Writing({"postHumanDirection"}, Playlists, {"chat", "row"}, says))
            BY <1>1, <3>1, <3>2, <3>3, WritingAnnounced
        <3> QED
            BY <3>4 DEF says
    <2>3. Announced(Writing({"answerDirectorQuestion"}, Playlists, {"chat"},
                            <<"agent.chat_message", "agent.chat_message", "playlist.updated">>))
        <3> DEFINE says == <<"agent.chat_message", "agent.chat_message", "playlist.updated">>
        <3>1. /\ says \in [1..3 -> EventNames] /\ 1 \in 1..3
              /\ says[1] = "agent.chat_message"
            OBVIOUS
        <3>2. \A kind \in {"chat"} \cap ToldKinds : TellsKind(says[1], kind)
            BY <3>1
        <3>3. \A name \in {"answerDirectorQuestion"}, kind \in {"chat"} : WritesKind(name, kind)
            OBVIOUS
        <3> HIDE DEF says, ToldKinds, TellsKind, WritesKind, EventNames
        <3>4. Announced(Writing({"answerDirectorQuestion"}, Playlists, {"chat"}, says))
            BY <1>1, <3>1, <3>2, <3>3, WritingAnnounced
        <3> QED
            BY <3>4 DEF says
    <2> QED
        BY <2>1, <2>2, <2>3, JoinedAnnounced DEF DirectorWrites
<1>8. Announced(MemoryWrites)
    <2> DEFINE w == [o \in {"globalizeMemory"} \X Playlists |->
                        [changes |-> {"memory"} \X {o[2], None},
                         says    |-> <<<<"agent.memory_updated", None>>>>]]
    <2>1. Announced(Writing({"writeMemory", "updateMemory", "deleteMemory", "markMemoryUsed"},
                            Playlists \cup {None}, {"memory"}, <<"agent.memory_updated">>))
        BY <1>1, OneEvent
    <2>2. Announced(w)
        <3> SUFFICES ASSUME NEW o \in {"globalizeMemory"} \X Playlists
                     PROVE  AnnouncedBy(o, w[o])
            BY DEF Announced
        <3>1. o[1] = "globalizeMemory"
            OBVIOUS
        <3>2. w[o].says = <<<<"agent.memory_updated", None>>>>
            OBVIOUS
        <3>3. w[o].says \in Seq(Spoken) /\ 1 \in DOMAIN w[o].says
            BY <3>2 DEF Spoken
        <3>4. w[o].says[1][1] = "agent.memory_updated" /\ w[o].says[1][2] = None
            BY <3>2
        <3>5. \A t \in w[o].changes : t[1] = "memory"
            OBVIOUS
        <3> HIDE DEF w
        <3> QED
            BY <3>1, <3>3, <3>4, <3>5 DEF AnnouncedBy, Tells, WrittenBy
    <2> QED
        BY <2>1, <2>2, JoinedAnnounced DEF MemoryWrites
<1>9. Announced(DeviceWrites)
    <2> DEFINE w == [o \in {"assignDeviceToPlaylist", "unassignDeviceFromPlaylist"}
                               \X Playlists |-> Write({"assigned"}, None, <<>>)]
    <2>1. Announced(Writing({"issueDeviceToken", "touchDevice", "revokeDeviceToken"}, {None},
                            {"devices"}, <<>>))
        BY <1>1, <1>2
    <2>2. Announced(w)
        <3> SUFFICES ASSUME NEW o \in {"assignDeviceToPlaylist", "unassignDeviceFromPlaylist"}
                                          \X Playlists
                     PROVE  AnnouncedBy(o, w[o])
            BY DEF Announced
        <3>1. o[1] \in {"assignDeviceToPlaylist", "unassignDeviceFromPlaylist"}
            OBVIOUS
        <3>2. w[o].says = <<>> /\ w[o].changes = {"assigned"} \X {None}
            BY DEF Write
        <3>3. w[o].says \in Seq(Spoken)
            <4>1. <<>> \in Seq(Spoken)
                OBVIOUS
            <4> HIDE DEF w
            <4> QED
                BY <3>2, <4>1
        <3>4. \A t \in w[o].changes : t[1] = "assigned"
            BY <3>2
        <3> HIDE DEF w
        <3> QED
            BY <3>1, <3>3, <3>4 DEF AnnouncedBy, WrittenBy
    <2> QED
        BY <2>1, <2>2, JoinedAnnounced DEF DeviceWrites
<1>10. Announced(RoomWrites) /\ Announced(WorkerMoves)
    BY <1>1, <1>2 DEF RoomWrites, WorkerMoves
<1> QED
    BY <1>3, <1>4, <1>5, <1>6, <1>7, <1>8, <1>9, <1>10, JoinedAnnounced DEF Writes

-----------------------------------------------------------------------------
(* The keys a query is invalidated by.                                     *)

LEMMA KeysArePrefixes ==
    ASSUME NEW a, NEW b, NEW c
    PROVE  /\ IsPrefix(<<a>>, <<a, b>>) /\ IsPrefix(<<a, b>>, <<a, b>>)
           /\ IsPrefix(<<a>>, <<a, b, c>>) /\ IsPrefix(<<a, b>>, <<a, b, c>>)
           /\ IsPrefix(<<a, b, c>>, <<a, b, c>>)
<1>1. ASSUME NEW s \in Seq({a, b, c}), NEW q \in Seq({a, b, c}), Len(s) <= Len(q),
             \A i \in 1..Len(s) : s[i] = q[i]
      PROVE  IsPrefix(s, q)
    <2>1. Len(s) \in Nat /\ Len(q) \in Nat
        BY LenProperties
    <2>2. SubSeq(s, 1, Len(s)) = [i \in 1..Len(s) |-> s[i]]
        BY <2>1
    <2>3. SubSeq(q, 1, Len(s)) = [i \in 1..Len(s) |-> q[i]]
        BY <2>1, <1>1
    <2>4. [i \in 1..Len(s) |-> s[i]] = [i \in 1..Len(s) |-> q[i]]
        BY <1>1
    <2> QED
        BY <1>1, <2>2, <2>3, <2>4 DEF IsPrefix
<1> DEFINE x == <<a>>
           y == <<a, b>>
           z == <<a, b, c>>
<1>2. /\ x \in Seq({a, b, c}) /\ y \in Seq({a, b, c}) /\ z \in Seq({a, b, c})
      /\ Len(x) = 1 /\ Len(y) = 2 /\ Len(z) = 3
    OBVIOUS
<1>3. /\ \A i \in 1..1 : x[i] = y[i] /\ x[i] = z[i]
      /\ \A i \in 1..2 : y[i] = z[i]
    OBVIOUS
<1> HIDE DEF x, y, z
<1>4. IsPrefix(x, y) /\ IsPrefix(x, z)
    <2>1. Len(x) = 1 /\ 1 <= Len(y) /\ 1 <= Len(z)
        BY <1>2
    <2> QED
        BY <1>1, <1>2, <1>3, <2>1
<1>5. IsPrefix(y, z) /\ IsPrefix(y, y)
    <2>1. Len(y) = 2 /\ Len(y) <= Len(z) /\ Len(y) <= Len(y)
        BY <1>2
    <2> QED
        BY <1>1, <1>2, <1>3, <2>1
<1>6. IsPrefix(z, z)
    <2>1. Len(z) <= Len(z)
        BY <1>2
    <2> QED
        BY <1>1, <1>2, <2>1
<1> QED
    BY <1>4, <1>5, <1>6 DEF x, y, z

KnownQuery(q, tables) ==
    /\ \/ \E a, b : q = <<a, b>>
       \/ \E a, b, c : q = <<a, b, c>>
    /\ q[2] \in {"session", "devices"} => q[1] = "playlists"
    /\ q[1] = "house" => q = <<"house", "sessions">>
    /\ \A t \in tables :
           /\ q[1] = "songs" /\ q[2] # "batch" /\ t[1] = "songs" =>
                  q \in {<<"songs", "queue", t[2]>>, <<"songs", "all">>}
           /\ q[1] = "agent-chat" /\ t[1] = "chat" =>
                  q \in {<<"agent-chat", "messages", t[2]>>, <<"agent-chat", "state", t[2]>>}
           /\ q[1] = "devices" /\ t[1] = "devices" => q = <<"devices", "owned">>
           /\ q[1] = "devices" /\ t[1] = "assigned" => q = <<"devices", "assignments">>

Known(f) == \A q \in DOMAIN f : KnownQuery(q, f[q])

LEMMA JoinedKnown ==
    ASSUME NEW f, NEW g, Known(f), Known(g)
    PROVE  Known(f ++ g)
BY Joined DEF Known

LEMMA QueriesKnown == Known(Reads)
<1>1. Known(SettingQueries)
    BY DEF SettingQueries, Known, KnownQuery
<1>2. Known(ControlQueries)
    <2>1. Known([q \in {<<"devices", "owned">>} |-> {<<"devices", None>>}])
        BY DEF Known, KnownQuery
    <2>2. Known([q \in {<<"devices", "assignments">>} |->
                    {<<"assigned", None>>} \cup {"gone"} \X Playlists])
        BY DEF Known, KnownQuery
    <2>3. Known([q \in {<<"house", "sessions">>} |-> {"row", "room", "songs"} \X Playlists])
        BY DEF Known, KnownQuery
    <2>4. Known([q \in {"playlists"} \X {"session"} \X Playlists |->
                    {"row", "room", "songs"} \X {q[3]}])
        BY DEF Known, KnownQuery
    <2>5. Known([q \in {"playlists"} \X {"devices"} \X Playlists |->
                    {<<"assigned", None>>} \cup {"row", "room"} \X {q[3]}])
        BY DEF Known, KnownQuery
    <2> QED
        BY <2>1, <2>2, <2>3, <2>4, <2>5, JoinedKnown DEF ControlQueries
<1>3. Known(PlaylistQueries)
    <2>1. Known([q \in {"playlists"} \X {"all", "current", "closed"} |->
                    {"row", "seen"} \X Playlists])
        BY DEF Known, KnownQuery
    <2>2. Known([q \in {"playlists"} \X {"get", "by-key"} \X Playlists |->
                    {"row", "seen"} \X {q[3]}])
        BY DEF Known, KnownQuery
    <2> QED
        BY <2>1, <2>2, JoinedKnown DEF PlaylistQueries
<1>4. Known(AgentQueries)
    <2>1. Known([q \in {"agent-chat"} \X {"messages", "state"} \X Playlists |->
                    {"chat", "gone"} \X {q[3]}])
        BY DEF Known, KnownQuery
    <2>2. Known([q \in {"agent-memory"} \X {"playlist"} \X Playlists |->
                    {<<"memory", None>>} \cup {"memory", "gone"} \X {q[3]}])
        BY DEF Known, KnownQuery
    <2> QED
        BY <2>1, <2>2, JoinedKnown DEF AgentQueries
<1>5. Known(SongQueries)
    <2>1. Known([q \in {"songs"} \X {"queue"} \X Playlists |->
                    {"songs", "plays", "gone"} \X {q[3]}])
        BY DEF Known, KnownQuery
    <2>2. Known([q \in {"songs"} \X {"all", "batch"} |->
                    {"songs", "plays", "gone"} \X Playlists])
        BY DEF Known, KnownQuery
    <2> QED
        BY <2>1, <2>2, JoinedKnown DEF SongQueries
<1>6. Known(WorkerQueries)
    BY DEF WorkerQueries, Known, KnownQuery
<1> QED
    BY <1>1, <1>2, <1>3, <1>4, <1>5, <1>6, JoinedKnown DEF Reads

LEMMA QueryHasPrefixes ==
    ASSUME NEW q, NEW tables, KnownQuery(q, tables)
    PROVE  IsPrefix(<<q[1]>>, q) /\ IsPrefix(<<q[1], q[2]>>, q) /\ IsPrefix(q, q)
<1>1. ASSUME NEW a, NEW b, q = <<a, b>>
      PROVE  IsPrefix(<<q[1]>>, q) /\ IsPrefix(<<q[1], q[2]>>, q) /\ IsPrefix(q, q)
    <2>1. q[1] = a /\ q[2] = b
        BY <1>1
    <2> QED
        BY <1>1, <2>1, KeysArePrefixes
<1>2. ASSUME NEW a, NEW b, NEW c, q = <<a, b, c>>
      PROVE  IsPrefix(<<q[1]>>, q) /\ IsPrefix(<<q[1], q[2]>>, q) /\ IsPrefix(q, q)
    <2>1. q[1] = a /\ q[2] = b
        BY <1>2
    <2> QED
        BY <1>2, <2>1, KeysArePrefixes
<1> QED
    BY <1>1, <1>2 DEF KnownQuery

\* A message of the bridge for which the page invalidates the query.
Hears(key, q) == \E k \in Invalidated(key) : IsPrefix(k, q)

\* What is told of a change is a message the page receives.
LEMMA EventIsPassedOn ==
    ASSUME NEW t, t[1] \in ToldKinds, NEW event \in Spoken, Tells(event, t)
    PROVE  event[1] \in Forwarded /\ RoutingKey(event) \in Messages(t)
<1>1. event[1] \in Forwarded
    BY DEF Tells, TellsKind, Forwarded, ToldKinds, SongEvents, PlaylistEvents
<1>2. RoutingKey(event) \in Messages(t)
    BY DEF Tells, TellsKind, ToldKinds, RoutingKey, Messages, SongEvents, PlaylistEvents
<1> QED
    BY <1>1, <1>2

\* Who follows a table heeds the messages that tell of it.
LEMMA MessageIsHeard ==
    ASSUME NEW q \in Queries, NEW t \in FollowsAll(q), NEW key \in Messages(t)
    PROVE  Hears(key, q)
<1>1. /\ KnownQuery(q, Reads[q])
      /\ IsPrefix(<<q[1]>>, q) /\ IsPrefix(<<q[1], q[2]>>, q) /\ IsPrefix(q, q)
    BY QueriesKnown, QueryHasPrefixes DEF Known, Queries
<1>2. t \in Reads[q]
    BY DEF FollowsAll
<1>3. CASE q[1] = "settings"
    <2>1. key = <<"settings">>
        BY <1>3 DEF FollowsAll, Messages
    <2>2. <<"settings">> \in Invalidated(key)
        BY <2>1 DEF Invalidated
    <2> QED
        BY <1>1, <1>3, <2>2 DEF Hears
<1>4. CASE q[1] = "playlists"
    <2>1. key = <<"playlists">>
        BY <1>4 DEF FollowsAll, Messages
    <2>2. <<"playlists">> \in Invalidated(key)
        BY <2>1 DEF Invalidated
    <2> QED
        BY <1>1, <1>4, <2>2 DEF Hears
<1>5. CASE q[1] = "songs" /\ q[2] # "batch"
    <2>1. t[1] = "songs"
        BY <1>5 DEF FollowsAll
    <2>2. key = <<"songs", t[2]>>
        BY <2>1 DEF Messages
    <2>3. /\ <<"songs", "queue", t[2]>> \in Invalidated(key)
          /\ <<"songs", "all">> \in Invalidated(key)
        BY <2>2 DEF Invalidated
    <2>4. q \in {<<"songs", "queue", t[2]>>, <<"songs", "all">>}
        BY <1>1, <1>2, <1>5, <2>1 DEF KnownQuery
    <2> QED
        BY <1>1, <2>3, <2>4 DEF Hears
<1>6. CASE q[1] = "agent-chat"
    <2>1. t[1] = "chat"
        BY <1>6 DEF FollowsAll
    <2>2. key = <<"agent-chat", t[2]>>
        BY <2>1 DEF Messages
    <2>3. /\ <<"agent-chat", "messages", t[2]>> \in Invalidated(key)
          /\ <<"agent-chat", "state", t[2]>> \in Invalidated(key)
        BY <2>2 DEF Invalidated
    <2>4. q \in {<<"agent-chat", "messages", t[2]>>, <<"agent-chat", "state", t[2]>>}
        BY <1>1, <1>2, <1>6, <2>1 DEF KnownQuery
    <2> QED
        BY <1>1, <2>3, <2>4 DEF Hears
<1>7. CASE q[1] = "agent-memory"
    <2>1. t[1] = "memory"
        BY <1>7 DEF FollowsAll
    <2>2. key[1] = "agent-memory"
        BY <2>1 DEF Messages
    <2>3. <<"agent-memory">> \in Invalidated(key)
        BY <2>2 DEF Invalidated
    <2> QED
        BY <1>1, <1>7, <2>3 DEF Hears
<1> QED
    BY <1>3, <1>4, <1>5, <1>6, <1>7 DEF FollowsAll

-----------------------------------------------------------------------------
(* What the hooks invalidate.                                              *)

Within(f, g) == DOMAIN f \subseteq DOMAIN g

LEMMA WithinJoined ==
    ASSUME NEW f, NEW g
    PROVE  /\ Within(g, f ++ g)
           /\ \A w : Within(w, f) => Within(w, f ++ g)
BY DEF Within, ++

Performs(f, names, playlists) == names \X playlists \subseteq DOMAIN f

LEMMA JoinedPerforms ==
    ASSUME NEW f, NEW g, NEW m, NEW n, NEW p, Performs(f, m, p), Performs(g, n, p)
    PROVE  Performs(f ++ g, m \cup n, p)
BY DEF Performs, ++

LEMMA WritingPerforms ==
    ASSUME NEW names, NEW playlists, NEW kinds, NEW events
    PROVE  Performs(Writing(names, playlists, kinds, events), names, playlists)
BY DEF Writing, Performs

LEMMA InWrites ==
    /\ Within(SettingWrites, Writes) /\ Within(PlaylistWrites, Writes)
    /\ Within(SongWrites, Writes) /\ Within(DirectorWrites, Writes)
    /\ Within(MemoryWrites, Writes) /\ Within(DeviceWrites, Writes)
    /\ Within(RoomWrites, Writes)
<1>1. Within(SettingWrites, SettingWrites)
    BY DEF Within
<1>2. Within(SettingWrites, Writes)
    BY <1>1, WithinJoined, Zenon DEF Writes
<1>3. Within(PlaylistWrites, Writes)
    BY WithinJoined, Zenon DEF Writes
<1>4. Within(SongWrites, Writes)
    BY WithinJoined, Zenon DEF Writes
<1>5. Within(DirectorWrites, Writes)
    BY WithinJoined, Zenon DEF Writes
<1>6. Within(MemoryWrites, Writes)
    BY WithinJoined, Zenon DEF Writes
<1>7. Within(DeviceWrites, Writes)
    BY WithinJoined, Zenon DEF Writes
<1>8. Within(RoomWrites, Writes)
    BY WithinJoined, Zenon DEF Writes
<1> QED
    BY <1>2, <1>3, <1>4, <1>5, <1>6, <1>7, <1>8

\* A hook invalidates nothing, or every key by which a query that follows what the operation
\* changes can be reached.
Heeds(o, keys) == keys # {} =>
    /\ o[1] = "set" => <<"settings">> \in keys
    /\ o[1] \in RowWriters => <<"playlists">> \in keys
    /\ o[1] \in SongWriters => <<"songs">> \in keys
    /\ o[1] \in ChatWriters => /\ <<"agent-chat", "messages", o[2]>> \in keys
                               /\ <<"agent-chat", "state", o[2]>> \in keys
    /\ o[1] \in MemoryWriters => <<"agent-memory">> \in keys
    /\ o[1] \in {"issueDeviceToken", "touchDevice", "revokeDeviceToken"} =>
           <<"devices", "owned">> \in keys
    /\ o[1] \in {"assignDeviceToPlaylist", "unassignDeviceFromPlaylist"} =>
           <<"devices", "assignments">> \in keys /\ <<"playlists">> \in keys
    /\ o[1] = "handleCommand" =>
           <<"playlists", "session">> \in keys /\ <<"house", "sessions">> \in keys
    /\ o[1] # "moveRoom"

Heeded(f) == \A o \in DOMAIN f : o \in DOMAIN Writes /\ Heeds(o, f[o])

LEMMA JoinedHeeded ==
    ASSUME NEW f, NEW g, Heeded(f), Heeded(g)
    PROVE  Heeded(f ++ g)
BY Joined DEF Heeded

LEMMA HooksHeeded == Heeded(Hooks)
<1>1. Heeded(SettingHooks)
    <2>1. Performs(SettingWrites, {"set"}, {None})
        BY WritingPerforms DEF SettingWrites
    <2>2. <<"set", None>> \in DOMAIN Writes
        BY <2>1, InWrites DEF Performs, Within
    <2> QED
        BY <2>2 DEF Heeded, Heeds, SettingHooks, RowWriters, SongWriters, ChatWriters,
                    MemoryWriters
<1>2. Heeded(ControlHooks)
    <2>1. Performs(Writing({"issueDeviceToken", "touchDevice", "revokeDeviceToken"}, {None},
                           {"devices"}, <<>>),
                   {"issueDeviceToken", "touchDevice", "revokeDeviceToken"}, {None})
        BY WritingPerforms
    <2>2. /\ Within(Writing({"issueDeviceToken", "touchDevice", "revokeDeviceToken"}, {None},
                            {"devices"}, <<>>), DeviceWrites)
          /\ Within([o \in {"assignDeviceToPlaylist", "unassignDeviceFromPlaylist"}
                          \X Playlists |-> Write({"assigned"}, None, <<>>)], DeviceWrites)
        BY DEF DeviceWrites, Within, ++
    <2>3. /\ {"issueDeviceToken", "touchDevice", "revokeDeviceToken"} \X {None}
                 \subseteq DOMAIN Writes
          /\ {"assignDeviceToPlaylist", "unassignDeviceFromPlaylist"} \X Playlists
                 \subseteq DOMAIN Writes
        BY <2>1, <2>2, InWrites DEF Performs, Within
    <2>4. {"handleCommand"} \X Playlists \subseteq DOMAIN Writes
        <3>1. Performs(RoomWrites, {"handleCommand", "moveRoom"}, Playlists)
            BY WritingPerforms DEF RoomWrites
        <3> QED
            BY <3>1, InWrites DEF Performs, Within
    <2> USE DEF Heeded, Heeds, RowWriters, SongWriters, ChatWriters, MemoryWriters
    <2>5. Heeded([o \in {"issueDeviceToken", "revokeDeviceToken"} \X {None} |->
                     {<<"devices", "owned">>, <<"devices", "assignments">>}])
        BY <2>3
    <2>6. Heeded([o \in {<<"touchDevice", None>>} |-> {<<"devices", "owned">>}])
        BY <2>3
    <2>7. Heeded([o \in {"assignDeviceToPlaylist", "unassignDeviceFromPlaylist"}
                       \X Playlists |->
                     {<<"devices", "assignments">>, <<"devices", "owned">>, <<"playlists">>}])
        BY <2>3
    <2>8. Heeded([o \in {"handleCommand"} \X Playlists |->
                     {<<"playlists", "session">>, <<"house", "sessions">>}])
        BY <2>4
    <2> HIDE DEF Heeded, Heeds, RowWriters, SongWriters, ChatWriters, MemoryWriters
    <2> QED
        BY <2>5, <2>6, <2>7, <2>8, JoinedHeeded DEF ControlHooks
<1>3. Heeded(PlaylistHooks)
    <2> DEFINE names == {"create", "updateStatus", "updateParams", "steer", "toggleStar",
                         "deletePlaylist", "resetDefaults", "updatePosition", "heartbeat",
                         "reactivate", "incrementGenerated"}
    <2>1. Performs(PlaylistWrites,
                   {"updateParams", "updatePosition", "incrementGenerated", "resetDefaults",
                    "toggleStar", "updateManagerBrief"} \cup {"create"} \cup {"updateStatus"}
                       \cup {"steer"} \cup {"deletePlaylist"} \cup {"heartbeat"}
                       \cup {"reactivate"}, Playlists)
        <3>1. Performs(
                  Writing({"updateParams", "updatePosition", "incrementGenerated",
                           "resetDefaults", "toggleStar", "updateManagerBrief"}, Playlists,
                          {"row"}, <<"playlist.updated">>)
                      ++ Writing({"create"}, Playlists, {"row"}, <<"playlist.created">>)
                      ++ Writing({"updateStatus"}, Playlists, {"row"},
                                 <<"playlist.status_changed">>),
                  {"updateParams", "updatePosition", "incrementGenerated", "resetDefaults",
                   "toggleStar", "updateManagerBrief"} \cup {"create"} \cup {"updateStatus"},
                  Playlists)
            BY JoinedPerforms, WritingPerforms, Zenon
        <3> QED
            BY <3>1, JoinedPerforms, WritingPerforms, Zenon DEF PlaylistWrites
    <2>2. names \X Playlists \subseteq DOMAIN PlaylistWrites
        BY <2>1 DEF Performs
    <2>3. names \X Playlists \subseteq DOMAIN Writes
        BY <2>2, InWrites DEF Within
    <2>4. Heeded([o \in {"create", "updateStatus", "updateParams", "steer", "toggleStar",
                         "deletePlaylist", "resetDefaults", "updatePosition"} \X Playlists |->
                     {<<"playlists">>}])
        BY <2>3 DEF Heeded, Heeds, RowWriters, SongWriters, ChatWriters, MemoryWriters
    <2>5. Heeded([o \in {"heartbeat", "reactivate", "incrementGenerated"} \X Playlists |-> {}])
        BY <2>3 DEF Heeded, Heeds
    <2> QED
        BY <2>4, <2>5, JoinedHeeded DEF PlaylistHooks
<1>4. Heeded(AgentHooks)
    <2>1. Performs(DirectorWrites, {"postHumanChat"} \cup {"postHumanDirection"}
                                       \cup {"answerDirectorQuestion"}, Playlists)
        BY JoinedPerforms, WritingPerforms, Zenon DEF DirectorWrites
    <2>2. {"postHumanChat", "postHumanDirection", "answerDirectorQuestion"} \X Playlists
              \subseteq DOMAIN Writes
        BY <2>1, InWrites DEF Performs, Within
    <2>3. Performs(Writing({"writeMemory", "updateMemory", "deleteMemory", "markMemoryUsed"},
                           Playlists \cup {None}, {"memory"}, <<"agent.memory_updated">>),
                   {"writeMemory", "updateMemory", "deleteMemory", "markMemoryUsed"},
                   Playlists \cup {None})
        BY WritingPerforms
    <2>4. /\ Within(Writing({"writeMemory", "updateMemory", "deleteMemory", "markMemoryUsed"},
                            Playlists \cup {None}, {"memory"}, <<"agent.memory_updated">>),
                    MemoryWrites)
          /\ Within([o \in {"globalizeMemory"} \X Playlists |->
                        [changes |-> {"memory"} \X {o[2], None},
                         says    |-> <<<<"agent.memory_updated", None>>>>]], MemoryWrites)
        BY DEF MemoryWrites, Within, ++
    <2>5. /\ {"updateMemory", "deleteMemory"} \X (Playlists \cup {None}) \subseteq DOMAIN Writes
          /\ {"globalizeMemory"} \X Playlists \subseteq DOMAIN Writes
        BY <2>3, <2>4, InWrites DEF Performs, Within
    <2> USE DEF Heeded, Heeds, RowWriters, SongWriters, ChatWriters, MemoryWriters
    <2>6. Heeded([o \in {"postHumanChat", "postHumanDirection"} \X Playlists |->
                     {<<"agent-chat", "messages", o[2]>>, <<"agent-chat", "state", o[2]>>,
                      <<"playlists">>}])
        BY <2>2
    <2>7. Heeded([o \in {"answerDirectorQuestion"} \X Playlists |->
                     {<<"agent-chat", "messages", o[2]>>, <<"agent-chat", "state", o[2]>>}])
        BY <2>2
    <2>8. Heeded([o \in {"updateMemory", "deleteMemory"} \X (Playlists \cup {None}) |->
                     {<<"agent-memory">>}])
        BY <2>5
    <2>9. Heeded([o \in {"globalizeMemory"} \X Playlists |-> {<<"agent-memory">>}])
        BY <2>5
    <2> HIDE DEF Heeded, Heeds, RowWriters, SongWriters, ChatWriters, MemoryWriters
    <2> QED
        BY <2>6, <2>7, <2>8, <2>9, JoinedHeeded DEF AgentHooks
<1>5. Heeded(SongHooks)
    <2> DEFINE names == {"updateSongStatus", "createPending", "createWithMetadata", "rateSong",
                         "reorderSong", "reindexPlaylist", "deleteSong", "revertTransient",
                         "touch", "updatePersonaExtract", "updateAceTask", "updateCover",
                         "updateStoragePath", "markReady", "addPlayDuration",
                         "incrementListenCount"}
    <2>1. Performs(SongWrites,
                   {"createPending", "createWithMetadata"}
                       \cup {"claimMetadata", "claimAudio", "completeMetadata",
                             "updateSongStatus", "updateAceTask", "markReady", "markError",
                             "retryErrored", "revertTransient"}
                       \cup {"revertAllTransient", "recoverPlaylist", "rateSong",
                             "updateMetadata", "updateCover"}
                       \cup {"deleteSong"} \cup {"reorderSong", "reindexPlaylist"}
                       \cup {"touch", "updateStoragePath", "updateAceAudioPath",
                             "updateAudioDuration", "updateCoverProcessingMs",
                             "updatePersonaExtract", "incrementListenCount",
                             "addPlayDuration"}, Playlists)
        BY JoinedPerforms, WritingPerforms, Zenon DEF SongWrites
    <2>2. names \X Playlists \subseteq DOMAIN SongWrites
        BY <2>1 DEF Performs
    <2>3. names \X Playlists \subseteq DOMAIN Writes
        BY <2>2, InWrites DEF Within
    <2>4. Heeded([o \in {"updateSongStatus", "createPending", "createWithMetadata", "rateSong",
                         "reorderSong", "reindexPlaylist", "deleteSong", "revertTransient",
                         "touch"} \X Playlists |-> {<<"songs">>}])
        BY <2>3 DEF Heeded, Heeds, RowWriters, SongWriters, ChatWriters, MemoryWriters
    <2>5. Heeded([o \in {"updatePersonaExtract", "updateAceTask", "updateCover",
                         "updateStoragePath", "markReady", "addPlayDuration",
                         "incrementListenCount"} \X Playlists |-> {}])
        BY <2>3 DEF Heeded, Heeds
    <2> QED
        BY <2>4, <2>5, JoinedHeeded DEF SongHooks
<1> QED
    BY <1>1, <1>2, <1>3, <1>4, <1>5, JoinedHeeded DEF Hooks

\* Who follows a table hears of its changes with the answer to the page's own request.
LEMMA AnswerIsHeard ==
    ASSUME NEW q \in Queries, NEW o \in DOMAIN Hooks, Hooks[o] # {},
           NEW t \in Writes[o].changes, t \in FollowsOwn(q)
    PROVE  \E k \in Hooks[o] : IsPrefix(k, q)
<1>1. /\ KnownQuery(q, Reads[q])
      /\ IsPrefix(<<q[1]>>, q) /\ IsPrefix(<<q[1], q[2]>>, q) /\ IsPrefix(q, q)
    BY QueriesKnown, QueryHasPrefixes DEF Known, Queries
<1>2. t \in Reads[q]
    BY DEF FollowsOwn, FollowsAll
<1>3. o \in DOMAIN Writes /\ Heeds(o, Hooks[o])
    BY HooksHeeded DEF Heeded
<1>4. WritesKind(o[1], t[1]) /\ (t[1] = "chat" => t[2] = o[2])
    BY <1>3, WritesAnnounced DEF Announced, AnnouncedBy, WrittenBy
<1>5. CASE q[1] = "settings"
    <2>1. t[1] = "settings"
        BY <1>1, <1>5 DEF FollowsOwn, FollowsAll, KnownQuery
    <2>2. <<"settings">> \in Hooks[o]
        BY <1>3, <1>4, <2>1 DEF WritesKind, Heeds
    <2> QED
        BY <1>1, <1>5, <2>2
<1>6. CASE q[1] = "playlists"
    <2>1. \/ t[1] = "row"
          \/ t[1] = "room" /\ q[2] = "session"
          \/ t[1] = "assigned"
        BY <1>6 DEF FollowsOwn, FollowsAll
    <2>2. \/ <<"playlists">> \in Hooks[o]
          \/ q[2] = "session" /\ <<"playlists", "session">> \in Hooks[o]
        BY <1>3, <1>4, <2>1 DEF WritesKind, Heeds
    <2> QED
        BY <1>1, <1>6, <2>2
<1>7. CASE q[1] = "songs"
    <2>1. t[1] = "songs"
        BY <1>1, <1>7 DEF FollowsOwn, FollowsAll, KnownQuery
    <2>2. <<"songs">> \in Hooks[o]
        BY <1>3, <1>4, <2>1 DEF WritesKind, Heeds
    <2> QED
        BY <1>1, <1>7, <2>2
<1>8. CASE q[1] = "agent-chat"
    <2>1. t[1] = "chat"
        BY <1>1, <1>8 DEF FollowsOwn, FollowsAll, KnownQuery
    <2>2. /\ <<"agent-chat", "messages", t[2]>> \in Hooks[o]
          /\ <<"agent-chat", "state", t[2]>> \in Hooks[o]
        BY <1>3, <1>4, <2>1 DEF WritesKind, Heeds
    <2>3. q \in {<<"agent-chat", "messages", t[2]>>, <<"agent-chat", "state", t[2]>>}
        BY <1>1, <1>2, <1>8, <2>1 DEF KnownQuery
    <2> QED
        BY <1>1, <2>2, <2>3
<1>9. CASE q[1] = "agent-memory"
    <2>1. t[1] = "memory"
        BY <1>1, <1>9 DEF FollowsOwn, FollowsAll, KnownQuery
    <2>2. <<"agent-memory">> \in Hooks[o]
        BY <1>3, <1>4, <2>1 DEF WritesKind, Heeds
    <2> QED
        BY <1>1, <1>9, <2>2
<1>10. CASE q[1] = "devices"
    <2>1. t[1] \in {"devices", "assigned"}
        BY <1>1, <1>10 DEF FollowsOwn, FollowsAll, KnownQuery
    <2>2. q = IF t[1] = "devices" THEN <<"devices", "owned">> ELSE <<"devices", "assignments">>
        BY <1>1, <1>2, <1>10, <2>1 DEF KnownQuery
    <2>3. q \in Hooks[o]
        BY <1>3, <1>4, <2>1, <2>2 DEF WritesKind, Heeds
    <2> QED
        BY <1>1, <2>3
<1>11. CASE q[1] = "house"
    <2>1. t[1] = "room" /\ q = <<"house", "sessions">>
        BY <1>1, <1>11 DEF FollowsOwn, FollowsAll, KnownQuery
    <2>2. q \in Hooks[o]
        BY <1>3, <1>4, <2>1 DEF WritesKind, Heeds
    <2> QED
        BY <1>1, <2>2
<1> QED
    <2>1. ASSUME q[1] \notin {"settings", "playlists", "songs", "agent-chat", "agent-memory",
                              "devices", "house"}
          PROVE  FALSE
        BY <1>1, <2>1 DEF FollowsOwn, FollowsAll, KnownQuery
    <2> QED
        BY <1>5, <1>6, <1>7, <1>8, <1>9, <1>10, <1>11, <2>1

-----------------------------------------------------------------------------
(* The inductive invariant.                                                *)

Keys == {RoutingKey(e) : e \in Spoken}

Types ==
    /\ query \in Queries
    /\ mail \in Seq(Keys)
    /\ planning # NoList => planning.list \in Playlists
    /\ \A c \in behind \cup unread : c.mine \in BOOLEAN
    /\ ~cached => behind = {}
    /\ fetch # "read" => unread = {}

Followed(c) == c.what \in IF c.mine THEN FollowsOwn(query) ELSE FollowsAll(query)

\* The page will hear of the change.
Comes(c) ==
    IF c.mine
    THEN \E k \in request : IsPrefix(k, query)
    ELSE \/ \E i \in DOMAIN mail : mail[i] \in Messages(c.what)
         \/ planning # NoList /\ c.what = <<"row", planning.list>>

\* What is shown lacks a change only until the page has heard of it, and then until the
\* query is fetched anew.
BehindComes ==
    \A c \in behind : Followed(c) =>
        \/ c \in excused \/ Comes(c)
        \/ fetch # "idle"
        \/ invalid /\ ~shown

\* What will be shown lacks a change only until the page has heard of it.
UnreadComes == \A c \in unread : Followed(c) => c \in excused \/ Comes(c)

PageInv == Types /\ BehindComes /\ UnreadComes

-----------------------------------------------------------------------------
(* Changes.                                                                *)

LEMMA MailGrows ==
    ASSUME mail \in Seq(Keys), NEW told \in Seq(Keys), mail' = mail \o told
    PROVE  /\ mail' \in Seq(Keys)
           /\ \A i \in DOMAIN mail : i \in DOMAIN mail' /\ mail'[i] = mail[i]
           /\ \A i \in DOMAIN told : \E j \in DOMAIN mail' : mail'[j] = told[i]
<1>1. /\ Len(mail) \in Nat /\ Len(told) \in Nat
      /\ DOMAIN mail = 1..Len(mail) /\ DOMAIN told = 1..Len(told)
    BY LenProperties
<1>2. /\ mail' \in Seq(Keys)
      /\ Len(mail') = Len(mail) + Len(told)
      /\ \A i \in 1..(Len(mail) + Len(told)) :
            mail'[i] = IF i <= Len(mail) THEN mail[i] ELSE told[i - Len(mail)]
    BY ConcatProperties
<1>3. DOMAIN mail' = 1..(Len(mail) + Len(told))
    BY <1>2, LenProperties
<1>4. ASSUME NEW i \in DOMAIN told
      PROVE  i + Len(mail) \in DOMAIN mail' /\ mail'[i + Len(mail)] = told[i]
    BY <1>1, <1>2, <1>3
<1>5. \A i \in DOMAIN told : \E j \in DOMAIN mail' : mail'[j] = told[i]
    BY <1>4
<1>6. \A i \in DOMAIN mail : i \in DOMAIN mail' /\ mail'[i] = mail[i]
    BY <1>1, <1>2, <1>3
<1> QED
    BY <1>2, <1>5, <1>6

LEMMA ChangedType ==
    ASSUME Types, NEW tables, NEW mine \in BOOLEAN, NEW events \in Seq(Spoken),
           Changed(tables, mine, events), UNCHANGED <<query, cached, fetch>>
    PROVE  /\ mail' \in Seq(Keys)
           /\ \A c \in behind' \cup unread' : c.mine \in BOOLEAN
           /\ ~cached' => behind' = {}
           /\ fetch' # "read" => unread' = {}
           /\ \A c \in behind' \cup unread' :
                  c \in behind \cup unread \/ (c.mine = mine /\ c.what \in tables)
           /\ \A c \in behind' : c \in behind \/ (c.mine = mine /\ c.what \in tables)
           /\ \A c \in unread' : c \in unread \/ (c.mine = mine /\ c.what \in tables)
           /\ \A i \in DOMAIN mail : i \in DOMAIN mail' /\ mail'[i] = mail[i]
           /\ excused \subseteq excused'
           /\ \A i \in DOMAIN events : events[i][1] \in Forwarded =>
                  \/ \E j \in DOMAIN mail' : mail'[j] = RoutingKey(events[i])
                  \/ \A c \in (behind' \ behind) \cup (unread' \ unread) :
                         ~c.mine /\ RoutingKey(events[i]) \in Messages(c.what) => c \in excused'
<1> DEFINE new == [what : tables \cap Reads[query], mine : {mine}]
           told == Kept(events, {i \in DOMAIN events : events[i][1] \in Forwarded})
           keys == [i \in DOMAIN told |-> RoutingKey(told[i])]
<1>1. /\ behind' = IF cached THEN behind \cup new ELSE behind
      /\ unread' = IF fetch = "read" THEN unread \cup new ELSE unread
      /\ IF online THEN mail' = mail \o keys /\ excused' = excused
         ELSE mail' = mail /\ excused' = excused \cup Lost(keys, new)
    BY DEF Changed
<1>2. \A c \in new : c.mine = mine /\ c.what \in tables
    OBVIOUS
<1>3. /\ told \in Seq(Spoken)
      /\ Items(told) = {events[k] : k \in {i \in DOMAIN events : events[i][1] \in Forwarded}}
    <2>1. {i \in DOMAIN events : events[i][1] \in Forwarded} \in SUBSET DOMAIN events
        OBVIOUS
    <2> QED
        BY <2>1, KeptIsSubsequence
<1> HIDE DEF told, new
<1>4. keys \in Seq(Keys) /\ DOMAIN keys = DOMAIN told
    <2>1. /\ Len(told) \in Nat /\ DOMAIN told = 1..Len(told)
          /\ \A i \in DOMAIN told : told[i] \in Spoken
        BY <1>3, LenProperties, ElementOfSeq
    <2>2. \A i \in 1..Len(told) : RoutingKey(told[i]) \in Keys
        BY <2>1 DEF Keys
    <2> QED
        BY <2>1, <2>2, IsASeq
<1>5. /\ mail' \in Seq(Keys)
      /\ \A i \in DOMAIN mail : i \in DOMAIN mail' /\ mail'[i] = mail[i]
      /\ online => \A i \in DOMAIN keys : \E j \in DOMAIN mail' : mail'[j] = keys[i]
    <2> HIDE DEF keys
    <2>1. CASE online
        BY <1>1, <1>4, <2>1, MailGrows DEF Types
    <2>2. CASE ~online
        BY <1>1, <2>2 DEF Types
    <2> QED
        BY <2>1, <2>2
<1>6. ASSUME NEW i \in DOMAIN events, events[i][1] \in Forwarded
      PROVE  \/ \E j \in DOMAIN mail' : mail'[j] = RoutingKey(events[i])
             \/ \A c \in (behind' \ behind) \cup (unread' \ unread) :
                    ~c.mine /\ RoutingKey(events[i]) \in Messages(c.what) => c \in excused'
    <2>1. PICK n \in DOMAIN told : told[n] = events[i]
        BY <1>3, <1>6 DEF Items
    <2>2. n \in DOMAIN keys /\ keys[n] = RoutingKey(events[i])
        BY <2>1
    <2>3. CASE online
        BY <1>5, <2>2, <2>3
    <2>4. CASE ~online
        <3>1. ASSUME NEW c \in (behind' \ behind) \cup (unread' \ unread),
                     ~c.mine, RoutingKey(events[i]) \in Messages(c.what)
              PROVE  c \in excused'
            <4>1. c \in new
                BY <1>1
            <4>2. c \in Lost(keys, new)
                BY <2>2, <3>1, <4>1 DEF Lost
            <4> QED
                BY <1>1, <2>4, <4>2
        <3> QED
            BY <3>1
    <2> QED
        BY <2>3, <2>4
<1>7. excused \subseteq excused'
    BY <1>1
<1> QED
    BY <1>1, <1>2, <1>5, <1>6, <1>7 DEF Types

\* What was on its way still is.
LEMMA ChangedKeeps ==
    ASSUME Types, NEW tables, NEW mine \in BOOLEAN, NEW events \in Seq(Spoken),
           Changed(tables, mine, events), UNCHANGED <<query, cached, fetch>>,
           planning # NoList => planning' = planning,
           \A k \in request : k \in request',
           NEW c, Comes(c)
    PROVE  Comes(c)'
<1>1. \A i \in DOMAIN mail : i \in DOMAIN mail' /\ mail'[i] = mail[i]
    BY ChangedType
<1>2. CASE c.mine
    BY <1>2 DEF Comes
<1>3. CASE ~c.mine /\ \E i \in DOMAIN mail : mail[i] \in Messages(c.what)
    BY <1>1, <1>3 DEF Comes
<1>4. CASE ~c.mine /\ planning # NoList /\ c.what = <<"row", planning.list>>
    BY <1>4 DEF Comes
<1> QED
    BY <1>2, <1>3, <1>4 DEF Comes

\* A change that is on its way, or is excused, keeps the invariant.
LEMMA ChangeKeeps ==
    ASSUME PageInv, NEW tables, NEW mine \in BOOLEAN, NEW events \in Seq(Spoken),
           Changed(tables, mine, events),
           UNCHANGED <<query, shown, cached, fetch, invalid, online>>,
           planning # NoList => planning' = planning,
           planning' # NoList => planning'.list \in Playlists,
           \A k \in request : k \in request',
           \A c : c.mine = mine /\ c.what \in tables /\ Followed(c)
                     /\ c \in (behind' \ behind) \cup (unread' \ unread) =>
                        c \in excused' \/ Comes(c)'
    PROVE  PageInv'
<1>1. Types'
    BY ChangedType DEF PageInv, Types
<1>2. \A c : Followed(c)' <=> Followed(c)
    BY DEF Followed
<1>3. ASSUME NEW c \in unread', Followed(c)
      PROVE  c \in excused' \/ Comes(c)'
    <2>1. CASE c \in unread
        <3>1. c \in excused \/ Comes(c)
            BY <1>3, <2>1 DEF PageInv, UnreadComes
        <3>2. CASE c \in excused
            BY <3>2, ChangedType DEF PageInv
        <3>3. CASE Comes(c)
            <4>1. Comes(c)'
                BY <3>3, ChangedKeeps DEF PageInv
            <4> QED
                BY <4>1
        <3> QED
            BY <3>1, <3>2, <3>3
    <2>2. CASE c \notin unread
        <3>1. c.mine = mine /\ c.what \in tables
            BY <2>2, ChangedType DEF PageInv
        <3> QED
            BY <1>3, <2>2, <3>1
    <2> QED
        BY <2>1, <2>2
<1>4. ASSUME NEW c \in behind', Followed(c)
      PROVE  \/ c \in excused' \/ Comes(c)'
             \/ fetch' # "idle"
             \/ invalid' /\ ~shown'
    <2>1. CASE c \in behind
        <3>1. \/ c \in excused \/ Comes(c)
              \/ fetch # "idle"
              \/ invalid /\ ~shown
            BY <1>4, <2>1 DEF PageInv, BehindComes
        <3>2. CASE c \in excused
            BY <3>2, ChangedType DEF PageInv
        <3>3. CASE Comes(c)
            <4>1. Comes(c)'
                BY <3>3, ChangedKeeps DEF PageInv
            <4> QED
                BY <4>1
        <3>4. CASE fetch # "idle" \/ (invalid /\ ~shown)
            BY <3>4
        <3> QED
            BY <3>1, <3>2, <3>3, <3>4
    <2>2. CASE c \notin behind
        <3>1. c.mine = mine /\ c.what \in tables
            BY <2>2, ChangedType DEF PageInv
        <3> QED
            BY <1>4, <2>2, <3>1
    <2> QED
        BY <2>1, <2>2
<1>5. BehindComes' /\ UnreadComes'
    BY <1>2, <1>3, <1>4 DEF BehindComes, UnreadComes
<1> QED
    BY <1>1, <1>5 DEF PageInv

LEMMA WriteType ==
    ASSUME NEW o \in DOMAIN Writes
    PROVE  /\ Writes[o].says \in Seq(Spoken)
           /\ \A t \in Writes[o].changes : t[1] \in ToldKinds =>
                  \E i \in DOMAIN Writes[o].says : Tells(Writes[o].says[i], t)
BY WritesAnnounced DEF Announced, AnnouncedBy

LEMMA FollowedAreTold ==
    ASSUME NEW q \in Queries, NEW t \in FollowsAll(q)
    PROVE  t[1] \in ToldKinds
BY QueriesKnown DEF FollowsAll, ToldKinds

LEMMA HappensKeeps ==
    ASSUME PageInv, NEW o \in DOMAIN Writes, Happens(o)
    PROVE  PageInv'
<1> DEFINE w == Writes[o]
<1>1. /\ Changed(w.changes, FALSE, w.says)
      /\ UNCHANGED <<query, shown, cached, fetch, invalid, online, request, planning>>
    BY DEF Happens, cache
<1>2. /\ w.says \in Seq(Spoken)
      /\ \A t \in w.changes : t[1] \in ToldKinds => \E i \in DOMAIN w.says : Tells(w.says[i], t)
    BY WriteType
<1> HIDE DEF w
<1>3. ASSUME NEW c, c.mine = FALSE, c.what \in w.changes, Followed(c),
             c \in (behind' \ behind) \cup (unread' \ unread)
      PROVE  c \in excused' \/ Comes(c)'
    <2>1. query \in Queries /\ c.what \in FollowsAll(query)
        BY <1>3 DEF Followed, PageInv, Types
    <2>2. PICK i \in DOMAIN w.says : Tells(w.says[i], c.what)
        BY <1>2, <1>3, <2>1, FollowedAreTold
    <2>3. w.says[i] \in Spoken
        BY <1>2, ElementOfSeq, LenProperties
    <2>4. w.says[i][1] \in Forwarded /\ RoutingKey(w.says[i]) \in Messages(c.what)
        BY <2>1, <2>2, <2>3, EventIsPassedOn, FollowedAreTold
    <2>5. \/ \E j \in DOMAIN mail' : mail'[j] = RoutingKey(w.says[i])
          \/ c \in excused'
        BY <1>1, <1>2, <1>3, <2>4, ChangedType DEF PageInv
    <2> QED
        BY <1>3, <2>4, <2>5 DEF Comes
<1> QED
    BY <1>1, <1>2, <1>3, ChangeKeeps DEF PageInv, Types

LEMMA AskKeeps ==
    ASSUME PageInv, NEW o \in DOMAIN Hooks, Ask(o)
    PROVE  PageInv'
<1> DEFINE w == Writes[o]
<1>1. /\ Changed(w.changes, TRUE, w.says)
      /\ request = {} /\ Hooks[o] # {} /\ request' = Hooks[o]
      /\ UNCHANGED <<query, shown, cached, fetch, invalid, online, planning>>
    BY DEF Ask, cache
<1>2. o \in DOMAIN Writes
    BY HooksHeeded DEF Heeded
<1>3. w.says \in Seq(Spoken)
    BY <1>2, WriteType
<1>4. ASSUME NEW c, c.mine = TRUE, c.what \in w.changes, Followed(c)
      PROVE  Comes(c)'
    <2>1. query \in Queries /\ c.what \in FollowsOwn(query)
        BY <1>4 DEF Followed, PageInv, Types
    <2>2. \E k \in Hooks[o] : IsPrefix(k, query)
        BY <1>1, <1>4, <2>1, AnswerIsHeard
    <2> QED
        BY <1>1, <1>4, <2>2 DEF Comes
<1> HIDE DEF w
<1> QED
    BY <1>1, <1>3, <1>4, ChangeKeeps DEF PageInv, Types

LEMMA CreateUnannouncedKeeps ==
    ASSUME PageInv, NEW p \in Playlists, NEW mine \in BOOLEAN, CreateUnannounced(p, mine)
    PROVE  PageInv'
<1>1. /\ Changed({<<"row", p>>}, mine, <<>>)
      /\ planning = NoList /\ planning' = [list |-> p, mine |-> mine]
      /\ mine => request = {}
      /\ request' = IF mine THEN PlaylistHooks[<<"create", p>>] ELSE request
      /\ UNCHANGED <<query, shown, cached, fetch, invalid, online>>
    BY DEF CreateUnannounced, cache
<1>2. planning'.list = p /\ planning' # NoList
    BY <1>1, QueryCacheAssumption, PlaylistsAssumption DEF NoList
<1>3. PlaylistHooks[<<"create", p>>] = {<<"playlists">>}
    BY DEF PlaylistHooks, ++
<1>4. ASSUME NEW c, c.mine = mine, c.what \in {<<"row", p>>}, Followed(c)
      PROVE  Comes(c)'
    <2>1. CASE mine
        <3>1. query \in Queries /\ <<"row", p>> \in FollowsOwn(query)
            BY <1>4, <2>1 DEF Followed, PageInv, Types
        <3>2. KnownQuery(query, Reads[query]) /\ IsPrefix(<<query[1]>>, query)
            BY <3>1, QueriesKnown, QueryHasPrefixes DEF Known, Queries
        <3>3. query[1] = "playlists"
            BY <3>1, <3>2 DEF FollowsOwn, FollowsAll, KnownQuery
        <3> QED
            BY <1>1, <1>3, <1>4, <2>1, <3>2, <3>3 DEF Comes
    <2>2. CASE ~mine
        BY <1>1, <1>2, <1>4, <2>2 DEF Comes
    <2> QED
        BY <2>1, <2>2
<1>5. <<>> \in Seq(Spoken)
    OBVIOUS
<1> QED
    BY <1>1, <1>2, <1>4, <1>5, ChangeKeeps DEF PageInv, Types

LEMMA AnnounceCreatedKeeps ==
    ASSUME PageInv, AnnounceCreated
    PROVE  PageInv'
<1> DEFINE key == RoutingKey(<<"playlist.created", planning.list>>)
<1>1. /\ planning # NoList /\ planning' = NoList
      /\ IF online THEN mail' = Append(mail, key) /\ excused' = excused
         ELSE /\ mail' = mail
              /\ excused' = excused \cup {c \in behind \cup unread :
                                             ~c.mine /\ c.what = <<"row", planning.list>>}
      /\ UNCHANGED <<query, shown, cached, behind, fetch, unread, invalid, online, request>>
    BY DEF AnnounceCreated, cache
<1>2. key \in Keys /\ key = <<"playlists">>
    <2>1. <<"playlist.created", planning.list>> \in Spoken
        BY <1>1 DEF Spoken, EventNames, PlaylistEvents, PageInv, Types
    <2> QED
        BY <2>1 DEF Keys, RoutingKey, SongEvents, PlaylistEvents
<1> HIDE DEF key
<1>3. /\ mail' \in Seq(Keys)
      /\ \A i \in DOMAIN mail : i \in DOMAIN mail' /\ mail'[i] = mail[i]
      /\ online => \E i \in DOMAIN mail' : mail'[i] = key
    <2>1. CASE online
        <3>1. Append(mail, key) \in Seq(Keys) /\ Len(mail) \in Nat
            BY <1>2, AppendProperties, LenProperties DEF PageInv, Types
        <3>2. /\ DOMAIN mail = 1..Len(mail) /\ DOMAIN mail' = 1..(Len(mail) + 1)
              /\ \A i \in 1..Len(mail) : mail'[i] = mail[i]
              /\ mail'[Len(mail) + 1] = key
            BY <1>1, <1>2, <2>1, <3>1, AppendProperties, LenProperties DEF PageInv, Types
        <3> QED
            BY <1>1, <2>1, <3>1, <3>2
    <2>2. CASE ~online
        BY <1>1, <2>2 DEF PageInv, Types
    <2> QED
        BY <2>1, <2>2
<1>4. ASSUME NEW c \in behind \cup unread, Followed(c), Comes(c)
      PROVE  c \in excused' \/ Comes(c)'
    <2>1. CASE c.mine
        BY <1>1, <1>4, <2>1 DEF Comes
    <2>2. CASE ~c.mine /\ \E i \in DOMAIN mail : mail[i] \in Messages(c.what)
        BY <1>3, <2>2 DEF Comes
    <2>3. CASE ~c.mine /\ c.what = <<"row", planning.list>>
        <3>1. key \in Messages(c.what)
            BY <1>2, <2>3 DEF Messages
        <3>2. CASE online
            BY <1>3, <2>3, <3>1, <3>2 DEF Comes
        <3>3. CASE ~online
            BY <1>1, <1>4, <2>3, <3>3
        <3> QED
            BY <3>2, <3>3
    <2> QED
        BY <1>4, <2>1, <2>2, <2>3 DEF Comes
<1>5. Types'
    BY <1>1, <1>3 DEF PageInv, Types
<1>6. excused \subseteq excused' /\ \A c : Followed(c)' <=> Followed(c)
    BY <1>1 DEF Followed
<1>7. BehindComes' /\ UnreadComes'
    BY <1>1, <1>4, <1>6 DEF PageInv, BehindComes, UnreadComes
<1> QED
    BY <1>5, <1>7 DEF PageInv

-----------------------------------------------------------------------------
(* What the page makes of what it hears.                                   *)

LEMMA Heard ==
    ASSUME Types, NEW keys, Invalidate(keys), UNCHANGED <<query, shown, cached, behind>>
    PROVE  /\ unread' \subseteq unread
           /\ fetch' # "read" => unread' = {}
           /\ excused \subseteq excused'
           /\ fetch # "idle" => fetch' # "idle"
           /\ invalid => invalid'
           /\ (\E k \in keys : IsPrefix(k, query)) =>
                  /\ behind # {} => fetch' # "idle" \/ (invalid' /\ ~shown')
                  /\ unread' \subseteq excused'
<1>1. CASE (\E k \in keys : IsPrefix(k, query)) /\ (shown \/ cached \/ fetch # "idle")
    BY <1>1 DEF Invalidate, Types
<1>2. CASE ~(\E k \in keys : IsPrefix(k, query))
    BY <1>2 DEF Invalidate, Types
<1>3. CASE ~(shown \/ cached \/ fetch # "idle")
    BY <1>3 DEF Invalidate, Types
<1> QED
    BY <1>1, <1>2, <1>3

\* What was on its way still is, or has been heard.
LEMMA HeardKeeps ==
    ASSUME PageInv, NEW keys, Invalidate(keys),
           UNCHANGED <<query, shown, cached, behind, planning>>, mail' \in Seq(Keys),
           \A c : Followed(c) /\ Comes(c) => Comes(c)' \/ \E k \in keys : IsPrefix(k, query)
    PROVE  PageInv'
<1>1. Types'
    BY Heard DEF PageInv, Types
<1>2. \A c : Followed(c)' <=> Followed(c)
    BY DEF Followed
<1>3. ASSUME NEW c \in unread', Followed(c)
      PROVE  c \in excused' \/ Comes(c)'
    BY <1>3, Heard DEF PageInv, UnreadComes
<1>4. ASSUME NEW c \in behind', Followed(c)
      PROVE  \/ c \in excused' \/ Comes(c)'
             \/ fetch' # "idle"
             \/ invalid' /\ ~shown'
    <2>1. c \in behind /\ behind # {}
        BY <1>4
    <2> QED
        BY <1>4, <2>1, Heard DEF PageInv, BehindComes
<1>5. BehindComes' /\ UnreadComes'
    BY <1>2, <1>3, <1>4 DEF BehindComes, UnreadComes
<1> QED
    BY <1>1, <1>5 DEF PageInv

LEMMA DeliverKeeps ==
    ASSUME PageInv, Deliver
    PROVE  PageInv'
<1>1. /\ mail # <<>> /\ mail' = Tail(mail)
      /\ Invalidate(Invalidated(Head(mail)))
      /\ UNCHANGED <<query, shown, cached, behind, request, planning>>
    BY DEF Deliver, cache
<1>2. /\ Len(mail) \in Nat \ {0} /\ DOMAIN mail = 1..Len(mail)
      /\ mail' \in Seq(Keys) /\ Len(mail') = Len(mail) - 1
      /\ \A i \in 1..Len(mail') : mail'[i] = mail[i + 1]
      /\ Head(mail) = mail[1]
    BY <1>1, EmptySeq, LenProperties, HeadTailProperties DEF PageInv, Types
<1>3. DOMAIN mail' = 1..(Len(mail) - 1)
    BY <1>2, LenProperties
<1>4. ASSUME NEW c, Followed(c), Comes(c)
      PROVE  Comes(c)' \/ \E k \in Invalidated(Head(mail)) : IsPrefix(k, query)
    <2>1. CASE c.mine
        BY <1>1, <1>4, <2>1 DEF Comes
    <2>2. CASE ~c.mine /\ \E i \in DOMAIN mail : mail[i] \in Messages(c.what)
        <3>1. PICK i \in DOMAIN mail : mail[i] \in Messages(c.what)
            BY <2>2
        <3>2. CASE i = 1
            <4>1. query \in Queries /\ c.what \in FollowsAll(query)
                BY <1>4, <2>2 DEF Followed, PageInv, Types
            <4> QED
                BY <1>2, <3>1, <3>2, <4>1, MessageIsHeard DEF Hears
        <3>3. CASE i # 1
            <4>1. i - 1 \in DOMAIN mail' /\ mail'[i - 1] = mail[i]
                BY <1>2, <1>3, <3>1, <3>3
            <4> QED
                BY <2>2, <3>1, <4>1 DEF Comes
        <3> QED
            BY <3>2, <3>3
    <2>3. CASE ~c.mine /\ planning # NoList /\ c.what = <<"row", planning.list>>
        BY <1>1, <2>3 DEF Comes
    <2> QED
        BY <1>4, <2>1, <2>2, <2>3 DEF Comes
<1> QED
    BY <1>1, <1>2, <1>4, HeardKeeps

LEMMA AnsweredKeeps ==
    ASSUME PageInv, Answered
    PROVE  PageInv'
<1>1. /\ request' = {} /\ Invalidate(request)
      /\ UNCHANGED <<query, shown, cached, behind, mail, planning>>
    BY DEF Answered, cache
<1>2. ASSUME NEW c, Comes(c)
      PROVE  Comes(c)' \/ \E k \in request : IsPrefix(k, query)
    <2>1. CASE c.mine
        BY <1>2, <2>1 DEF Comes
    <2>2. CASE ~c.mine
        BY <1>1, <1>2, <2>2 DEF Comes
    <2> QED
        BY <2>1, <2>2
<1>3. mail' \in Seq(Keys)
    BY <1>1 DEF PageInv, Types
<1> QED
    BY <1>1, <1>2, <1>3, HeardKeeps

-----------------------------------------------------------------------------
(* The steps that tell nobody of a change and hear of none.                *)

LEMMA Elsewhere ==
    ASSUME UNCHANGED <<query, mail, request, planning>>
    PROVE  \A c : (Followed(c)' <=> Followed(c)) /\ (Comes(c)' <=> Comes(c))
BY DEF Followed, Comes

LEMMA QueryKeeps ==
    ASSUME PageInv, Serve \/ Mount \/ Unmount \/ Collect \/ Refetch \/ Arrive \/ GiveUp \/ Connect
    PROVE  PageInv'
<1>1. UNCHANGED <<query, mail, request, planning>>
    BY DEF Serve, Mount, Unmount, Collect, Refetch, Arrive, GiveUp, Connect, cache
<1>2. Types'
    BY <1>1 DEF PageInv, Types, Serve, Mount, Unmount, Collect, Refetch, Arrive, GiveUp, Connect,
                cache
<1>3. ASSUME NEW c \in unread', Followed(c)
      PROVE  c \in excused' \/ Comes(c)
    BY <1>3 DEF PageInv, UnreadComes, Types, Serve, Mount, Unmount, Collect, Refetch, Arrive,
                GiveUp, Connect, cache
<1>4. ASSUME NEW c \in behind', Followed(c)
      PROVE  \/ c \in excused' \/ Comes(c)
             \/ fetch' # "idle"
             \/ invalid' /\ ~shown'
    <2>1. CASE Arrive
        BY <1>4, <2>1 DEF PageInv, UnreadComes, Arrive
    <2>2. CASE Serve \/ Collect \/ GiveUp \/ Refetch
        BY <1>4, <2>2 DEF PageInv, BehindComes, Serve, Collect, GiveUp, Refetch, cache
    <2>3. CASE Mount \/ Unmount \/ Connect
        BY <1>4, <2>3 DEF PageInv, BehindComes, Mount, Unmount, Connect, cache
    <2> QED
        BY <2>1, <2>2, <2>3
<1>5. BehindComes' /\ UnreadComes'
    BY <1>1, <1>3, <1>4, Elsewhere DEF BehindComes, UnreadComes
<1> QED
    BY <1>2, <1>5 DEF PageInv

LEMMA DropKeeps ==
    ASSUME PageInv, Drop
    PROVE  PageInv'
<1>1. /\ mail' = <<>>
      /\ excused' = excused \cup Lost(mail, behind \cup unread)
      /\ UNCHANGED <<query, shown, cached, behind, fetch, unread, invalid, request, planning>>
    BY DEF Drop, cache
<1>2. mail' \in Seq(Keys)
    BY <1>1
<1>3. ASSUME NEW c \in behind \cup unread, Comes(c)
      PROVE  c \in excused' \/ Comes(c)'
    BY <1>1, <1>3 DEF Comes, Lost
<1>4. excused \subseteq excused' /\ \A c : Followed(c)' <=> Followed(c)
    BY <1>1 DEF Followed
<1>5. BehindComes' /\ UnreadComes'
    BY <1>1, <1>3, <1>4 DEF PageInv, BehindComes, UnreadComes
<1> QED
    BY <1>1, <1>2, <1>5 DEF PageInv, Types

LEMMA AnswerLostKeeps ==
    ASSUME PageInv, AnswerLost
    PROVE  PageInv'
<1>1. /\ excused' = excused \cup {c \in behind \cup unread : c.mine}
      /\ UNCHANGED <<query, shown, cached, behind, fetch, unread, invalid, mail, planning>>
    BY DEF AnswerLost, cache
<1>2. ASSUME NEW c \in behind \cup unread, Comes(c)
      PROVE  c \in excused' \/ Comes(c)'
    BY <1>1, <1>2 DEF Comes
<1>3. excused \subseteq excused' /\ \A c : Followed(c)' <=> Followed(c)
    BY <1>1 DEF Followed
<1>4. BehindComes' /\ UnreadComes'
    BY <1>1, <1>2, <1>3 DEF PageInv, BehindComes, UnreadComes
<1> QED
    BY <1>1, <1>4 DEF PageInv, Types

-----------------------------------------------------------------------------
(* What the page promises.                                                 *)

\* Whatever is behind or unread is on its way to the page, from the change to the
\* fetch that makes up for it.
THEOREM PageInvariance == PageSpec => []PageInv
<1>1. PageInit => PageInv
    BY DEF PageInit, PageInv, Types, BehindComes, UnreadComes
<1>2. PageInv /\ PageNext => PageInv'
    BY HappensKeeps, AskKeeps, CreateUnannouncedKeeps, AnnounceCreatedKeeps, DeliverKeeps,
       AnsweredKeeps, QueryKeeps, DropKeeps, AnswerLostKeeps DEF PageNext
<1>3. PageInv /\ UNCHANGED pageVars => PageInv'
    BY DEF pageVars, cache, PageInv, Types, BehindComes, UnreadComes, Followed, Comes
<1> QED
    BY <1>1, <1>2, <1>3, PTL DEF PageSpec

\* The services' events, the bridge's routing keys and the keys provider.tsx invalidates fit
\* together for every operation and every query: a page at rest shows what others changed.
THEOREM PageShowsOthers == PageSpec => []OthersChangesShow
<1>1. PageInv => OthersChangesShow
    BY EmptySeq DEF PageInv, BehindComes, Followed, Comes, OthersChangesShow, Quiet
<1> QED
    BY <1>1, PageInvariance, PTL

\* The keys of every hook's onSuccess reach every query that follows what the hook's
\* request changes: a page at rest shows what it changed itself.
THEOREM PageShowsOwn == PageSpec => []OwnChangesShow
<1>1. PageInv => OwnChangesShow
    BY DEF PageInv, BehindComes, Followed, Comes, OwnChangesShow, Quiet
<1> QED
    BY <1>1, PageInvariance, PTL
===============================================================================

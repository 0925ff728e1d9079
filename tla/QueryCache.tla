----------------------------- MODULE QueryCache -----------------------------
(***************************************************************************)
(* One query of a page of the web interface: what its cache holds of what  *)
(* the server has, and every path by which it hears that this is old: the  *)
(* events of the server over the WebSocket bridge, the answers to the      *)
(* page's own requests, intervals, and the returns of the user.  React     *)
(* Query keeps queries apart, so one stands for each of them; the query is *)
(* chosen at the start.  The content of a table is how it differs from     *)
(* what the cache holds.                                                   *)
(***************************************************************************)
EXTENDS PlaylistIds, Naturals, Sequences, SequencesExt, QueueOrder

CONSTANT MaxChanges   \* bound on the changes of the server's tables

ASSUME QueryCacheAssumption == MaxChanges \in Nat

-----------------------------------------------------------------------------
\* Two of the tables below in one.
f ++ g == [x \in DOMAIN f \cup DOMAIN g |-> IF x \in DOMAIN f THEN f[x] ELSE g[x]]

(* The queries, by their keys, and the tables their answers are made of,   *)
(* each for one playlist or for None.  "row" and "songs" are the columns   *)
(* somebody announces, "seen" and "plays" those nobody does, "gone" is     *)
(* what the database deletes with a playlist.                              *)

SettingQueries ==
  [q \in {<<"settings", "all">>, <<"settings", "key">>} |-> {<<"settings", None>>}]

ControlQueries ==
  [q \in {<<"devices", "owned">>} |-> {<<"devices", None>>}]
    ++ [q \in {<<"devices", "assignments">>} |->
          {<<"assigned", None>>} \cup {"gone"} \X Playlists]
    ++ [q \in {<<"house", "sessions">>} |-> {"row", "room", "songs"} \X Playlists]
    ++ [q \in {"playlists"} \X {"session"} \X Playlists |->
          {"row", "room", "songs"} \X {q[3]}]
    ++ [q \in {"playlists"} \X {"devices"} \X Playlists |->
          {<<"assigned", None>>} \cup {"row", "room"} \X {q[3]}]

PlaylistQueries ==
  [q \in {"playlists"} \X {"all", "current", "closed"} |-> {"row", "seen"} \X Playlists]
    ++ [q \in {"playlists"} \X {"get", "by-key"} \X Playlists |->
          {"row", "seen"} \X {q[3]}]

AgentQueries ==
  [q \in {"agent-chat"} \X {"messages", "state"} \X Playlists |-> {"chat", "gone"} \X {q[3]}]
    ++ [q \in {"agent-memory"} \X {"playlist"} \X Playlists |->
          {<<"memory", None>>} \cup {"memory", "gone"} \X {q[3]}]

SongQueries ==
  [q \in {"songs"} \X {"queue"} \X Playlists |-> {"songs", "plays", "gone"} \X {q[3]}]
    ++ [q \in {"songs"} \X {"all", "batch"} |-> {"songs", "plays", "gone"} \X Playlists]

WorkerQueries ==
  [q \in {<<"worker", "status">>} |-> {<<"work", None>>} \cup {"row"} \X Playlists]

Reads == SettingQueries ++ ControlQueries ++ PlaylistQueries ++ AgentQueries
           ++ SongQueries ++ WorkerQueries

Queries == DOMAIN Reads

\* Queries with a refetchInterval.
Polled == {q \in Queries : q[1] \in {"agent-chat", "agent-memory", "worker"}}

-----------------------------------------------------------------------------
(* What the operations of the server's services change, and the events     *)
(* they emit, by their names and playlists.                                *)

Write(kinds, p, events) ==
  [changes |-> kinds \X {p}, says |-> [i \in DOMAIN events |-> <<events[i], p>>]]

\* Each of the operations, on each of the playlists.
Writing(names, playlists, kinds, events) ==
  [o \in names \X playlists |-> Write(kinds, o[2], events)]

SettingWrites == Writing({"set"}, {None}, {"settings"}, <<"settings.changed">>)

\* "reactivate" is a heartbeat that finds its playlist closing.
PlaylistWrites ==
  Writing({"updateParams", "updatePosition", "incrementGenerated", "resetDefaults",
           "toggleStar", "updateManagerBrief"}, Playlists, {"row"}, <<"playlist.updated">>)
    ++ Writing({"create"}, Playlists, {"row"}, <<"playlist.created">>)
    ++ Writing({"updateStatus"}, Playlists, {"row"}, <<"playlist.status_changed">>)
    ++ Writing({"steer"}, Playlists, {"row"}, <<"playlist.steered">>)
    ++ Writing({"deletePlaylist"}, Playlists, {"row", "gone"}, <<"playlist.deleted">>)
    ++ Writing({"heartbeat"}, Playlists, {"seen"}, <<"playlist.heartbeat">>)
    ++ Writing({"reactivate"}, Playlists, {"row", "seen"},
               <<"playlist.heartbeat", "playlist.status_changed">>)

\* "touch" is the revert of a song that is being saved, which only restarts its age.
SongWrites ==
  Writing({"createPending", "createWithMetadata"}, Playlists, {"songs"}, <<"song.created">>)
    ++ Writing({"claimMetadata", "claimAudio", "completeMetadata", "updateSongStatus",
                "updateAceTask", "markReady", "markError", "retryErrored",
                "revertTransient"}, Playlists, {"songs"}, <<"song.status_changed">>)
    ++ Writing({"revertAllTransient", "recoverPlaylist", "rateSong", "updateMetadata",
                "updateCover"}, Playlists, {"songs"}, <<"song.metadata_updated">>)
    ++ Writing({"deleteSong"}, Playlists, {"songs"}, <<"song.deleted">>)
    ++ Writing({"reorderSong", "reindexPlaylist"}, Playlists, {"songs"},
               <<"song.reordered">>)
    ++ Writing({"touch", "updateStoragePath", "updateAceAudioPath", "updateAudioDuration",
                "updateCoverProcessingMs", "updatePersonaExtract", "incrementListenCount",
                "addPlayDuration"}, Playlists, {"plays"}, <<>>)

ChannelWrites == Writing({"postChannelMessage", "markChannelQuestionAnswered"}, Playlists,
                         {"chat"}, <<"agent.chat_message">>)

\* A direction is a message of a user that steers the playlist.
DirectorWrites ==
  Writing({"postHumanChat"}, Playlists, {"chat"}, <<"agent.chat_message">>)
    ++ Writing({"postHumanDirection"}, Playlists, {"chat", "row"},
               <<"agent.chat_message", "playlist.steered", "agent.chat_message">>)
    ++ Writing({"answerDirectorQuestion"}, Playlists, {"chat"},
               <<"agent.chat_message", "agent.chat_message", "playlist.updated">>)

\* A memory has the scope of a playlist or of None; "globalizeMemory" is an update that
\* takes it from the one to the other, and is announced for its new scope only.
MemoryWrites ==
  Writing({"writeMemory", "updateMemory", "deleteMemory", "markMemoryUsed"},
          Playlists \cup {None}, {"memory"}, <<"agent.memory_updated">>)
    ++ [o \in {"globalizeMemory"} \X Playlists |->
          [changes |-> {"memory"} \X {o[2], None},
           says    |-> <<<<"agent.memory_updated", None>>>>]]

DeviceWrites ==
  Writing({"issueDeviceToken", "touchDevice", "revokeDeviceToken"}, {None}, {"devices"}, <<>>)
    ++ [o \in {"assignDeviceToPlaylist", "unassignDeviceFromPlaylist"} \X Playlists |->
          Write({"assigned"}, None, <<>>)]

\* A command, a player or a join changes a room; the queues of the worker move.
RoomWrites == Writing({"handleCommand", "moveRoom"}, Playlists, {"room"}, <<>>)
WorkerMoves == Writing({"workerMoves"}, {None}, {"work"}, <<>>)

Writes == SettingWrites ++ PlaylistWrites ++ SongWrites ++ ChannelWrites
            ++ DirectorWrites ++ MemoryWrites ++ DeviceWrites ++ RoomWrites ++ WorkerMoves

-----------------------------------------------------------------------------
(* From an event to the keys that are invalidated.                         *)

SongEvents == {"song.created", "song.status_changed", "song.deleted",
               "song.metadata_updated", "song.reordered"}
PlaylistEvents == {"playlist.created", "playlist.steered", "playlist.status_changed",
                   "playlist.updated", "playlist.heartbeat", "playlist.deleted"}

\* The events startWsBridge subscribes to.
Forwarded ==
  (SongEvents \cup PlaylistEvents
     \cup {"agent.chat_message", "agent.memory_updated", "settings.changed"})
    \ {"playlist.heartbeat"}

RoutingKey(event) ==
  CASE event[1] \in SongEvents -> <<"songs", event[2]>>
    [] event[1] \in PlaylistEvents -> <<"playlists">>
    [] event[1] = "settings.changed" -> <<"settings">>
    [] event[1] = "agent.chat_message" -> <<"agent-chat", event[2]>>
    [] event[1] = "agent.memory_updated" ->
         IF event[2] = None THEN <<"agent-memory">> ELSE <<"agent-memory", event[2]>>

\* Mutant of Invalidated: the list of all songs is forgotten.
InvalidatedButAll(key) ==
  CASE key[1] = "songs" ->
         {<<"songs", "queue", key[2]>>, <<"songs", "by-playlist", key[2]>>,
          <<"worker", "status">>}
    [] key[1] = "agent-chat" ->
         {<<"agent-chat", "messages", key[2]>>, <<"agent-chat", "state", key[2]>>}
    [] key[1] = "agent-memory" -> {<<"agent-memory">>}
    [] OTHER -> {key}

\* What the page invalidates for a message of the bridge.
Invalidated(key) ==
  CASE key[1] = "songs" ->
         {<<"songs", "queue", key[2]>>, <<"songs", "by-playlist", key[2]>>,
          <<"songs", "all">>, <<"worker", "status">>}
    [] key[1] = "agent-chat" ->
         {<<"agent-chat", "messages", key[2]>>, <<"agent-chat", "state", key[2]>>}
    [] key[1] = "agent-memory" -> {<<"agent-memory">>}
    [] OTHER -> {key}

(* What the page invalidates when a request of its own was answered, by    *)
(* the operation the request leads to.                                     *)

SettingHooks == [o \in {<<"set", None>>} |-> {<<"settings">>}]

\* Mutant of ControlHooks: an assignment invalidates the devices only.
ControlHooksNoAssignments ==
  [o \in {"issueDeviceToken", "touchDevice", "revokeDeviceToken"} \X {None} |->
     {<<"devices", "owned">>}]
    ++ [o \in {"assignDeviceToPlaylist", "unassignDeviceFromPlaylist"} \X Playlists |->
          {<<"devices", "owned">>, <<"playlists">>}]
    ++ [o \in {"handleCommand"} \X Playlists |->
          {<<"playlists", "session">>, <<"house", "sessions">>}]

ControlHooks ==
  [o \in {"issueDeviceToken", "revokeDeviceToken"} \X {None} |->
     {<<"devices", "owned">>, <<"devices", "assignments">>}]
    ++ [o \in {<<"touchDevice", None>>} |-> {<<"devices", "owned">>}]
    ++ [o \in {"assignDeviceToPlaylist", "unassignDeviceFromPlaylist"} \X Playlists |->
          {<<"devices", "assignments">>, <<"devices", "owned">>, <<"playlists">>}]
    ++ [o \in {"handleCommand"} \X Playlists |->
          {<<"playlists", "session">>, <<"house", "sessions">>}]

PlaylistHooks ==
  [o \in {"create", "updateStatus", "updateParams", "steer", "toggleStar", "deletePlaylist",
          "resetDefaults", "updatePosition"} \X Playlists |-> {<<"playlists">>}]
    ++ [o \in {"heartbeat", "reactivate", "incrementGenerated"} \X Playlists |-> {}]

AgentHooks ==
  [o \in {"postHumanChat", "postHumanDirection"} \X Playlists |->
     {<<"agent-chat", "messages", o[2]>>, <<"agent-chat", "state", o[2]>>, <<"playlists">>}]
    ++ [o \in {"answerDirectorQuestion"} \X Playlists |->
          {<<"agent-chat", "messages", o[2]>>, <<"agent-chat", "state", o[2]>>}]
    ++ [o \in {"updateMemory", "deleteMemory"} \X (Playlists \cup {None}) |->
          {<<"agent-memory">>}]
    ++ [o \in {"globalizeMemory"} \X Playlists |-> {<<"agent-memory">>}]

SongHooks ==
  [o \in {"updateSongStatus", "createPending", "createWithMetadata", "rateSong",
          "reorderSong", "reindexPlaylist", "deleteSong", "revertTransient", "touch"}
           \X Playlists |-> {<<"songs">>}]
    ++ [o \in {"updatePersonaExtract", "updateAceTask", "updateCover", "updateStoragePath",
               "markReady", "addPlayDuration", "incrementListenCount"} \X Playlists |-> {}]

Hooks == SettingHooks ++ ControlHooks ++ PlaylistHooks ++ AgentHooks ++ SongHooks

-----------------------------------------------------------------------------
VARIABLES
  query,      \* the query that is looked at
  shown,      \* whether a component that uses it is mounted in a visible page
  cached,     \* whether the cache has an answer
  behind,     \* changes the answer in the cache lacks
  fetch,      \* "idle", "sent", or "read": the server has made the answer
  unread,     \* changes made after that answer was
  invalid,    \* isInvalidated
  online,  \* whether the page's socket is up
  mail,       \* routing keys under way to the page
  request,    \* keys the answer to its own request will invalidate, or {}
  planning,   \* [list, mine] of a playlist that is announced when it has a plan, or NoList
  changes,    \* history: how many changes there were
  excused     \* history: changes whose messages are lost, or whose fetch was given up

pageVars == <<query, shown, cached, behind, fetch, unread, invalid, online, mail, request,
              planning, changes, excused>>
cache == <<query, shown, cached>>

Changes == [what : UNION {Reads[q] : q \in Queries}, mine : BOOLEAN]

\* No playlist is being planned.
NoList == [list |-> None, mine |-> FALSE]

PageInit ==
  /\ query \in Queries
  /\ shown = FALSE
  /\ cached = FALSE
  /\ behind = {}
  /\ fetch = "idle"
  /\ unread = {}
  /\ invalid = FALSE
  /\ online = FALSE
  /\ mail = <<>>
  /\ request = {}
  /\ planning = NoList
  /\ changes = 0
  /\ excused = {}

-----------------------------------------------------------------------------
(* The server.                                                             *)

\* The messages that tell of changes of a table.
Messages(table) ==
  CASE table[1] = "settings" -> {<<"settings">>}
    [] table[1] = "row" -> {<<"playlists">>}
    [] table[1] = "songs" -> {<<"songs", table[2]>>}
    [] table[1] = "chat" -> {<<"agent-chat", table[2]>>}
    [] table[1] = "memory" -> {<<"agent-memory">>, <<"agent-memory", table[2]>>}
    [] OTHER -> {}

\* The changes of others that messages tell of, which are lost.
Lost(messages, among) ==
  {c \in among : ~c.mine /\ \E i \in DOMAIN messages : messages[i] \in Messages(c.what)}

\* The tables change.  The page can only be told of it while it is connected, and of
\* the events only those the bridge sends on, in their order.
Changed(tables, mine, events) ==
  LET new  == [what : tables \cap Reads[query], mine : {mine}]
      told == Kept(events, {i \in DOMAIN events : events[i][1] \in Forwarded})
      keys == [i \in DOMAIN told |-> RoutingKey(told[i])]
  IN /\ changes < MaxChanges
     /\ changes' = changes + 1
     /\ behind' = IF cached THEN behind \cup new ELSE behind
     /\ unread' = IF fetch = "read" THEN unread \cup new ELSE unread
     /\ IF online
          THEN /\ mail' = mail \o keys
               /\ UNCHANGED excused
          ELSE /\ excused' = excused \cup Lost(keys, new)
               /\ UNCHANGED mail

\* An operation that somebody else asked for, or the server itself, or the page without
\* minding the answer.
Happens(op) ==
  /\ Changed(Writes[op].changes, FALSE, Writes[op].says)
  /\ UNCHANGED <<cache, fetch, invalid, online, request, planning>>

\* The page asks for an operation through one of its hooks, and the server performs it.
Ask(op) ==
  /\ request = {}
  /\ Hooks[op] # {}
  /\ Changed(Writes[op].changes, TRUE, Writes[op].says)
  /\ request' = Hooks[op]
  /\ UNCHANGED <<cache, fetch, invalid, online, planning>>

\* POST /api/playlists with initialDirectorPlan: the playlist is there, but it is not
\* announced nor is the request answered before the director has planned or failed.
CreateUnannounced(p, mine) ==
  /\ planning = NoList
  /\ mine => request = {}
  /\ Changed({<<"row", p>>}, mine, <<>>)
  /\ request' = IF mine THEN PlaylistHooks[<<"create", p>>] ELSE request
  /\ planning' = [list |-> p, mine |-> mine]
  /\ UNCHANGED <<cache, fetch, invalid, online>>

AnnounceCreated ==
  /\ planning # NoList
  /\ IF online
       THEN /\ mail' = Append(mail, RoutingKey(<<"playlist.created", planning.list>>))
            /\ UNCHANGED excused
       ELSE /\ excused' = excused \cup {c \in behind \cup unread :
                                         ~c.mine /\ c.what = <<"row", planning.list>>}
            /\ UNCHANGED mail
  /\ planning' = NoList
  /\ UNCHANGED <<cache, behind, fetch, unread, invalid, online, request, changes>>

\* The server reads the tables for a fetch.
Serve ==
  /\ fetch = "sent"
  /\ fetch' = "read"
  /\ unread' = {}
  /\ excused' = {}
  /\ UNCHANGED <<cache, behind, invalid, online, mail, request, planning, changes>>

-----------------------------------------------------------------------------
(* React Query.                                                            *)

\* invalidateQueries: a query on show that has an answer is fetched anew, and an older
\* fetch is cancelled.  A first fetch is kept, and so is one nobody waits for; its
\* answer then counts as fresh, although it may have been made before the change.
Invalidate(keys) ==
  IF (\E key \in keys : IsPrefix(key, query)) /\ (shown \/ cached \/ fetch # "idle")
    THEN /\ invalid' = TRUE
         /\ IF shown /\ (cached \/ fetch = "idle")
              THEN /\ fetch' = "sent"
                   /\ unread' = {}
                   /\ UNCHANGED excused
              ELSE /\ excused' = excused \cup unread
                   /\ UNCHANGED <<fetch, unread>>
    ELSE UNCHANGED <<fetch, unread, invalid, excused>>

\* A component mounts, or the user comes back: an answer that is younger than
\* staleTime and not invalidated is shown as it is.
Mount ==
  /\ ~shown
  /\ shown' = TRUE
  /\ \/ fetch = "idle" /\ fetch' = "sent"
     \/ (fetch # "idle" \/ (cached /\ ~invalid)) /\ UNCHANGED fetch
  /\ UNCHANGED <<query, cached, behind, unread, invalid, online, mail, request, planning,
                 changes, excused>>

Unmount ==
  /\ shown
  /\ shown' = FALSE
  /\ UNCHANGED <<query, cached, behind, fetch, unread, invalid, online, mail, request,
                 planning, changes, excused>>

\* What nobody has shown for five minutes is dropped.
Collect ==
  /\ ~shown /\ cached /\ fetch = "idle"
  /\ cached' = FALSE
  /\ behind' = {}
  /\ invalid' = FALSE
  /\ excused' = {}
  /\ UNCHANGED <<query, shown, fetch, unread, online, mail, request, planning, changes>>

\* Mutant of Refetch: only while the socket is up.
RefetchConnected ==
  /\ shown /\ fetch = "idle" /\ online
  /\ fetch' = "sent"
  /\ UNCHANGED <<cache, behind, unread, invalid, online, mail, request, planning, changes,
                 excused>>

\* An interval, the focus of the window or its network leads to a fetch.
Refetch ==
  /\ shown /\ fetch = "idle"
  /\ fetch' = "sent"
  /\ UNCHANGED <<cache, behind, unread, invalid, online, mail, request, planning, changes,
                 excused>>

\* The answer arrives.
Arrive ==
  /\ fetch = "read"
  /\ fetch' = "idle"
  /\ cached' = TRUE
  /\ behind' = unread
  /\ unread' = {}
  /\ invalid' = FALSE
  /\ UNCHANGED <<query, shown, online, mail, request, planning, changes, excused>>

\* The fetch fails, with all its retries.
GiveUp ==
  /\ fetch # "idle"
  /\ fetch' = "idle"
  /\ unread' = {}
  /\ excused' = behind
  /\ invalid' \in {invalid, TRUE}
  /\ UNCHANGED <<cache, behind, online, mail, request, planning, changes>>

-----------------------------------------------------------------------------
(* The page.                                                               *)

\* ws.onmessage
Deliver ==
  /\ mail # <<>>
  /\ mail' = Tail(mail)
  /\ Invalidate(Invalidated(Head(mail)))
  /\ UNCHANGED <<cache, behind, online, request, planning, changes>>

\* The socket closes, with what it has not delivered.
Drop ==
  /\ online
  /\ online' = FALSE
  /\ mail' = <<>>
  /\ excused' = excused \cup Lost(mail, behind \cup unread)
  /\ UNCHANGED <<cache, behind, fetch, unread, invalid, request, planning, changes>>

\* ws.onopen; nothing is fetched because of it.
Connect ==
  /\ ~online
  /\ online' = TRUE
  /\ UNCHANGED <<cache, behind, fetch, unread, invalid, mail, request, planning, changes,
                 excused>>

\* createMutation and its like: the answer to a request of the page.
Answered ==
  /\ request # {}
  /\ ~planning.mine
  /\ request' = {}
  /\ Invalidate(request)
  /\ UNCHANGED <<cache, behind, online, mail, planning, changes>>

\* The request was performed, but its answer is lost.
AnswerLost ==
  /\ request # {}
  /\ request' = {}
  /\ excused' = excused \cup {c \in behind \cup unread : c.mine}
  /\ UNCHANGED <<cache, behind, fetch, unread, invalid, online, mail, planning, changes>>

-----------------------------------------------------------------------------
PageNext ==
  \/ \E op \in DOMAIN Writes : Happens(op)
  \/ \E op \in DOMAIN Hooks : Ask(op)
  \/ \E p \in Playlists, mine \in BOOLEAN : CreateUnannounced(p, mine)
  \/ AnnounceCreated
  \/ Serve \/ Mount \/ Unmount \/ Collect \/ Refetch \/ Arrive \/ GiveUp
  \/ Deliver \/ Drop \/ Connect \/ Answered \/ AnswerLost

PageSpec == PageInit /\ [][PageNext]_pageVars

\* The intervals of a query that has one go on; of the fetches that are made again and
\* again not all fail.  Nothing is assumed of the socket.
Fairness ==
  /\ WF_pageVars(query \in Polled /\ Refetch)
  /\ SF_pageVars(Serve)
  /\ SF_pageVars(Arrive)

FairSpec == PageSpec /\ Fairness

-----------------------------------------------------------------------------
(* Properties.                                                             *)

\* Nothing is under way that could still change what is shown.
Quiet ==
  /\ shown /\ cached /\ fetch = "idle"
  /\ mail = <<>> /\ request = {} /\ planning = NoList

\* The tables a query follows whoever changes them.
FollowsAll(q) ==
  Reads[q] \cap
    CASE q[1] = "settings" -> {<<"settings", None>>}
      [] q[1] = "playlists" -> {"row"} \X Playlists
      [] q[1] = "songs" /\ q[2] # "batch" -> {"songs"} \X Playlists
      [] q[1] = "agent-chat" -> {"chat"} \X Playlists
      [] q[1] = "agent-memory" -> {"memory"} \X (Playlists \cup {None})
      [] OTHER -> {}

\* The tables a query follows when the page itself changes them.
FollowsOwn(q) ==
  FollowsAll(q) \cup
    (Reads[q] \cap
       CASE q[1] = "songs" -> {"songs"} \X Playlists
         [] q[1] = "devices" -> {<<"devices", None>>, <<"assigned", None>>}
         [] q[2] = "session" -> {"room"} \X Playlists
         [] q[2] = "devices" -> {<<"assigned", None>>}
         [] q[1] = "house" -> {"room"} \X Playlists
         [] OTHER -> {})

\* A page that is at rest shows every change others made to the tables its query
\* follows (the service emits an event, the bridge forwards it, and provider.tsx
\* invalidates the query), but those it could not be told of, those told to a first
\* fetch or to one nobody waits for, and those whose fetch was given up.
OthersChangesShow ==
  Quiet => {c \in behind : ~c.mine /\ c.what \in FollowsAll(query)} \subseteq excused

\* It shows what its own requests changed, with or without a socket (the keys of its
\* hooks), unless their answers are lost.
OwnChangesShow ==
  Quiet => {c \in behind : c.mine /\ c.what \in FollowsOwn(query)} \subseteq excused

\* A query with an interval that stays on show catches up in the end, whatever happens
\* to the socket ("safety net fallback", useWorkerStatus.ts).
PolledCatchesUp ==
  (query \in Polled /\ <>[]shown) => <>[](cached /\ behind = {})
=============================================================================

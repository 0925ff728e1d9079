------------------------------ MODULE SongStages ------------------------------
(***************************************************************************)
(* What the song pipeline (song-service.ts, worker/song-worker.ts) promises *)
(* a playlist about its songs: only the worker that songWorkers names takes *)
(* a song further, to its end in particular; without it a song only falls   *)
(* back to where its work can begin again; what is done is not taken up     *)
(* again.  SongLifecycle is how one song comes about, PlaylistRuntime goes   *)
(* by no more than this of several.                                        *)
(***************************************************************************)
CONSTANTS
    Songs,
    Renewable       \* whether a new song may have the name of one that is done

VARIABLES
    stage,          \* of each song, as the playlist sees it
    manned          \* whether songWorkers has a worker for it

stages == <<stage, manned>>

\* meta is metadata_ready, flight a status a worker has set, gone error or played.
Unfinished == {"pending", "meta", "flight"}
Waiting == {"pending", "meta"}

StagesInit ==
    /\ stage \in [Songs -> Waiting \cup {"none"}]
    /\ manned = [s \in Songs |-> FALSE]

Stays(s) == stage'[s] = stage[s]

\* createPending()
Created(s) ==
    /\ Renewable /\ stage[s] \notin Unfinished /\ ~manned[s]
    /\ stage'[s] \in Waiting /\ ~manned'[s]

\* revertTransient(), retryErrored()
FallsBack(s) == stage[s] = "flight" /\ stage'[s] \in Waiting

\* spawnSongWorker()
TakenUp(s) ==
    /\ stage[s] \in Unfinished /\ ~manned[s]
    /\ manned'[s] /\ (Stays(s) \/ FallsBack(s))

\* The worker claims its song and passes through the stages.
GoesOn(s) ==
    /\ manned[s] /\ stage[s] \in Unfinished
    /\ manned'[s] /\ stage'[s] \in Unfinished

\* The worker is done, fails, gives up or is cancelled.
Left(s) ==
    /\ manned[s] /\ ~manned'[s]
    /\ \/ Stays(s)
       \/ stage[s] \in Unfinished /\ stage'[s] \in Unfinished \cup {"ready", "gone"}

Reverted(s) == FallsBack(s) /\ manned'[s] = manned[s]

Played(s) == stage[s] = "ready" /\ stage'[s] = "gone" /\ manned'[s] = manned[s]

\* deleteSong(): no worker is given to it any more.
Deleted(s) == stage[s] # "none" /\ stage'[s] = "none" /\ (manned'[s] => manned[s])

Rests(s) == Stays(s) /\ manned'[s] = manned[s]

\* Several songs may move at once, by a sweep, a check or the end of a playlist.
StagesNext ==
    /\ stage' \in [Songs -> Unfinished \cup {"ready", "gone", "none"}]
    /\ manned' \in [Songs -> BOOLEAN]
    /\ \A s \in Songs :
           \/ Rests(s) \/ Created(s) \/ TakenUp(s) \/ GoesOn(s)
           \/ Left(s) \/ Reverted(s) \/ Played(s) \/ Deleted(s)

StagesSpec == StagesInit /\ [][StagesNext]_stages
===============================================================================

--------------------------------- MODULE Player ---------------------------------
(***************************************************************************)
(* What the engine of apps/cli/src/audio/ffplay-engine.ts promises to the  *)
(* daemon that uses it: one song at a time, which is played, paused and    *)
(* over, and is reported to be over once each time it was played to the    *)
(* end.  FfplayEngine is how that is done with processes.                  *)
(***************************************************************************)
EXTENDS Naturals

CONSTANT Songs          \* numbers, in the order of the playlist

ASSUME SongsAssumption == Songs \subseteq Nat \ {0}

VARIABLES
    song,               \* songId
    state               \* whether it is heard

player == <<song, state>>

NoSong == 0

\* "dead" is a song whose program could not be started: nothing is reported of it.
PlayerTypeOK ==
    /\ song \in Songs \cup {NoSong}
    /\ state \in {"none", "scheduled", "playing", "paused", "over", "dead"}
    /\ song = NoSong <=> state = "none"

PlayerInit == song = NoSong /\ state = "none"

-------------------------------------------------------------------------------
\* loadSong(), at once or at a time to come
LoadSong(s, later) == song' = s /\ state' = IF later THEN "scheduled" ELSE "playing"

Play == state' = (IF song = NoSong THEN "none" ELSE "playing") /\ UNCHANGED song

\* What has not started is not paused.
Pause == state' = (IF state = "playing" THEN "paused" ELSE state) /\ UNCHANGED song

Toggle == IF state = "paused" THEN Play ELSE Pause

Seek == state' = (IF state \in {"none", "paused"} THEN state ELSE "playing") /\ UNCHANGED song

\* stop(true)
Stop == song' = NoSong /\ state' = "none"

Starts == state = "scheduled" /\ state' = "playing" /\ UNCHANGED song

\* onEnded()
Ends == state = "playing" /\ state' = "over" /\ UNCHANGED song

Fails == state = "playing" /\ state' = "dead" /\ UNCHANGED song

PlayerNext ==
    \/ Play \/ Pause \/ Toggle \/ Seek \/ Stop \/ Starts \/ Ends \/ Fails
    \/ \E s \in Songs, later \in BOOLEAN : LoadSong(s, later)

PlayerSpec == PlayerInit /\ [][PlayerNext]_player
===============================================================================

------------------------------ MODULE FfplayEngine ------------------------------
(***************************************************************************)
(* apps/cli/src/audio/ffplay-engine.ts: the player of the daemon.  A song  *)
(* is an ffplay process of its own; pausing stops that process, seeking    *)
(* and loading replace it, and its exit is an event that may come late.    *)
(*                                                                         *)
(* Positions in a song are left out, and what remains of pausedAtSec is    *)
(* whether it is set.  A process that is told to terminate while it is     *)
(* stopped never gets to do so: it is forgotten here, and never sounds.    *)
(*                                                                         *)
(* A process has two levels, and what is heard is their product: its own,  *)
(* which it is given as -volume, and the one of its stream in the sound    *)
(* server, which pactl sets and which the server starts at 100 or at the   *)
(* one it remembers for the id that all processes of the engine share.     *)
(***************************************************************************)
EXTENDS Naturals, Integers, FiniteSets

CONSTANTS
    Songs,          \* numbers, in the order of the playlist
    Volumes,        \* levels, in percent
    MaxRetries,     \* liveVolumeRetryAttempts >= 6
    Pids            \* bound: processes whose exit has not been seen

ASSUME EngineAssumption ==
    /\ Songs \subseteq Nat \ {0}
    /\ Volumes \subseteq Nat \ {0} /\ Volumes # {}
    /\ MaxRetries \in Nat
    /\ Pids \subseteq Nat \ {0} /\ Pids # {}

VARIABLES
    ff,             \* the fields of the engine
    os,             \* the processes
    ended           \* onEnded() was called and nothing has been started since

vars == <<ff, os, ended>>

NoSong == 0
NoProcess == 0
Unknown == -1       \* appliedVolumePercent = -1

Levels == Volumes \cup {0}

\* What the level of a stream may be when it is new; what the server remembers is left open.
Remembered == Levels \cup {100}

NoOne == [at |-> "none", term |-> FALSE, own |-> 0, sink |-> 0]

Process ==
    [ at : {"none", "running", "stopped", "exited", "failed"}, term : BOOLEAN,
      own : Levels, sink : Remembered ]

Field ==
    [ song : Songs \cup {NoSong}, process : Pids \cup {NoProcess},
      scheduled : BOOLEAN, paused : BOOLEAN, restart : BOOLEAN,
      volume : Volumes, muted : BOOLEAN, applied : Levels \cup {Unknown},
      retry : BOOLEAN, attempts : 0..MaxRetries ]

TypeOK == ff \in Field /\ os \in [Pids -> Process] /\ ended \in BOOLEAN

Init ==
    /\ \E v \in Volumes :
           ff = [ song |-> NoSong, process |-> NoProcess, scheduled |-> FALSE, paused |-> FALSE,
                  restart |-> FALSE, volume |-> v, muted |-> FALSE, applied |-> v,
                  retry |-> FALSE, attempts |-> 0 ]
    /\ os = [p \in Pids |-> NoOne]
    /\ ended = FALSE

-------------------------------------------------------------------------------
Sounds(p) == os[p].at = "running" /\ ~os[p].term

Heard(p) == Sounds(p) /\ os[p].own # 0 /\ os[p].sink # 0

\* effectiveVolumePercent()
Effective(f) == IF f.muted THEN 0 ELSE f.volume

\* kill("SIGTERM") and expectedExits
Terminated(p) ==
    IF p = NoProcess THEN os
    ELSE [os EXCEPT ![p] = IF @.at = "stopped" THEN NoOne ELSE [@ EXCEPT !.term = TRUE]]

\* stopProcess()
Stopped(f) ==
    [f EXCEPT !.process = NoProcess, !.scheduled = FALSE, !.retry = FALSE, !.attempts = 0]

\* Where a new process is kept: when there is no room, one is forgotten whose exit is
\* expected and will change nothing.
Slot(o) ==
    IF \E p \in Pids : o[p].at = "none"
    THEN CHOOSE p \in Pids : o[p].at = "none"
    ELSE CHOOSE p \in Pids : o[p].term

\* Mutant of Spawns: what was playing goes on.
SpawnsBeside(f) ==
    /\ \E p \in Pids, at \in {"running", "failed"}, sink \in Remembered :
           /\ p = Slot(os)
           /\ os' = [os EXCEPT ![p] = [at |-> at, term |-> FALSE, own |-> Effective(f),
                                       sink |-> sink]]
           /\ ff' = [Stopped(f) EXCEPT !.process = p, !.paused = FALSE, !.restart = FALSE,
                                       !.applied = Effective(f)]
    /\ ended' = FALSE

\* spawnAtOffset(); whether the program can be started turns out later.
Spawns(f) ==
    /\ \E p \in Pids, at \in {"running", "failed"}, sink \in Remembered :
           /\ p = Slot(Terminated(f.process))
           /\ os' = [Terminated(f.process) EXCEPT
                       ![p] = [at |-> at, term |-> FALSE, own |-> Effective(f), sink |-> sink]]
           /\ ff' = [Stopped(f) EXCEPT !.process = p, !.paused = FALSE, !.restart = FALSE,
                                       !.applied = Effective(f)]
    /\ ended' = FALSE

-------------------------------------------------------------------------------
\* What the daemon calls.

\* loadSong(), at once or at a time to come.
LoadSong(s, later) ==
    LET f == [ff EXCEPT !.song = s, !.paused = FALSE, !.restart = FALSE]
    IN IF later
       THEN /\ ff' = [Stopped(f) EXCEPT !.scheduled = TRUE]
            /\ os' = Terminated(f.process)
            /\ ended' = FALSE
       ELSE Spawns(f)

Play ==
    IF ff.song = NoSong \/ (ff.process # NoProcess /\ ~ff.paused)
    THEN UNCHANGED vars
    ELSE IF ff.process = NoProcess \/ ff.restart
    THEN Spawns(ff)
    ELSE /\ ff' = [ff EXCEPT !.paused = FALSE]
         /\ os' = [os EXCEPT ![ff.process].at = IF @ = "stopped" THEN "running" ELSE @]
         /\ UNCHANGED ended

\* Nothing is paused before it has started.
Pause ==
    IF ff.process = NoProcess \/ ff.paused
    THEN UNCHANGED vars
    ELSE /\ ff' = [ff EXCEPT !.paused = TRUE]
         /\ os' = [os EXCEPT ![ff.process].at = IF @ = "running" THEN "stopped" ELSE @]
         /\ UNCHANGED ended

Toggle == IF ff.paused THEN Play ELSE Pause

Seek ==
    IF ff.song = NoSong THEN UNCHANGED vars
    ELSE IF ff.paused
    THEN /\ ff' = [Stopped(ff) EXCEPT !.restart = FALSE]
         /\ os' = Terminated(ff.process)
         /\ UNCHANGED ended
    ELSE Spawns(ff)

\* tryApplyLiveVolume(), and scheduleLiveVolumeRetry() with g when that does not work.
Applies(f, g) ==
    LET reachable == f.process # NoProcess /\ os[f.process].at # "failed"
        same == Effective(f) = f.applied
    IN \/ /\ reachable
          /\ same \/ os[f.process].at = "running"
          /\ ff' = [f EXCEPT !.applied = Effective(f), !.attempts = 0]
          /\ os' = IF same THEN os ELSE [os EXCEPT ![f.process].sink = Effective(f)]
       \/ /\ ~(reachable /\ same)
          /\ ff' = [g EXCEPT !.retry = @ \/ g.attempts < MaxRetries]
          /\ UNCHANGED os

\* Mutant of SetLevel: what is set during a pause is not set by a new process later.
SetLevelLive(v, muted) ==
    LET f == [ff EXCEPT !.volume = v, !.muted = muted]
    IN /\ IF f.song = NoSong \/ f.paused THEN ff' = f /\ UNCHANGED os
          ELSE Applies(f, [f EXCEPT !.applied = Unknown])
       /\ UNCHANGED ended

\* setVolume() and toggleMute()
SetLevel(v, muted) ==
    LET f == [ff EXCEPT !.volume = v, !.muted = muted]
    IN /\ IF f.song = NoSong THEN ff' = f /\ UNCHANGED os
          ELSE IF f.paused THEN ff' = [f EXCEPT !.restart = TRUE] /\ UNCHANGED os
          ELSE Applies(f, [f EXCEPT !.applied = Unknown])
       /\ UNCHANGED ended

SetVolume(v) == SetLevel(v, ff.muted)

ToggleMute == SetLevel(ff.volume, ~ff.muted)

\* stop(true)
Stop ==
    /\ ff' = [Stopped(ff) EXCEPT !.restart = FALSE, !.song = NoSong, !.paused = FALSE]
    /\ os' = Terminated(ff.process)
    /\ ended' = FALSE

-------------------------------------------------------------------------------
\* Timers and processes.

StartTimer == ff.scheduled /\ Spawns(ff)

RetryTimer ==
    /\ ff.retry
    /\ LET f == [ff EXCEPT !.retry = FALSE]
           g == [f EXCEPT !.attempts = @ + 1]
       IN IF f.process = NoProcess \/ f.paused
          THEN ff' = [f EXCEPT !.attempts = 0] /\ UNCHANGED os
          ELSE Applies(g, g)
    /\ UNCHANGED ended

\* A song is over, or its process has died.
PlaysOut(p) ==
    /\ Sounds(p)
    /\ os' = [os EXCEPT ![p].at = "exited"]
    /\ UNCHANGED <<ff, ended>>

\* Whether the exit of p is the end of the song.
EndsSong(p) == ~os[p].term /\ ff.process = p /\ ~ff.paused

\* Mutant of ExitEvent: any exit that was not asked for by a pause is an end.
ExitEventOfAny(p) ==
    /\ os[p].at = "exited" \/ (os[p].at = "running" /\ os[p].term)
    /\ os' = [os EXCEPT ![p] = NoOne]
    /\ ff' = [ff EXCEPT !.process = IF @ = p THEN NoProcess ELSE @]
    /\ ended' = (ended \/ ~ff.paused)

\* The "exit" event of p.
ExitEvent(p) ==
    /\ os[p].at = "exited" \/ (os[p].at = "running" /\ os[p].term)
    /\ os' = [os EXCEPT ![p] = NoOne]
    /\ ff' = [ff EXCEPT !.process = IF @ = p THEN NoProcess ELSE @]
    /\ ended' = (ended \/ EndsSong(p))

\* The "error" event of p: the song is not reported as ended.
ErrorEvent(p) ==
    /\ os[p].at = "failed"
    /\ os' = [os EXCEPT ![p] = NoOne]
    /\ ff' = [ff EXCEPT !.process = IF @ = p THEN NoProcess ELSE @]
    /\ UNCHANGED ended

-------------------------------------------------------------------------------
Next ==
    \/ Play \/ Pause \/ Toggle \/ Seek \/ ToggleMute \/ Stop \/ StartTimer \/ RetryTimer
    \/ \E s \in Songs, later \in BOOLEAN : LoadSong(s, later)
    \/ \E v \in Volumes : SetVolume(v)
    \/ \E p \in Pids : PlaysOut(p) \/ ExitEvent(p) \/ ErrorEvent(p)

Spec == Init /\ [][Next]_vars

\* What the daemon sees of it.
State ==
    IF ff.song = NoSong THEN "none"
    ELSE IF ff.scheduled THEN "scheduled"
    ELSE IF ff.paused THEN "paused"
    ELSE IF ff.process # NoProcess THEN "playing"
    ELSE IF ended THEN "over" ELSE "dead"

P == INSTANCE Player WITH song <- ff.song, state <- State

\* Seen from the daemon the engine is a player: however late the exits of processes
\* come, a song is over once for each time it was played out, and only then.
ImplementsPlayer == P!PlayerSpec

\* Only one process is ever heard, the one the engine would stop.
OneSounds == \A p \in Pids : Sounds(p) => ff.process = p

\* While the engine takes itself to be paused, or waits for the time to start, or has
\* no song, nothing is heard.
PausedIsSilent ==
    ff.paused \/ ff.scheduled \/ ff.song = NoSong => \A p \in Pids : ~Sounds(p)

\* What is muted is not heard, whichever of the two levels did it, whether that was during a
\* pause, before the start or live, and however often the song was changed or the level set
\* since, unless the engine knows that it could not set the level.
MutedIsSilent == ff.muted /\ ff.applied # Unknown => \A p \in Pids : ~Heard(p)
===============================================================================

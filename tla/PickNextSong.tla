----------------------------- MODULE PickNextSong -----------------------------
(***************************************************************************)
(* How a room chooses a song: pickNextSong of packages/shared, without its *)
(* manual mode, which the server never asks for, and pickIdleResumeSong of *)
(* room.ts.  Both return null (None) when nothing can be played.           *)
(***************************************************************************)
EXTENDS Naturals, FiniteSets

CONSTANTS
    Songs,          \* the songs of the playlist
    None,           \* null
    OrderIndex,     \* the place of each song in the playlist
    CreatedAt,      \* when each was asked for
    PromptEpoch,    \* the steering epoch each was asked for in
    Interrupts,     \* the songs asked for to be played at once
    IdleBack        \* IDLE_RESUME_SONGS_FROM_END

ASSUME SongsAssumption ==
    /\ IsFiniteSet(Songs)
    /\ None \notin Songs
    /\ OrderIndex \in [Songs -> Nat]
    /\ CreatedAt \in [Songs -> Nat]
    /\ PromptEpoch \in [Songs -> Nat]
    /\ Interrupts \subseteq Songs
    /\ IdleBack \in Nat

\* candidates.sort((a, b) => rank(a) - rank(b))[0] ?? null
FirstBy(candidates, rank) ==
    IF candidates = {} THEN None
    ELSE CHOOSE s \in candidates : \A t \in candidates : rank[s] <= rank[t]

\* The songs that stand behind the current one in the playlist; none when the
\* current song is unknown.
Ahead(candidates, current) ==
    {s \in candidates : current # None /\ OrderIndex[s] > OrderIndex[current]}

PickAheadFirst(candidates, current) ==
    IF Ahead(candidates, current) # {}
    THEN FirstBy(Ahead(candidates, current), OrderIndex)
    ELSE FirstBy(candidates, OrderIndex)

\* Mutant of PickNext: an interrupt waits for the songs of the epoch.
PickEpochFirst(ready, current, known, epoch) ==
    LET candidates == ready \ {current}
        ofEpoch == {s \in candidates : PromptEpoch[s] = epoch}
    IN  IF ofEpoch # {} THEN PickAheadFirst(ofEpoch, known)
        ELSE PickAheadFirst(candidates, known)

\* Interrupts first, oldest first; then the songs of the current epoch; then any
\* song that is ready.  "known" is the current song if the queue holds it.
PickNext(ready, current, known, epoch) ==
    LET candidates == ready \ {current}
        interrupts == candidates \cap Interrupts
        ofEpoch == {s \in candidates : PromptEpoch[s] = epoch}
    IN  IF interrupts # {} THEN FirstBy(interrupts, CreatedAt)
        ELSE IF ofEpoch # {} THEN PickAheadFirst(ofEpoch, known)
        ELSE PickAheadFirst(candidates, known)

\* What pickNextSong promises.  Of two songs that are ready, t has to come before
\* s: an interrupt before all others, the older one first; then the songs of the
\* current epoch; among equals those ahead of the current song, in the order of
\* the playlist, then the rest.
Precedes(t, s, known, epoch) ==
    LET ofEpoch(x) == PromptEpoch[x] = epoch
        ahead(x) == known # None /\ OrderIndex[x] > OrderIndex[known]
    IN  \/ t \in Interrupts /\ (s \notin Interrupts \/ CreatedAt[t] < CreatedAt[s])
        \/ /\ {s, t} \cap Interrupts = {}
           /\ \/ ofEpoch(t) /\ ~ofEpoch(s)
              \/ ofEpoch(t) = ofEpoch(s) /\ ahead(t) /\ ~ahead(s)
              \/ /\ ofEpoch(t) = ofEpoch(s) /\ ahead(t) = ahead(s)
                 /\ OrderIndex[t] < OrderIndex[s]

\* A room that was idle starts IdleBack places before the last song that is ready.
PickIdleResume(ready) ==
    LET earlyEnough(s) == \E t \in ready : OrderIndex[s] + IdleBack <= OrderIndex[t]
        early == {s \in ready : earlyEnough(s)}
    IN  IF early = {} THEN FirstBy(ready, OrderIndex)
        ELSE CHOOSE s \in early : \A t \in early : OrderIndex[t] <= OrderIndex[s]
===============================================================================

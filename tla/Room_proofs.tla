------------------------------ MODULE Room_proofs ------------------------------
(***************************************************************************)
(* For any number of players, songs, commands, lost connections, restarts  *)
(* and messages under way.                                                 *)
(*                                                                         *)
(* Two lemmas carry the proofs: what updateQueue and what handleSongEnded  *)
(* do to the current song and to the messages sent.  NeverSilent is        *)
(* inductive with the types; ViewIsCurrent is not, and Told follows the    *)
(* last message of each box instead.  PlayedOnce and LockedToRoom hold     *)
(* only while no sync can be under way when the song changes; Quiet is     *)
(* their inductive form, and follows the last song message of each box.    *)
(* Debounced rests on them: Settled adds that no song message is left.     *)
(*                                                                         *)
(* First comes what the choice of a song returns, for every playlist.  Its *)
(* sorts are modelled by the choice of a smallest element, which exists    *)
(* because the playlist is finite: the songs ranked below s are a proper   *)
(* subset of those ranked below t when s is ranked below t, and the proper *)
(* subset ordering is well-founded.                                        *)
(***************************************************************************)
EXTENDS Room, SequenceTheorems, FiniteSetTheorems, WellFoundedInduction, TLAPS

-------------------------------------------------------------------------------
(* The choice of a song. *)

\* There is no endless chain of ever smaller sets of songs.
LEMMA FiniteOrderIsWellFounded ==
    IsWellFoundedOn(StrictSubsetOrdering(Songs), SUBSET Songs)
<1>1. FiniteSubsetsOf(Songs) = SUBSET Songs
    <2>1. IsFiniteSet(Songs)
        BY SongsAssumption
    <2> QED
        BY <2>1, FS_FiniteSubsetsOfFinite, Zenon
<1>2. IsWellFoundedOn(StrictSubsetOrdering(Songs), FiniteSubsetsOf(Songs))
    BY FS_StrictSubsetOrderingWellFounded, Zenon
<1> QED
    BY <1>1, <1>2, Zenon

\* Of songs, one is ranked first.
LEMMA SmallestExists ==
    ASSUME NEW C \in SUBSET Songs, C # {}, NEW rank \in [Songs -> Nat]
    PROVE  \E s \in C : \A t \in C : rank[s] <= rank[t]
<1> DEFINE Below(s) == {t \in C : rank[t] < rank[s]}
           Sets == {Below(s) : s \in C}
           R == StrictSubsetOrdering(Songs)
<1>1. IsWellFoundedOn(R, SUBSET Songs)
    BY FiniteOrderIsWellFounded
<1>2. Sets \subseteq SUBSET Songs /\ Sets # {}
    <2>1. PICK s \in C : TRUE
        OBVIOUS
    <2>2. Below(s) \in Sets
        BY <2>1
    <2>3. \A t \in C : Below(t) \subseteq Songs
        OBVIOUS
    <2> QED
        BY <2>2, <2>3
<1>3. \E x \in Sets : \A y \in Sets : ~(<<y, x>> \in R)
    <2> HIDE DEF Sets, R
    <2> QED
        BY <1>1, <1>2, WFMin
<1>4. PICK s \in C : \A y \in Sets : ~(<<y, Below(s)>> \in R)
    BY <1>3
<1>5. ASSUME NEW t \in C, rank[t] < rank[s]
      PROVE  FALSE
    <2>1. rank[s] \in Nat /\ rank[t] \in Nat
        OBVIOUS
    <2>2. t \in Below(s) /\ t \notin Below(t)
        BY <1>5, <2>1
    <2>3. Below(t) \subseteq Below(s)
        <3> SUFFICES ASSUME NEW u \in C, rank[u] < rank[t]
                     PROVE  rank[u] < rank[s]
            OBVIOUS
        <3>1. rank[u] \in Nat
            OBVIOUS
        <3> QED
            BY <1>5, <2>1, <3>1
    <2>4. Below(t) \in SUBSET Songs /\ Below(s) \in SUBSET Songs /\ Below(t) \in Sets
        OBVIOUS
    <2> HIDE DEF Below, Sets
    <2> QED
        BY <1>4, <2>2, <2>3, <2>4 DEF StrictSubsetOrdering
<1>6. \A t \in C : rank[s] <= rank[t]
    <2> TAKE t \in C
    <2>1. rank[s] \in Nat /\ rank[t] \in Nat
        OBVIOUS
    <2> QED
        BY <1>5, <2>1
<1> QED
    BY <1>6

\* Of songs, one is ranked last.
LEMMA LargestExists ==
    ASSUME NEW C \in SUBSET Songs, C # {}, NEW rank \in [Songs -> Nat]
    PROVE  \E s \in C : \A t \in C : rank[t] <= rank[s]
<1> DEFINE Above(s) == {t \in C : rank[s] < rank[t]}
           Sets == {Above(s) : s \in C}
           R == StrictSubsetOrdering(Songs)
<1>1. IsWellFoundedOn(R, SUBSET Songs)
    BY FiniteOrderIsWellFounded
<1>2. Sets \subseteq SUBSET Songs /\ Sets # {}
    <2>1. PICK s \in C : TRUE
        OBVIOUS
    <2>2. Above(s) \in Sets
        BY <2>1
    <2>3. \A t \in C : Above(t) \subseteq Songs
        OBVIOUS
    <2> QED
        BY <2>2, <2>3
<1>3. \E x \in Sets : \A y \in Sets : ~(<<y, x>> \in R)
    <2> HIDE DEF Sets, R
    <2> QED
        BY <1>1, <1>2, WFMin
<1>4. PICK s \in C : \A y \in Sets : ~(<<y, Above(s)>> \in R)
    BY <1>3
<1>5. ASSUME NEW t \in C, rank[s] < rank[t]
      PROVE  FALSE
    <2>1. rank[s] \in Nat /\ rank[t] \in Nat
        OBVIOUS
    <2>2. t \in Above(s) /\ t \notin Above(t)
        BY <1>5, <2>1
    <2>3. Above(t) \subseteq Above(s)
        <3> SUFFICES ASSUME NEW u \in C, rank[t] < rank[u]
                     PROVE  rank[s] < rank[u]
            OBVIOUS
        <3>1. rank[u] \in Nat
            OBVIOUS
        <3> QED
            BY <1>5, <2>1, <3>1
    <2>4. Above(t) \in SUBSET Songs /\ Above(s) \in SUBSET Songs /\ Above(t) \in Sets
        OBVIOUS
    <2> HIDE DEF Above, Sets
    <2> QED
        BY <1>4, <2>2, <2>3, <2>4 DEF StrictSubsetOrdering
<1>6. \A t \in C : rank[t] <= rank[s]
    <2> TAKE t \in C
    <2>1. rank[s] \in Nat /\ rank[t] \in Nat
        OBVIOUS
    <2> QED
        BY <1>5, <2>1
<1> QED
    BY <1>6

\* The sort's first element is one of the songs, and none is ranked below it.
LEMMA FirstByIsFirst ==
    ASSUME NEW C \in SUBSET Songs, C # {}, NEW rank \in [Songs -> Nat]
    PROVE  /\ FirstBy(C, rank) \in C
           /\ \A t \in C : rank[FirstBy(C, rank)] <= rank[t]
<1>1. \E s \in C : \A t \in C : rank[s] <= rank[t]
    BY SmallestExists
<1> QED
    BY <1>1 DEF FirstBy

\* pickAheadFirst returns one of the songs: one ahead of the current song if there
\* is one, and the first of these; else the first of all.
LEMMA PickAheadFirstIsFirst ==
    ASSUME NEW C \in SUBSET Songs, C # {}, NEW known \in Songs \cup {None}
    PROVE  LET r == PickAheadFirst(C, known)
           IN  /\ r \in C
               /\ \A t \in C : \/ t \in Ahead(C, known) /\ OrderIndex[r] <= OrderIndex[t]
                                  /\ r \in Ahead(C, known)
                               \/ t \notin Ahead(C, known) /\ r \in Ahead(C, known)
                               \/ Ahead(C, known) = {} /\ OrderIndex[r] <= OrderIndex[t]
<1>1. OrderIndex \in [Songs -> Nat]
    BY SongsAssumption
<1>2. Ahead(C, known) \in SUBSET C
    BY DEF Ahead
<1>3. CASE Ahead(C, known) # {}
    BY <1>1, <1>2, <1>3, FirstByIsFirst DEF PickAheadFirst
<1>4. CASE Ahead(C, known) = {}
    BY <1>1, <1>4, FirstByIsFirst DEF PickAheadFirst
<1> QED
    BY <1>3, <1>4

\* pickNextSong returns null just when no song but the current one is ready, and
\* else a song that is ready, that is not the current one, and that no other such
\* song has to come before.
THEOREM PickNextIsRight ==
    ASSUME NEW ready \in SUBSET Songs, NEW cur \in Songs \cup {None},
           NEW known \in Songs \cup {None}, NEW ep \in Nat
    PROVE  LET next == PickNext(ready, cur, known, ep)
           IN  IF ready \ {cur} = {} THEN next = None
               ELSE /\ next \in ready \ {cur}
                    /\ \A t \in ready \ {cur} : ~Precedes(t, next, known, ep)
<1> DEFINE C == ready \ {cur}
           I == C \cap Interrupts
           E == {s \in C : PromptEpoch[s] = ep}
           next == PickNext(ready, cur, known, ep)
<1>0. /\ OrderIndex \in [Songs -> Nat] /\ CreatedAt \in [Songs -> Nat]
      /\ \A s \in Songs : OrderIndex[s] \in Int /\ CreatedAt[s] \in Int
    BY SongsAssumption
<1>1. CASE C = {}
    BY <1>1 DEF PickNext, PickAheadFirst, Ahead, FirstBy
<1>2. CASE I # {}
    <2>1. next = FirstBy(I, CreatedAt)
        BY <1>2 DEF PickNext
    <2>2. next \in I /\ \A t \in I : CreatedAt[next] <= CreatedAt[t]
        <3>1. I \in SUBSET Songs
            OBVIOUS
        <3> HIDE DEF I, next
        <3> QED
            BY <1>0, <1>2, <2>1, <3>1, FirstByIsFirst
    <2>3. \A t \in C : ~Precedes(t, next, known, ep)
        <3> SUFFICES ASSUME NEW t \in C
                     PROVE  ~Precedes(t, next, known, ep)
            OBVIOUS
        <3>1. next \in Interrupts /\ next \in Songs
            BY <2>2
        <3>2. t \in Interrupts => CreatedAt[next] <= CreatedAt[t]
            BY <2>2
        <3> HIDE DEF next
        <3> QED
            BY <1>0, <3>1, <3>2 DEF Precedes
    <2> QED
        BY <1>2, <2>2, <2>3
<1>3. CASE I = {} /\ C # {}
    <2> DEFINE D == IF E # {} THEN E ELSE C
    <2>1. next = PickAheadFirst(D, known)
        BY <1>3 DEF PickNext
    <2>2. D \in SUBSET Songs /\ D # {} /\ D \subseteq C
        BY <1>3
    <2>3. /\ next \in D
          /\ \A t \in D : \/ t \in Ahead(D, known) /\ OrderIndex[next] <= OrderIndex[t]
                             /\ next \in Ahead(D, known)
                          \/ t \notin Ahead(D, known) /\ next \in Ahead(D, known)
                          \/ Ahead(D, known) = {} /\ OrderIndex[next] <= OrderIndex[t]
        <3> HIDE DEF D, next
        <3> QED
            BY <2>1, <2>2, PickAheadFirstIsFirst
    <2>4. \A t \in C : ~Precedes(t, next, known, ep)
        <3> SUFFICES ASSUME NEW t \in C
                     PROVE  ~Precedes(t, next, known, ep)
            OBVIOUS
        <3>1. next \in C /\ t \notin Interrupts /\ next \notin Interrupts
            BY <1>3, <2>2, <2>3
        <3>2. CASE t \in D
            <4>1. (PromptEpoch[t] = ep) = (PromptEpoch[next] = ep)
                BY <1>3, <2>3, <3>2
            <4>2. OrderIndex[t] \in Int /\ OrderIndex[next] \in Int
                BY <1>0, <3>1
            <4> HIDE DEF D, next, C
            <4> QED
                BY <2>3, <3>1, <3>2, <4>1, <4>2 DEF Precedes, Ahead
        <3>3. CASE t \notin D
            <4>1. PromptEpoch[t] # ep /\ PromptEpoch[next] = ep
                BY <2>3, <3>3
            <4> HIDE DEF D, next, C
            <4> QED
                BY <3>1, <4>1 DEF Precedes
        <3> QED
            BY <3>2, <3>3
    <2> QED
        BY <1>3, <2>2, <2>3, <2>4
<1> QED
    BY <1>1, <1>2, <1>3

\* The two cases on their own.
COROLLARY PickNextIsReady ==
    ASSUME NEW ready \in SUBSET Songs, NEW cur \in Songs \cup {None},
           NEW known \in Songs \cup {None}, NEW ep \in Nat
    PROVE  /\ ready \ {cur} = {} => PickNext(ready, cur, known, ep) = None
           /\ ready \ {cur} # {} =>
                  PickNext(ready, cur, known, ep) \in ready \ {cur}
<1> DEFINE next == PickNext(ready, cur, known, ep)
           Right == \A t \in ready \ {cur} : ~Precedes(t, next, known, ep)
<1>1. IF ready \ {cur} = {} THEN next = None ELSE next \in ready \ {cur} /\ Right
    BY PickNextIsRight, Zenon
<1> HIDE DEF next, Right
<1>2. /\ ready \ {cur} = {} => next = None
      /\ ready \ {cur} # {} => next \in ready \ {cur}
    BY <1>1
<1> QED
    BY <1>2 DEF next

COROLLARY PickNextIsFirst ==
    ASSUME NEW ready \in SUBSET Songs, NEW cur \in Songs \cup {None},
           NEW known \in Songs \cup {None}, NEW ep \in Nat
    PROVE  \A t \in ready \ {cur} :
               ~Precedes(t, PickNext(ready, cur, known, ep), known, ep)
<1> DEFINE next == PickNext(ready, cur, known, ep)
           Right == \A t \in ready \ {cur} : ~Precedes(t, next, known, ep)
<1>1. IF ready \ {cur} = {} THEN next = None ELSE next \in ready \ {cur} /\ Right
    BY PickNextIsRight, Zenon
<1>2. ready \ {cur} = {} => Right
    OBVIOUS
<1> HIDE DEF next, Right
<1>3. Right
    BY <1>1, <1>2
<1> QED
    BY <1>3 DEF next, Right

\* pickIdleResumeSong returns null just when no song is ready, and else a song that
\* is ready.
THEOREM PickIdleResumeIsReady ==
    ASSUME NEW ready \in SUBSET Songs
    PROVE  IF ready = {} THEN PickIdleResume(ready) = None
           ELSE PickIdleResume(ready) \in ready
<1> DEFINE early == {s \in ready : \E t \in ready : OrderIndex[s] + IdleBack <= OrderIndex[t]}
<1>1. OrderIndex \in [Songs -> Nat]
    BY SongsAssumption
<1>2. CASE early = {}
    <2>1. PickIdleResume(ready) = FirstBy(ready, OrderIndex)
        BY <1>2 DEF PickIdleResume
    <2> QED
        BY <1>1, <2>1, FirstByIsFirst DEF FirstBy
<1>3. CASE early # {}
    <2>1. PickIdleResume(ready)
            = CHOOSE s \in early : \A t \in early : OrderIndex[t] <= OrderIndex[s]
        BY <1>3 DEF PickIdleResume
    <2>2. early \in SUBSET Songs
        OBVIOUS
    <2>3. \E s \in early : \A t \in early : OrderIndex[t] <= OrderIndex[s]
        <3> HIDE DEF early
        <3> QED
            BY <1>1, <1>3, <2>2, LargestExists
    <2>4. PickIdleResume(ready) \in early
        <3> HIDE DEF early
        <3> QED
            BY <2>1, <2>3
    <2> QED
        BY <1>3, <2>4
<1> QED
    BY <1>2, <1>3

-------------------------------------------------------------------------------
Boxes == [Players -> Seq(ToPlayer)]
Songbook == [Songs -> SongStatus]

-------------------------------------------------------------------------------
(* The operators of the room. *)

\* The messages are of their types.
LEMMA MessageTypes ==
    /\ \A s \in SongOrNone : /\ {State(s), NextSong(s), NextSongAt(s)} \subseteq ToPlayer
                             /\ {Sync(s), SongEnded(s)} \subseteq ToServer
    /\ \A play \in BOOLEAN : Execute(play) \in ToPlayer
    BY DEF State, NextSong, NextSongAt, Sync, SongEnded, Execute, ToPlayer, ToServer

\* A broadcast adds at most one message to each box, and none for those it does
\* not reach.
LEMMA TellRight ==
    ASSUME NEW box \in Boxes, NEW to \in SUBSET Players, NEW m \in ToPlayer
    PROVE  /\ Tell(box, to, m) \in Boxes
           /\ \A p \in Players :
                Tell(box, to, m)[p] = IF p \in to THEN Append(box[p], m) ELSE box[p]
    BY DEF Tell, Boxes

LEMMA TellStateRight ==
    ASSUME NEW box \in Boxes, NEW to \in SUBSET Players, NEW s \in SongOrNone
    PROVE  /\ TellState(box, to, s) \in Boxes
           /\ \A p \in Players :
                TellState(box, to, s)[p] = IF p \in to /\ ~Knows(box, p, s)
                                           THEN Append(box[p], State(s)) ELSE box[p]
<1>1. State(s) \in ToPlayer
    BY MessageTypes
<1> QED
    BY <1>1 DEF TellState, Boxes

\* What is told by a state message is known, and what was known before.
LEMMA TellStateKnown ==
    ASSUME NEW box \in Boxes, NEW to \in SUBSET Players, NEW s \in SongOrNone
    PROVE  \A p \in Players : p \in to \/ Knows(box, p, s) => Knows(TellState(box, to, s), p, s)
<1> SUFFICES ASSUME NEW p \in Players, p \in to \/ Knows(box, p, s)
             PROVE  Knows(TellState(box, to, s), p, s)
    OBVIOUS
<1>1. CASE p \in to /\ ~Knows(box, p, s)
    <2>1. TellState(box, to, s)[p] = Append(box[p], State(s))
        BY <1>1, TellStateRight
    <2>2. box[p] \in Seq(ToPlayer) /\ State(s) \in ToPlayer
        BY MessageTypes DEF Boxes
    <2>3. /\ Append(box[p], State(s)) # <<>>
          /\ Append(box[p], State(s))[Len(Append(box[p], State(s)))] = State(s)
        BY <2>2, AppendProperties
    <2> QED
        BY <2>1, <2>3 DEF Knows
<1>2. CASE ~(p \in to /\ ~Knows(box, p, s))
    <2>1. TellState(box, to, s)[p] = box[p]
        BY <1>2, TellStateRight
    <2> QED
        BY <1>2, <2>1 DEF Knows
<1> QED
    BY <1>1, <1>2

\* So is what is told by a nextSong message.
LEMMA TellKnown ==
    ASSUME NEW box \in Boxes, NEW to \in SUBSET Players, NEW s \in SongOrNone
    PROVE  \A p \in to : Knows(Tell(box, to, NextSongAt(s)), p, s)
<1> SUFFICES ASSUME NEW p \in to
             PROVE  Knows(Tell(box, to, NextSongAt(s)), p, s)
    OBVIOUS
<1>1. box[p] \in Seq(ToPlayer) /\ NextSongAt(s) \in ToPlayer
    BY MessageTypes DEF Boxes
<1>2. Tell(box, to, NextSongAt(s))[p] = Append(box[p], NextSongAt(s))
    BY DEF Tell
<1>3. /\ Append(box[p], NextSongAt(s)) # <<>>
      /\ Append(box[p], NextSongAt(s))[Len(Append(box[p], NextSongAt(s)))] = NextSongAt(s)
    BY <1>1, AppendProperties
<1> QED
    BY <1>2, <1>3 DEF Knows

\* updateQueue starts a song just when the current one is gone and another is ready.
LEMMA AutoStartRight ==
    ASSUME NEW songs \in Songbook, NEW newEpoch \in Nat, NEW cur \in SongOrNone,
           NEW playing \in BOOLEAN
    PROVE  IF (cur # None /\ songs[cur] # "deleted") \/ Ready(songs) = {}
           THEN AutoStart(songs, newEpoch, cur, playing) = None
           ELSE AutoStart(songs, newEpoch, cur, playing) \in Ready(songs)
<1>1. Ready(songs) \in SUBSET Songs /\ Ready(songs) \ {None} = Ready(songs)
    BY SongsAssumption DEF Ready
<1>2. IF Ready(songs) = {} THEN PickIdleResume(Ready(songs)) = None
      ELSE PickIdleResume(Ready(songs)) \in Ready(songs)
    BY <1>1, PickIdleResumeIsReady
<1>3. IF Ready(songs) = {} THEN PickNext(Ready(songs), None, None, newEpoch) = None
      ELSE PickNext(Ready(songs), None, None, newEpoch) \in Ready(songs)
    <2> DEFINE R == Ready(songs)
    <2>1. None \in Songs \cup {None} /\ R \in SUBSET Songs /\ R \ {None} = R
        BY <1>1
    <2> HIDE DEF R
    <2>2. /\ R = {} => PickNext(R, None, None, newEpoch) = None
          /\ R # {} => PickNext(R, None, None, newEpoch) \in R
        BY <2>1, PickNextIsReady
    <2>3. IF R = {} THEN PickNext(R, None, None, newEpoch) = None
          ELSE PickNext(R, None, None, newEpoch) \in R
        BY <2>2
    <2> QED
        BY <2>3 DEF R
<1> QED
    BY <1>2, <1>3 DEF AutoStart

\* What updateQueue does: types are kept, the current song stays if it can, else
\* a song that is ready becomes current if there is one, and every device has heard
\* of the current song.
LEMMA UpdateQueueRight ==
    ASSUME NEW songs \in Songbook, NEW newEpoch \in Nat, NEW cur \in SongOrNone,
           NEW playing \in BOOLEAN, NEW box \in Boxes, NEW to \in SUBSET Players,
           UpdateQueue(songs, newEpoch, cur, playing, box, to)
    PROVE  LET kept == cur # None /\ songs[cur] # "deleted"
           IN  /\ status' = songs /\ epoch' = newEpoch
               /\ current' \in SongOrNone /\ isPlaying' \in BOOLEAN /\ inbox' \in Boxes
               /\ kept => current' = cur
               /\ ~kept => IF Ready(songs) = {} THEN current' = None
                           ELSE current' \in Ready(songs)
               /\ current' = None => Ready(status') = {}
               /\ \A p \in to : Knows(inbox', p, current')
               /\ \/ inbox' = TellState(box, to, current') /\ (kept \/ current' = None)
                  \/ inbox' = Tell(box, to, NextSongAt(current')) /\ ~kept /\ current' # None
<1> DEFINE kept == cur # None /\ songs[cur] # "deleted"
           next == AutoStart(songs, newEpoch, cur, playing)
<1>1. IF kept \/ Ready(songs) = {} THEN next = None ELSE next \in Ready(songs)
    BY AutoStartRight
<1>2. Ready(songs) \subseteq Songs /\ None \notin Songs
    BY SongsAssumption DEF Ready
<1>3. /\ status' = songs /\ epoch' = newEpoch
      /\ current' = IF kept THEN cur ELSE next
      /\ isPlaying' = IF kept THEN playing ELSE next # None
      /\ inbox' = IF next # None THEN Tell(box, to, NextSongAt(next))
                                 ELSE TellState(box, to, current')
    BY DEF UpdateQueue
<1> HIDE DEF next
<1>4. current' \in SongOrNone /\ isPlaying' \in BOOLEAN
    BY <1>1, <1>2, <1>3 DEF SongOrNone
<1>5. next # None => ~kept /\ current' = next
    BY <1>1, <1>3
<1>6. NextSongAt(current') \in ToPlayer
    BY <1>4, MessageTypes
<1>7. CASE next # None
    <2>1. inbox' = Tell(box, to, NextSongAt(current'))
        BY <1>3, <1>5, <1>7
    <2>2. inbox' \in Boxes
        BY <1>6, <2>1, TellRight
    <2>3. \A p \in to : Knows(inbox', p, current')
        BY <1>4, <2>1, TellKnown
    <2> QED
        BY <1>1, <1>2, <1>3, <1>4, <1>5, <1>7, <2>1, <2>2, <2>3
<1>8. CASE next = None
    <2>1. inbox' = TellState(box, to, current')
        BY <1>3, <1>8
    <2>2. inbox' \in Boxes
        BY <1>4, <2>1, TellStateRight
    <2>3. \A p \in to : Knows(inbox', p, current')
        BY <1>4, <2>1, TellStateKnown
    <2> QED
        BY <1>1, <1>2, <1>3, <1>4, <1>8, <2>1, <2>2, <2>3
<1> QED
    BY <1>7, <1>8

\* The current song as the queue holds it, and the queue once it was played.
LEMMA CurrentPlayedRight ==
    ASSUME TypeOK
    PROVE  /\ KnownCurrent \in SongOrNone
           /\ CurrentPlayed \in Songbook
           /\ \A s \in Songs : s # current => CurrentPlayed[s] = status[s]
           /\ \A s \in Songs : s = current => CurrentPlayed[s] \in {"played", "deleted"}
           /\ \A s \in Songs : CurrentPlayed[s] = "deleted" <=> status[s] = "deleted"
<1>1. KnownCurrent \in SongOrNone /\ (KnownCurrent # None => KnownCurrent = current)
    BY DEF TypeOK, KnownCurrent, SongOrNone
<1>2. \A s \in Songs : CurrentPlayed[s] = IF s = KnownCurrent THEN "played" ELSE status[s]
    BY DEF CurrentPlayed
<1>3. CurrentPlayed \in Songbook
    BY DEF CurrentPlayed, Songbook, TypeOK, SongStatus
<1>4. \A s \in Songs : s = KnownCurrent <=> s = current /\ status[s] # "deleted"
    BY SongsAssumption DEF KnownCurrent
<1> QED
    BY <1>1, <1>2, <1>3, <1>4

\* handleSongEnded, when it is not debounced: the song pickNextSong names becomes
\* current, and stays so when the played song's event refreshes the queue.
LEMMA HandleSongEndedRight ==
    ASSUME TypeOK, HandleSongEnded, ~ended
    PROVE  LET next == PickNext(Ready(status), current, KnownCurrent, epoch)
               told == IF next # None THEN Tell(inbox, Reached, NextSongAt(next))
                                      ELSE TellState(inbox, Reached, None)
           IN  /\ current' = next /\ next \in SongOrNone
               /\ status' = CurrentPlayed /\ epoch' = epoch
               /\ isPlaying' \in BOOLEAN /\ inbox' \in Boxes
               /\ ended' = TRUE /\ byEnd' = TRUE
               /\ advanced' = advanced \cup ({next} \ {None})
               /\ next = None => Ready(status') = {}
               /\ next # None => next \in Ready(status) /\ next # current
               /\ told \in Boxes
               /\ inbox' = TellState(told, Reached, next)
               /\ \A p \in Reached : Knows(inbox', p, current')
<1> DEFINE next == PickNext(Ready(status), current, KnownCurrent, epoch)
           told == IF next # None THEN Tell(inbox, Reached, NextSongAt(next))
                                  ELSE TellState(inbox, Reached, None)
<1>1. /\ Ready(status) \in SUBSET Songs /\ None \notin Songs
      /\ current \in SongOrNone /\ epoch \in Nat
      /\ inbox \in Boxes /\ Reached \in SUBSET Players
      /\ advanced \subseteq Songs
    BY SongsAssumption DEF TypeOK, Ready, Boxes, Reached
<1>2. /\ Ready(status) \ {current} = {} => next = None
      /\ Ready(status) \ {current} # {} => next \in Ready(status) \ {current}
    <2>1. KnownCurrent \in Songs \cup {None} /\ current \in Songs \cup {None}
        BY <1>1, CurrentPlayedRight DEF SongOrNone
    <2> QED
        BY <1>1, <2>1, PickNextIsReady
<1>3. /\ ended' = TRUE /\ byEnd' = TRUE
      /\ UpdateQueue(CurrentPlayed, epoch, next, next # None, told, Reached)
      /\ advanced' = advanced \cup ({next} \ {None})
    BY Zenon DEF HandleSongEnded
<1> HIDE DEF next
<1>4. next \in SongOrNone /\ (next # None => next \in Ready(status) /\ next # current)
    BY <1>1, <1>2 DEF SongOrNone
<1>5. told \in Boxes
    <2>1. NextSongAt(next) \in ToPlayer /\ None \in SongOrNone
        BY <1>4, MessageTypes DEF SongOrNone
    <2> QED
        BY <1>1, <2>1, TellRight, TellStateRight
<1> HIDE DEF told
<1>6. CurrentPlayed \in Songbook
    BY CurrentPlayedRight
<1>7. next # None => CurrentPlayed[next] # "deleted"
    <2> SUFFICES ASSUME next # None
                 PROVE  CurrentPlayed[next] # "deleted"
        OBVIOUS
    <2>1. next \in Songs /\ status[next] = "ready"
        BY <1>4 DEF Ready
    <2> QED
        BY <2>1, CurrentPlayedRight
<1>8. next = None => Ready(CurrentPlayed) = {}
    <2> SUFFICES ASSUME next = None, NEW s \in Ready(CurrentPlayed)
                 PROVE  FALSE
        OBVIOUS
    <2>1. Ready(status) \ {current} = {}
        BY <1>1, <1>2
    <2>2. s \in Songs /\ CurrentPlayed[s] = "ready"
        BY DEF Ready
    <2>3. s # current /\ status[s] = "ready"
        BY <2>2, CurrentPlayedRight
    <2> QED
        BY <2>1, <2>2, <2>3 DEF Ready
<1>9. /\ status' = CurrentPlayed /\ epoch' = epoch
      /\ isPlaying' \in BOOLEAN /\ inbox' \in Boxes
      /\ next # None => current' = next
      /\ next = None => IF Ready(CurrentPlayed) = {} THEN current' = None
                        ELSE current' \in Ready(CurrentPlayed)
      /\ \A p \in Reached : Knows(inbox', p, current')
      /\ \/ inbox' = TellState(told, Reached, current')
         \/ inbox' = Tell(told, Reached, NextSongAt(current')) /\ next = None /\ current' # None
    <2> DEFINE kept == next # None /\ CurrentPlayed[next] # "deleted"
    <2>1. (next # None) \in BOOLEAN
        OBVIOUS
    <2>2. /\ status' = CurrentPlayed /\ epoch' = epoch
          /\ isPlaying' \in BOOLEAN /\ inbox' \in Boxes
          /\ kept => current' = next
          /\ ~kept => IF Ready(CurrentPlayed) = {} THEN current' = None
                      ELSE current' \in Ready(CurrentPlayed)
          /\ \A p \in Reached : Knows(inbox', p, current')
          /\ \/ inbox' = TellState(told, Reached, current') /\ (kept \/ current' = None)
             \/ inbox' = Tell(told, Reached, NextSongAt(current'))
                /\ ~kept /\ current' # None
        BY <1>1, <1>3, <1>4, <1>5, <1>6, <2>1, UpdateQueueRight
    <2> QED
        BY <1>7, <2>2
<1>10. current' = next
    BY <1>8, <1>9
<1> QED
    BY <1>3, <1>4, <1>5, <1>8, <1>9, <1>10 DEF next, told

-------------------------------------------------------------------------------
(* Types. *)

\* What the operators above say of their parameters holds in every typed state.
LEMMA Typed ==
    ASSUME TypeOK
    PROVE  /\ status \in Songbook /\ epoch \in Nat /\ current \in SongOrNone
           /\ isPlaying \in BOOLEAN /\ inbox \in Boxes /\ Reached \in SUBSET Players
           /\ None \in SongOrNone
    BY DEF TypeOK, Songbook, Boxes, Reached, SongOrNone

\* A refresh of the queue.
LEMMA RefreshTypes ==
    ASSUME TypeOK, NEW songs \in Songbook, NEW newEpoch \in Nat, Refresh(songs, newEpoch),
           commands' \in Nat
    PROVE  TypeOK'
<1>1. CASE synced
    <2>1. UpdateQueue(songs, newEpoch, current, isPlaying, inbox, Reached)
        BY <1>1 DEF Refresh
    <2>2. /\ status' \in Songbook /\ epoch' \in Nat /\ current' \in SongOrNone
          /\ isPlaying' \in BOOLEAN /\ inbox' \in Boxes
        BY <2>1, Typed, UpdateQueueRight
    <2>3. advanced' \subseteq Songs /\ byEnd' \in BOOLEAN
        BY <1>1, <2>2 DEF Refresh, TypeOK, SongOrNone
    <2> QED
        BY <2>2, <2>3 DEF Refresh, TypeOK, Songbook, Boxes, links, audio
<1>2. CASE ~synced
    BY <1>2 DEF Refresh, TypeOK, Songbook, playback, links, audio
<1> QED
    BY <1>1, <1>2

\* The end of a song.
LEMMA HandleSongEndedTypes ==
    ASSUME TypeOK, HandleSongEnded
    PROVE  /\ status' \in Songbook /\ epoch' \in Nat /\ current' \in SongOrNone
           /\ isPlaying' \in BOOLEAN /\ inbox' \in Boxes /\ ended' \in BOOLEAN
           /\ byEnd' \in BOOLEAN /\ advanced' \subseteq Songs
<1>1. CASE ended
    <2>1. UNCHANGED <<table, playback, ended, inbox, advanced, byEnd>>
        BY <1>1 DEF HandleSongEnded
    <2> QED
        BY <2>1 DEF TypeOK, table, playback, Songbook, Boxes
<1>2. CASE ~ended
    <2> DEFINE next == PickNext(Ready(status), current, KnownCurrent, epoch)
    <2>1. /\ current' = next /\ next \in SongOrNone
          /\ status' = CurrentPlayed /\ epoch' = epoch
          /\ isPlaying' \in BOOLEAN /\ inbox' \in Boxes
          /\ ended' = TRUE /\ byEnd' = TRUE
          /\ advanced' = advanced \cup ({next} \ {None})
        BY <1>2, HandleSongEndedRight, Zenon
    <2> HIDE DEF next
    <2>2. CurrentPlayed \in Songbook
        BY CurrentPlayedRight
    <2>3. advanced' \subseteq Songs
        BY <2>1 DEF TypeOK, SongOrNone
    <2> QED
        BY <2>1, <2>2, <2>3, Typed
<1> QED
    BY <1>1, <1>2

\* A report of a player's song.
LEMMA HandleSyncTypes ==
    ASSUME TypeOK, NEW s \in SongOrNone, HandleSync(s)
    PROVE  current' \in SongOrNone /\ inbox' \in Boxes /\ later' \in BOOLEAN
<1>1. current' \in SongOrNone
    BY Typed DEF HandleSync
<1>2. inbox' \in Boxes
    BY <1>1, Typed, TellStateRight DEF HandleSync
<1> QED
    BY <1>1, <1>2 DEF HandleSync, TypeOK

\* What a player that joins has been sent.
LEMMA JoinBox ==
    ASSUME TypeOK, NEW p \in Players
    PROVE  [TellState(inbox, Reached, current) EXCEPT ![p] = <<Greeting>>] \in Boxes
<1>1. TellState(inbox, Reached, current) \in Boxes
    BY Typed, TellStateRight
<1>2. <<Greeting>> \in Seq(ToPlayer)
    BY Typed, MessageTypes DEF Greeting
<1> QED
    BY <1>1, <1>2 DEF Boxes

LEMMA TypeStep ==
    ASSUME TypeOK, [Next]_vars
    PROVE  TypeOK'
<1>1. CASE UNCHANGED vars
    BY <1>1 DEF TypeOK, Boxes, Songbook, vars, table, playback, links, audio, bounds
<1>2. ASSUME NEW s \in Songs, SongReady(s)
      PROVE  TypeOK'
    <2>1. [status EXCEPT ![s] = "ready"] \in Songbook /\ epoch \in Nat /\ commands' \in Nat
        BY <1>2 DEF TypeOK, Boxes, Songbook, SongStatus, SongReady
    <2> QED
        BY <1>2, <2>1, RefreshTypes DEF SongReady
<1>3. ASSUME NEW s \in Songs, SongDeleted(s)
      PROVE  TypeOK'
    <2>1. [status EXCEPT ![s] = "deleted"] \in Songbook /\ epoch \in Nat /\ commands' \in Nat
        BY <1>3 DEF TypeOK, Boxes, Songbook, SongStatus, SongDeleted, UserActs
    <2> QED
        BY <1>3, <2>1, RefreshTypes DEF SongDeleted
<1>4. CASE Steered
    <2>1. status \in Songbook /\ epoch + 1 \in Nat /\ commands' \in Nat
        BY <1>4 DEF TypeOK, Boxes, Songbook, Steered, UserActs
    <2> QED
        BY <1>4, <2>1, RefreshTypes DEF Steered
<1>5. ASSUME NEW s \in Songs, Select(s)
      PROVE  TypeOK'
    <2>1. NextSongAt(s) \in ToPlayer
        BY MessageTypes DEF SongOrNone
    <2>2. inbox' \in Boxes
        BY <1>5, <2>1, Typed, TellRight DEF Select
    <2>3. CurrentPlayed \in Songbook
        BY CurrentPlayedRight
    <2>4. current' \in SongOrNone /\ isPlaying' \in BOOLEAN /\ byEnd' \in BOOLEAN
        BY <1>5 DEF Select, SongOrNone
    <2>5. commands' \in Nat
        BY <1>5 DEF TypeOK, Select, Command, UserActs
    <2>6. status' \in Songbook
        BY <1>5, <2>3 DEF Select
    <2> QED
        BY <1>5, <2>2, <2>4, <2>5, <2>6
           DEF TypeOK, Boxes, Songbook, Select, links, audio
<1>6. ASSUME NEW play \in BOOLEAN, PlayOrPause(play)
      PROVE  TypeOK'
    <2>1. Execute(play) \in ToPlayer
        BY MessageTypes
    <2>2. inbox' \in Boxes
        BY <1>6, <2>1, Typed, TellRight, TellStateRight DEF PlayOrPause
    <2> QED
        BY <1>6, <2>2 DEF TypeOK, Boxes, Songbook, PlayOrPause, Command, UserActs, table, links, audio
<1>7. CASE Skip
    BY <1>7, HandleSongEndedTypes
       DEF TypeOK, Boxes, Songbook, Skip, Command, UserActs, links, audio
<1>8. CASE DebounceOver
    BY <1>8 DEF TypeOK, Boxes, Songbook, DebounceOver, table, playback, links, audio, bounds
<1>9. CASE StateTimer
    <2>1. inbox' \in Boxes
        BY <1>9, Typed, TellStateRight DEF StateTimer
    <2> QED
        BY <1>9, <2>1 DEF TypeOK, Boxes, Songbook, StateTimer, table, playback, links, audio, bounds
<1>10. CASE Restart
    <2>1. [p \in Players |-> <<>>] \in [Players -> Seq(ToPlayer)]
        OBVIOUS
    <2>2. [p \in Players |-> <<>>] \in [Players -> Seq(ToServer)]
        OBVIOUS
    <2> QED
        <3>1. inbox' \in [Players -> Seq(ToPlayer)] /\ outbox' \in [Players -> Seq(ToServer)]
            BY <1>10, <2>1, <2>2, Zenon DEF Restart
        <3>2. /\ UNCHANGED <<status, epoch, view, loaded, sounding, starting, commands>>
              /\ synced' = FALSE /\ current' = None /\ isPlaying' = FALSE
              /\ ended' = FALSE /\ later' = FALSE /\ byEnd' = FALSE
              /\ devices' = {} /\ open' = {} /\ halfOpen' = {}
              /\ advanced' = advanced \ {current} /\ drops' = drops + 1
            BY <1>10 DEF Restart, table, audio
        <3>3. current' \in SongOrNone /\ advanced' \subseteq Songs /\ drops' \in Nat
            BY <3>2, Typed DEF TypeOK
        <3> QED
            BY <3>1, <3>2, <3>3 DEF TypeOK
<1>11. ASSUME NEW p \in Players, Join(p)
       PROVE  TypeOK'
    <2> DEFINE box == [TellState(inbox, Reached, current) EXCEPT ![p] = <<Greeting>>]
    <2>1. box \in Boxes
        BY JoinBox
    <2>2. Reached \cup {p} \in SUBSET Players
        BY Typed
    <2>3. UpdateQueue(status, epoch, current, isPlaying, box, Reached \cup {p})
        BY <1>11 DEF Join
    <2> HIDE DEF box
    <2>4. /\ status' \in Songbook /\ epoch' \in Nat /\ current' \in SongOrNone
          /\ isPlaying' \in BOOLEAN /\ inbox' \in Boxes
        BY <2>1, <2>2, <2>3, Typed, UpdateQueueRight
    <2>5. advanced' \subseteq Songs
        BY <1>11, <2>4 DEF Join, TypeOK, SongOrNone
    <2> QED
        BY <1>11, <2>4, <2>5 DEF TypeOK, Boxes, Songbook, Join, audio, bounds
<1>12. ASSUME NEW p \in Players, Drop(p)
       PROVE  TypeOK'
    <2>1. [inbox EXCEPT ![p] = <<>>] \in Boxes /\ Reached \ {p} \in SUBSET Players
        BY Typed DEF Boxes
    <2>2. inbox' \in Boxes
        BY <1>12, <2>1, Typed, TellStateRight DEF Drop
    <2>3. outbox' \in [Players -> Seq(ToServer)]
        BY <1>12 DEF Drop, TypeOK, Boxes
    <2> QED
        BY <1>12, <2>2, <2>3 DEF TypeOK, Boxes, Songbook, Drop, table, playback, audio
<1>13. ASSUME NEW p \in Players, LateClose(p)
       PROVE  TypeOK'
    <2>1. Reached \ {p} \in SUBSET Players
        BY Typed
    <2>2. inbox' \in Boxes
        BY <1>13, <2>1, Typed, TellStateRight DEF LateClose
    <2> QED
        BY <1>13, <2>2 DEF TypeOK, Boxes, Songbook, LateClose, table, playback, audio, bounds
<1>14. ASSUME NEW p \in Players, Handle(p)
       PROVE  TypeOK'
    <2> DEFINE m == Head(outbox[p])
    <2>1. m \in ToServer /\ Tail(outbox[p]) \in Seq(ToServer)
        BY <1>14, HeadTailProperties DEF Handle, TypeOK, Boxes
    <2>2. outbox' \in [Players -> Seq(ToServer)]
        BY <1>14, <2>1 DEF Handle, TypeOK, Boxes
    <2>3. m.song \in SongOrNone
        BY <2>1 DEF ToServer
    <2>4. CASE HandleSync(m.song)
        BY <1>14, <2>2, <2>3, <2>4, HandleSyncTypes
           DEF TypeOK, Boxes, Songbook, Handle, HandleSync, table, links, audio, bounds
    <2>5. CASE HandleSongEnded /\ UNCHANGED later
        BY <1>14, <2>2, <2>5, HandleSongEndedTypes
           DEF TypeOK, Boxes, Songbook, Handle, links, audio, bounds
    <2> QED
        BY <1>14, <2>4, <2>5 DEF Handle
<1>15. ASSUME NEW p \in Players, Receive(p)
       PROVE  TypeOK'
    <2> DEFINE m == Head(inbox[p])
    <2>1. m \in ToPlayer /\ Tail(inbox[p]) \in Seq(ToPlayer)
        BY <1>15, HeadTailProperties DEF Receive, TypeOK, Boxes
    <2>2. inbox' \in Boxes
        BY <1>15, <2>1, Typed DEF Receive, Boxes
    <2>3. /\ m.kind \in {"state", "nextSong", "nextSongAt"} => m.song \in SongOrNone
          /\ m.kind = "execute" => m.play \in BOOLEAN
        BY <2>1 DEF ToPlayer
    <2>4. view' \in [Players -> SongOrNone] /\ loaded' \in [Players -> SongOrNone]
        BY <1>15, <2>3 DEF Receive, TypeOK, Boxes
    <2>5. sounding' \in [Players -> BOOLEAN] /\ starting' \in [Players -> BOOLEAN]
        BY <1>15, <2>3 DEF Receive, TypeOK, Boxes
    <2>6. Sync(view[p]) \in ToServer
        BY MessageTypes DEF TypeOK
    <2>7. outbox' \in [Players -> Seq(ToServer)]
        <3>1. \/ outbox' = outbox
              \/ outbox' = [outbox EXCEPT ![p] = Append(@, Sync(view[p]))]
            BY <1>15 DEF Receive
        <3>2. Append(outbox[p], Sync(view[p])) \in Seq(ToServer)
            <4>1. outbox[p] \in Seq(ToServer)
                BY DEF TypeOK
            <4> QED
                BY <2>6, <4>1, AppendProperties
        <3> QED
            BY <3>1, <3>2 DEF TypeOK
    <2> QED
        BY <1>15, <2>2, <2>4, <2>5, <2>7
           DEF TypeOK, Boxes, Songbook, Receive, table, playback, links, bounds
<1>16. ASSUME NEW p \in Players, StartAt(p)
       PROVE  TypeOK'
    BY <1>16 DEF TypeOK, Boxes, Songbook, StartAt, table, playback, links, bounds
<1>17. ASSUME NEW p \in Players, SyncTick(p)
       PROVE  TypeOK'
    <2>1. Sync(view[p]) \in ToServer
        BY MessageTypes DEF TypeOK
    <2>2. outbox' \in [Players -> Seq(ToServer)]
        BY <1>17, <2>1 DEF SyncTick, TypeOK, Boxes
    <2> QED
        BY <1>17, <2>2 DEF TypeOK, Boxes, Songbook, SyncTick, table, playback, links, audio, bounds
<1>18. ASSUME NEW p \in Players, SongEnds(p)
       PROVE  TypeOK'
    <2>1. SongEnded(loaded[p]) \in ToServer
        BY MessageTypes DEF TypeOK
    <2>2. outbox' \in [Players -> Seq(ToServer)]
        BY <1>18, <2>1 DEF SongEnds, TypeOK, Boxes
    <2> QED
        BY <1>18, <2>2 DEF TypeOK, Boxes, Songbook, SongEnds, table, playback, links, bounds
<1> QED
    BY <1>1, <1>2, <1>3, <1>4, <1>5, <1>6, <1>7, <1>8, <1>9, <1>10, <1>11, <1>12,
       <1>13, <1>14, <1>15, <1>16, <1>17, <1>18 DEF Next

\* Everything the room and its players keep stays of its type, the messages under
\* way included.
THEOREM TypeCorrect == Spec => []TypeOK
<1>1. Init => TypeOK
    <2> SUFFICES ASSUME Init
                 PROVE  TypeOK
        OBVIOUS
    <2>1. [p \in Players |-> <<>>] \in [Players -> Seq(ToPlayer)]
        OBVIOUS
    <2>2. [p \in Players |-> <<>>] \in [Players -> Seq(ToServer)]
        OBVIOUS
    <2> QED
        BY <2>1, <2>2 DEF Init, TypeOK, SongStatus, SongOrNone
<1>2. TypeOK /\ [Next]_vars => TypeOK'
    BY TypeStep
<1> QED
    BY <1>1, <1>2, PTL DEF Spec

-------------------------------------------------------------------------------
(* The room is never silent while a song could play. *)

LEMMA RefreshNeverSilent ==
    ASSUME TypeOK, NEW songs \in Songbook, NEW newEpoch \in Nat, Refresh(songs, newEpoch)
    PROVE  NeverSilent'
<1>1. CASE synced
    <2>1. UpdateQueue(songs, newEpoch, current, isPlaying, inbox, Reached)
        BY <1>1 DEF Refresh
    <2>2. current' = None => Ready(status') = {}
        BY <2>1, Typed, UpdateQueueRight
    <2> QED
        BY <2>2 DEF NeverSilent
<1>2. CASE ~synced
    BY <1>2 DEF Refresh, NeverSilent
<1> QED
    BY <1>1, <1>2

LEMMA HandleSongEndedNeverSilent ==
    ASSUME TypeOK, NeverSilent, HandleSongEnded, synced' = synced
    PROVE  NeverSilent'
<1>1. CASE ended
    BY <1>1 DEF HandleSongEnded, NeverSilent, table, playback
<1>2. CASE ~ended
    <2> DEFINE next == PickNext(Ready(status), current, KnownCurrent, epoch)
    <2>1. current' = next /\ (next = None => Ready(status') = {})
        BY <1>2, HandleSongEndedRight, Zenon
    <2> HIDE DEF next
    <2> QED
        BY <2>1 DEF NeverSilent
<1> QED
    BY <1>1, <1>2

LEMMA NeverSilentStep ==
    ASSUME TypeOK, NeverSilent, [Next]_vars
    PROVE  NeverSilent'
<1>1. CASE UNCHANGED <<status, synced, current>>
    BY <1>1 DEF NeverSilent
<1>2. ASSUME NEW s \in Songs, SongReady(s)
      PROVE  NeverSilent'
    <2>1. [status EXCEPT ![s] = "ready"] \in Songbook
        BY Typed DEF Songbook, SongStatus
    <2> QED
        BY <1>2, <2>1, Typed, RefreshNeverSilent DEF SongReady
<1>3. ASSUME NEW s \in Songs, SongDeleted(s)
      PROVE  NeverSilent'
    <2>1. [status EXCEPT ![s] = "deleted"] \in Songbook
        BY Typed DEF Songbook, SongStatus
    <2> QED
        BY <1>3, <2>1, Typed, RefreshNeverSilent DEF SongDeleted
<1>4. CASE Steered
    <2>1. epoch + 1 \in Nat
        BY Typed
    <2> QED
        BY <1>4, <2>1, Typed, RefreshNeverSilent DEF Steered
<1>5. ASSUME NEW s \in Songs, Select(s)
      PROVE  NeverSilent'
    BY <1>5, SongsAssumption DEF Select, NeverSilent
<1>6. CASE Skip
    BY <1>6, HandleSongEndedNeverSilent DEF Skip
<1>7. CASE Restart
    BY <1>7 DEF Restart, NeverSilent
<1>8. ASSUME NEW p \in Players, Join(p)
      PROVE  NeverSilent'
    <2> DEFINE box == [TellState(inbox, Reached, current) EXCEPT ![p] = <<Greeting>>]
    <2>1. box \in Boxes
        BY JoinBox
    <2>2. UpdateQueue(status, epoch, current, isPlaying, box, Reached \cup {p})
        BY <1>8 DEF Join
    <2> HIDE DEF box
    <2>3. Reached \cup {p} \in SUBSET Players
        BY Typed
    <2>4. current' = None => Ready(status') = {}
        BY <2>1, <2>2, <2>3, Typed, UpdateQueueRight
    <2> QED
        BY <2>4 DEF NeverSilent
<1>9. ASSUME NEW p \in Players, Handle(p)
      PROVE  NeverSilent'
    <2> DEFINE m == Head(outbox[p])
    <2>1. CASE HandleSync(m.song)
        <3>1. UNCHANGED <<status, synced>> /\ (current' = None => current = None)
            BY <1>9, <2>1 DEF Handle, HandleSync, table
        <3> QED
            BY <3>1 DEF NeverSilent
    <2>2. CASE HandleSongEnded
        BY <1>9, <2>2, HandleSongEndedNeverSilent DEF Handle
    <2> QED
        BY <1>9, <2>1, <2>2 DEF Handle
<1>10. ASSUME NEW play \in BOOLEAN, PlayOrPause(play)
       PROVE  UNCHANGED <<status, synced, current>>
    BY <1>10 DEF PlayOrPause, table
<1>11. ASSUME NEW p \in Players,
              Drop(p) \/ LateClose(p) \/ Receive(p) \/ StartAt(p) \/ SyncTick(p) \/ SongEnds(p)
       PROVE  UNCHANGED <<status, synced, current>>
    BY <1>11 DEF Drop, LateClose, Receive, StartAt, SyncTick, SongEnds, table, playback
<1>12. CASE DebounceOver \/ StateTimer \/ UNCHANGED vars
    BY <1>1, <1>12 DEF DebounceOver, StateTimer, vars, table, playback
<1> QED
    BY <1>1, <1>2, <1>3, <1>4, <1>5, <1>6, <1>7, <1>8, <1>9, <1>10, <1>11, <1>12 DEF Next

\* The room is never silent while a song could play, however songs become ready,
\* end, are selected or deleted, players come and go, and the server restarts.
THEOREM NeverSilentHolds == Spec => []NeverSilent
<1>1. Init => NeverSilent
    BY DEF Init, NeverSilent
<1>2. TypeOK /\ NeverSilent /\ [Next]_vars => NeverSilent'
    BY NeverSilentStep
<1> QED
    BY <1>1, <1>2, TypeCorrect, PTL DEF Spec

-------------------------------------------------------------------------------
(* Every device hears of every change of the current song. *)

\* The inductive form of ViewIsCurrent: unless the throttling timer is set, the
\* last message to a player is of the current song, or it has heard of it.
Told == \A p \in Reached : ~later => Knows(inbox, p, current)

\* The last message of a box stays the last when the first is taken out.
LEMMA TailEnd ==
    ASSUME NEW q \in Seq(ToPlayer), q # <<>>
    PROVE  /\ Len(q) = 1 => Tail(q) = <<>> /\ Head(q) = q[Len(q)]
           /\ Len(q) # 1 => Tail(q) # <<>> /\ Tail(q)[Len(Tail(q))] = q[Len(q)]
<1> DEFINE t == Tail(q)
<1>1. /\ t \in Seq(ToPlayer) /\ Len(t) = Len(q) - 1
      /\ \A i \in 1..Len(t) : t[i] = q[i + 1]
    BY HeadTailProperties
<1>2. Len(q) \in Nat \ {0} /\ Len(t) \in Nat
    BY <1>1, EmptySeq, LenProperties
<1> HIDE DEF t
<1>3. t = <<>> <=> Len(t) = 0
    <2>1. t = <<>> => Len(t) = 0
        BY EmptySeq
    <2>2. t # <<>> => Len(t) # 0
        BY <1>1, EmptySeq
    <2> QED
        BY <2>1, <2>2
<1>4. Len(q) # 1 => t[Len(t)] = q[Len(q)]
    <2> SUFFICES ASSUME Len(q) # 1
                 PROVE  t[Len(t)] = q[Len(q)]
        OBVIOUS
    <2>1. Len(t) \in 1..Len(t) /\ Len(t) + 1 = Len(q)
        BY <1>1, <1>2
    <2> QED
        BY <1>1, <2>1
<1>5. Head(q) = q[1]
    BY <1>2
<1> QED
    BY <1>1, <1>2, <1>3, <1>4, <1>5 DEF t

LEMMA ToldByRefresh ==
    ASSUME TypeOK, Told, NEW songs \in Songbook, NEW newEpoch \in Nat,
           Refresh(songs, newEpoch)
    PROVE  Told'
<1>1. UNCHANGED <<later, devices, open, view>>
    BY DEF Refresh, links, audio
<1>2. CASE synced
    <2>1. UpdateQueue(songs, newEpoch, current, isPlaying, inbox, Reached)
        BY <1>2 DEF Refresh
    <2>2. \A p \in Reached : Knows(inbox', p, current')
        BY <2>1, Typed, UpdateQueueRight
    <2> QED
        BY <1>1, <2>2 DEF Told, Reached, Knows
<1>3. CASE ~synced
    BY <1>1, <1>3 DEF Refresh, Told, Reached, Knows, playback
<1> QED
    BY <1>2, <1>3

LEMMA ToldByHandleSongEnded ==
    ASSUME TypeOK, Told, HandleSongEnded, UNCHANGED <<later, devices, open, view>>
    PROVE  Told'
<1>1. CASE ended
    BY <1>1 DEF HandleSongEnded, Told, Reached, Knows, playback
<1>2. CASE ~ended
    <2>1. \A p \in Reached : Knows(inbox', p, current')
        BY <1>2, HandleSongEndedRight, Zenon
    <2> QED
        BY <2>1 DEF Told, Reached, Knows
<1> QED
    BY <1>1, <1>2

LEMMA ToldStep ==
    ASSUME TypeOK, Told, [Next]_vars
    PROVE  Told'
<1>1. CASE UNCHANGED <<later, devices, open, view, inbox, current>>
    BY <1>1 DEF Told, Reached, Knows
<1>2. ASSUME NEW s \in Songs, SongReady(s)
      PROVE  Told'
    <2>1. [status EXCEPT ![s] = "ready"] \in Songbook
        BY Typed DEF Songbook, SongStatus
    <2> QED
        BY <1>2, <2>1, Typed, ToldByRefresh DEF SongReady
<1>3. ASSUME NEW s \in Songs, SongDeleted(s)
      PROVE  Told'
    <2>1. [status EXCEPT ![s] = "deleted"] \in Songbook
        BY Typed DEF Songbook, SongStatus
    <2> QED
        BY <1>3, <2>1, Typed, ToldByRefresh DEF SongDeleted
<1>4. CASE Steered
    <2>1. epoch + 1 \in Nat
        BY Typed
    <2> QED
        BY <1>4, <2>1, Typed, ToldByRefresh DEF Steered
<1>5. ASSUME NEW s \in Songs, Select(s)
      PROVE  Told'
    <2>1. \A p \in Reached : Knows(inbox', p, current')
        BY <1>5, Typed, TellKnown DEF Select, SongOrNone
    <2> QED
        BY <1>5, <2>1 DEF Told, Reached, Knows, Select, links, audio
<1>6. ASSUME NEW play \in BOOLEAN, PlayOrPause(play)
      PROVE  Told'
    <2>1. Tell(inbox, Reached, Execute(play)) \in Boxes
        BY Typed, MessageTypes, TellRight
    <2>2. \A p \in Reached : Knows(inbox', p, current)
        BY <1>6, <2>1, Typed, TellStateKnown DEF PlayOrPause
    <2> QED
        BY <1>6, <2>2 DEF Told, Reached, Knows, PlayOrPause, links, audio
<1>7. CASE Skip
    BY <1>7, ToldByHandleSongEnded DEF Skip, links, audio
<1>8. CASE StateTimer
    <2>1. \A p \in Reached : Knows(inbox', p, current)
        BY <1>8, Typed, TellStateKnown DEF StateTimer
    <2> QED
        BY <1>8, <2>1 DEF Told, Reached, Knows, StateTimer, playback, links, audio
<1>9. CASE Restart
    BY <1>9 DEF Restart, Told, Reached
<1>10. ASSUME NEW p \in Players, Join(p)
       PROVE  Told'
    <2> DEFINE box == [TellState(inbox, Reached, current) EXCEPT ![p] = <<Greeting>>]
    <2>1. box \in Boxes
        BY JoinBox
    <2>2. UpdateQueue(status, epoch, current, isPlaying, box, Reached \cup {p})
        BY <1>10 DEF Join
    <2> HIDE DEF box
    <2>3. Reached \cup {p} \in SUBSET Players
        BY Typed
    <2>4. \A q \in Reached \cup {p} : Knows(inbox', q, current')
        BY <2>1, <2>2, <2>3, Typed, UpdateQueueRight
    <2>5. Reached' = Reached \cup {p} /\ view' = view
        BY <1>10 DEF Join, Reached, audio
    <2> QED
        BY <2>4, <2>5 DEF Told, Knows
<1>11. ASSUME NEW p \in Players, Drop(p)
       PROVE  Told'
    <2> DEFINE box == [inbox EXCEPT ![p] = <<>>]
    <2>1. /\ UNCHANGED <<later, view, current>>
          /\ Reached' = Reached \ {p}
          /\ inbox' = TellState(box, Reached \ {p}, current) \/ inbox' = box
        BY <1>11 DEF Drop, Reached, playback, audio
    <2>2. box \in Boxes /\ Reached \ {p} \in SUBSET Players
        BY Typed DEF Boxes
    <2>3. \A q \in Reached \ {p} : box[q] = inbox[q]
        BY Typed DEF Boxes
    <2> HIDE DEF box
    <2>4. CASE inbox' = TellState(box, Reached \ {p}, current)
        <3>1. \A q \in Reached \ {p} : Knows(inbox', q, current)
            BY <2>2, <2>4, Typed, TellStateKnown
        <3> QED
            BY <2>1, <3>1 DEF Told, Knows
    <2>5. CASE inbox' = box
        BY <2>1, <2>3, <2>5 DEF Told, Knows
    <2> QED
        BY <2>1, <2>4, <2>5
<1>12. ASSUME NEW p \in Players, LateClose(p)
       PROVE  Told'
    <2>1. /\ UNCHANGED <<later, view, current>>
          /\ Reached' = Reached \ {p}
          /\ inbox' = TellState(inbox, Reached \ {p}, current)
        BY <1>12 DEF LateClose, Reached, playback, audio
    <2>2. Reached \ {p} \in SUBSET Players
        BY Typed
    <2>3. \A q \in Reached \ {p} : Knows(inbox', q, current)
        BY <2>1, <2>2, Typed, TellStateKnown
    <2> QED
        BY <2>1, <2>3 DEF Told, Knows
<1>13. ASSUME NEW p \in Players, Handle(p)
       PROVE  Told'
    <2> DEFINE m == Head(outbox[p])
    <2>1. UNCHANGED <<devices, open, view>> /\ Reached' = Reached
        BY <1>13 DEF Handle, links, audio, Reached
    <2>2. CASE HandleSync(m.song)
        <3>1. current' \in SongOrNone
            <4>1. m \in ToServer
                BY <1>13, HeadTailProperties DEF Handle, TypeOK
            <4>2. m.song \in SongOrNone
                BY <4>1 DEF ToServer
            <4> QED
                BY <2>2, <4>2, HandleSyncTypes
        <3>2. CASE inbox' = TellState(inbox, Reached, current')
            <4>1. \A q \in Reached : Knows(inbox', q, current')
                BY <3>1, <3>2, Typed, TellStateKnown
            <4> QED
                BY <2>1, <4>1 DEF Told, Knows
        <3>3. CASE inbox' = inbox /\ later' = (later \/ current' # current)
            <4>1. ~later' => ~later /\ current' = current
                BY <3>3
            <4> QED
                BY <2>1, <3>3, <4>1 DEF Told, Knows
        <3> QED
            BY <2>2, <3>2, <3>3 DEF HandleSync
    <2>3. CASE HandleSongEnded /\ UNCHANGED later
        BY <2>1, <2>3, ToldByHandleSongEnded
    <2> QED
        BY <1>13, <2>2, <2>3 DEF Handle
<1>14. ASSUME NEW p \in Players, Receive(p)
       PROVE  Told'
    <2> DEFINE box == inbox[p]
               m == Head(inbox[p])
    <2>1. /\ UNCHANGED <<later, devices, open, current>> /\ Reached' = Reached
          /\ inbox' = [inbox EXCEPT ![p] = Tail(box)] /\ box # <<>>
        BY <1>14 DEF Receive, Reached, links, playback
    <2>2. \A q \in Players \ {p} : inbox'[q] = inbox[q] /\ view'[q] = view[q]
        BY <1>14 DEF Receive, TypeOK
    <2>3. ASSUME Knows(inbox, p, current)
          PROVE  Knows(inbox, p, current)'
        <3>1. /\ box \in Seq(ToPlayer) /\ Len(box) \in Nat /\ Len(box) # 0
              /\ box[Len(box)] \in {State(current), NextSong(current), NextSongAt(current)}
            BY <2>1, <2>3, LenProperties, EmptySeq DEF Knows, TypeOK
        <3>2. inbox'[p] = Tail(box)
            BY <2>1 DEF TypeOK
        <3>3. /\ Len(box) = 1 => Tail(box) = <<>> /\ m = box[Len(box)]
              /\ Len(box) # 1 =>
                    Tail(box) # <<>> /\ Tail(box)[Len(Tail(box))] = box[Len(box)]
            BY <2>1, <3>1, TailEnd
        <3>4. CASE Len(box) = 1
            <4>1. m.song = current /\ m.kind \in {"state", "nextSong", "nextSongAt"}
                BY <3>1, <3>3, <3>4 DEF State, NextSong, NextSongAt
            <4>2. view' = [view EXCEPT ![p] = current]
                BY <1>14, <4>1 DEF Receive
            <4>3. view'[p] = current
                BY <4>2 DEF TypeOK
            <4> QED
                BY <2>1, <3>2, <3>3, <3>4, <4>3 DEF Knows
        <3>5. CASE Len(box) # 1
            BY <2>1, <3>1, <3>2, <3>3, <3>5 DEF Knows
        <3> QED
            BY <3>4, <3>5
    <2>4. ASSUME NEW q \in Reached, ~later
          PROVE  Knows(inbox, q, current)'
        <3>1. Knows(inbox, q, current) /\ q \in Players
            BY <2>4, Typed DEF Told
        <3>2. CASE q = p
            BY <2>3, <3>1, <3>2
        <3>3. CASE q # p
            BY <2>1, <2>2, <3>1, <3>3 DEF Knows
        <3> QED
            BY <3>2, <3>3
    <2> QED
        BY <2>1, <2>4 DEF Told
<1>15. ASSUME NEW p \in Players, StartAt(p) \/ SyncTick(p) \/ SongEnds(p)
       PROVE  UNCHANGED <<later, devices, open, view, inbox, current>>
    BY <1>15 DEF StartAt, SyncTick, SongEnds, links, playback, audio
<1>16. CASE DebounceOver \/ UNCHANGED vars
    <2>1. UNCHANGED <<later, devices, open, view, inbox, current>>
        BY <1>16 DEF DebounceOver, vars, links, playback, audio
    <2> QED
        BY <1>1, <2>1
<1> QED
    BY <1>1, <1>2, <1>3, <1>4, <1>5, <1>6, <1>7, <1>8, <1>9, <1>10, <1>11, <1>12, <1>13,
       <1>14, <1>15, <1>16 DEF Next

\* A player that has heard everything shows the room's song, unless the throttling
\* timer still has to fire: joins, late closes, syncs and refreshes included.
THEOREM ViewIsCurrentHolds == Spec => []ViewIsCurrent
<1>1. Init => Told
    BY DEF Init, Told, Reached
<1>2. TypeOK /\ Told /\ [Next]_vars => Told'
    BY ToldStep
<1>3. Told => ViewIsCurrent
    BY DEF Told, ViewIsCurrent, Knows
<1> QED
    BY <1>1, <1>2, <1>3, TypeCorrect, PTL DEF Spec

-------------------------------------------------------------------------------
(* The song that follows is the right one. *)

LEMMA HandleSongEndedRightSong ==
    ASSUME TypeOK, HandleSongEnded
    PROVE  RightSong
<1> SUFFICES ASSUME ~ended
             PROVE  RightSong
    BY DEF RightSong
<1> DEFINE next == PickNext(Ready(status), current, KnownCurrent, epoch)
<1>1. current' = next
    BY HandleSongEndedRight, Zenon
<1>2. /\ Ready(status) \in SUBSET Songs /\ epoch \in Nat
      /\ current \in Songs \cup {None} /\ KnownCurrent \in Songs \cup {None}
    BY Typed, CurrentPlayedRight DEF Ready, SongOrNone
<1>3. \A t \in Ready(status) \ {current} : ~Precedes(t, next, KnownCurrent, epoch)
    BY <1>2, PickNextIsFirst
<1> HIDE DEF next
<1> QED
    BY <1>1, <1>3 DEF RightSong

LEMMA RightNextStep ==
    ASSUME TypeOK, [Next]_vars
    PROVE  [RightSong]_vars
<1>1. CASE ended' = ended \/ ended' = FALSE
    BY <1>1 DEF RightSong
<1>2. CASE Skip
    BY <1>2, HandleSongEndedRightSong DEF Skip
<1>3. ASSUME NEW p \in Players, Handle(p)
      PROVE  RightSong
    <2>1. CASE HandleSongEnded
        BY <2>1, HandleSongEndedRightSong
    <2>2. CASE HandleSync(Head(outbox[p]).song)
        BY <2>2 DEF HandleSync, RightSong
    <2> QED
        BY <1>3, <2>1, <2>2 DEF Handle
<1>4. ASSUME NEW s \in Songs, SongReady(s) \/ SongDeleted(s) \/ Select(s)
      PROVE  ended' = ended
    BY <1>4 DEF SongReady, SongDeleted, Select, Refresh
<1>5. ASSUME NEW play \in BOOLEAN, PlayOrPause(play)
      PROVE  ended' = ended
    BY <1>5 DEF PlayOrPause
<1>6. ASSUME NEW p \in Players,
             \/ Join(p) \/ Drop(p) \/ LateClose(p) \/ Receive(p)
             \/ StartAt(p) \/ SyncTick(p) \/ SongEnds(p)
      PROVE  ended' = ended
    BY <1>6 DEF Join, Drop, LateClose, Receive, StartAt, SyncTick, SongEnds
<1>7. CASE Steered \/ DebounceOver \/ StateTimer \/ Restart
    BY <1>1, <1>7 DEF Steered, Refresh, DebounceOver, StateTimer, Restart
<1> QED
    BY <1>1, <1>2, <1>3, <1>4, <1>5, <1>6, <1>7 DEF Next

\* The song that follows the end of another, or a skip, is one that no other song
\* that is ready has to come before, for every playlist, whatever was interrupted,
\* steered or deleted before.
THEOREM RightNextHolds == Spec => RightNext
<1>1. TypeOK /\ [Next]_vars => [RightSong]_vars
    BY RightNextStep
<1> QED
    BY <1>1, TypeCorrect, PTL DEF Spec, RightNext

-------------------------------------------------------------------------------
(* Without syncs under way when the song changes: the songs are played once, and *)
(* the players stay with the room.                                               *)

NoSyncs == \A p \in Players : \A k \in DOMAIN outbox[p] : outbox[p][k].kind # "sync"

\* The room's song is one it knows and can play.
CurrentPlays == current # None => synced /\ HasAudio(current)

\* The inductive form of PlayedOnce: nor will such a song become ready again.
Advanced == \A s \in advanced : /\ status[s] # "generating"
                                /\ s = current \/ status[s] # "ready"

SongKinds == {"nextSong", "nextSongAt"}

\* A player that has the song was loaded, and the messages in q to come, ends up
\* with song s.
Loads(q, was, s) ==
    \/ was = s /\ \A k \in DOMAIN q : q[k].kind \notin SongKinds
    \/ \E k \in DOMAIN q : /\ q[k].kind \in SongKinds /\ q[k].song = s
                           /\ \A j \in DOMAIN q : j > k => q[j].kind \notin SongKinds

\* The inductive form of LockedToRoom.
Locked == current # None => \A p \in Reached : Loads(inbox[p], loaded[p], current)

\* What a message more, at the end, does to the song a player ends up with.
LEMMA LoadsAppend ==
    ASSUME NEW q \in Seq(ToPlayer), NEW m \in ToPlayer, NEW was
    PROVE  /\ m.kind \in SongKinds => Loads(Append(q, m), was, m.song)
           /\ \A s : m.kind \notin SongKinds /\ Loads(q, was, s) => Loads(Append(q, m), was, s)
<1> DEFINE r == Append(q, m)
           n == Len(q)
<1>1. /\ n \in Nat /\ DOMAIN q = 1..n /\ r \in Seq(ToPlayer) /\ Len(r) = n + 1
      /\ \A k \in 1..n : r[k] = q[k]
      /\ r[n + 1] = m
    BY LenProperties, AppendProperties
<1>2. DOMAIN r = 1..(n + 1)
    BY <1>1, LenProperties
<1> HIDE DEF r, n
<1>3. n + 1 \in DOMAIN r /\ \A j \in DOMAIN r : ~(j > n + 1)
    BY <1>1, <1>2
<1>4. \A k \in DOMAIN r : k = n + 1 \/ (k \in DOMAIN q /\ r[k] = q[k])
    BY <1>1, <1>2
<1>5. \A k \in DOMAIN q : k \in DOMAIN r /\ r[k] = q[k]
    BY <1>1, <1>2
<1>6. m.kind \in SongKinds => Loads(r, was, m.song)
    BY <1>1, <1>3 DEF Loads
<1>7. ASSUME NEW s, m.kind \notin SongKinds, Loads(q, was, s)
      PROVE  Loads(r, was, s)
    <2>1. CASE was = s /\ \A k \in DOMAIN q : q[k].kind \notin SongKinds
        <3>1. \A k \in DOMAIN r : r[k].kind \notin SongKinds
            BY <1>1, <1>4, <1>7, <2>1
        <3> QED
            BY <2>1, <3>1 DEF Loads
    <2>2. ASSUME NEW k \in DOMAIN q, q[k].kind \in SongKinds, q[k].song = s,
                 \A j \in DOMAIN q : j > k => q[j].kind \notin SongKinds
          PROVE  Loads(r, was, s)
        <3>1. k \in DOMAIN r /\ r[k] = q[k]
            BY <1>5
        <3>2. \A j \in DOMAIN r : j > k => r[j].kind \notin SongKinds
            BY <1>1, <1>4, <1>7, <2>2
        <3> QED
            BY <2>2, <3>1, <3>2 DEF Loads
    <2> QED
        BY <1>7, <2>1, <2>2 DEF Loads
<1> QED
    BY <1>6, <1>7 DEF r

\* A player handles the first message.
LEMMA LoadsTail ==
    ASSUME NEW q \in Seq(ToPlayer), q # <<>>, NEW was, NEW s, Loads(q, was, s)
    PROVE  Loads(Tail(q), IF Head(q).kind \in SongKinds THEN Head(q).song ELSE was, s)
<1> DEFINE t == Tail(q)
           m == Head(q)
           n == Len(q)
           now == IF m.kind \in SongKinds THEN m.song ELSE was
<1>1. /\ n \in Nat \ {0} /\ DOMAIN q = 1..n /\ t \in Seq(ToPlayer) /\ Len(t) = n - 1
      /\ \A k \in 1..Len(t) : t[k] = q[k + 1]
      /\ m = q[1]
    BY LenProperties, EmptySeq, HeadTailProperties
<1>2. DOMAIN t = 1..(n - 1)
    BY <1>1, LenProperties
<1> HIDE DEF t, m, n
<1>3. \A k \in DOMAIN t : k + 1 \in DOMAIN q /\ t[k] = q[k + 1] /\ k \in Int /\ k >= 1
    BY <1>1, <1>2
<1>4. \A k \in DOMAIN q : k = 1 \/ (k - 1 \in DOMAIN t /\ t[k - 1] = q[k] /\ k \in Int)
    BY <1>1, <1>2
<1>5. CASE was = s /\ \A k \in DOMAIN q : q[k].kind \notin SongKinds
    <2>1. m.kind \notin SongKinds
        BY <1>1, <1>5
    <2>2. \A k \in DOMAIN t : t[k].kind \notin SongKinds
        BY <1>3, <1>5
    <2> QED
        BY <1>5, <2>1, <2>2 DEF Loads, t, m
<1>6. ASSUME NEW k \in DOMAIN q, q[k].kind \in SongKinds, q[k].song = s,
             \A j \in DOMAIN q : j > k => q[j].kind \notin SongKinds
      PROVE  Loads(t, now, s)
    <2>1. CASE k = 1
        <3>1. now = s
            BY <1>1, <1>6, <2>1
        <3>2. \A j \in DOMAIN t : t[j].kind \notin SongKinds
            <4> TAKE j \in DOMAIN t
            <4>1. j + 1 \in DOMAIN q /\ j + 1 > k /\ t[j] = q[j + 1]
                BY <1>3, <2>1
            <4> QED
                BY <1>6, <4>1
        <3> QED
            BY <3>1, <3>2 DEF Loads
    <2>2. CASE k # 1
        <3>1. k - 1 \in DOMAIN t /\ t[k - 1] = q[k] /\ k \in Int
            BY <1>4, <2>2
        <3>2. \A j \in DOMAIN t : j > k - 1 => t[j].kind \notin SongKinds
            <4> TAKE j \in DOMAIN t
            <4> HAVE j > k - 1
            <4>1. j + 1 \in DOMAIN q /\ j + 1 > k /\ t[j] = q[j + 1]
                BY <1>3, <3>1
            <4> QED
                BY <1>6, <4>1
        <3> QED
            BY <1>6, <3>1, <3>2 DEF Loads
    <2> QED
        BY <2>1, <2>2
<1> QED
    BY <1>5, <1>6 DEF Loads, t, m

\* Broadcasts.
LEMMA TellStateLoads ==
    ASSUME NEW box \in Boxes, NEW to \in SUBSET Players, NEW r \in SongOrNone,
           NEW p \in Players, NEW was, NEW s, Loads(box[p], was, s)
    PROVE  Loads(TellState(box, to, r)[p], was, s)
<1>1. /\ box[p] \in Seq(ToPlayer) /\ State(r) \in ToPlayer
      /\ State(r).kind \notin SongKinds
    BY MessageTypes DEF Boxes, State, SongKinds
<1>2. TellState(box, to, r)[p] \in {box[p], Append(box[p], State(r))}
    BY TellStateRight
<1> QED
    BY <1>1, <1>2, LoadsAppend

LEMMA TellLoads ==
    ASSUME NEW box \in Boxes, NEW to \in SUBSET Players, NEW s \in SongOrNone,
           NEW p \in to, NEW was
    PROVE  Loads(Tell(box, to, NextSongAt(s))[p], was, s)
<1>1. /\ box[p] \in Seq(ToPlayer) /\ NextSongAt(s) \in ToPlayer
      /\ NextSongAt(s).kind \in SongKinds /\ NextSongAt(s).song = s
    BY MessageTypes DEF Boxes, NextSongAt, SongKinds
<1>2. Tell(box, to, NextSongAt(s))[p] = Append(box[p], NextSongAt(s))
    BY DEF Tell
<1> QED
    BY <1>1, <1>2, LoadsAppend

\* updateQueue: either the song stays, and with it what the players end up with, or
\* they are sent the new one.
LEMMA UpdateQueueLoads ==
    ASSUME NEW songs \in Songbook, NEW newEpoch \in Nat, NEW cur \in SongOrNone,
           NEW playing \in BOOLEAN, NEW box \in Boxes, NEW to \in SUBSET Players,
           UpdateQueue(songs, newEpoch, cur, playing, box, to),
           cur # None => \A p \in to : Loads(box[p], loaded[p], cur),
           current' # None
    PROVE  \A p \in to : Loads(inbox'[p], loaded[p], current')
<1> DEFINE kept == cur # None /\ songs[cur] # "deleted"
<1>1. /\ current' \in SongOrNone
      /\ kept => current' = cur
      /\ \/ inbox' = TellState(box, to, current') /\ kept
         \/ inbox' = Tell(box, to, NextSongAt(current'))
    BY UpdateQueueRight
<1>2. CASE inbox' = TellState(box, to, current') /\ kept
    BY <1>1, <1>2, TellStateLoads
<1>3. CASE inbox' = Tell(box, to, NextSongAt(current'))
    BY <1>1, <1>3, TellLoads
<1> QED
    BY <1>1, <1>2, <1>3

-------------------------------------------------------------------------------

Quiet == CurrentPlays /\ Advanced /\ Locked

\* What happens to a song under the room.
Follows(songs) ==
    /\ songs \in Songbook
    /\ \A s \in Songs :
        /\ status[s] \in {"ready", "played"} => songs[s] \in {"ready", "played", "deleted"}
        /\ songs[s] = "ready" => status[s] \in {"ready", "generating"}
        /\ songs[s] = "generating" => status[s] = "generating"

\* updateQueue, of a room whose song stays or gives way to another.
LEMMA UpdateQueueQuiet ==
    ASSUME TypeOK, CurrentPlays, Advanced, NEW songs, Follows(songs), NEW newEpoch \in Nat,
           NEW box \in Boxes, NEW to \in SUBSET Players,
           UpdateQueue(songs, newEpoch, current, isPlaying, box, to),
           advanced' = IF current' # current THEN advanced \cup ({current'} \ {None})
                                             ELSE advanced
    PROVE  /\ Advanced'
           /\ current' # None => HasAudio(current)'
<1> DEFINE kept == current # None /\ songs[current] # "deleted"
<1>1. songs \in Songbook
    BY DEF Follows
<1>2. /\ status' = songs
      /\ kept => current' = current
      /\ ~kept => current' = None \/ current' \in Ready(songs)
    BY <1>1, Typed, UpdateQueueRight
<1>3. current \in SongOrNone /\ None \notin Songs
    BY Typed, SongsAssumption
<1>4. current' # None => HasAudio(current)'
    <2> SUFFICES ASSUME current' # None
                 PROVE  status'[current'] \in {"ready", "played"}
        BY DEF HasAudio
    <2>1. CASE kept
        <3>1. status[current] \in {"ready", "played"} /\ current \in Songs
            BY <1>3, <2>1 DEF CurrentPlays, HasAudio, SongOrNone
        <3> QED
            BY <1>2, <2>1, <3>1 DEF Follows
    <2>2. CASE ~kept
        BY <1>2, <2>2 DEF Ready
    <2> QED
        BY <2>1, <2>2
<1>5. ASSUME NEW s \in advanced'
      PROVE  status'[s] # "generating" /\ (s = current' \/ status'[s] # "ready")
    <2>1. CASE s \in advanced
        <3>1. s \in Songs /\ status[s] # "generating" /\ (s = current \/ status[s] # "ready")
            BY <2>1 DEF TypeOK, Advanced
        <3>2. CASE s = current
            BY <1>2, <1>3, <3>1, <3>2 DEF Follows
        <3>3. CASE s # current
            BY <1>2, <3>1, <3>3 DEF Follows
        <3> QED
            BY <3>2, <3>3
    <2>2. CASE s \notin advanced
        <3>1. s = current' /\ current' # None /\ current' # current
            BY <1>5, <2>2
        <3> QED
            BY <1>2, <3>1 DEF Ready
    <2> QED
        BY <2>1, <2>2
<1> QED
    BY <1>4, <1>5 DEF Advanced

LEMMA RefreshQuiet ==
    ASSUME TypeOK, Quiet, NEW songs, Follows(songs), NEW newEpoch \in Nat,
           Refresh(songs, newEpoch)
    PROVE  Quiet'
<1>1. songs \in Songbook
    BY DEF Follows
<1>2. UNCHANGED <<synced, devices, open, loaded>> /\ Reached' = Reached
    BY DEF Refresh, links, audio, Reached
<1>3. CASE synced
    <2>1. /\ UpdateQueue(songs, newEpoch, current, isPlaying, inbox, Reached)
          /\ advanced' = IF current' # current THEN advanced \cup ({current'} \ {None})
                                               ELSE advanced
        BY <1>3 DEF Refresh
    <2>2. /\ Advanced'
          /\ current' # None => HasAudio(current)'
        BY <2>1, Typed, UpdateQueueQuiet DEF Quiet
    <2>3. current' # None => \A p \in Reached : Loads(inbox'[p], loaded[p], current')
        BY <1>1, <2>1, Typed, UpdateQueueLoads DEF Quiet, Locked
    <2> QED
        BY <1>2, <1>3, <2>2, <2>3 DEF Quiet, CurrentPlays, Locked
<1>4. CASE ~synced
    <2>1. status' = songs /\ UNCHANGED <<current, inbox, advanced>> /\ current = None
        BY <1>4 DEF Refresh, playback, Quiet, CurrentPlays
    <2>2. ASSUME NEW s \in advanced
          PROVE  songs[s] # "generating" /\ (s = current \/ songs[s] # "ready")
        <3>1. s \in Songs /\ s # None
            BY <2>2, SongsAssumption DEF TypeOK
        <3>2. status[s] # "generating" /\ status[s] # "ready"
            BY <2>1, <2>2, <3>1 DEF Quiet, Advanced
        <3> QED
            BY <3>1, <3>2 DEF Follows
    <2> QED
        BY <2>1, <2>2 DEF Quiet, CurrentPlays, Advanced, Locked
<1> QED
    BY <1>3, <1>4

\* The song that ends is not ready any more; the next one is sent to everyone.
LEMMA HandleSongEndedQuiet ==
    ASSUME TypeOK, Quiet, HandleSongEnded, synced, UNCHANGED <<synced, devices, open, loaded>>
    PROVE  Quiet'
<1>1. Reached' = Reached
    BY DEF Reached
<1>2. CASE ended
    <2>1. UNCHANGED <<status, current, inbox, advanced>>
        BY <1>2 DEF HandleSongEnded, table, playback
    <2> QED
        BY <1>1, <2>1 DEF Quiet, CurrentPlays, HasAudio, Advanced, Locked
<1>3. CASE ~ended
    <2> DEFINE next == PickNext(Ready(status), current, KnownCurrent, epoch)
               told == IF next # None THEN Tell(inbox, Reached, NextSongAt(next))
                                      ELSE TellState(inbox, Reached, None)
    <2>1. /\ current' = next /\ next \in SongOrNone
          /\ status' = CurrentPlayed
          /\ advanced' = advanced \cup ({next} \ {None})
          /\ next # None => next \in Ready(status) /\ next # current
          /\ told \in Boxes
          /\ inbox' = TellState(told, Reached, next)
        BY <1>3, HandleSongEndedRight, Zenon
    <2>2. next # None => \A p \in Reached : Loads(told[p], loaded[p], next)
        <3> HIDE DEF next
        <3> QED
            BY <2>1, Typed, TellLoads
    <2> HIDE DEF next, told
    <2>3. next # None => \A p \in Reached : Loads(inbox'[p], loaded[p], next)
        BY <2>1, <2>2, Typed, TellStateLoads
    <2>4. next # None => CurrentPlayed[next] = "ready"
        BY <2>1, CurrentPlayedRight DEF Ready
    <2>5. ASSUME NEW s \in advanced'
          PROVE  status'[s] # "generating" /\ (s = current' \/ status'[s] # "ready")
        <3>1. CASE s = next /\ next # None
            BY <2>1, <2>4, <3>1
        <3>2. CASE s \in advanced
            <4>1. s \in Songs /\ status[s] # "generating" /\ (s = current \/ status[s] # "ready")
                BY <3>2 DEF TypeOK, Quiet, Advanced
            <4> QED
                BY <2>1, <4>1, CurrentPlayedRight
        <3> QED
            BY <2>1, <2>5, <3>1, <3>2
    <2> QED
        BY <1>1, <2>1, <2>3, <2>4, <2>5 DEF Quiet, CurrentPlays, HasAudio, Advanced, Locked
<1> QED
    BY <1>2, <1>3

LEMMA NoSyncsStep ==
    ASSUME TypeOK, NoSyncs, ~Syncing, [Next]_vars
    PROVE  NoSyncs'
<1>1. CASE outbox' = outbox
    BY <1>1 DEF NoSyncs
<1>2. ASSUME NEW p \in Players, outbox' = [outbox EXCEPT ![p] = <<>>]
      PROVE  NoSyncs'
    BY <1>2 DEF NoSyncs, TypeOK
<1>3. ASSUME NEW p \in Players, outbox[p] # <<>>, outbox' = [outbox EXCEPT ![p] = Tail(@)]
      PROVE  NoSyncs'
    <2> DEFINE q == outbox[p]
    <2>1. q \in Seq(ToServer) /\ outbox'[p] = Tail(q)
        BY <1>3 DEF TypeOK
    <2>2. /\ Tail(q) \in Seq(ToServer) /\ Len(Tail(q)) = Len(q) - 1 /\ Len(q) \in Nat
          /\ DOMAIN q = 1..Len(q) /\ DOMAIN Tail(q) = 1..Len(Tail(q))
          /\ \A k \in 1..Len(Tail(q)) : Tail(q)[k] = q[k + 1]
        BY <1>3, <2>1, HeadTailProperties, LenProperties
    <2>3. \A k \in DOMAIN Tail(q) : Tail(q)[k].kind # "sync"
        <3> TAKE k \in DOMAIN Tail(q)
        <3>1. Tail(q)[k] = q[k + 1] /\ k + 1 \in DOMAIN q
            BY <2>2
        <3> QED
            BY <3>1 DEF NoSyncs
    <2>4. \A r \in Players \ {p} : outbox'[r] = outbox[r]
        BY <1>3 DEF TypeOK
    <2> HIDE DEF q
    <2> QED
        BY <2>1, <2>3, <2>4 DEF NoSyncs
<1>4. ASSUME NEW p \in Players, SongEnds(p)
      PROVE  NoSyncs'
    <2> DEFINE m == SongEnded(loaded[p])
               q == outbox[p]
               r == Append(q, m)
    <2>1. CASE outbox' = [outbox EXCEPT ![p] = r]
        <3>1. q \in Seq(ToServer) /\ m \in ToServer /\ m.kind # "sync"
            BY MessageTypes DEF TypeOK, SongEnded
        <3>2. /\ r \in Seq(ToServer) /\ Len(r) = Len(q) + 1 /\ Len(q) \in Nat
              /\ DOMAIN q = 1..Len(q) /\ DOMAIN r = 1..Len(r)
              /\ \A k \in 1..Len(q) : r[k] = q[k]
              /\ r[Len(q) + 1] = m
            <4> HIDE DEF q, m
            <4> QED
                BY <3>1, AppendProperties, LenProperties
        <3>3. \A k \in DOMAIN q : q[k].kind # "sync"
            BY DEF NoSyncs
        <3>4. outbox'[p] = r /\ \A o \in Players \ {p} : outbox'[o] = outbox[o]
            BY <2>1 DEF TypeOK
        <3> HIDE DEF q, m, r
        <3>5. \A k \in DOMAIN r : r[k].kind # "sync"
            BY <3>1, <3>2, <3>3
        <3> QED
            BY <3>4, <3>5 DEF NoSyncs
    <2>2. CASE outbox' = outbox
        BY <1>1, <2>2
    <2> QED
        BY <1>4, <2>1, <2>2 DEF SongEnds
<1>5. CASE Restart
    <2>1. \A p \in Players : outbox'[p] = <<>>
        BY <1>5 DEF Restart
    <2> QED
        BY <2>1 DEF NoSyncs
<1>6. ASSUME NEW p \in Players, Drop(p) \/ Handle(p) \/ SongEnds(p)
      PROVE  NoSyncs'
    BY <1>2, <1>3, <1>4, <1>6 DEF Drop, Handle
<1>7. ASSUME NEW p \in Players,
             Join(p) \/ LateClose(p) \/ Receive(p) \/ StartAt(p) \/ SyncTick(p)
      PROVE  outbox' = outbox
    BY <1>7 DEF Join, LateClose, Receive, StartAt, SyncTick
<1>8. ASSUME NEW s \in Songs, SongReady(s) \/ SongDeleted(s) \/ Select(s)
      PROVE  outbox' = outbox
    BY <1>8 DEF SongReady, SongDeleted, Select, Refresh
<1>9. ASSUME NEW play \in BOOLEAN, PlayOrPause(play)
      PROVE  outbox' = outbox
    BY <1>9 DEF PlayOrPause
<1>10. CASE Steered \/ Skip \/ DebounceOver \/ StateTimer \/ UNCHANGED vars
    BY <1>1, <1>10 DEF Steered, Refresh, Skip, DebounceOver, StateTimer, vars
<1> QED
    BY <1>1, <1>5, <1>6, <1>7, <1>8, <1>9, <1>10 DEF Next

\* A room that does not exist is reached by no message.
Served == ~synced => open = {} /\ \A p \in Players : outbox[p] = <<>>

LEMMA ServedStep ==
    ASSUME TypeOK, Served, ~Syncing, [Next]_vars
    PROVE  Served'
<1>1. CASE UNCHANGED <<synced, open, outbox>>
    BY <1>1 DEF Served
<1>2. CASE synced' = TRUE
    BY <1>2 DEF Served
<1>3. CASE Restart
    BY <1>3 DEF Restart, Served
<1>4. ASSUME NEW p \in Players, Drop(p) \/ Handle(p) \/ SongEnds(p)
      PROVE  Served'
    <2>1. CASE synced
        BY <1>2, <1>4, <2>1 DEF Drop, Handle, SongEnds, TypeOK
    <2>2. CASE ~synced
        <3>1. p \notin open /\ outbox[p] = <<>>
            BY <2>2 DEF Served
        <3>2. SongEnds(p)
            BY <1>4, <3>1 DEF Drop, Handle
        <3> QED
            BY <1>1, <3>1, <3>2 DEF SongEnds, links
    <2> QED
        BY <2>1, <2>2
<1>5. ASSUME NEW p \in Players, LateClose(p) \/ Receive(p) \/ StartAt(p) \/ SyncTick(p)
      PROVE  UNCHANGED <<synced, open, outbox>>
    BY <1>5 DEF LateClose, Receive, StartAt, SyncTick, links
<1>6. ASSUME NEW p \in Players, Join(p)
      PROVE  synced' = TRUE
    BY <1>6 DEF Join
<1>7. ASSUME NEW s \in Songs, SongReady(s) \/ SongDeleted(s) \/ Select(s)
      PROVE  UNCHANGED <<synced, open, outbox>>
    BY <1>7 DEF SongReady, SongDeleted, Select, Refresh, links
<1>8. ASSUME NEW play \in BOOLEAN, PlayOrPause(play)
      PROVE  UNCHANGED <<synced, open, outbox>>
    BY <1>8 DEF PlayOrPause, links
<1>9. CASE Steered \/ Skip \/ DebounceOver \/ StateTimer \/ UNCHANGED vars
    <2>1. UNCHANGED <<synced, open, outbox>>
        BY <1>9 DEF Steered, Refresh, Skip, DebounceOver, StateTimer, vars, links
    <2> QED
        BY <1>1, <2>1
<1> QED
    BY <1>1, <1>2, <1>3, <1>4, <1>5, <1>6, <1>7, <1>8, <1>9 DEF Next

\* Without syncs every step keeps the players with the room.
LEMMA QuietStep ==
    ASSUME TypeOK, NoSyncs, Served, Quiet, [Next]_vars
    PROVE  Quiet'
<1>1. CASE UNCHANGED <<status, synced, current, advanced, devices, open, inbox, loaded>>
    BY <1>1 DEF Quiet, CurrentPlays, HasAudio, Advanced, Locked, Reached
<1>2. ASSUME NEW s \in Songs, SongReady(s)
      PROVE  Quiet'
    <2>1. Follows([status EXCEPT ![s] = "ready"])
        BY <1>2, Typed DEF SongReady, Follows, Songbook, SongStatus
    <2> QED
        BY <1>2, <2>1, Typed, RefreshQuiet DEF SongReady
<1>3. ASSUME NEW s \in Songs, SongDeleted(s)
      PROVE  Quiet'
    <2>1. Follows([status EXCEPT ![s] = "deleted"])
        BY Typed DEF Follows, Songbook, SongStatus
    <2> QED
        BY <1>3, <2>1, Typed, RefreshQuiet DEF SongDeleted
<1>4. CASE Steered
    <2>1. Follows(status) /\ epoch + 1 \in Nat
        BY Typed DEF Follows
    <2> QED
        BY <1>4, <2>1, RefreshQuiet DEF Steered
<1>5. ASSUME NEW s \in Songs, Select(s)
      PROVE  Quiet'
    <2>1. /\ HasAudio(s) /\ status' = CurrentPlayed /\ current' = s /\ synced
          /\ inbox' = Tell(inbox, Reached, NextSongAt(s))
          /\ UNCHANGED <<synced, devices, open, loaded, advanced>> /\ Reached' = Reached
        BY <1>5 DEF Select, Command, links, audio, Reached
    <2>2. \A p \in Reached : Loads(inbox'[p], loaded[p], s)
        BY <2>1, Typed, TellLoads DEF SongOrNone
    <2>3. CurrentPlayed[s] \in {"ready", "played"}
        BY <2>1, CurrentPlayedRight DEF HasAudio
    <2>4. ASSUME NEW t \in advanced
          PROVE  CurrentPlayed[t] # "generating" /\ CurrentPlayed[t] # "ready"
        <3>1. t \in Songs /\ status[t] # "generating" /\ (t = current \/ status[t] # "ready")
            BY <2>4 DEF TypeOK, Quiet, Advanced
        <3> QED
            BY <3>1, CurrentPlayedRight
    <2> QED
        BY <2>1, <2>2, <2>3, <2>4 DEF Quiet, CurrentPlays, HasAudio, Advanced, Locked
<1>6. ASSUME NEW play \in BOOLEAN, PlayOrPause(play)
      PROVE  Quiet'
    <2> DEFINE box == Tell(inbox, Reached, Execute(play))
    <2>1. /\ UNCHANGED <<status, synced, current, advanced, devices, open, loaded>>
          /\ Reached' = Reached /\ inbox' = TellState(box, Reached, current)
        BY <1>6 DEF PlayOrPause, table, links, audio, Reached
    <2>2. box \in Boxes
        BY Typed, MessageTypes, TellRight
    <2>3. ASSUME NEW p \in Reached, Loads(inbox[p], loaded[p], current)
          PROVE  Loads(box[p], loaded[p], current)
        <3>1. box[p] = Append(inbox[p], Execute(play))
            BY Typed DEF Tell
        <3>2. /\ inbox[p] \in Seq(ToPlayer) /\ Execute(play) \in ToPlayer
              /\ Execute(play).kind \notin SongKinds
            BY Typed, MessageTypes DEF Boxes, Execute, SongKinds
        <3> QED
            BY <2>3, <3>1, <3>2, LoadsAppend
    <2> HIDE DEF box
    <2>4. ASSUME NEW p \in Reached, Loads(inbox[p], loaded[p], current)
          PROVE  Loads(inbox'[p], loaded[p], current)
        BY <2>1, <2>2, <2>3, <2>4, Typed, TellStateLoads
    <2> QED
        BY <2>1, <2>4 DEF Quiet, CurrentPlays, HasAudio, Advanced, Locked
<1>7. CASE Skip
    BY <1>7, HandleSongEndedQuiet DEF Skip, Command, links, audio
<1>8. CASE StateTimer
    <2>1. /\ UNCHANGED <<status, synced, current, advanced, devices, open, loaded>>
          /\ Reached' = Reached /\ inbox' = TellState(inbox, Reached, current)
        BY <1>8 DEF StateTimer, table, playback, links, audio, Reached
    <2>2. ASSUME NEW p \in Reached, Loads(inbox[p], loaded[p], current)
          PROVE  Loads(inbox'[p], loaded[p], current)
        BY <2>1, <2>2, Typed, TellStateLoads
    <2> QED
        BY <2>1, <2>2 DEF Quiet, CurrentPlays, HasAudio, Advanced, Locked
<1>9. CASE Restart
    <2>1. current' = None /\ status' = status /\ advanced' = advanced \ {current}
        BY <1>9 DEF Restart, table
    <2> QED
        BY <2>1 DEF Quiet, CurrentPlays, Advanced, Locked
<1>10. ASSUME NEW p \in Players, Join(p)
       PROVE  Quiet'
    <2> DEFINE box == [TellState(inbox, Reached, current) EXCEPT ![p] = <<Greeting>>]
               to == Reached \cup {p}
    <2>1. box \in Boxes
        BY JoinBox
    <2>2. /\ UpdateQueue(status, epoch, current, isPlaying, box, to)
          /\ advanced' = IF current' # current THEN advanced \cup ({current'} \ {None})
                                               ELSE advanced
          /\ synced' = TRUE /\ loaded' = loaded /\ Reached' = to
        BY <1>10 DEF Join, audio, Reached
    <2>3. ASSUME current # None, NEW q \in to
          PROVE  Loads(box[q], loaded[q], current)
        <3>1. q \in Players
            BY Typed
        <3>2. CASE q = p
            <4>1. Greeting = NextSong(current)
                BY <2>3 DEF Greeting, Quiet, CurrentPlays
            <4>2. box[q] = Append(<<>>, NextSong(current))
                <5>1. TellState(inbox, Reached, current) \in Boxes
                    BY Typed, TellStateRight
                <5> QED
                    BY <3>2, <4>1, <5>1 DEF Boxes
            <4>3. /\ NextSong(current) \in ToPlayer /\ NextSong(current).kind \in SongKinds
                  /\ NextSong(current).song = current /\ <<>> \in Seq(ToPlayer)
                BY Typed, MessageTypes DEF NextSong, SongKinds
            <4> QED
                BY <4>2, <4>3, LoadsAppend
        <3>3. CASE q # p
            <4>1. box[q] = TellState(inbox, Reached, current)[q]
                <5>1. TellState(inbox, Reached, current) \in Boxes
                    BY Typed, TellStateRight
                <5> QED
                    BY <3>1, <3>3, <5>1 DEF Boxes
            <4>2. Loads(inbox[q], loaded[q], current)
                BY <2>3, <3>3 DEF Quiet, Locked
            <4> QED
                BY <3>1, <4>1, <4>2, Typed, TellStateLoads
        <3> QED
            BY <3>2, <3>3
    <2>4. to \in SUBSET Players /\ Follows(status)
        BY Typed DEF Follows
    <2> HIDE DEF box, to
    <2>5. /\ Advanced'
          /\ current' # None => HasAudio(current)'
        BY <2>1, <2>2, <2>4, Typed, UpdateQueueQuiet DEF Quiet
    <2>6. current' # None => \A q \in to : Loads(inbox'[q], loaded[q], current')
        BY <2>1, <2>2, <2>3, <2>4, Typed, UpdateQueueLoads
    <2> QED
        BY <2>2, <2>5, <2>6 DEF Quiet, CurrentPlays, Locked
<1>11. ASSUME NEW p \in Players, Drop(p)
       PROVE  Quiet'
    <2> DEFINE box == [inbox EXCEPT ![p] = <<>>]
    <2>1. /\ UNCHANGED <<status, synced, current, advanced, loaded>>
          /\ Reached' = Reached \ {p}
          /\ inbox' = TellState(box, Reached \ {p}, current) \/ inbox' = box
        BY <1>11 DEF Drop, table, playback, audio, Reached
    <2>2. box \in Boxes /\ Reached \ {p} \in SUBSET Players
        BY Typed DEF Boxes
    <2>3. \A q \in Reached \ {p} : box[q] = inbox[q]
        BY Typed DEF Boxes
    <2> HIDE DEF box
    <2>4. ASSUME NEW q \in Reached \ {p}, Loads(inbox[q], loaded[q], current)
          PROVE  Loads(inbox'[q], loaded[q], current)
        BY <2>1, <2>2, <2>3, <2>4, Typed, TellStateLoads
    <2> QED
        BY <2>1, <2>4 DEF Quiet, CurrentPlays, HasAudio, Advanced, Locked
<1>12. ASSUME NEW p \in Players, LateClose(p)
       PROVE  Quiet'
    <2>1. /\ UNCHANGED <<status, synced, current, advanced, loaded>>
          /\ Reached' = Reached \ {p}
          /\ inbox' = TellState(inbox, Reached \ {p}, current)
        BY <1>12 DEF LateClose, table, playback, audio, Reached
    <2>2. Reached \ {p} \in SUBSET Players
        BY Typed
    <2>3. ASSUME NEW q \in Reached \ {p}, Loads(inbox[q], loaded[q], current)
          PROVE  Loads(inbox'[q], loaded[q], current)
        BY <2>1, <2>2, <2>3, Typed, TellStateLoads
    <2> QED
        BY <2>1, <2>3 DEF Quiet, CurrentPlays, HasAudio, Advanced, Locked
<1>13. ASSUME NEW p \in Players, Handle(p)
       PROVE  Quiet'
    <2> DEFINE q == outbox[p]
    <2>1. q \in Seq(ToServer) /\ q # <<>>
        BY <1>13 DEF Handle, TypeOK
    <2>2. Head(q) = q[1] /\ 1 \in DOMAIN q
        BY <2>1, EmptySeq, LenProperties
    <2>3. Head(q).kind # "sync"
        BY <2>2 DEF NoSyncs
    <2>4. HandleSongEnded /\ UNCHANGED <<synced, devices, open, loaded>>
        BY <1>13, <2>3 DEF Handle, links, audio
    <2>5. synced
        BY <2>1 DEF Served
    <2> QED
        BY <2>4, <2>5, HandleSongEndedQuiet
<1>14. ASSUME NEW p \in Players, Receive(p)
       PROVE  Quiet'
    <2> DEFINE box == inbox[p]
               m == Head(inbox[p])
    <2>1. /\ UNCHANGED <<status, synced, current, advanced>> /\ Reached' = Reached
          /\ inbox' = [inbox EXCEPT ![p] = Tail(box)] /\ box # <<>>
        BY <1>14 DEF Receive, Reached, table, links, playback
    <2>2. \A q \in Players \ {p} : inbox'[q] = inbox[q] /\ loaded'[q] = loaded[q]
        BY <1>14 DEF Receive, TypeOK
    <2>3. /\ inbox'[p] = Tail(box)
          /\ loaded'[p] = IF m.kind \in SongKinds THEN m.song ELSE loaded[p]
        BY <1>14 DEF Receive, TypeOK, SongKinds
    <2>4. box \in Seq(ToPlayer) /\ Reached \subseteq Players
        BY Typed DEF Boxes
    <2>5. ASSUME NEW q \in Reached, Loads(inbox[q], loaded[q], current)
          PROVE  Loads(inbox'[q], loaded'[q], current)
        <3>1. CASE q = p
            BY <2>1, <2>3, <2>4, <2>5, <3>1, LoadsTail
        <3>2. CASE q # p
            BY <2>2, <2>4, <2>5, <3>2
        <3> QED
            BY <3>1, <3>2
    <2> QED
        BY <2>1, <2>5 DEF Quiet, CurrentPlays, HasAudio, Advanced, Locked
<1>15. ASSUME NEW p \in Players, StartAt(p) \/ SyncTick(p) \/ SongEnds(p)
       PROVE  UNCHANGED <<status, synced, current, advanced, devices, open, inbox, loaded>>
    BY <1>15 DEF StartAt, SyncTick, SongEnds, table, links, playback, audio
<1>16. CASE DebounceOver \/ UNCHANGED vars
    <2>1. UNCHANGED <<status, synced, current, advanced, devices, open, inbox, loaded>>
        BY <1>16 DEF DebounceOver, vars, table, links, playback, audio
    <2> QED
        BY <1>1, <2>1
<1> QED
    BY <1>1, <1>2, <1>3, <1>4, <1>5, <1>6, <1>7, <1>8, <1>9, <1>10, <1>11, <1>12, <1>13,
       <1>14, <1>15, <1>16 DEF Next

LEMMA QuietInit ==
    ASSUME Init
    PROVE  NoSyncs /\ Served /\ Quiet
<1>1. /\ synced = FALSE /\ current = None /\ open = {} /\ advanced = {}
      /\ \A p \in Players : outbox[p] = <<>>
    BY DEF Init
<1>2. \A p \in Players : DOMAIN outbox[p] = {}
    BY <1>1
<1> QED
    BY <1>1, <1>2 DEF NoSyncs, Served, Quiet, CurrentPlays, Advanced, Locked

\* While no sync is under way when the song changes, the room plays no song a
\* second time of itself.
THEOREM PlayedOnceHolds ==
    ASSUME ~Syncing
    PROVE  Spec => []PlayedOnce
<1>1. Init => NoSyncs /\ Served /\ Quiet
    BY QuietInit
<1>2. TypeOK /\ NoSyncs /\ Served /\ Quiet /\ [Next]_vars => (NoSyncs /\ Served /\ Quiet)'
    BY NoSyncsStep, ServedStep, QuietStep
<1>3. Quiet => PlayedOnce
    BY DEF Quiet, Advanced, PlayedOnce
<1> QED
    BY <1>1, <1>2, <1>3, TypeCorrect, PTL DEF Spec

\* While no sync is under way when the song changes, a player that has heard
\* everything has the room's song in its audio element, for any number of players,
\* commands, lost connections, late closes and restarts.
THEOREM LockedToRoomHolds ==
    ASSUME ~Syncing
    PROVE  Spec => []LockedToRoom
<1>1. Init => NoSyncs /\ Served /\ Quiet
    BY QuietInit
<1>2. TypeOK /\ NoSyncs /\ Served /\ Quiet /\ [Next]_vars => (NoSyncs /\ Served /\ Quiet)'
    BY NoSyncsStep, ServedStep, QuietStep
<1>3. TypeOK /\ Quiet => LockedToRoom
    <2> SUFFICES ASSUME TypeOK, Quiet, current # None, NEW p \in Reached, inbox[p] = <<>>
                 PROVE  loaded[p] = current
        BY DEF LockedToRoom
    <2>1. Loads(inbox[p], loaded[p], current)
        BY DEF Quiet, Locked
    <2>2. DOMAIN inbox[p] = {}
        OBVIOUS
    <2> QED
        BY <2>1, <2>2 DEF Loads
<1> QED
    BY <1>1, <1>2, <1>3, TypeCorrect, PTL DEF Spec

-------------------------------------------------------------------------------
(* The debounce of handleSongEnded. *)

\* A song sent to a player that joined has another one, sent to all, behind it.
Passed(q) == \A k \in DOMAIN q : q[k].kind = "nextSong" =>
                 \E j \in DOMAIN q : j > k /\ q[j].kind = "nextSongAt"

NoSong(q) == \A k \in DOMAIN q : q[k].kind \notin SongKinds

\* The inductive form of Debounced: once the debounce is over, the players have
\* the room's song and nothing else to come, so another end is the end of it.
Settled ==
    byEnd /\ current # None => \A p \in Reached :
        /\ Passed(inbox[p])
        /\ Prompt /\ ~ended =>
               /\ NoSong(inbox[p])
               /\ \A k \in DOMAIN outbox[p] :
                      outbox[p][k].kind = "songEnded" => outbox[p][k].song = current

LEMMA PassedAppend ==
    ASSUME NEW q \in Seq(ToPlayer), NEW m \in ToPlayer
    PROVE  /\ m.kind = "nextSongAt" => Passed(Append(q, m))
           /\ m.kind \notin SongKinds /\ Passed(q) => Passed(Append(q, m))
           /\ m.kind \notin SongKinds /\ NoSong(q) => NoSong(Append(q, m))
<1> DEFINE r == Append(q, m)
           n == Len(q)
<1>1. /\ n \in Nat /\ DOMAIN q = 1..n /\ r \in Seq(ToPlayer) /\ Len(r) = n + 1
      /\ \A k \in 1..n : r[k] = q[k]
      /\ r[n + 1] = m
    BY LenProperties, AppendProperties
<1>2. DOMAIN r = 1..(n + 1)
    BY <1>1, LenProperties
<1> HIDE DEF r, n
<1>3. n + 1 \in DOMAIN r /\ \A k \in DOMAIN q : n + 1 > k
    BY <1>1, <1>2
<1>4. \A k \in DOMAIN r : k = n + 1 \/ (k \in DOMAIN q /\ r[k] = q[k])
    BY <1>1, <1>2
<1>5. \A k \in DOMAIN q : k \in DOMAIN r /\ r[k] = q[k]
    BY <1>1, <1>2
<1>6. m.kind = "nextSongAt" => Passed(r)
    BY <1>1, <1>3, <1>4 DEF Passed
<1>7. m.kind \notin SongKinds /\ Passed(q) => Passed(r)
    BY <1>1, <1>4, <1>5 DEF Passed, SongKinds
<1>8. m.kind \notin SongKinds /\ NoSong(q) => NoSong(r)
    BY <1>1, <1>4 DEF NoSong
<1> QED
    BY <1>6, <1>7, <1>8 DEF r

LEMMA PassedTail ==
    ASSUME NEW q \in Seq(ToPlayer), q # <<>>
    PROVE  /\ Passed(q) => Passed(Tail(q))
           /\ NoSong(q) => NoSong(Tail(q))
<1> DEFINE t == Tail(q)
<1>1. /\ t \in Seq(ToPlayer) /\ Len(t) = Len(q) - 1 /\ Len(q) \in Nat
      /\ DOMAIN q = 1..Len(q) /\ DOMAIN t = 1..Len(t)
      /\ \A k \in 1..Len(t) : t[k] = q[k + 1]
    BY HeadTailProperties, LenProperties
<1> HIDE DEF t
<1>2. \A k \in DOMAIN t : t[k] = q[k + 1] /\ k + 1 \in DOMAIN q
    BY <1>1
<1>3. ASSUME Passed(q), NEW k \in DOMAIN t, t[k].kind = "nextSong"
      PROVE  \E j \in DOMAIN t : j > k /\ t[j].kind = "nextSongAt"
    <2>1. PICK j \in DOMAIN q : j > k + 1 /\ q[j].kind = "nextSongAt"
        BY <1>2, <1>3 DEF Passed
    <2>2. j - 1 \in DOMAIN t /\ t[j - 1] = q[j] /\ j - 1 > k
        BY <1>1, <1>3, <2>1
    <2> QED
        BY <2>1, <2>2
<1>4. NoSong(q) => NoSong(t)
    BY <1>2 DEF NoSong
<1> QED
    BY <1>3, <1>4 DEF Passed, t

\* A state message is no song.
LEMMA TellStatePassed ==
    ASSUME NEW box \in Boxes, NEW to \in SUBSET Players, NEW s \in SongOrNone,
           NEW p \in Players
    PROVE  /\ Passed(box[p]) => Passed(TellState(box, to, s)[p])
           /\ NoSong(box[p]) => NoSong(TellState(box, to, s)[p])
<1>1. /\ box[p] \in Seq(ToPlayer) /\ State(s) \in ToPlayer
      /\ State(s).kind \notin SongKinds
    BY MessageTypes DEF Boxes, State, SongKinds
<1>2. TellState(box, to, s)[p] \in {box[p], Append(box[p], State(s))}
    BY TellStateRight
<1> QED
    BY <1>1, <1>2, PassedAppend

\* A step in which no song is sent and nothing reported
LEMMA SettledKept ==
    ASSUME Settled, byEnd' => byEnd, current' = current, ended' = ended, Reached' \subseteq Reached,
           \A p \in Reached' : /\ Passed(inbox[p]) => Passed(inbox'[p])
                               /\ NoSong(inbox[p]) => NoSong(inbox'[p])
                               /\ \A k \in DOMAIN outbox'[p] : \E j \in DOMAIN outbox[p] :
                                      outbox'[p][k] = outbox[p][j]
    PROVE  Settled'
<1> SUFFICES ASSUME byEnd', current' # None, NEW p \in Reached'
             PROVE  /\ Passed(inbox'[p])
                    /\ Prompt /\ ~ended' =>
                         /\ NoSong(inbox'[p])
                         /\ \A k \in DOMAIN outbox'[p] :
                                outbox'[p][k].kind = "songEnded" => outbox'[p][k].song = current'
    BY DEF Settled, Passed, NoSong
<1>1. /\ Passed(inbox[p])
      /\ Prompt /\ ~ended =>
           /\ NoSong(inbox[p])
           /\ \A k \in DOMAIN outbox[p] :
                  outbox[p][k].kind = "songEnded" => outbox[p][k].song = current
    BY DEF Settled
<1> QED
    BY <1>1

\* An event of the playlist: the song stays, or another is started, which is no
\* advance of handleSongEnded.
LEMMA RefreshSettled ==
    ASSUME TypeOK, Settled, NEW songs \in Songbook, NEW newEpoch \in Nat,
           Refresh(songs, newEpoch)
    PROVE  Settled'
<1>1. /\ UNCHANGED <<ended, outbox>> /\ Reached' = Reached /\ (byEnd' => byEnd)
    BY DEF Refresh, links, Reached
<1>2. CASE ~synced
    BY <1>1, <1>2, SettledKept DEF Refresh, playback
<1>3. CASE synced
    <2>1. /\ UpdateQueue(songs, newEpoch, current, isPlaying, inbox, Reached)
          /\ byEnd' => current' = current
        BY <1>3 DEF Refresh
    <2>2. CASE current' = None \/ ~byEnd'
        BY <2>2 DEF Settled
    <2>3. CASE current' # None /\ byEnd'
        <3>1. current # None /\ current' = current
            BY <2>1, <2>3
        <3>2. songs[current] # "deleted"
            <4>1. songs[current] = "deleted" => current' = None \/ current' \in Ready(songs)
                BY <2>1, Typed, UpdateQueueRight
            <4> QED
                BY <2>3, <3>1, <4>1 DEF Ready
        <3>3. inbox' = TellState(inbox, Reached, current)
            BY <2>1, <3>1, <3>2 DEF UpdateQueue, AutoStart
        <3> QED
            BY <1>1, <3>1, <3>3, Typed, TellStatePassed, SettledKept
    <2> QED
        BY <2>2, <2>3
<1> QED
    BY <1>2, <1>3

\* The next song is sent to everyone, behind what was sent before.
LEMMA HandleSongEndedSettled ==
    ASSUME TypeOK, Settled, HandleSongEnded, UNCHANGED <<devices, open>>,
           \A p \in Reached : \A k \in DOMAIN outbox'[p] : \E j \in DOMAIN outbox[p] :
               outbox'[p][k] = outbox[p][j]
    PROVE  Settled'
<1>1. Reached' = Reached
    BY DEF Reached
<1>2. CASE ended
    <2>1. UNCHANGED <<current, ended, inbox, byEnd>>
        BY <1>2 DEF HandleSongEnded, playback
    <2> QED
        BY <1>1, <2>1, SettledKept
<1>3. CASE ~ended
    <2> DEFINE next == PickNext(Ready(status), current, KnownCurrent, epoch)
               told == IF next # None THEN Tell(inbox, Reached, NextSongAt(next))
                                      ELSE TellState(inbox, Reached, None)
    <2>1. /\ current' = next /\ next \in SongOrNone /\ ended' = TRUE
          /\ told \in Boxes
          /\ inbox' = TellState(told, Reached, next)
        BY <1>3, HandleSongEndedRight, Zenon
    <2>2. ASSUME next # None, NEW p \in Reached
          PROVE  Passed(told[p])
        <3> HIDE DEF next
        <3>1. told[p] = Append(inbox[p], NextSongAt(next))
            BY <2>2, Typed DEF Tell
        <3>2. /\ inbox[p] \in Seq(ToPlayer) /\ NextSongAt(next) \in ToPlayer
              /\ NextSongAt(next).kind = "nextSongAt"
            BY <2>1, Typed, MessageTypes DEF Boxes, NextSongAt
        <3> QED
            BY <3>1, <3>2, PassedAppend
    <2> HIDE DEF next, told
    <2>3. next # None => \A p \in Reached : Passed(inbox'[p])
        BY <2>1, <2>2, Typed, TellStatePassed
    <2> QED
        BY <1>1, <2>1, <2>3 DEF Settled
<1> QED
    BY <1>2, <1>3

LEMMA SettledStep ==
    ASSUME TypeOK, NoSyncs, Quiet, Settled, ~Syncing, [Next]_vars
    PROVE  Settled'
<1>1. CASE UNCHANGED <<byEnd, current, ended, devices, open, inbox, outbox>>
    BY <1>1, SettledKept DEF Reached
<1>2. CASE byEnd' = FALSE
    BY <1>2 DEF Settled
<1>3. ASSUME NEW s \in Songs, SongReady(s) \/ SongDeleted(s)
      PROVE  Settled'
    <2>1. /\ [status EXCEPT ![s] = "ready"] \in Songbook
          /\ [status EXCEPT ![s] = "deleted"] \in Songbook
        BY Typed DEF Songbook, SongStatus
    <2> QED
        BY <1>3, <2>1, Typed, RefreshSettled DEF SongReady, SongDeleted
<1>4. CASE Steered
    <2>1. epoch + 1 \in Nat
        BY Typed
    <2> QED
        BY <1>4, <2>1, Typed, RefreshSettled DEF Steered
<1>5. ASSUME NEW play \in BOOLEAN, PlayOrPause(play)
      PROVE  Settled'
    <2> DEFINE box == Tell(inbox, Reached, Execute(play))
    <2>1. /\ UNCHANGED <<byEnd, current, ended, outbox>> /\ Reached' = Reached
          /\ inbox' = TellState(box, Reached, current)
        BY <1>5 DEF PlayOrPause, links, Reached
    <2>2. box \in Boxes
        BY Typed, MessageTypes, TellRight
    <2>3. ASSUME NEW p \in Reached
          PROVE  /\ Passed(inbox[p]) => Passed(box[p])
                 /\ NoSong(inbox[p]) => NoSong(box[p])
        <3>1. box[p] = Append(inbox[p], Execute(play))
            BY Typed DEF Tell
        <3>2. /\ inbox[p] \in Seq(ToPlayer) /\ Execute(play) \in ToPlayer
              /\ Execute(play).kind \notin SongKinds
            BY Typed, MessageTypes DEF Boxes, Execute, SongKinds
        <3> QED
            BY <3>1, <3>2, PassedAppend
    <2> HIDE DEF box
    <2>4. ASSUME NEW p \in Reached
          PROVE  /\ Passed(inbox[p]) => Passed(inbox'[p])
                 /\ NoSong(inbox[p]) => NoSong(inbox'[p])
        BY <2>1, <2>2, <2>3, Typed, TellStatePassed
    <2> QED
        BY <2>1, <2>4, SettledKept
<1>6. CASE Skip
    BY <1>6, HandleSongEndedSettled DEF Skip, links
<1>7. CASE StateTimer
    <2>1. /\ UNCHANGED <<byEnd, current, ended, outbox>> /\ Reached' = Reached
          /\ inbox' = TellState(inbox, Reached, current)
        BY <1>7 DEF StateTimer, playback, links, Reached
    <2> QED
        BY <2>1, Typed, TellStatePassed, SettledKept
<1>8. CASE DebounceOver
    <2>1. /\ UNCHANGED <<byEnd, current, inbox, outbox>> /\ Reached' = Reached
          /\ Prompt => \A p \in Reached :
                /\ \A k \in DOMAIN inbox[p] : inbox[p][k].kind # "nextSongAt"
                /\ \A k \in DOMAIN outbox[p] : outbox[p][k].kind # "songEnded"
        BY <1>8 DEF DebounceOver, playback, links, Reached
    <2>2. ASSUME byEnd, current # None, NEW p \in Reached
          PROVE  Passed(inbox[p])
        BY <2>2 DEF Settled
    <2>3. ASSUME byEnd, current # None, NEW p \in Reached, Prompt
          PROVE  NoSong(inbox[p])
        BY <2>1, <2>2, <2>3 DEF Passed, NoSong, SongKinds
    <2> QED
        BY <2>1, <2>2, <2>3 DEF Settled
<1>9. ASSUME NEW p \in Players, Drop(p)
       PROVE  Settled'
    <2> DEFINE box == [inbox EXCEPT ![p] = <<>>]
    <2>1. /\ UNCHANGED <<byEnd, current, ended>>
          /\ Reached' = Reached \ {p}
          /\ inbox' = TellState(box, Reached \ {p}, current) \/ inbox' = box
          /\ outbox' = [outbox EXCEPT ![p] = <<>>]
        BY <1>9 DEF Drop, playback, Reached
    <2>2. box \in Boxes /\ Reached \ {p} \in SUBSET Players
        BY Typed DEF Boxes
    <2>3. \A q \in Reached \ {p} : box[q] = inbox[q] /\ outbox'[q] = outbox[q]
        BY <2>1, Typed DEF Boxes, TypeOK
    <2> HIDE DEF box
    <2>4. ASSUME NEW q \in Reached \ {p}
          PROVE  /\ Passed(inbox[q]) => Passed(inbox'[q])
                 /\ NoSong(inbox[q]) => NoSong(inbox'[q])
        BY <2>1, <2>2, <2>3, Typed, TellStatePassed
    <2> QED
        BY <2>1, <2>3, <2>4, SettledKept
<1>10. ASSUME NEW p \in Players, LateClose(p)
       PROVE  Settled'
    <2>1. /\ UNCHANGED <<byEnd, current, ended, outbox>>
          /\ Reached' = Reached \ {p}
          /\ inbox' = TellState(inbox, Reached \ {p}, current)
        BY <1>10 DEF LateClose, playback, Reached
    <2>2. Reached \ {p} \in SUBSET Players
        BY Typed
    <2>3. ASSUME NEW q \in Reached \ {p}
          PROVE  /\ Passed(inbox[q]) => Passed(inbox'[q])
                 /\ NoSong(inbox[q]) => NoSong(inbox'[q])
        BY <2>1, <2>2, Typed, TellStatePassed
    <2> QED
        BY <2>1, <2>3, SettledKept
<1>11. ASSUME NEW p \in Players, Handle(p)
       PROVE  Settled'
    <2> DEFINE q == outbox[p]
    <2>1. q \in Seq(ToServer) /\ q # <<>>
        BY <1>11 DEF Handle, TypeOK
    <2>2. Head(q) = q[1] /\ 1 \in DOMAIN q
        BY <2>1, EmptySeq, LenProperties
    <2>3. Head(q).kind # "sync"
        BY <2>2 DEF NoSyncs
    <2>4. /\ HandleSongEnded /\ UNCHANGED <<devices, open>>
          /\ outbox' = [outbox EXCEPT ![p] = Tail(q)]
        BY <1>11, <2>3 DEF Handle, links
    <2>5. /\ Tail(q) \in Seq(ToServer) /\ Len(Tail(q)) = Len(q) - 1 /\ Len(q) \in Nat
          /\ DOMAIN q = 1..Len(q) /\ DOMAIN Tail(q) = 1..Len(Tail(q))
          /\ \A k \in 1..Len(Tail(q)) : Tail(q)[k] = q[k + 1]
        BY <2>1, HeadTailProperties, LenProperties
    <2>6. \A k \in DOMAIN Tail(q) : \E j \in DOMAIN q : Tail(q)[k] = q[j]
        <3> TAKE k \in DOMAIN Tail(q)
        <3>1. Tail(q)[k] = q[k + 1] /\ k + 1 \in DOMAIN q
            BY <2>5
        <3> QED
            BY <3>1
    <2>7. /\ outbox'[p] = Tail(q)
          /\ \A r \in Players \ {p} : outbox'[r] = outbox[r]
        BY <2>4 DEF TypeOK
    <2>8. \A r \in Reached : \A k \in DOMAIN outbox'[r] : \E j \in DOMAIN outbox[r] :
              outbox'[r][k] = outbox[r][j]
        <3> TAKE r \in Reached
        <3>1. r \in Players
            BY Typed
        <3>2. CASE r = p
            <4>1. outbox'[r] = Tail(q) /\ outbox[r] = q
                BY <2>7, <3>2
            <4> HIDE DEF q
            <4> QED
                BY <2>6, <4>1
        <3>3. CASE r # p
            BY <2>7, <3>1, <3>3
        <3> QED
            BY <3>2, <3>3
    <2> HIDE DEF q
    <2> QED
        BY <2>4, <2>8, HandleSongEndedSettled
<1>12. ASSUME NEW p \in Players, Receive(p)
       PROVE  Settled'
    <2>1. /\ UNCHANGED <<byEnd, current, ended, outbox>> /\ Reached' = Reached
          /\ inbox' = [inbox EXCEPT ![p] = Tail(inbox[p])] /\ inbox[p] # <<>>
        BY <1>12 DEF Receive, Reached, links, playback
    <2>2. ASSUME NEW q \in Reached
          PROVE  /\ Passed(inbox[q]) => Passed(inbox'[q])
                 /\ NoSong(inbox[q]) => NoSong(inbox'[q])
        <3>1. q \in Players /\ inbox[q] \in Seq(ToPlayer)
            BY Typed DEF Boxes
        <3>2. CASE q = p
            <4>1. inbox'[q] = Tail(inbox[q])
                BY <2>1, <3>1, <3>2, Typed DEF Boxes
            <4> QED
                BY <2>1, <3>1, <3>2, <4>1, PassedTail
        <3>3. CASE q # p
            BY <2>1, <3>1, <3>3, Typed DEF Boxes
        <3> QED
            BY <3>2, <3>3
    <2> QED
        BY <2>1, <2>2, SettledKept
<1>13. ASSUME NEW p \in Players, StartAt(p)
       PROVE  UNCHANGED <<byEnd, current, ended, devices, open, inbox, outbox>>
    BY <1>13 DEF StartAt, links, playback
<1>14. ASSUME NEW p \in Players, SongEnds(p)
       PROVE  Settled'
    <2> DEFINE m == SongEnded(loaded[p])
               q == outbox[p]
               r == Append(q, m)
    <2>1. /\ UNCHANGED <<byEnd, current, ended, inbox>> /\ Reached' = Reached
          /\ outbox' = outbox \/ outbox' = [outbox EXCEPT ![p] = r]
        BY <1>14 DEF SongEnds, playback, links, Reached
    <2>2. q \in Seq(ToServer) /\ m \in ToServer /\ m.song = loaded[p]
        BY MessageTypes DEF TypeOK, SongEnded
    <2>3. /\ r \in Seq(ToServer) /\ Len(r) = Len(q) + 1 /\ Len(q) \in Nat
          /\ DOMAIN q = 1..Len(q) /\ DOMAIN r = 1..Len(r)
          /\ \A k \in 1..Len(q) : r[k] = q[k]
          /\ r[Len(q) + 1] = m
        <3> HIDE DEF q, m
        <3> QED
            BY <2>2, AppendProperties, LenProperties
    <2>4. \A k \in DOMAIN r : r[k] = m \/ (k \in DOMAIN q /\ r[k] = q[k])
        <3> HIDE DEF q, m, r
        <3> QED
            BY <2>3
    <2>5. ASSUME byEnd, current # None, Prompt, ~ended, p \in Reached
          PROVE  loaded[p] = current
        <3>1. NoSong(inbox[p]) /\ Loads(inbox[p], loaded[p], current)
            BY <2>5 DEF Settled, Quiet, Locked
        <3> QED
            BY <3>1 DEF NoSong, Loads
    <2>6. CASE outbox' = [outbox EXCEPT ![p] = r]
        <3>1. outbox'[p] = r /\ \A o \in Players \ {p} : outbox'[o] = outbox[o]
            BY <2>6 DEF TypeOK
        <3> HIDE DEF m, r
        <3>2. ASSUME byEnd, current # None, Prompt, ~ended, NEW o \in Reached,
                     NEW k \in DOMAIN outbox'[o], outbox'[o][k].kind = "songEnded"
              PROVE  outbox'[o][k].song = current
            <4>1. \A j \in DOMAIN outbox[o] :
                      outbox[o][j].kind = "songEnded" => outbox[o][j].song = current
                BY <3>2 DEF Settled
            <4>2. CASE o = p
                BY <2>2, <2>4, <2>5, <3>1, <3>2, <4>1, <4>2
            <4>3. CASE o # p
                BY <3>1, <3>2, <4>1, <4>3, Typed
            <4> QED
                BY <4>2, <4>3
        <3> QED
            BY <2>1, <3>2 DEF Settled
    <2>7. CASE outbox' = outbox
        BY <2>1, <2>7, SettledKept
    <2> QED
        BY <2>1, <2>6, <2>7
<1>15. ASSUME NEW p \in Players
       PROVE  ~SyncTick(p)
    BY DEF SyncTick
<1>16. CASE UNCHANGED vars
    BY <1>1, <1>16 DEF vars, playback, links
<1>17. CASE \E s \in Songs : Select(s)
    BY <1>2, <1>17 DEF Select
<1>18. CASE Restart \/ \E p \in Players : Join(p)
    BY <1>2, <1>18 DEF Restart, Join
<1> QED
    BY <1>1, <1>3, <1>4, <1>5, <1>6, <1>7, <1>8, <1>9, <1>10, <1>11, <1>12, <1>13, <1>14,
       <1>15, <1>16, <1>17, <1>18 DEF Next

\* While messages are prompt and no sync is under way when the song changes, an
\* end reported after the debounce is the end of the room's song, for any number
\* of players, commands, lost connections and restarts.
THEOREM DebouncedHolds ==
    ASSUME ~Syncing
    PROVE  Spec => []Debounced
<1>1. Init => NoSyncs /\ Served /\ Quiet /\ Settled
    <2>1. Init => Settled
        BY DEF Init, Settled
    <2> QED
        BY <2>1, QuietInit
<1>2. TypeOK /\ NoSyncs /\ Served /\ Quiet /\ Settled /\ [Next]_vars
          => (NoSyncs /\ Served /\ Quiet /\ Settled)'
    BY NoSyncsStep, ServedStep, QuietStep, SettledStep
<1>3. Settled => Debounced
    BY DEF Settled, Debounced
<1> QED
    BY <1>1, <1>2, <1>3, TypeCorrect, PTL DEF Spec

===============================================================================

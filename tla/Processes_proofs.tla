---------------------------- MODULE Processes_proofs ----------------------------
(***************************************************************************)
(* What holds of the two objects that drive processes of their own: the    *)
(* engine of the daemon and the client of the Codex app server, for every  *)
(* set of songs, levels and calls, and every number of processes that may  *)
(* be around.  Each part is about a specification of its own.              *)
(*                                                                         *)
(* The daemon is built on the abstract Player.  That the engine is one is  *)
(* shown by EngineIsAPlayer.  What has to be known of the processes is     *)
(* little: the one the engine holds was not told to terminate, and all     *)
(* others were (Processes).  So the exit of one that it has let go of is   *)
(* never taken for the end of the song that has been loaded since.         *)
(*                                                                         *)
(* That nothing waits for a Codex process the client has forgotten rests   *)
(* on how initialized, startPromise and proc go together (StartAndProc).   *)
(* That a call goes on with its own answer rests on the numbers: what is   *)
(* under way in either direction, also of processes that are no longer     *)
(* current, has a number that was given out, and if a call waits for that  *)
(* number, it is the one that asked (Numbers).                             *)
(***************************************************************************)
EXTENDS FfplayEngine, CodexClient, FiniteSetTheorems, SequenceTheorems, TLAPS

-------------------------------------------------------------------------------
(* The engine.                                                             *)

\* The process that is held is there, and has been told to stop exactly if the engine
\* is paused; all others have been told to terminate.
Processes ==
    \A p \in Pids :
        /\ ff.process = p => os[p].at # "none" /\ ~os[p].term
        /\ ff.process = p => (ff.paused => os[p].at # "running")
        /\ ff.process # p => (os[p].at # "none" => os[p].term)

\* What the fields of the engine have to do with each other.
Fields ==
    /\ ff.process # NoProcess => ff.song # NoSong
    /\ ff.paused => ff.song # NoSong
    /\ ff.scheduled => ff.song # NoSong /\ ff.process = NoProcess /\ ~ff.paused
    /\ ff.restart => ff.paused
    /\ ff.retry => ff.attempts < MaxRetries
    /\ ended => ff.process = NoProcess /\ ~ff.paused /\ ~ff.scheduled /\ ff.song # NoSong

\* The level that is taken to be applied is one of the two the process has, and the one
\* that was asked for unless the process is to be replaced before it is heard again.
Level ==
    \A p \in Pids :
        ff.process = p /\ ff.applied # Unknown =>
            /\ ff.applied \in {os[p].own, os[p].sink}
            /\ ~ff.restart => ff.applied = Effective(ff)

\* The inductive invariant.
EngineInv == TypeOK /\ Processes /\ Fields /\ Level

-------------------------------------------------------------------------------
LEMMA EngineConstantsOK ==
    /\ NoSong \notin Songs /\ NoProcess \notin Pids
    /\ Unknown \notin Levels /\ Volumes \subseteq Levels /\ 0 \in Levels
    /\ Pids # {}
BY EngineAssumption DEF NoSong, NoProcess, Unknown, Levels

LEMMA EffectiveIsLevel ==
    ASSUME NEW f, f.volume \in Volumes, f.muted \in BOOLEAN
    PROVE  Effective(f) \in Levels
BY DEF Effective, Levels

\* When the process that is held has been terminated, all have been.
LEMMA TerminatedAll ==
    ASSUME EngineInv
    PROVE  /\ Terminated(ff.process) \in [Pids -> Process]
           /\ \A p \in Pids : Terminated(ff.process)[p].at # "none" =>
                  Terminated(ff.process)[p].term
<1>1. CASE ff.process = NoProcess
    BY <1>1, EngineConstantsOK DEF EngineInv, TypeOK, Processes, Terminated, Process
<1>2. CASE ff.process # NoProcess
    <2>1. ff.process \in Pids
        BY <1>2 DEF EngineInv, TypeOK, Field
    <2> DEFINE o == Terminated(ff.process)
    <2>2. o = [os EXCEPT ![ff.process] =
                  IF os[ff.process].at = "stopped" THEN NoOne
                  ELSE [os[ff.process] EXCEPT !.term = TRUE]]
        BY <1>2 DEF Terminated
    <2>3. NoOne \in Process /\ NoOne.at = "none"
        BY EngineConstantsOK DEF NoOne, Process, Remembered
    <2>4. \A p \in Pids : p # ff.process => o[p] = os[p]
        BY <2>2 DEF EngineInv, TypeOK
    <2>5. /\ o[ff.process] \in Process
          /\ o[ff.process].at # "none" => o[ff.process].term
        <3>1. os[ff.process] \in Process
            BY <2>1 DEF EngineInv, TypeOK
        <3>2. /\ [os[ff.process] EXCEPT !.term = TRUE] \in Process
              /\ [os[ff.process] EXCEPT !.term = TRUE].term
            BY <3>1 DEF Process
        <3>3. o[ff.process] = IF os[ff.process].at = "stopped" THEN NoOne
                              ELSE [os[ff.process] EXCEPT !.term = TRUE]
            BY <2>1, <2>2 DEF EngineInv, TypeOK
        <3>4. QED
            BY <2>3, <3>2, <3>3
    <2>6. o \in [Pids -> Process]
        BY <2>2, <2>4, <2>5 DEF EngineInv, TypeOK
    <2>7. \A p \in Pids : o[p].at # "none" => o[p].term
        BY <2>4, <2>5 DEF EngineInv, Processes
    <2>8. QED
        BY <2>6, <2>7
<1>3. QED
    BY <1>1, <1>2

\* What is left of the engine when its process is let go of.
LEMMA StoppedIs ==
    ASSUME NEW f \in Field
    PROVE  /\ Stopped(f) \in Field
           /\ Stopped(f).song = f.song /\ Stopped(f).paused = f.paused
           /\ Stopped(f).process = NoProcess /\ ~Stopped(f).scheduled /\ ~Stopped(f).retry
<1>1. 0 \in 0..MaxRetries
    BY EngineAssumption
<1>2. QED
    BY <1>1 DEF Stopped, Field

\* There is always a place for a new process.
LEMMA SlotIsFree ==
    ASSUME NEW o, \A p \in Pids : o[p].at # "none" => o[p].term
    PROVE  Slot(o) \in Pids
BY EngineConstantsOK DEF Slot

\* A process that is spawned is the only one, plays what is loaded and has the level
\* that is taken to be applied for its own.
LEMMA SpawnsKeeps ==
    ASSUME EngineInv,
           NEW f \in [ song : Songs, process : {ff.process}, scheduled : BOOLEAN,
                       paused : BOOLEAN, restart : BOOLEAN, volume : Volumes,
                       muted : BOOLEAN, applied : Levels \cup {Unknown},
                       retry : BOOLEAN, attempts : 0..MaxRetries ],
           Spawns(f)
    PROVE  EngineInv' /\ ff'.song = f.song /\ State' = "playing"
<1> DEFINE o == Terminated(f.process)
           p == Slot(o)
<1>1. PICK at \in {"running", "failed"}, sink \in Remembered :
          /\ os' = [o EXCEPT ![p] = [at |-> at, term |-> FALSE, own |-> Effective(f),
                                     sink |-> sink]]
          /\ ff' = [Stopped(f) EXCEPT !.process = p, !.paused = FALSE, !.restart = FALSE,
                                      !.applied = Effective(f)]
          /\ ended' = FALSE
    BY DEF Spawns
<1>2. /\ o \in [Pids -> Process]
      /\ \A q \in Pids : o[q].at # "none" => o[q].term
    BY TerminatedAll
<1>3. p \in Pids
    BY <1>2, SlotIsFree
<1>4. Effective(f) \in Levels
    BY EffectiveIsLevel
<1>5. /\ os' \in [Pids -> Process]
      /\ os'[p] = [at |-> at, term |-> FALSE, own |-> Effective(f), sink |-> sink]
      /\ \A q \in Pids : q # p => os'[q] = o[q]
    <2>1. [at |-> at, term |-> FALSE, own |-> Effective(f), sink |-> sink] \in Process
        BY <1>4 DEF Process
    <2>2. QED
        BY <1>1, <1>2, <1>3, <2>1
<1>6. ff' = [ song |-> f.song, process |-> p, scheduled |-> FALSE, paused |-> FALSE,
              restart |-> FALSE, volume |-> f.volume, muted |-> f.muted,
              applied |-> Effective(f), retry |-> FALSE, attempts |-> 0 ]
    BY <1>1 DEF Stopped
<1>7. TypeOK'
    <2>1. ff' \in Field
        BY <1>3, <1>4, <1>6, EngineAssumption DEF Field
    <2>2. QED
        BY <1>1, <1>5, <2>1 DEF TypeOK
<1>8. Processes'
    BY <1>2, <1>5, <1>6 DEF Processes
<1>9. Effective(ff)' = Effective(f)
    BY <1>6 DEF Effective
<1>10. Fields' /\ Level'
    <2>1. f.song # NoSong
        BY EngineConstantsOK
    <2>2. os'[p].own = Effective(f)
        BY <1>5
    <2>3. Fields'
        <3>1. ~ended'
            BY <1>1
        <3>2. /\ ff'.song # NoSong
              /\ ~ff'.paused /\ ~ff'.scheduled /\ ~ff'.restart /\ ~ff'.retry
            BY <1>6, <2>1
        <3>3. QED
            BY <3>1, <3>2 DEF Fields
    <2>4. Level'
        BY <1>6, <1>9, <2>2 DEF Level
    <2>5. QED
        BY <2>3, <2>4
<1>11. State' = "playing"
    BY <1>3, <1>6, EngineConstantsOK DEF State
<1>12. QED
    BY <1>6, <1>7, <1>8, <1>10, <1>11 DEF EngineInv

\* What is true of the processes when all of them have been let go of.
LEMMA LetsGoKeeps ==
    ASSUME EngineInv, os' = Terminated(ff.process), ff' \in Field,
           ended' \in BOOLEAN,
           ff'.process = NoProcess, Fields'
    PROVE  EngineInv'
<1>1. /\ os' \in [Pids -> Process]
      /\ \A p \in Pids : os'[p].at # "none" => os'[p].term
    BY TerminatedAll
<1>2. \A p \in Pids : ff'.process # p
    BY EngineConstantsOK
<1>3. TypeOK'
    BY <1>1 DEF TypeOK
<1>4. Processes' /\ Level'
    BY <1>1, <1>2 DEF Processes, Level
<1>5. QED
    BY <1>3, <1>4 DEF EngineInv

\* Where a level is set, only the level changes; when that fails, it is known.
LEMMA AppliesKeeps ==
    ASSUME EngineInv, ~ff.paused, UNCHANGED ended,
           NEW f \in Field, NEW g \in Field,
           \A h \in {f, g} :
               /\ h.song = ff.song /\ h.process = ff.process /\ h.scheduled = ff.scheduled
               /\ h.paused = ff.paused /\ h.restart = ff.restart
               /\ h.retry => h.attempts < MaxRetries,
           f.applied = ff.applied,
           g.applied = Unknown \/ (g.applied = ff.applied /\ Effective(g) = Effective(ff)),
           Applies(f, g)
    PROVE  EngineInv' /\ UNCHANGED P!player
<1> USE DEF Field
<1>1. ff \in Field /\ os \in [Pids -> Process] /\ ended \in BOOLEAN
    BY DEF EngineInv, TypeOK
<1>2. Effective(f) \in Levels /\ Effective(f) # Unknown
    BY EffectiveIsLevel, EngineConstantsOK
<1>3. CASE /\ f.process # NoProcess
           /\ ff' = [f EXCEPT !.applied = Effective(f), !.attempts = 0]
           /\ \/ Effective(f) = f.applied /\ os' = os
              \/ os' = [os EXCEPT ![f.process].sink = Effective(f)]
    <2>1. f.process \in Pids
        BY <1>3
    <2>2. /\ ff' \in Field
          /\ ff'.song = ff.song /\ ff'.process = ff.process /\ ff'.scheduled = ff.scheduled
          /\ ff'.paused = ff.paused /\ ff'.restart = ff.restart
          /\ ff'.applied = Effective(f) /\ ff'.volume = f.volume /\ ff'.muted = f.muted
          /\ ff'.attempts = 0 /\ ff'.retry = f.retry
        <3>1. ff' \in Field
            <4>1. 0 \in 0..MaxRetries /\ Effective(f) \in Levels \cup {Unknown}
                BY <1>2, EngineAssumption
            <4>2. QED
                BY <1>3, <4>1
        <3>2. QED
            BY <1>3, <3>1
    <2>3. Effective(ff)' = Effective(f)
        BY <2>2 DEF Effective
    <2>4. [os[f.process] EXCEPT !.sink = Effective(f)] \in Process
        BY <1>1, <1>2, <2>1 DEF Process, Remembered
    <2>5. /\ os' \in [Pids -> Process]
          /\ \A p \in Pids : os'[p].at = os[p].at /\ os'[p].term = os[p].term
          /\ Effective(f) \in {os'[f.process].own, os'[f.process].sink}
        <3>1. CASE os' = os /\ Effective(f) = f.applied
            BY <1>1, <1>2, <2>1, <3>1 DEF EngineInv, Level
        <3>2. CASE os' = [os EXCEPT ![f.process].sink = Effective(f)]
            <4>1. os' = [os EXCEPT ![f.process] = [os[f.process] EXCEPT !.sink = Effective(f)]]
                BY <3>2
            <4>2. \A p \in Pids : p # f.process => os'[p] = os[p]
                BY <1>1, <4>1
            <4>3. os'[f.process] = [os[f.process] EXCEPT !.sink = Effective(f)]
                BY <1>1, <2>1, <4>1
            <4>4. os[f.process] \in Process
                BY <1>1, <2>1
            <4>5. /\ os'[f.process].at = os[f.process].at
                  /\ os'[f.process].term = os[f.process].term
                  /\ os'[f.process].sink = Effective(f)
                BY <4>3, <4>4 DEF Process
            <4>6. os' \in [Pids -> Process]
                BY <1>1, <2>1, <2>4, <4>1
            <4>7. QED
                BY <4>2, <4>5, <4>6
        <3>3. QED
            BY <1>3, <3>1, <3>2
    <2>6. TypeOK' /\ Processes'
        BY <1>1, <2>2, <2>5 DEF EngineInv, TypeOK, Processes
    <2>7. f.retry => 0 < MaxRetries
        BY EngineAssumption
    <2>8. Fields'
        BY <2>2, <2>7 DEF EngineInv, Fields
    <2>9. Level'
        BY <2>2, <2>3, <2>5 DEF Level
    <2>10. QED
        BY <2>2, <2>6, <2>8, <2>9 DEF EngineInv, P!player, State
<1>4. CASE ff' = [g EXCEPT !.retry = @ \/ g.attempts < MaxRetries] /\ UNCHANGED os
    <2>1. /\ ff' \in Field
          /\ ff'.song = ff.song /\ ff'.process = ff.process /\ ff'.scheduled = ff.scheduled
          /\ ff'.paused = ff.paused /\ ff'.restart = ff.restart
          /\ ff'.applied = g.applied /\ ff'.volume = g.volume /\ ff'.muted = g.muted
          /\ ff'.attempts = g.attempts /\ (ff'.retry => g.attempts < MaxRetries)
        <3>1. (g.retry \/ g.attempts < MaxRetries) \in BOOLEAN
            OBVIOUS
        <3>2. ff' \in Field
            BY <1>4, <3>1
        <3>3. ff'.retry = (g.retry \/ g.attempts < MaxRetries)
            BY <1>4
        <3>4. QED
            BY <1>4, <3>2, <3>3
    <2>2. Effective(ff)' = Effective(g)
        BY <2>1 DEF Effective
    <2>3. TypeOK' /\ Processes'
        BY <1>1, <1>4, <2>1 DEF EngineInv, TypeOK, Processes
    <2>4. Fields'
        BY <2>1 DEF EngineInv, Fields
    <2>5. Level'
        BY <1>4, <2>1, <2>2 DEF EngineInv, Level
    <2>6. QED
        BY <2>1, <2>3, <2>4, <2>5 DEF EngineInv, P!player, State
<1>5. QED
    BY <1>3, <1>4 DEF Applies

\* Every step of the engine keeps the invariant and is one of the player, or none.
LEMMA EngineStepOK ==
    ASSUME EngineInv, [Next]_vars
    PROVE  EngineInv' /\ [P!PlayerNext]_(P!player)
<1> USE DEF P!player
<1>1. /\ ff \in Field /\ os \in [Pids -> Process] /\ ended \in BOOLEAN
      /\ ff.process \in Pids \cup {NoProcess} /\ ff.song \in Songs \cup {NoSong}
    BY DEF EngineInv, TypeOK, Field
<1>2. /\ ff.process # NoProcess => State = IF ff.paused THEN "paused" ELSE "playing"
      /\ ff.scheduled => State = "scheduled"
      /\ ff.paused => State = "paused" /\ ~ff.scheduled
      /\ ff.song = NoSong <=> State = "none"
    BY DEF EngineInv, Fields, State
<1>3. ASSUME ff.song # NoSong, Spawns(ff)
      PROVE  EngineInv' /\ ff'.song = ff.song /\ State' = "playing"
    <2>1. ff \in [ song : Songs, process : {ff.process}, scheduled : BOOLEAN,
                   paused : BOOLEAN, restart : BOOLEAN, volume : Volumes,
                   muted : BOOLEAN, applied : Levels \cup {Unknown},
                   retry : BOOLEAN, attempts : 0..MaxRetries ]
        BY <1>1, <1>3 DEF Field
    <2>2. QED
        BY <1>3, <2>1, SpawnsKeeps
<1>4. CASE UNCHANGED vars
    BY <1>4 DEF vars, EngineInv, TypeOK, Processes, Fields, Level, State, Effective
<1>5. ASSUME Play
      PROVE  EngineInv' /\ [P!PlayerNext]_(P!player)
    <2>1. CASE ff.song = NoSong \/ (ff.process # NoProcess /\ ~ff.paused)
        BY <1>4, <1>5, <2>1 DEF Play
    <2>2. CASE /\ ~(ff.song = NoSong \/ (ff.process # NoProcess /\ ~ff.paused))
               /\ ff.process = NoProcess \/ ff.restart
        <3>1. Spawns(ff)
            BY <1>5, <2>2 DEF Play
        <3>2. QED
            BY <1>3, <2>2, <3>1 DEF P!PlayerNext, P!Play, P!NoSong, NoSong
    <2>3. CASE /\ ff.song # NoSong /\ ff.process # NoProcess /\ ff.paused /\ ~ff.restart
               /\ ff' = [ff EXCEPT !.paused = FALSE]
               /\ os' = [os EXCEPT ![ff.process].at = IF @ = "stopped" THEN "running" ELSE @]
               /\ UNCHANGED ended
        <3>1. PICK p \in Pids : p = ff.process
            BY <1>1, <2>3
        <3>2. os[p] \in Process
            BY <1>1
        <3>3. os' = [os EXCEPT ![p] = [os[p] EXCEPT !.at =
                                          IF os[p].at = "stopped" THEN "running" ELSE os[p].at]]
            BY <2>3, <3>1
        <3>4. /\ os' \in [Pids -> Process]
              /\ \A q \in Pids : q # p => os'[q] = os[q]
              /\ os'[p].term = os[p].term
              /\ os'[p].own = os[p].own /\ os'[p].sink = os[p].sink
              /\ os'[p].at = IF os[p].at = "stopped" THEN "running" ELSE os[p].at
            BY <1>1, <3>2, <3>3 DEF Process
        <3>5. /\ ff' \in Field
              /\ ff'.song = ff.song /\ ff'.process = ff.process /\ ff'.scheduled = ff.scheduled
              /\ ~ff'.paused /\ ff'.restart = ff.restart /\ ff'.applied = ff.applied
              /\ ff'.volume = ff.volume /\ ff'.muted = ff.muted
              /\ ff'.retry = ff.retry /\ ff'.attempts = ff.attempts
            BY <1>1, <2>3 DEF Field
        <3>6. TypeOK' /\ Processes'
            BY <1>1, <2>3, <3>1, <3>4, <3>5 DEF EngineInv, TypeOK, Processes
        <3>7. Effective(ff)' = Effective(ff)
            BY <3>5 DEF Effective
        <3>8. Fields' /\ Level'
            BY <2>3, <3>1, <3>4, <3>5, <3>7 DEF EngineInv, Fields, Level
        <3>9. State' = "playing"
            BY <1>2, <2>3, <3>5 DEF State
        <3>10. QED
            BY <2>3, <3>5, <3>6, <3>8, <3>9
               DEF EngineInv, P!PlayerNext, P!Play, P!NoSong, NoSong
    <2>4. QED
        BY <1>5, <2>1, <2>2, <2>3 DEF Play
<1>6. ASSUME Pause
      PROVE  EngineInv' /\ [P!PlayerNext]_(P!player)
    <2>1. CASE ff.process = NoProcess \/ ff.paused
        BY <1>4, <1>6, <2>1 DEF Pause
    <2>2. CASE ff.process # NoProcess /\ ~ff.paused
        <3>1. PICK p \in Pids : p = ff.process
            BY <1>1, <2>2
        <3>2. os[p] \in Process
            BY <1>1
        <3>3. /\ ff' = [ff EXCEPT !.paused = TRUE]
              /\ os' = [os EXCEPT ![p] = [os[p] EXCEPT !.at =
                                          IF os[p].at = "running" THEN "stopped" ELSE os[p].at]]
              /\ UNCHANGED ended
            BY <1>6, <2>2, <3>1 DEF Pause
        <3>4. /\ os' \in [Pids -> Process]
              /\ \A q \in Pids : q # p => os'[q] = os[q]
              /\ os'[p].term = os[p].term
              /\ os'[p].own = os[p].own /\ os'[p].sink = os[p].sink
              /\ os'[p].at = IF os[p].at = "running" THEN "stopped" ELSE os[p].at
            BY <1>1, <3>2, <3>3 DEF Process
        <3>5. /\ ff' \in Field
              /\ ff'.song = ff.song /\ ff'.process = ff.process /\ ff'.scheduled = ff.scheduled
              /\ ff'.paused /\ ff'.restart = ff.restart /\ ff'.applied = ff.applied
              /\ ff'.volume = ff.volume /\ ff'.muted = ff.muted
              /\ ff'.retry = ff.retry /\ ff'.attempts = ff.attempts
            BY <1>1, <3>3 DEF Field
        <3>6. TypeOK' /\ Processes'
            BY <1>1, <3>1, <3>3, <3>4, <3>5 DEF EngineInv, TypeOK, Processes
        <3>7. Effective(ff)' = Effective(ff)
            BY <3>5 DEF Effective
        <3>8. Fields' /\ Level'
            BY <2>2, <3>1, <3>3, <3>4, <3>5, <3>7 DEF EngineInv, Fields, Level
        <3>9. State = "playing" /\ State' = "paused"
            BY <1>2, <2>2, <3>5, <3>8 DEF State, EngineInv, Fields
        <3>10. QED
            BY <3>5, <3>6, <3>8, <3>9 DEF EngineInv, P!PlayerNext, P!Pause
    <2>3. QED
        BY <2>1, <2>2
<1>7. CASE Toggle
    BY <1>5, <1>6, <1>7 DEF Toggle
<1>8. CASE Seek
    <2>1. CASE ff.song = NoSong
        BY <1>4, <1>8, <2>1 DEF Seek
    <2>2. CASE ff.song # NoSong /\ ff.paused
        <3>1. ff' = [Stopped(ff) EXCEPT !.restart = FALSE] /\ os' = Terminated(ff.process)
              /\ UNCHANGED ended
            BY <1>8, <2>2 DEF Seek
        <3>2. /\ ff' \in Field
              /\ ff'.song = ff.song /\ ff'.process = NoProcess /\ ~ff'.scheduled
              /\ ff'.paused /\ ~ff'.restart /\ ~ff'.retry
            <4> DEFINE x == Stopped(ff)
            <4>1. /\ x \in Field
                  /\ x.song = ff.song /\ x.paused = ff.paused
                  /\ x.process = NoProcess /\ ~x.scheduled /\ ~x.retry
                BY <1>1, StoppedIs
            <4>2. ff' = [x EXCEPT !.restart = FALSE]
                BY <3>1
            <4> HIDE DEF x
            <4>3. QED
                BY <2>2, <4>1, <4>2 DEF Field
        <3>3. Fields'
            BY <2>2, <3>1, <3>2 DEF EngineInv, Fields
        <3>4. EngineInv'
            BY <1>1, <3>1, <3>2, <3>3, LetsGoKeeps
        <3>5. State' = State
            BY <1>2, <2>2, <3>2 DEF State
        <3>6. QED
            BY <3>2, <3>4, <3>5
    <2>3. CASE ff.song # NoSong /\ ~ff.paused
        <3>1. Spawns(ff)
            BY <1>8, <2>3 DEF Seek
        <3>2. EngineInv' /\ ff'.song = ff.song /\ State' = "playing"
            BY <1>3, <2>3, <3>1
        <3>3. P!Play
            BY <2>3, <3>2 DEF P!Play, P!NoSong, NoSong
        <3>4. QED
            BY <3>2, <3>3 DEF P!PlayerNext
    <2>4. QED
        BY <2>1, <2>2, <2>3
<1>9. ASSUME NEW v \in Volumes, NEW muted \in BOOLEAN, SetLevel(v, muted)
      PROVE  EngineInv' /\ [P!PlayerNext]_(P!player)
    <2> DEFINE f == [ff EXCEPT !.volume = v, !.muted = muted]
               g == [f EXCEPT !.applied = Unknown]
    <2>1. /\ f \in Field
          /\ f.song = ff.song /\ f.process = ff.process /\ f.scheduled = ff.scheduled
          /\ f.paused = ff.paused /\ f.restart = ff.restart /\ f.applied = ff.applied
          /\ f.retry = ff.retry /\ f.attempts = ff.attempts
        BY <1>1 DEF Field
    <2>2. CASE ff.song = NoSong
        <3>1. ff' = f /\ UNCHANGED os /\ UNCHANGED ended
            BY <1>9, <2>1, <2>2 DEF SetLevel
        <3> HIDE DEF f
        <3>2. ff.process = NoProcess
            BY <2>2 DEF EngineInv, Fields
        <3>3. TypeOK' /\ Processes' /\ Fields'
            BY <1>1, <2>1, <3>1 DEF EngineInv, TypeOK, Processes, Fields
        <3>4. Level'
            BY <2>1, <3>1, <3>2, EngineConstantsOK DEF Level
        <3>5. UNCHANGED P!player
            BY <2>1, <2>2, <3>1 DEF State
        <3>6. QED
            BY <3>3, <3>4, <3>5 DEF EngineInv
    <2>3. CASE ff.song # NoSong /\ ff.paused
        <3>1. /\ ff' = [f EXCEPT !.restart = TRUE] /\ UNCHANGED os /\ UNCHANGED ended
            BY <1>9, <2>1, <2>3 DEF SetLevel
        <3>2. /\ ff' \in Field
              /\ ff'.song = ff.song /\ ff'.process = ff.process /\ ff'.scheduled = ff.scheduled
              /\ ff'.paused = ff.paused /\ ff'.restart /\ ff'.applied = ff.applied
              /\ ff'.retry = ff.retry /\ ff'.attempts = ff.attempts
            BY <2>1, <3>1 DEF Field
        <3>3. QED
            BY <1>1, <2>3, <3>1, <3>2 DEF EngineInv, TypeOK, Processes, Fields, Level, State
    <2>4. CASE ff.song # NoSong /\ ~ff.paused
        <3>1. Applies(f, g) /\ UNCHANGED ended
            BY <1>9, <2>1, <2>4 DEF SetLevel
        <3>2. /\ g \in Field
              /\ g.song = ff.song /\ g.process = ff.process /\ g.scheduled = ff.scheduled
              /\ g.paused = ff.paused /\ g.restart = ff.restart /\ g.applied = Unknown
              /\ g.retry = ff.retry /\ g.attempts = ff.attempts
            BY <2>1 DEF Field
        <3>3. ff.retry => ff.attempts < MaxRetries
            BY DEF EngineInv, Fields
        <3> HIDE DEF f, g
        <3>4. EngineInv' /\ UNCHANGED P!player
            BY <2>1, <2>4, <3>1, <3>2, <3>3, AppliesKeeps
        <3>5. QED
            BY <3>4
    <2>5. QED
        BY <2>2, <2>3, <2>4
<1>10. CASE ToggleMute \/ \E v \in Volumes : SetVolume(v)
    <2>1. ff.volume \in Volumes /\ ff.muted \in BOOLEAN /\ (~ff.muted) \in BOOLEAN
        BY <1>1 DEF Field
    <2>2. QED
        BY <1>9, <1>10, <2>1 DEF ToggleMute, SetVolume
<1>11. CASE Stop
    <2>1. /\ ff' = [Stopped(ff) EXCEPT !.restart = FALSE, !.song = NoSong, !.paused = FALSE]
          /\ os' = Terminated(ff.process)
          /\ ended' = FALSE
        BY <1>11 DEF Stop
    <2>2. /\ ff' \in Field
          /\ ff'.song = NoSong /\ ff'.process = NoProcess /\ ~ff'.scheduled
          /\ ~ff'.paused /\ ~ff'.restart /\ ~ff'.retry
        BY <1>1, <2>1, StoppedIs DEF Field
    <2>3. ~ended'
        BY <2>1
    <2>4. Fields'
        BY <2>2, <2>3 DEF Fields
    <2>5. EngineInv'
        BY <2>1, <2>2, <2>4, LetsGoKeeps
    <2>6. State' = "none"
        BY <2>2 DEF State
    <2>7. QED
        BY <2>2, <2>5, <2>6 DEF P!PlayerNext, P!Stop, P!NoSong, NoSong
<1>12. ASSUME NEW s \in Songs, NEW later \in BOOLEAN, LoadSong(s, later)
       PROVE  EngineInv' /\ [P!PlayerNext]_(P!player)
    <2> DEFINE f == [ff EXCEPT !.song = s, !.paused = FALSE, !.restart = FALSE]
    <2>1. /\ f \in Field /\ f.song = s /\ f.process = ff.process
          /\ ~f.paused /\ ~f.restart
        BY <1>1 DEF Field
    <2>2. CASE later
        <3>1. /\ ff' = [Stopped(f) EXCEPT !.scheduled = TRUE]
              /\ os' = Terminated(ff.process)
              /\ ended' = FALSE
            BY <1>12, <2>1, <2>2 DEF LoadSong
        <3> HIDE DEF f
        <3>2. /\ ff' \in Field
              /\ ff'.song = s /\ ff'.process = NoProcess /\ ff'.scheduled
              /\ ~ff'.paused /\ ~ff'.restart /\ ~ff'.retry
            <4>1. Stopped(f).restart = f.restart
                BY <2>1 DEF Stopped, Field
            <4>2. QED
                BY <2>1, <3>1, <4>1, StoppedIs DEF Field
        <3>3. ~ended' /\ s # NoSong
            BY <3>1, EngineConstantsOK
        <3>4. Fields'
            BY <3>2, <3>3 DEF Fields
        <3>5. EngineInv'
            BY <3>1, <3>2, <3>4, LetsGoKeeps
        <3>6. State' = "scheduled"
            BY <3>2, <3>3 DEF State
        <3>7. P!LoadSong(s, later)
            BY <2>2, <3>2, <3>6 DEF P!LoadSong
        <3>8. QED
            BY <3>5, <3>7 DEF P!PlayerNext
    <2>3. CASE ~later
        <3>1. Spawns(f)
            BY <1>12, <2>3 DEF LoadSong
        <3>2. f \in [ song : Songs, process : {ff.process}, scheduled : BOOLEAN,
                      paused : BOOLEAN, restart : BOOLEAN, volume : Volumes,
                      muted : BOOLEAN, applied : Levels \cup {Unknown},
                      retry : BOOLEAN, attempts : 0..MaxRetries ]
            BY <1>1 DEF Field
        <3> HIDE DEF f
        <3>3. EngineInv' /\ ff'.song = s /\ State' = "playing"
            BY <2>1, <3>1, <3>2, SpawnsKeeps
        <3>4. P!LoadSong(s, later)
            BY <2>3, <3>3 DEF P!LoadSong
        <3>5. QED
            BY <3>3, <3>4 DEF P!PlayerNext
    <2>4. QED
        BY <2>2, <2>3
<1>13. CASE StartTimer
    <2>1. ff.scheduled /\ Spawns(ff) /\ ff.song # NoSong
        BY <1>13 DEF StartTimer, EngineInv, Fields
    <2>2. QED
        BY <1>2, <1>3, <2>1 DEF P!PlayerNext, P!Starts
<1>14. CASE RetryTimer
    <2> DEFINE f == [ff EXCEPT !.retry = FALSE]
               g == [f EXCEPT !.attempts = @ + 1]
    <2>1. ff.retry /\ ff.attempts < MaxRetries /\ UNCHANGED ended
        BY <1>14 DEF RetryTimer, EngineInv, Fields
    <2>2. /\ f \in Field
          /\ f.song = ff.song /\ f.process = ff.process /\ f.scheduled = ff.scheduled
          /\ f.paused = ff.paused /\ f.restart = ff.restart /\ f.applied = ff.applied
          /\ ~f.retry /\ f.attempts = ff.attempts /\ f.volume = ff.volume /\ f.muted = ff.muted
        BY <1>1 DEF Field
    <2>3. CASE f.process = NoProcess \/ f.paused
        <3>1. ff' = [f EXCEPT !.attempts = 0] /\ UNCHANGED os
            BY <1>14, <2>3 DEF RetryTimer
        <3> HIDE DEF f
        <3>2. /\ ff' \in Field
              /\ ff'.song = ff.song /\ ff'.process = ff.process /\ ff'.scheduled = ff.scheduled
              /\ ff'.paused = ff.paused /\ ff'.restart = ff.restart /\ ff'.applied = ff.applied
              /\ ~ff'.retry /\ ff'.volume = ff.volume /\ ff'.muted = ff.muted
            <4>1. 0 \in 0..MaxRetries
                BY EngineAssumption
            <4>2. QED
                BY <2>2, <3>1, <4>1 DEF Field
        <3>3. Effective(ff)' = Effective(ff)
            BY <3>2 DEF Effective
        <3>4. QED
            BY <1>1, <2>1, <3>1, <3>2, <3>3
               DEF EngineInv, TypeOK, Processes, Fields, Level, State
    <2>4. CASE f.process # NoProcess /\ ~f.paused
        <3>1. Applies(g, g)
            BY <1>14, <2>4 DEF RetryTimer
        <3>2. ff.attempts \in 0..MaxRetries
            BY <1>1 DEF Field
        <3>3. ff.attempts + 1 \in 0..MaxRetries
            BY <2>1, <3>2, EngineAssumption
        <3>4. g = [f EXCEPT !.attempts = ff.attempts + 1]
            BY <2>2
        <3> HIDE DEF f, g
        <3>5. /\ g \in Field
              /\ g.song = ff.song /\ g.process = ff.process /\ g.scheduled = ff.scheduled
              /\ g.paused = ff.paused /\ g.restart = ff.restart /\ g.applied = ff.applied
              /\ ~g.retry /\ g.volume = ff.volume /\ g.muted = ff.muted
            BY <2>2, <3>3, <3>4 DEF Field
        <3>6. Effective(g) = Effective(ff)
            BY <3>5 DEF Effective
        <3>7. ~ff.paused
            BY <2>2, <2>4
        <3>8. EngineInv' /\ UNCHANGED P!player
            BY <2>1, <3>1, <3>5, <3>6, <3>7, AppliesKeeps
        <3>9. QED
            BY <3>8
    <2>5. QED
        BY <2>3, <2>4
<1>15. ASSUME NEW p \in Pids, PlaysOut(p)
       PROVE  EngineInv' /\ [P!PlayerNext]_(P!player)
    <2>1. /\ os' = [os EXCEPT ![p] = [os[p] EXCEPT !.at = "exited"]]
          /\ UNCHANGED <<ff, ended>>
        BY <1>15 DEF PlaysOut
    <2>2. os[p] \in Process
        BY <1>1
    <2>3. /\ os' \in [Pids -> Process]
          /\ \A q \in Pids : q # p => os'[q] = os[q]
          /\ os'[p].at = "exited" /\ os'[p].term = os[p].term
              /\ os'[p].own = os[p].own /\ os'[p].sink = os[p].sink
        BY <1>1, <2>1, <2>2 DEF Process
    <2>4. os[p].at = "running"
        BY <1>15 DEF PlaysOut, Sounds
    <2>5. TypeOK' /\ Processes'
        BY <2>1, <2>3, <2>4 DEF EngineInv, TypeOK, Processes
    <2>6. Fields' /\ Level' /\ UNCHANGED State
        BY <2>1, <2>3 DEF EngineInv, Fields, Level, State, Effective
    <2>7. QED
        BY <2>1, <2>5, <2>6 DEF EngineInv
<1>16. ASSUME NEW p \in Pids, os[p].at # "none", os' = [os EXCEPT ![p] = NoOne],
              ff' = [ff EXCEPT !.process = IF @ = p THEN NoProcess ELSE @],
              ended' \in BOOLEAN, ended' => ended \/ EndsSong(p)
       PROVE  /\ EngineInv'
              /\ ff'.song = ff.song
              /\ ff.process # p /\ ended' = ended => State' = State
              /\ ff.process = p => State' = IF ff.paused THEN "paused"
                                            ELSE IF ended' THEN "over" ELSE "dead"
    <2>1. /\ ff' \in Field
          /\ ff'.song = ff.song /\ ff'.scheduled = ff.scheduled /\ ff'.paused = ff.paused
          /\ ff'.restart = ff.restart /\ ff'.applied = ff.applied /\ ff'.retry = ff.retry
          /\ ff'.attempts = ff.attempts /\ ff'.volume = ff.volume /\ ff'.muted = ff.muted
          /\ ff'.process = IF ff.process = p THEN NoProcess ELSE ff.process
        BY <1>1, <1>16 DEF Field
    <2>2. NoOne \in Process /\ NoOne.at = "none"
        BY EngineConstantsOK DEF NoOne, Process, Remembered
    <2>3. /\ os' \in [Pids -> Process]
          /\ os'[p].at = "none"
          /\ \A q \in Pids : q # p => os'[q] = os[q]
        BY <1>1, <1>16, <2>2
    <2>4. TypeOK' /\ Processes'
        BY <1>16, <2>1, <2>3, EngineConstantsOK DEF EngineInv, TypeOK, Processes
    <2>5. EndsSong(p) => ff.process = p /\ ~ff.paused
        BY DEF EndsSong
    <2>6. Fields'
        BY <1>16, <2>1, <2>5, EngineConstantsOK DEF EngineInv, Fields
    <2>7. Effective(ff)' = Effective(ff)
        BY <2>1 DEF Effective
    <2>8. Level'
        BY <2>1, <2>3, <2>7, EngineConstantsOK DEF EngineInv, Level
    <2>9. ff.process = p => ff.song # NoSong /\ ~ff.scheduled
        BY EngineConstantsOK DEF EngineInv, Fields
    <2>10. QED
        BY <2>1, <2>4, <2>6, <2>8, <2>9 DEF EngineInv, State
<1>17. ASSUME NEW p \in Pids, ExitEvent(p)
       PROVE  EngineInv' /\ [P!PlayerNext]_(P!player)
    <2>1. /\ os[p].at # "none" /\ os' = [os EXCEPT ![p] = NoOne]
          /\ ff' = [ff EXCEPT !.process = IF @ = p THEN NoProcess ELSE @]
          /\ ended' = (ended \/ EndsSong(p))
        BY <1>17 DEF ExitEvent
    <2>2. EndsSong(p) \in BOOLEAN
        BY DEF EndsSong
    <2>3. CASE ff.process = p
        <3>1. ~os[p].term
            BY <2>3 DEF EngineInv, Processes
        <3>2. EndsSong(p) <=> ~ff.paused
            BY <2>3, <3>1 DEF EndsSong
        <3>3. EngineInv' /\ ff'.song = ff.song /\ State' = IF ff.paused THEN "paused" ELSE "over"
            BY <1>1, <1>16, <2>1, <2>2, <2>3, <3>2
        <3>4. State = IF ff.paused THEN "paused" ELSE "playing"
            BY <1>2, <2>3, EngineConstantsOK
        <3>5. QED
            BY <3>3, <3>4 DEF P!PlayerNext, P!Ends
    <2>4. CASE ff.process # p
        <3>1. ~EndsSong(p)
            BY <2>4 DEF EndsSong
        <3>2. ended' = ended
            BY <1>1, <2>1, <2>2, <3>1
        <3>3. EngineInv' /\ ff'.song = ff.song /\ State' = State
            BY <1>1, <1>16, <2>1, <2>2, <2>4, <3>2
        <3>4. QED
            BY <3>3
    <2>5. QED
        BY <2>3, <2>4
<1>18. ASSUME NEW p \in Pids, ErrorEvent(p)
       PROVE  EngineInv' /\ [P!PlayerNext]_(P!player)
    <2>1. /\ os[p].at # "none" /\ os' = [os EXCEPT ![p] = NoOne]
          /\ ff' = [ff EXCEPT !.process = IF @ = p THEN NoProcess ELSE @]
          /\ ended' = ended
        BY <1>18 DEF ErrorEvent
    <2>2. CASE ff.process = p
        <3>1. ~ended
            BY <2>2, EngineConstantsOK DEF EngineInv, Fields
        <3>2. EngineInv' /\ ff'.song = ff.song /\ State' = IF ff.paused THEN "paused" ELSE "dead"
            BY <1>1, <1>16, <2>1, <2>2, <3>1
        <3>3. State = IF ff.paused THEN "paused" ELSE "playing"
            BY <1>2, <2>2, EngineConstantsOK
        <3>4. QED
            BY <3>2, <3>3 DEF P!PlayerNext, P!Fails
    <2>3. CASE ff.process # p
        <3>1. EngineInv' /\ ff'.song = ff.song /\ State' = State
            BY <1>1, <1>16, <2>1, <2>3
        <3>2. QED
            BY <3>1
    <2>4. QED
        BY <2>2, <2>3
<1>19. QED
    BY <1>4, <1>5, <1>6, <1>7, <1>8, <1>10, <1>11, <1>12, <1>13, <1>14, <1>15, <1>17, <1>18
    DEF Next

LEMMA EngineInitOK ==
    ASSUME Init
    PROVE  EngineInv /\ P!PlayerInit
<1>1. PICK v \in Volumes :
          ff = [ song |-> NoSong, process |-> NoProcess, scheduled |-> FALSE, paused |-> FALSE,
                 restart |-> FALSE, volume |-> v, muted |-> FALSE, applied |-> v,
                 retry |-> FALSE, attempts |-> 0 ]
    BY DEF Init
<1>2. 0 \in 0..MaxRetries /\ v \in Levels
    BY EngineConstantsOK, EngineAssumption
<1>3. ff \in Field
    BY <1>1, <1>2 DEF Field
<1>4. NoOne \in Process /\ NoOne.at = "none"
    BY EngineConstantsOK DEF NoOne, Process, Remembered
<1>5. TypeOK
    BY <1>3, <1>4 DEF Init, TypeOK
<1>6. Processes /\ Level
    BY <1>1, <1>4, EngineConstantsOK DEF Init, Processes, Level
<1>7. ~ended /\ Fields
    BY <1>1 DEF Init, Fields
<1>8. P!PlayerInit
    BY <1>1 DEF P!PlayerInit, State, P!NoSong, NoSong
<1>9. QED
    BY <1>5, <1>6, <1>7, <1>8 DEF EngineInv

-------------------------------------------------------------------------------
\* The invariant holds in every reachable state of ffplay-engine.ts.
THEOREM EngineInvariance == Spec => []EngineInv
<1>1. Init => EngineInv
    BY EngineInitOK
<1>2. EngineInv /\ [Next]_vars => EngineInv'
    BY EngineStepOK
<1>3. QED
    BY <1>1, <1>2, PTL DEF Spec

\* The fields of the engine and its processes have their types.
THEOREM EngineTypeCorrect == Spec => []TypeOK
<1>1. EngineInv => TypeOK
    BY DEF EngineInv
<1>2. QED
    BY <1>1, EngineInvariance, PTL

\* Whatever is loaded, paused and sought in whatever order, no two processes of
\* spawnAtOffset() are heard at once, and the one that is can be stopped.
THEOREM OnlyOneSounds == Spec => []OneSounds
<1>1. EngineInv => OneSounds
    BY DEF EngineInv, Processes, OneSounds, Sounds
<1>2. QED
    BY <1>1, EngineInvariance, PTL

\* pause(), stop() and a start that is yet to come leave nothing to be heard.
THEOREM SilentWhilePaused == Spec => []PausedIsSilent
<1>1. EngineInv => PausedIsSilent
    BY EngineConstantsOK DEF EngineInv, Processes, Fields, PausedIsSilent, Sounds
<1>2. QED
    BY <1>1, EngineInvariance, PTL

\* What toggleMute() mutes is silent, live or by the next spawnAtOffset(), whatever level
\* the sound server remembers.
THEOREM MutedStaysSilent == Spec => []MutedIsSilent
<1>1. ASSUME EngineInv, ff.muted, ff.applied # Unknown, NEW p \in Pids, Heard(p)
      PROVE  FALSE
    <2>1. ff.process = p /\ ~ff.restart
        BY <1>1 DEF EngineInv, Processes, Fields, Heard, Sounds
    <2>2. ff.applied = 0
        BY <1>1, <2>1 DEF EngineInv, Level, Effective
    <2>3. QED
        BY <1>1, <2>1, <2>2 DEF EngineInv, Level, Heard
<1>2. EngineInv => MutedIsSilent
    BY <1>1 DEF MutedIsSilent
<1>3. QED
    BY <1>2, EngineInvariance, PTL

\* The engine of processes and late events implements the player the daemon uses: in
\* particular the end of a song is reported only for the song that is loaded, and at
\* most once for each time it was started.
THEOREM EngineIsAPlayer == Spec => ImplementsPlayer
<1>1. Init => P!PlayerInit
    BY EngineInitOK
<1>2. EngineInv /\ [Next]_vars => [P!PlayerNext]_(P!player)
    BY EngineStepOK
<1>3. QED
    BY <1>1, <1>2, EngineInvariance, PTL DEF Spec, ImplementsPlayer, P!PlayerSpec

-------------------------------------------------------------------------------
(* The Codex client.                                                       *)

\* A process is held exactly while it is being started or has been, and nothing is
\* asked before it was.
StartAndProc ==
    /\ start.at # "no" => ~initialized
    /\ start.at \in {"asked", "answered"} => proc # 0
    /\ initialized => proc # 0
    /\ proc # 0 => initialized \/ start.at # "no"
    /\ \A c \in Calls :
           /\ call[c].at \in {"send", "asked", "answered", "turn"} => initialized
           /\ call[c].at = "waiting" => start.at # "no"

\* m has a number that was given out, and goes to who asked under it.
Known(m, calls, next) ==
    /\ m.id < next
    /\ \A c \in Calls : calls[c].at = "asked" /\ calls[c].id = m.id
                            => m.who = c /\ m.step = calls[c].step

Numbers ==
    /\ \A p \in Procs : \A r \in inbox[p] : Known(r, call, nextRequestId)
    /\ \A p \in Procs : \A i \in 1..Len(out[p]) :
           out[p][i].kind = "answer" => Known(out[p][i], call, nextRequestId)
    /\ \A c \in Calls : call[c].at = "asked" => call[c].id < nextRequestId

\* The inductive invariant.
CodexInv == CodexTypeOK /\ StartAndProc /\ NoOrphan /\ Numbers /\ AnswerIsOwn

-------------------------------------------------------------------------------
LEMMA ProcsAre ==
    /\ Cardinality(Calls) \in Nat \ {0}
    /\ Procs \subseteq Nat \ {0} /\ 1 \in Procs
<1>1. Cardinality(Calls) \in Nat /\ Cardinality(Calls) # 0
    BY FS_CardinalityType, FS_EmptySet, CallsAssumption
<1>2. QED
    BY <1>1 DEF Procs

LEMMA CodexInitOK ==
    ASSUME CodexInit
    PROVE  CodexInv
<1>1. CodexTypeOK
    <2>1. <<>> \in Seq(Message) /\ Len(<<>>) = 0
        OBVIOUS
    <2>2. /\ out \in [Procs -> Seq(Message)]
          /\ inbox \in [Procs -> SUBSET Request]
          /\ children \in [Procs -> {"unborn", "running", "ended", "gone"}]
        BY <2>1 DEF CodexInit
    <2>3. out[reading] = <<>> /\ reading \in Procs
        BY ProcsAre DEF CodexInit
    <2>4. chunk \in 0..Len(out[reading])
        BY <2>1, <2>3 DEF CodexInit
    <2>5. call \in [Calls -> CallRecord]
        BY DEF CodexInit, CallRecord, Steps
    <2>6. start \in [at : {"no", "asked", "answered", "failed"}, id : Nat]
        BY DEF CodexInit
    <2>7. /\ proc = 0 /\ initialized = FALSE /\ stale = FALSE
          /\ nextRequestId \in Nat \ {0}
        BY DEF CodexInit
    <2> QED
        BY <2>2, <2>3, <2>4, <2>5, <2>6, <2>7 DEF CodexTypeOK
<1>2. StartAndProc /\ NoOrphan /\ Numbers /\ AnswerIsOwn
    BY DEF CodexInit, StartAndProc, NoOrphan, Numbers, AnswerIsOwn
<1> QED
    BY <1>1, <1>2 DEF CodexInv

\* The calls may stop to wait for an answer, but none begins to.
NoneAsks ==
    \A c \in Calls :
        /\ call'[c].at = "asked" => call[c].at = "asked" /\ call'[c].id = call[c].id
                                        /\ call'[c].step = call[c].step
        /\ call'[c].mixed = call[c].mixed

LEMMA NoneAsksKeeps ==
    ASSUME CodexInv, NoneAsks, UNCHANGED <<inbox, out, nextRequestId>>
    PROVE  Numbers' /\ AnswerIsOwn'
BY DEF CodexInv, NoneAsks, Numbers, Known, AnswerIsOwn

-------------------------------------------------------------------------------
\* requestRaw() to a process that is there.
LEMMA AskKeeps ==
    ASSUME CodexInv, NEW c \in Calls, call[c].at \in {"ensure", "send"},
           call[c].at = "ensure" => initialized,
           Ask(c), UNCHANGED <<proc, initialized, start, out, children, chunk, reading, stale>>
    PROVE  CodexInv'
<1>1. CASE proc = 0
    <2>1. call' = [call EXCEPT ![c].at = "failed"] /\ UNCHANGED <<nextRequestId, inbox>>
        BY <1>1 DEF Ask
    <2>2. CodexTypeOK'
        <3>1. [call[c] EXCEPT !.at = "failed"] \in CallRecord
            BY DEF CodexInv, CodexTypeOK, CallRecord
        <3> QED
            BY <2>1, <3>1 DEF CodexInv, CodexTypeOK
    <2>3. NoneAsks
        BY <2>1 DEF CodexInv, CodexTypeOK, NoneAsks
    <2>4. StartAndProc'
        BY <2>1 DEF CodexInv, CodexTypeOK, StartAndProc
    <2>5. NoOrphan'
        BY DEF CodexInv, NoOrphan
    <2> QED
        BY <2>1, <2>2, <2>3, <2>4, <2>5, NoneAsksKeeps DEF CodexInv
<1>2. CASE proc # 0
    <2> DEFINE r == [id |-> nextRequestId, who |-> c, step |-> call[c].step]
    <2>1. /\ call' = [call EXCEPT ![c] = [@ EXCEPT !.at = "asked", !.id = nextRequestId]]
          /\ inbox' = Written(proc, r)
          /\ nextRequestId' = nextRequestId + 1
        BY <1>2 DEF Ask
    <2>2. proc \in Procs /\ initialized
        BY <1>2 DEF CodexInv, CodexTypeOK, StartAndProc
    <2>3. r \in Request
        BY DEF CodexInv, CodexTypeOK, CallRecord, Request
    <2>4. inbox' \in [Procs -> SUBSET Request]
        BY <2>1, <2>2, <2>3 DEF CodexInv, CodexTypeOK, Written
    <2>5. call' \in [Calls -> CallRecord]
        <3>1. [call[c] EXCEPT !.at = "asked", !.id = nextRequestId] \in CallRecord
            BY DEF CodexInv, CodexTypeOK, CallRecord
        <3> QED
            BY <2>1, <3>1 DEF CodexInv, CodexTypeOK
    <2>6. CodexTypeOK'
        BY <2>1, <2>4, <2>5 DEF CodexInv, CodexTypeOK
    <2>7. /\ call'[c].at = "asked" /\ call'[c].id = nextRequestId
          /\ call'[c].step = call[c].step /\ call'[c].mixed = call[c].mixed
          /\ \A d \in Calls \ {c} : call'[d] = call[d]
        BY <2>1 DEF CodexInv, CodexTypeOK, CallRecord
    <2>8. StartAndProc'
        BY <2>2, <2>7 DEF CodexInv, StartAndProc
    <2>9. NoOrphan' /\ AnswerIsOwn'
        BY <2>7 DEF CodexInv, NoOrphan, AnswerIsOwn
    <2>10. ASSUME NEW m, m.id \in Nat, Known(m, call, nextRequestId)
           PROVE  Known(m, call', nextRequestId')
        BY <2>1, <2>7, <2>10 DEF CodexInv, CodexTypeOK, Known
    <2>11. Known(r, call', nextRequestId')
        <3>1. r.id = nextRequestId /\ r.who = c /\ r.step = call'[c].step
            BY <2>7
        <3>2. \A d \in Calls \ {c} : call'[d].at = "asked" => call'[d].id < nextRequestId
            BY <2>7 DEF CodexInv, Numbers
        <3>3. nextRequestId \in Nat /\ call' \in [Calls -> CallRecord]
            BY <2>5 DEF CodexInv, CodexTypeOK
        <3>4. \A d \in Calls : call'[d].id \in Nat
            BY <3>3 DEF CallRecord
        <3> HIDE DEF r
        <3> QED
            BY <2>1, <3>1, <3>2, <3>3, <3>4 DEF Known
    <2>12. \A p \in Procs : \A x \in inbox'[p] : x = r \/ x \in inbox[p]
        BY <2>1, <2>2 DEF CodexInv, CodexTypeOK, Written
    <2>13. \A p \in Procs : \A x \in inbox[p] : x.id \in Nat
        BY DEF CodexInv, CodexTypeOK, Request
    <2>14. \A p \in Procs : \A x \in inbox'[p] : Known(x, call', nextRequestId')
        <3> HIDE DEF r
        <3> QED
            BY <2>10, <2>11, <2>12, <2>13 DEF CodexInv, Numbers
    <2>15. \A p \in Procs : \A i \in 1..Len(out[p]) :
               out[p][i].kind = "answer" => Known(out[p][i], call', nextRequestId')
        <3>1. \A p \in Procs : \A i \in 1..Len(out[p]) :
                  out[p][i].kind = "answer" => out[p][i].id \in Nat
            BY DEF CodexInv, CodexTypeOK, Message
        <3> QED
            BY <2>10, <3>1 DEF CodexInv, Numbers
    <2>16. \A d \in Calls : call'[d].at = "asked" => call'[d].id < nextRequestId'
        BY <2>1, <2>7 DEF CodexInv, CodexTypeOK, CallRecord, Numbers
    <2>17. Numbers'
        BY <2>14, <2>15, <2>16 DEF Numbers
    <2> QED
        BY <2>6, <2>8, <2>9, <2>17 DEF CodexInv
<1> QED
    BY <1>1, <1>2

\* One call goes on, and asks for nothing.
LEMMA CallMoves ==
    ASSUME CodexInv, NEW c \in Calls, NEW r \in CallRecord, call' = [call EXCEPT ![c] = r],
           r.mixed = call[c].mixed,
           r.at = "asked" => call[c].at = "asked" /\ r.id = call[c].id /\ r.step = call[c].step,
           r.at \in {"send", "answered", "turn"} => initialized,
           r.at = "waiting" => start.at # "no",
           UNCHANGED <<proc, initialized, start, nextRequestId, processes, chunk, reading,
                       stale>>
    PROVE  CodexInv'
<1>1. UNCHANGED <<children, inbox, out>>
    BY DEF processes
<1>2. CodexTypeOK'
    BY <1>1 DEF CodexInv, CodexTypeOK
<1>3. call'[c] = r /\ \A d \in Calls \ {c} : call'[d] = call[d]
    BY DEF CodexInv, CodexTypeOK
<1>4. NoneAsks
    BY <1>3 DEF NoneAsks
<1>5. StartAndProc'
    BY <1>3 DEF CodexInv, StartAndProc
<1>6. NoOrphan'
    BY <1>1 DEF CodexInv, NoOrphan
<1> QED
    BY <1>1, <1>2, <1>4, <1>5, <1>6, NoneAsksKeeps DEF CodexInv

\* A call begins, gives up, is refused or times out.
LEMMA CallEnds ==
    ASSUME CodexInv, NEW c \in Calls,
           Call(c) \/ Refuse(c) \/ RequestTimeout(c) \/ TurnTimeout(c)
    PROVE  CodexInv'
<1>1. PICK to \in {"ensure", "failed", "timedOut"} : call' = [call EXCEPT ![c].at = to]
    BY DEF Call, Refuse, RequestTimeout, TurnTimeout
<1> DEFINE r == [call[c] EXCEPT !.at = to]
<1>2. r \in CallRecord /\ r.at = to /\ r.mixed = call[c].mixed
    BY DEF CodexInv, CodexTypeOK, CallRecord
<1>3. call' = [call EXCEPT ![c] = r]
    BY <1>1 DEF CodexInv, CodexTypeOK
<1>4. UNCHANGED <<proc, initialized, start, nextRequestId, processes, chunk, reading, stale>>
    BY DEF Call, Refuse, RequestTimeout, TurnTimeout
<1> HIDE DEF r
<1> QED
    BY <1>2, <1>3, <1>4, CallMoves

LEMMA AbortKeeps ==
    ASSUME CodexInv, NEW c \in Calls, Abort(c)
    PROVE  CodexInv'
<1> DEFINE r == [call[c] EXCEPT !.aborted = TRUE,
                                !.at = IF call[c].at = "turn" THEN "failed" ELSE call[c].at]
<1>1. /\ r \in CallRecord /\ r.mixed = call[c].mixed
      /\ r.id = call[c].id /\ r.step = call[c].step
      /\ r.at = IF call[c].at = "turn" THEN "failed" ELSE call[c].at
    BY DEF CodexInv, CodexTypeOK, CallRecord
<1>2. call' = [call EXCEPT ![c] = r]
    BY DEF Abort
<1>3. /\ r.at \in {"send", "answered", "turn"} => initialized
      /\ r.at = "waiting" => start.at # "no"
    BY <1>1 DEF CodexInv, StartAndProc
<1>4. UNCHANGED <<proc, initialized, start, nextRequestId, processes, chunk, reading, stale>>
    BY DEF Abort
<1> HIDE DEF r
<1> QED
    BY <1>1, <1>2, <1>3, <1>4, CallMoves

LEMMA AdvanceKeeps ==
    ASSUME CodexInv, NEW c \in Calls, Advance(c)
    PROVE  CodexInv'
<1>1. PICK to \in {"failed", "turn", "ensure"}, step \in Steps :
          call' = [call EXCEPT ![c] = [call[c] EXCEPT !.at = to, !.step = step]]
    <2>1. call[c] \in CallRecord /\ call[c] = [call[c] EXCEPT !.step = call[c].step]
        BY DEF CodexInv, CodexTypeOK, CallRecord
    <2>2. call[c].step \in Steps /\ NextStep(call[c].step) \in Steps
        BY <2>1 DEF CallRecord, NextStep, Steps
    <2>3. CASE call[c].step = "turn"
        <3> DEFINE to == IF call[c].aborted THEN "failed" ELSE "turn"
        <3>1. [call[c] EXCEPT !.at = to] = [call[c] EXCEPT !.at = to, !.step = call[c].step]
            BY <2>1 DEF CallRecord
        <3>2. call' = [call EXCEPT ![c] = [call[c] EXCEPT !.at = to]]
            BY <2>3 DEF Advance
        <3> QED
            BY <2>2, <3>1, <3>2
    <2>4. CASE /\ call[c].step # "turn" /\ call[c].step = "account"
               /\ Cardinality(PendingTurns) >= MaxTurns
        <3>1. [call[c] EXCEPT !.at = "failed"] = [call[c] EXCEPT !.at = "failed",
                                                  !.step = call[c].step]
            BY <2>1 DEF CallRecord
        <3>2. call' = [call EXCEPT ![c] = [call[c] EXCEPT !.at = "failed"]]
            BY <2>4 DEF Advance
        <3> QED
            BY <2>2, <3>1, <3>2
    <2>5. CASE /\ call[c].step # "turn"
               /\ ~(call[c].step = "account" /\ Cardinality(PendingTurns) >= MaxTurns)
        <3>1. call' = [call EXCEPT ![c] = [call[c] EXCEPT !.at = "ensure",
                                           !.step = NextStep(call[c].step)]]
            BY <2>5 DEF Advance
        <3> QED
            BY <2>2, <3>1
    <2> QED
        BY <2>3, <2>4, <2>5
<1> DEFINE r == [call[c] EXCEPT !.at = to, !.step = step]
<1>2. r \in CallRecord /\ r.at = to /\ r.mixed = call[c].mixed
    BY DEF CodexInv, CodexTypeOK, CallRecord
<1>3. initialized
    BY DEF CodexInv, StartAndProc, Advance
<1>4. UNCHANGED <<proc, initialized, start, nextRequestId, processes, chunk, reading, stale>>
    BY DEF Advance
<1>5. call' = [call EXCEPT ![c] = r]
    BY <1>1
<1> HIDE DEF r
<1> QED
    BY <1>2, <1>3, <1>4, <1>5, CallMoves

\* The start of a process: there was none, and nothing was asked.
LEMMA SpawnKeeps ==
    ASSUME CodexInv, NEW c \in Calls, call[c].at = "ensure",
           ~(initialized /\ proc # 0),
           start.at = "no", NEW p \in Procs, SpawnProcess(p),
           call' = [call EXCEPT ![c].at = "waiting"],
           UNCHANGED <<initialized, out, chunk, reading, stale>>
    PROVE  CodexInv'
<1>1. proc = 0 /\ ~initialized /\ p # 0
    BY ProcsAre DEF CodexInv, StartAndProc
<1>2. /\ proc' = p /\ children' = [children EXCEPT ![p] = "running"]
      /\ start'.at = "asked" /\ nextRequestId' = nextRequestId + 1
    BY DEF SpawnProcess
<1>3. \A d \in Calls : /\ call'[d].at \notin {"send", "asked", "answered", "turn"}
                       /\ call'[d].mixed = call[d].mixed
    BY <1>1 DEF CodexInv, CodexTypeOK, CallRecord, StartAndProc
<1> DEFINE r == [id |-> nextRequestId, who |-> "client", step |-> "initialize"]
<1>4. r \in Request /\ r.id = nextRequestId
    BY DEF CodexInv, CodexTypeOK, Request
<1>5. inbox' = [inbox EXCEPT ![p] = {r}]
    BY DEF SpawnProcess
<1> HIDE DEF r
<1>6. CodexTypeOK'
    <2>1. [call[c] EXCEPT !.at = "waiting"] \in CallRecord
        BY DEF CodexInv, CodexTypeOK, CallRecord
    <2>2. call' \in [Calls -> CallRecord]
        BY <2>1 DEF CodexInv, CodexTypeOK
    <2>3. start' \in [at : {"no", "asked", "answered", "failed"}, id : Nat]
        BY DEF CodexInv, CodexTypeOK, SpawnProcess
    <2>4. inbox' \in [Procs -> SUBSET Request]
        BY <1>4, <1>5 DEF CodexInv, CodexTypeOK
    <2>5. children' \in [Procs -> {"unborn", "running", "ended", "gone"}]
        BY <1>2 DEF CodexInv, CodexTypeOK
    <2> QED
        BY <1>2, <2>2, <2>3, <2>4, <2>5 DEF CodexInv, CodexTypeOK
<1>7. StartAndProc'
    BY <1>1, <1>2, <1>3 DEF CodexInv, StartAndProc
<1>8. NoOrphan'
    BY <1>1, <1>2, ProcsAre DEF CodexInv, CodexTypeOK, NoOrphan
<1>9. AnswerIsOwn'
    BY <1>3 DEF CodexInv, AnswerIsOwn
<1>10. Numbers'
    <2>1. ASSUME NEW m, m.id \in Nat, m.id < nextRequestId \/ m.id = nextRequestId
          PROVE  Known(m, call', nextRequestId')
        BY <1>2, <1>3, <2>1 DEF CodexInv, CodexTypeOK, Known
    <2>2. \A q \in Procs : \A x \in inbox[q] : x.id \in Nat /\ x.id < nextRequestId
        BY DEF CodexInv, CodexTypeOK, Request, Numbers, Known
    <2>3. \A q \in Procs : \A x \in inbox'[q] : x = r \/ x \in inbox[q]
        BY <1>5 DEF CodexInv, CodexTypeOK
    <2>4. \A q \in Procs : \A x \in inbox'[q] : Known(x, call', nextRequestId')
        BY <1>4, <2>1, <2>2, <2>3 DEF Request
    <2>5. \A q \in Procs : \A i \in 1..Len(out[q]) :
              out[q][i].kind = "answer" => out[q][i].id \in Nat /\ out[q][i].id < nextRequestId
        BY DEF CodexInv, CodexTypeOK, Message, Numbers, Known
    <2>6. \A q \in Procs : \A i \in 1..Len(out[q]) :
              out[q][i].kind = "answer" => Known(out[q][i], call', nextRequestId')
        BY <2>1, <2>5
    <2> QED
        BY <1>3, <2>4, <2>6 DEF Numbers
<1> QED
    BY <1>6, <1>7, <1>8, <1>9, <1>10 DEF CodexInv

LEMMA EnsureKeeps ==
    ASSUME CodexInv, NEW c \in Calls, Ensure(c)
    PROVE  CodexInv'
<1>1. CASE initialized /\ proc # 0
    BY <1>1, AskKeeps DEF Ensure
<1>2. CASE ~(initialized /\ proc # 0) /\ start.at = "no"
    <2>1. PICK p \in Unborn : SpawnProcess(p)
        BY <1>2 DEF Ensure
    <2>2. p \in Procs
        BY DEF Unborn
    <2> QED
        BY <1>2, <2>1, <2>2, SpawnKeeps DEF Ensure
<1>3. CASE ~(initialized /\ proc # 0) /\ start.at # "no"
    <2> DEFINE r == [call[c] EXCEPT !.at = "waiting"]
    <2>1. r \in CallRecord /\ r.at = "waiting" /\ r.mixed = call[c].mixed
        BY DEF CodexInv, CodexTypeOK, CallRecord
    <2>2. call' = [call EXCEPT ![c] = r]
        BY <1>3 DEF Ensure
    <2>3. UNCHANGED <<proc, initialized, start, nextRequestId, processes, chunk, reading,
                      stale>>
        BY <1>3 DEF Ensure, processes
    <2> HIDE DEF r
    <2> QED
        BY <1>3, <2>1, <2>2, <2>3, CallMoves
<1> QED
    BY <1>1, <1>2, <1>3

LEMMA StartedKeeps ==
    ASSUME CodexInv, Started
    PROVE  CodexInv'
<1>1. UNCHANGED <<proc, nextRequestId, children, inbox, out, chunk, reading, stale>>
    BY DEF Started, processes
<1>2. \A c \in Calls : call'[c] = IF call[c].at = "waiting" THEN [call[c] EXCEPT !.at = "send"]
                                                            ELSE call[c]
    BY DEF Started
<1>3. \A c \in Calls : call[c] \in CallRecord
    BY DEF CodexInv, CodexTypeOK
<1>4. \A c \in Calls : /\ call'[c] \in CallRecord
                       /\ call'[c].at = IF call[c].at = "waiting" THEN "send" ELSE call[c].at
                       /\ call'[c].id = call[c].id /\ call'[c].step = call[c].step
                       /\ call'[c].mixed = call[c].mixed
    BY <1>2, <1>3 DEF CallRecord
<1>5. call' \in [Calls -> CallRecord]
    BY <1>4 DEF Started
<1>6. start'.at = "no" /\ start' \in [at : {"no", "asked", "answered", "failed"}, id : Nat]
    BY DEF Started
<1>7. CodexTypeOK'
    BY <1>1, <1>5, <1>6 DEF CodexInv, CodexTypeOK, Started
<1>8. proc # 0 /\ initialized'
    BY DEF CodexInv, StartAndProc, Started
<1>9. StartAndProc'
    BY <1>1, <1>4, <1>6, <1>8 DEF StartAndProc
<1>10. NoneAsks
    BY <1>4 DEF NoneAsks
<1>11. NoOrphan'
    BY <1>1 DEF CodexInv, NoOrphan
<1> QED
    BY <1>1, <1>7, <1>9, <1>10, <1>11, NoneAsksKeeps DEF CodexInv

\* proc.kill() on the process that is held.
LEMMA KilledRight ==
    ASSUME CodexInv, Killed
    PROVE  /\ children' \in [Procs -> {"unborn", "running", "ended", "gone"}]
           /\ \A p \in Procs : children'[p] = "running" => children[p] = "running" /\ p # proc
BY DEF CodexInv, CodexTypeOK, Killed

LEMMA StartFailsKeeps ==
    ASSUME CodexInv, StartFails
    PROVE  CodexInv'
<1>1. UNCHANGED <<nextRequestId, inbox, out, chunk, reading,
                  stale>> /\ proc' = 0 /\ ~initialized'
    BY DEF StartFails
<1>2. \A c \in Calls : call'[c] = IF call[c].at = "waiting" THEN [call[c] EXCEPT !.at = "refused"]
                                                            ELSE call[c]
    BY DEF StartFails
<1>3. \A c \in Calls : call[c] \in CallRecord
    BY DEF CodexInv, CodexTypeOK
<1>4. \A c \in Calls : /\ call'[c] \in CallRecord
                       /\ call'[c].at = IF call[c].at = "waiting" THEN "refused" ELSE call[c].at
                       /\ call'[c].id = call[c].id /\ call'[c].step = call[c].step
                       /\ call'[c].mixed = call[c].mixed
    BY <1>2, <1>3 DEF CallRecord
<1>5. call' \in [Calls -> CallRecord]
    BY <1>4 DEF StartFails
<1>6. start'.at = "no" /\ start' \in [at : {"no", "asked", "answered", "failed"}, id : Nat]
    BY DEF StartFails
<1>7. initialized' = FALSE /\ Killed
    BY DEF StartFails
<1>8. CodexTypeOK'
    BY <1>1, <1>5, <1>6, <1>7, KilledRight DEF CodexInv, CodexTypeOK
<1>9. ~initialized
    BY DEF CodexInv, StartAndProc, StartFails
<1>10. StartAndProc'
    BY <1>1, <1>4, <1>6, <1>9 DEF CodexInv, StartAndProc
<1>11. NoneAsks
    BY <1>4 DEF NoneAsks
<1>12. NoOrphan'
    BY <1>1, <1>7, KilledRight DEF CodexInv, NoOrphan
<1> QED
    BY <1>1, <1>8, <1>10, <1>11, <1>12, NoneAsksKeeps DEF CodexInv

-------------------------------------------------------------------------------
LEMMA ReadKeeps ==
    ASSUME CodexInv, NEW p \in Procs, NEW n \in 1..Len(out[p]), Read(p, n)
    PROVE  CodexInv'
<1>1. UNCHANGED <<call, proc, initialized, start, nextRequestId, children, inbox, out, stale>>
    BY DEF Read, client, processes
<1>2. CodexTypeOK'
    <2>1. reading' = p /\ chunk' = n /\ chunk' \in 0..Len(out'[reading'])
        BY <1>1 DEF CodexInv, CodexTypeOK, Read
    <2> QED
        BY <1>1, <2>1 DEF CodexInv, CodexTypeOK
<1>3. StartAndProc'
    BY <1>1 DEF CodexInv, StartAndProc
<1>4. NoOrphan'
    BY <1>1 DEF CodexInv, NoOrphan
<1>5. NoneAsks
    BY <1>1 DEF NoneAsks
<1> QED
    BY <1>1, <1>2, <1>3, <1>4, <1>5, NoneAsksKeeps DEF CodexInv

LEMMA InitializeTimeoutKeeps ==
    ASSUME CodexInv, InitializeTimeout
    PROVE  CodexInv'
<1>1. UNCHANGED <<call, proc, initialized, nextRequestId, children, inbox, out, chunk, reading,
                  stale>>
    BY DEF InitializeTimeout, processes
<1>2. start.at = "asked" /\ start'.at = "failed"
      /\ start' \in [at : {"no", "asked", "answered", "failed"}, id : Nat]
    BY DEF InitializeTimeout, CodexInv, CodexTypeOK
<1>3. CodexTypeOK'
    BY <1>1, <1>2 DEF CodexInv, CodexTypeOK
<1>4. StartAndProc'
    BY <1>1, <1>2 DEF CodexInv, StartAndProc
<1>5. NoOrphan'
    BY <1>1 DEF CodexInv, NoOrphan
<1>6. NoneAsks
    BY <1>1 DEF NoneAsks
<1> QED
    BY <1>1, <1>3, <1>4, <1>5, <1>6, NoneAsksKeeps DEF CodexInv

LEMMA DiesKeeps ==
    ASSUME CodexInv, NEW p \in Procs, Dies(p)
    PROVE  CodexInv'
<1>1. /\ UNCHANGED <<call, proc, initialized, start, nextRequestId, inbox, out, chunk, reading,
                     stale>>
      /\ children' = [children EXCEPT ![p] = "ended"]
    BY DEF Dies, client
<1>2. CodexTypeOK'
    BY <1>1 DEF CodexInv, CodexTypeOK
<1>3. StartAndProc'
    BY <1>1 DEF CodexInv, StartAndProc
<1>4. NoOrphan'
    BY <1>1 DEF CodexInv, CodexTypeOK, NoOrphan
<1>5. NoneAsks
    BY <1>1 DEF NoneAsks
<1> QED
    BY <1>1, <1>2, <1>3, <1>4, <1>5, NoneAsksKeeps DEF CodexInv

\* The message read first is dropped from what the process has written.
LEMMA TailDrops ==
    ASSUME CodexInv, chunk > 0
    PROVE  /\ out[reading] # <<>> /\ Head(out[reading]) = out[reading][1]
           /\ 1 \in 1..Len(out[reading]) /\ Head(out[reading]) \in Message
           /\ Tail(out[reading]) \in Seq(Message)
           /\ Len(Tail(out[reading])) = Len(out[reading]) - 1
           /\ \A i \in 1..Len(Tail(out[reading])) :
                  /\ i + 1 \in 1..Len(out[reading])
                  /\ Tail(out[reading])[i] = out[reading][i + 1]
<1>1. out[reading] \in Seq(Message) /\ chunk \in 0..Len(out[reading])
    BY DEF CodexInv, CodexTypeOK
<1> DEFINE s == out[reading]
<1>2. s \in Seq(Message) /\ Len(s) \in Nat /\ Len(s) > 0
    BY <1>1
<1>3. s # <<>> /\ 1 \in 1..Len(s)
    BY <1>2
<1> HIDE DEF s
<1>4. Head(s) = s[1] /\ Head(s) \in Message
    BY <1>2, <1>3, HeadTailProperties
<1>5. Tail(s) \in Seq(Message) /\ Len(Tail(s)) = Len(s) - 1
    BY <1>2, <1>3, HeadTailProperties
<1>6. \A i \in 1..Len(Tail(s)) : i + 1 \in 1..Len(s) /\ Tail(s)[i] = s[i + 1]
    BY <1>2, <1>3, <1>5, HeadTailProperties
<1> QED
    BY <1>3, <1>4, <1>5, <1>6 DEF s

LEMMA AnsweredKeeps ==
    ASSUME CodexInv, NEW m, m.id \in Nat, m.ok \in BOOLEAN, Known(m, call, nextRequestId),
           Answered(m),
           UNCHANGED <<proc, initialized>>
    PROVE  /\ call' \in [Calls -> CallRecord]
           /\ start' \in [at : {"no", "asked", "answered", "failed"}, id : Nat]
           /\ NoneAsks /\ StartAndProc'
<1>1. call' = [c \in Calls |->
                 IF call[c].at = "asked" /\ call[c].id = m.id
                 THEN [call[c] EXCEPT
                         !.at = IF m.ok THEN "answered" ELSE "refused",
                         !.mixed = @ \/ m.who # c \/ m.step # call[c].step]
                 ELSE call[c]]
    BY DEF Answered
<1>2. start' = IF start.at = "asked" /\ start.id = m.id
               THEN [start EXCEPT !.at = IF m.ok THEN "answered" ELSE "failed"]
               ELSE start
    BY DEF Answered
<1>3. ASSUME NEW c \in Calls
      PROVE  /\ call'[c] \in CallRecord
             /\ call'[c].id = call[c].id /\ call'[c].step = call[c].step
             /\ call'[c].mixed = call[c].mixed
             /\ \/ call'[c].at = call[c].at
                \/ (call[c].at = "asked" /\ call'[c].at \in {"answered", "refused"})
    <2>1. call[c] \in CallRecord
        BY DEF CodexInv, CodexTypeOK
    <2>2. CASE call[c].at = "asked" /\ call[c].id = m.id
        <3>1. m.who = c /\ m.step = call[c].step
            BY <2>2 DEF Known
        <3>2. (call[c].mixed \/ m.who # c \/ m.step # call[c].step) = call[c].mixed
            BY <2>1, <3>1 DEF CallRecord
        <3>3. PICK to \in {"answered", "refused"} : to = IF m.ok THEN "answered" ELSE "refused"
            OBVIOUS
        <3>4. call'[c] = [call[c] EXCEPT !.at = to, !.mixed = call[c].mixed]
            BY <1>1, <2>2, <3>2, <3>3
        <3> QED
            BY <2>1, <2>2, <3>4 DEF CallRecord
    <2>3. CASE ~(call[c].at = "asked" /\ call[c].id = m.id)
        <3>1. call'[c] = call[c]
            BY <1>1, <2>3
        <3> QED
            BY <2>1, <3>1
    <2> QED
        BY <2>2, <2>3
<1>4. call' \in [Calls -> CallRecord]
    BY <1>1, <1>3
<1>5. NoneAsks
    BY <1>3 DEF NoneAsks
<1>6. /\ start' \in [at : {"no", "asked", "answered", "failed"}, id : Nat]
      /\ \/ start'.at = start.at
         \/ (start.at = "asked" /\ start'.at \in {"answered", "failed"})
    <2>1. start \in [at : {"no", "asked", "answered", "failed"}, id : Nat]
        BY DEF CodexInv, CodexTypeOK
    <2>2. PICK to \in {"answered", "failed"} : to = IF m.ok THEN "answered" ELSE "failed"
        OBVIOUS
    <2>3. \/ start' = start
          \/ (start.at = "asked" /\ start' = [start EXCEPT !.at = to])
        BY <1>2, <2>2
    <2> QED
        BY <2>1, <2>3
<1>7. StartAndProc'
    BY <1>3, <1>6 DEF CodexInv, StartAndProc
<1> QED
    BY <1>4, <1>5, <1>6, <1>7

LEMMA TurnCompletedKeeps ==
    ASSUME CodexInv, NEW m, m.who \in Calls, TurnCompleted(m), UNCHANGED <<proc, initialized>>
    PROVE  /\ call' \in [Calls -> CallRecord]
           /\ start' \in [at : {"no", "asked", "answered", "failed"}, id : Nat]
           /\ NoneAsks /\ StartAndProc'
<1>1. /\ start' = start
      /\ call' = [call EXCEPT ![m.who] =
                    IF @.at = "turn" THEN [@ EXCEPT !.at = IF m.ok THEN "ok" ELSE "failed"]
                                     ELSE @]
    BY DEF TurnCompleted
<1>2. /\ start \in [at : {"no", "asked", "answered", "failed"}, id : Nat]
      /\ call \in [Calls -> CallRecord]
    BY DEF CodexInv, CodexTypeOK
<1>3. ASSUME NEW c \in Calls
      PROVE  /\ call'[c] \in CallRecord
             /\ call'[c].id = call[c].id /\ call'[c].step = call[c].step
             /\ call'[c].mixed = call[c].mixed
             /\ call'[c].at = call[c].at \/ call'[c].at \in {"ok", "failed"}
    BY <1>1, <1>2 DEF CallRecord
<1>4. call' \in [Calls -> CallRecord]
    BY <1>1, <1>2, <1>3
<1>5. NoneAsks
    BY <1>3 DEF NoneAsks
<1>6. StartAndProc'
    BY <1>1, <1>3 DEF CodexInv, StartAndProc
<1> QED
    BY <1>1, <1>2, <1>4, <1>5, <1>6

LEMMA HandleMessageKeeps ==
    ASSUME CodexInv, HandleMessage
    PROVE  CodexInv'
<1> DEFINE m == out[reading][1]
<1>1. /\ UNCHANGED <<proc, initialized, nextRequestId, children, inbox, reading, stale>>
      /\ chunk' = chunk - 1 /\ chunk > 0
      /\ out' = [out EXCEPT ![reading] = Tail(@)]
    BY DEF HandleMessage
<1>2. /\ m = Head(out[reading]) /\ m \in Message /\ 1 \in 1..Len(out[reading])
      /\ reading \in Procs
    BY <1>1, TailDrops DEF CodexInv, CodexTypeOK
<1> HIDE DEF m
<1>3. IF m.kind = "answer" THEN Answered(m) ELSE TurnCompleted(m)
    BY <1>2 DEF HandleMessage
<1>4. /\ call' \in [Calls -> CallRecord]
      /\ start' \in [at : {"no", "asked", "answered", "failed"}, id : Nat]
      /\ NoneAsks /\ StartAndProc'
    <2>1. CASE m.kind = "answer"
        <3>1. m.id \in Nat /\ m.ok \in BOOLEAN
            BY <1>2, <2>1 DEF Message
        <3>2. Known(m, call, nextRequestId)
            BY <1>2, <2>1 DEF CodexInv, Numbers, m
        <3> QED
            BY <1>1, <1>3, <2>1, <3>1, <3>2, AnsweredKeeps
    <2>2. CASE m.kind # "answer"
        <3>1. m.who \in Calls
            BY <1>2, <2>2 DEF Message
        <3> QED
            BY <1>1, <1>3, <2>2, <3>1, TurnCompletedKeeps
    <2> QED
        BY <2>1, <2>2
<1>5. \A p \in Procs : out'[p] = IF p = reading THEN Tail(out[p]) ELSE out[p]
    BY <1>1 DEF CodexInv, CodexTypeOK
<1>6. CodexTypeOK'
    <2>1. out' \in [Procs -> Seq(Message)]
        BY <1>1, TailDrops DEF CodexInv, CodexTypeOK
    <2>2. chunk' \in 0..Len(out'[reading'])
        <3>1. Len(out'[reading']) = Len(out[reading]) - 1
            BY <1>1, <1>2, <1>5, TailDrops
        <3> QED
            BY <1>1, <1>2, <3>1 DEF CodexInv, CodexTypeOK
    <2> QED
        BY <1>1, <1>4, <2>1, <2>2 DEF CodexInv, CodexTypeOK
<1>7. NoOrphan'
    BY <1>1 DEF CodexInv, NoOrphan
<1>8. AnswerIsOwn'
    BY <1>4 DEF CodexInv, NoneAsks, AnswerIsOwn
<1>9. ASSUME NEW x, Known(x, call, nextRequestId)
      PROVE  Known(x, call', nextRequestId')
    BY <1>1, <1>4, <1>9 DEF NoneAsks, Known
<1>10. ASSUME NEW p \in Procs, NEW i \in 1..Len(out'[p]), out'[p][i].kind = "answer"
       PROVE  Known(out'[p][i], call', nextRequestId')
    <2>1. PICK j \in 1..Len(out[p]) : out'[p][i] = out[p][j]
        <3>1. CASE p = reading
            <4>1. i + 1 \in 1..Len(out[p]) /\ out'[p][i] = out[p][i + 1]
                BY <1>1, <1>5, <1>10, <3>1, TailDrops
            <4> QED
                BY <4>1
        <3>2. CASE p # reading
            BY <1>5, <1>10, <3>2
        <3> QED
            BY <3>1, <3>2
    <2>2. Known(out[p][j], call, nextRequestId)
        BY <1>10, <2>1 DEF CodexInv, Numbers
    <2> QED
        BY <1>9, <2>1, <2>2
<1>11. \A p \in Procs : \A r \in inbox'[p] : Known(r, call', nextRequestId')
    BY <1>1, <1>9 DEF CodexInv, Numbers
<1>12. \A c \in Calls : call'[c].at = "asked" => call'[c].id < nextRequestId'
    BY <1>1, <1>4 DEF CodexInv, Numbers, NoneAsks
<1>13. Numbers'
    BY <1>10, <1>11, <1>12 DEF Numbers
<1> QED
    BY <1>4, <1>6, <1>7, <1>8, <1>13 DEF CodexInv

\* What is written last follows what was written before.
LEMMA Follows ==
    ASSUME NEW s \in Seq(Message), NEW t \in Seq(Message)
    PROVE  /\ s \o t \in Seq(Message)
           /\ Len(s \o t) = Len(s) + Len(t)
           /\ \A i \in 1..Len(s \o t) :
                  \/ (i \in 1..Len(s) /\ (s \o t)[i] = s[i])
                  \/ (i - Len(s) \in 1..Len(t) /\ (s \o t)[i] = t[i - Len(s)])
<1>1. s \o t \in Seq(Message) /\ Len(s \o t) = Len(s) + Len(t)
    BY ConcatProperties
<1>2. ASSUME NEW i \in 1..Len(s \o t)
      PROVE  \/ (i \in 1..Len(s) /\ (s \o t)[i] = s[i])
             \/ (i - Len(s) \in 1..Len(t) /\ (s \o t)[i] = t[i - Len(s)])
    <2>1. Len(s) \in Nat /\ Len(t) \in Nat /\ i \in 1..(Len(s) + Len(t))
        BY <1>1
    <2>2. (s \o t)[i] = IF i <= Len(s) THEN s[i] ELSE t[i - Len(s)]
        BY <2>1, ConcatProperties
    <2> QED
        BY <2>1, <2>2
<1> QED
    BY <1>1, <1>2

LEMMA AnswerKeeps ==
    ASSUME CodexInv, NEW p \in Procs, Answer(p)
    PROVE  CodexInv'
<1>1. UNCHANGED <<call, proc, initialized, start, nextRequestId, children, chunk, reading,
                  stale>>
    BY DEF Answer, client
<1>2. PICK r \in inbox[p], ok \in BOOLEAN :
          /\ inbox' = [inbox EXCEPT ![p] = @ \ {r}]
          /\ \E end \in (IF r.step = "turn" /\ ok THEN {"completed", "failed", "silent"}
                                                  ELSE {"silent"}) :
                 out' = [out EXCEPT ![p] =
                           @ \o <<[kind |-> "answer", id |-> r.id, who |-> r.who,
                                   step |-> r.step, ok |-> ok]>>
                             \o IF end = "silent" THEN <<>>
                                ELSE <<[kind |-> "completed", who |-> r.who,
                                        ok |-> end = "completed"]>>]
    BY DEF Answer
<1>3. PICK end \in (IF r.step = "turn" /\ ok THEN {"completed", "failed", "silent"}
                                             ELSE {"silent"}) :
          out' = [out EXCEPT ![p] =
                    @ \o <<[kind |-> "answer", id |-> r.id, who |-> r.who,
                            step |-> r.step, ok |-> ok]>>
                      \o IF end = "silent" THEN <<>>
                         ELSE <<[kind |-> "completed", who |-> r.who,
                                 ok |-> end = "completed"]>>]
    BY <1>2
<1> DEFINE a == [kind |-> "answer", id |-> r.id, who |-> r.who, step |-> r.step, ok |-> ok]
           b == [kind |-> "completed", who |-> r.who, ok |-> end = "completed"]
           t == IF end = "silent" THEN <<>> ELSE <<b>>
           s == out[p] \o <<a>>
<1>4. r \in Request /\ Known(r, call, nextRequestId)
    BY <1>2 DEF CodexInv, CodexTypeOK, Numbers
<1>5. a \in Message /\ a.id = r.id /\ a.who = r.who /\ a.step = r.step
    BY <1>4 DEF Request, Message, Steps
<1>6. Known(a, call, nextRequestId)
    BY <1>4, <1>5 DEF Known
\* Only a call asks for a turn, so it is a call that is told of its end.
<1>7. end # "silent" => b \in Message
    BY <1>3, <1>4 DEF Request, Message
<1>8. b.kind = "completed"
    OBVIOUS
<1>9. out' = [out EXCEPT ![p] = s \o t]
    BY <1>3
<1> HIDE DEF a, b
<1>10. /\ <<a>> \in Seq(Message) /\ Len(<<a>>) = 1 /\ <<a>>[1] = a
       /\ t \in Seq(Message) /\ (\A i \in 1..Len(t) : t[i].kind = "completed")
    BY <1>5, <1>7, <1>8
<1>11. out[p] \in Seq(Message) /\ s \in Seq(Message)
    BY <1>10, Follows DEF CodexInv, CodexTypeOK
<1>12. s \o t \in Seq(Message) /\ Len(s \o t) = Len(out[p]) + 1 + Len(t)
    BY <1>10, <1>11, Follows
<1>13. \A i \in 1..Len(s \o t) : \/ (i \in 1..Len(out[p]) /\ (s \o t)[i] = out[p][i])
                                 \/ (s \o t)[i] = a
                                 \/ (s \o t)[i].kind = "completed"
    <2> HIDE DEF t
    <2>1. \A i \in 1..Len(s) : (i \in 1..Len(out[p]) /\ s[i] = out[p][i]) \/ s[i] = a
        <3>1. ASSUME NEW i \in 1..Len(s)
              PROVE  (i \in 1..Len(out[p]) /\ s[i] = out[p][i]) \/ s[i] = a
            <4>1. \/ (i \in 1..Len(out[p]) /\ s[i] = out[p][i])
                  \/ (i - Len(out[p]) \in 1..Len(<<a>>) /\ s[i] = <<a>>[i - Len(out[p])])
                BY <1>10, <1>11, Follows
            <4> QED
                BY <1>10, <4>1
        <3> QED
            BY <3>1
    <2> HIDE DEF s
    <2>2. \A i \in 1..Len(s \o t) :
              \/ (i \in 1..Len(s) /\ (s \o t)[i] = s[i])
              \/ (i - Len(s) \in 1..Len(t) /\ (s \o t)[i] = t[i - Len(s)])
        BY <1>10, <1>11, Follows
    <2> QED
        BY <1>10, <2>1, <2>2
<1> HIDE DEF s, t
<1>14. \A q \in Procs : out'[q] = IF q = p THEN s \o t ELSE out[q]
    BY <1>9 DEF CodexInv, CodexTypeOK
<1>15. CodexTypeOK'
    <2>1. out' \in [Procs -> Seq(Message)]
        BY <1>9, <1>12 DEF CodexInv, CodexTypeOK
    <2>2. inbox' \in [Procs -> SUBSET Request]
        BY <1>2 DEF CodexInv, CodexTypeOK
    <2>3. chunk \in 0..Len(out'[reading])
        <3>1. /\ Len(out[p]) \in Nat /\ Len(t) \in Nat
              /\ reading \in Procs /\ chunk \in 0..Len(out[reading])
            BY <1>10, <1>11 DEF CodexInv, CodexTypeOK
        <3>2. CASE reading = p
            <4>1. Len(out'[reading]) = Len(out[p]) + 1 + Len(t)
                BY <1>12, <1>14, <3>1, <3>2
            <4>2. chunk \in 0..Len(out[p])
                BY <3>1, <3>2
            <4> QED
                BY <3>1, <4>1, <4>2
        <3>3. CASE reading # p
            BY <1>14, <3>1, <3>3
        <3> QED
            BY <3>2, <3>3
    <2> QED
        BY <1>1, <2>1, <2>2, <2>3 DEF CodexInv, CodexTypeOK
<1>16. StartAndProc' /\ NoOrphan' /\ AnswerIsOwn'
    BY <1>1 DEF CodexInv, StartAndProc, NoOrphan, AnswerIsOwn
<1>17. ASSUME NEW q \in Procs, NEW i \in 1..Len(out'[q]), out'[q][i].kind = "answer"
       PROVE  Known(out'[q][i], call, nextRequestId)
    <2>1. CASE q = p
        <3>1. (s \o t)[i] = a \/ (i \in 1..Len(out[p]) /\ (s \o t)[i] = out[p][i])
            BY <1>13, <1>14, <1>17, <2>1
        <3> QED
            BY <1>6, <1>14, <1>17, <2>1, <3>1 DEF CodexInv, Numbers
    <2>2. CASE q # p
        BY <1>14, <1>17, <2>2 DEF CodexInv, Numbers
    <2> QED
        BY <2>1, <2>2
<1>18. \A q \in Procs : \A x \in inbox'[q] : Known(x, call, nextRequestId)
    BY <1>2 DEF CodexInv, CodexTypeOK, Numbers
<1>19. Numbers'
    BY <1>1, <1>17, <1>18 DEF CodexInv, Numbers
<1> QED
    BY <1>15, <1>16, <1>19 DEF CodexInv

-------------------------------------------------------------------------------
\* handleProcessExit(): all that is pending is rejected, and no process is held.
LEMMA ExitKeeps ==
    ASSUME CodexInv, Quiet, HandleProcessExit,
           children' \in [Procs -> {"unborn", "running", "ended", "gone"}], stale' \in BOOLEAN,
           NoOrphan',
           UNCHANGED <<nextRequestId, inbox, out, chunk, reading>>
    PROVE  CodexInv'
<1>1. CASE proc = 0 /\ ~initialized
    <2>1. UNCHANGED <<call, proc, initialized, start>>
        BY <1>1 DEF HandleProcessExit
    <2>2. CodexTypeOK'
        BY <2>1 DEF CodexInv, CodexTypeOK
    <2>3. StartAndProc' /\ NoneAsks
        BY <2>1 DEF CodexInv, StartAndProc, NoneAsks
    <2> QED
        BY <2>2, <2>3, NoneAsksKeeps DEF CodexInv
<1>2. CASE ~(proc = 0 /\ ~initialized)
    <2>1. /\ proc' = 0 /\ initialized' = FALSE
          /\ call' = Rejected(call)
          /\ start' = IF start.at = "asked" THEN [start EXCEPT !.at = "failed"] ELSE start
        BY <1>2 DEF HandleProcessExit
    <2>2. ASSUME NEW c \in Calls
          PROVE  /\ call'[c] \in CallRecord
                 /\ call'[c].at = IF call[c].at \in {"asked", "turn"} THEN "refused"
                                                                     ELSE call[c].at
                 /\ call'[c].mixed = call[c].mixed
        <3>1. call[c] \in CallRecord
            BY DEF CodexInv, CodexTypeOK
        <3>2. call'[c] = IF call[c].at \in {"asked", "turn"} THEN [call[c] EXCEPT !.at = "refused"]
                                                            ELSE call[c]
            BY <2>1 DEF Rejected
        <3> QED
            BY <3>1, <3>2 DEF CallRecord
    <2>3. call' \in [Calls -> CallRecord]
        BY <2>1, <2>2 DEF Rejected
    <2>4. /\ start' \in [at : {"no", "asked", "answered", "failed"}, id : Nat]
          /\ start'.at = IF start.at = "asked" THEN "failed" ELSE start.at
        BY <2>1 DEF CodexInv, CodexTypeOK
    <2>5. CodexTypeOK'
        BY <2>1, <2>3, <2>4 DEF CodexInv, CodexTypeOK
    <2>6. \A c \in Calls : call'[c].at \notin {"send", "asked", "answered", "turn"}
        BY <2>2 DEF Quiet, Pending
    <2>7. start'.at \in {"no", "failed"}
        BY <2>4 DEF Quiet
    <2>8. StartAndProc'
        BY <2>1, <2>2, <2>4, <2>6, <2>7 DEF CodexInv, StartAndProc
    <2>9. NoneAsks
        BY <2>2, <2>6 DEF NoneAsks
    <2> QED
        BY <2>5, <2>8, <2>9, NoneAsksKeeps DEF CodexInv
<1> QED
    BY <1>1, <1>2

LEMMA ProcessExitKeeps ==
    ASSUME CodexInv, NEW p \in Procs, Exit(p)
    PROVE  CodexInv'
<1>1. /\ Quiet /\ HandleProcessExit /\ UNCHANGED <<nextRequestId, inbox, out, chunk, reading>>
      /\ children[p] = "ended" /\ children' = [children EXCEPT ![p] = "gone"]
      /\ stale' = (stale \/ (proc # 0 /\ proc # p))
    BY DEF Exit
<1>2. children' \in [Procs -> {"unborn", "running", "ended", "gone"}] /\ stale' \in BOOLEAN
    BY <1>1 DEF CodexInv, CodexTypeOK
<1>3. \A q \in Procs : children'[q] = "running" => q # p /\ children[q] = "running"
    BY <1>1 DEF CodexInv, CodexTypeOK
<1>4. proc' = proc \/ proc' = 0
    BY <1>1 DEF HandleProcessExit
\* A process that runs beside p is not held after this.  If it was held before, the exit
\* was another's.
<1>5. ASSUME NEW q \in Procs, children'[q] = "running", q # proc'
      PROVE  stale'
    <2>1. q # p /\ children[q] = "running"
        BY <1>3, <1>5
    <2>2. CASE q # proc
        BY <1>1, <2>1, <2>2 DEF CodexInv, NoOrphan
    <2>3. CASE q = proc
        BY <1>1, <2>1, <2>3, ProcsAre
    <2> QED
        BY <2>2, <2>3
<1>6. NoOrphan'
    BY <1>5 DEF NoOrphan
<1> QED
    BY <1>1, <1>2, <1>6, ExitKeeps

LEMMA DisposeKeeps ==
    ASSUME CodexInv, Dispose
    PROVE  CodexInv'
<1>1. /\ Quiet /\ Killed /\ HandleProcessExit
      /\ UNCHANGED <<nextRequestId, inbox, out, chunk, reading>> /\ stale' = stale
    BY DEF Dispose
<1>2. stale' \in BOOLEAN
    BY <1>1 DEF CodexInv, CodexTypeOK
<1>3. NoOrphan'
    BY <1>1, KilledRight DEF CodexInv, NoOrphan
<1> QED
    BY <1>1, <1>2, <1>3, KilledRight, ExitKeeps

-------------------------------------------------------------------------------
LEMMA ContinueKeeps ==
    ASSUME CodexInv, Continue
    PROVE  CodexInv'
<1>1. CASE Started
    BY <1>1, StartedKeeps
<1>2. CASE StartFails
    BY <1>2, StartFailsKeeps
<1>3. ASSUME NEW c \in Calls, Ensure(c) \/ Proceed(c) \/ Refuse(c) \/ Advance(c)
      PROVE  CodexInv'
    <2>1. CASE Ensure(c)
        BY <2>1, EnsureKeeps
    <2>2. CASE Proceed(c)
        BY <2>2, AskKeeps DEF Proceed
    <2>3. CASE Refuse(c)
        BY <2>3, CallEnds
    <2>4. CASE Advance(c)
        BY <2>4, AdvanceKeeps
    <2> QED
        BY <1>3, <2>1, <2>2, <2>3, <2>4
<1> QED
    BY <1>1, <1>2, <1>3 DEF Continue

LEMMA StutterKeeps ==
    ASSUME CodexInv, UNCHANGED codexVars
    PROVE  CodexInv'
<1>1. UNCHANGED <<call, proc, initialized, start, nextRequestId, children, inbox, out, chunk,
                  reading,
                  stale>>
    BY DEF codexVars, client, processes
<1> QED
    BY <1>1 DEF CodexInv, CodexTypeOK, StartAndProc, NoOrphan, Numbers, AnswerIsOwn

LEMMA CodexNextKeeps ==
    ASSUME CodexInv, [CodexNext]_codexVars
    PROVE  CodexInv'
<1>1. CASE Continue
    BY <1>1, ContinueKeeps
<1>2. CASE HandleMessage
    BY <1>2, HandleMessageKeeps
<1>3. CASE InitializeTimeout
    BY <1>3, InitializeTimeoutKeeps
<1>4. CASE Dispose
    BY <1>4, DisposeKeeps
<1>5. ASSUME NEW c \in Calls, Call(c) \/ RequestTimeout(c) \/ TurnTimeout(c) \/ Abort(c)
      PROVE  CodexInv'
    BY <1>5, CallEnds, AbortKeeps
<1>6. ASSUME NEW p \in Procs, Answer(p) \/ Dies(p) \/ Exit(p)
      PROVE  CodexInv'
    BY <1>6, AnswerKeeps, DiesKeeps, ProcessExitKeeps
<1>7. ASSUME NEW p \in Procs, NEW n \in 1..Len(out[p]), Read(p, n)
      PROVE  CodexInv'
    BY <1>7, ReadKeeps
<1>8. CASE UNCHANGED codexVars
    BY <1>8, StutterKeeps
<1> QED
    BY <1>1, <1>2, <1>3, <1>4, <1>5, <1>6, <1>7, <1>8 DEF CodexNext

-------------------------------------------------------------------------------
\* How the start of the process, the process that is held and the numbers of the requests
\* go together, in every state of the client (codex-app-server-client.ts, ensureStarted,
\* requestRaw and handleProcessExit).
THEOREM CodexInvariance == CodexSpec => []CodexInv
<1>1. CodexInit => CodexInv
    BY CodexInitOK
<1>2. CodexInv /\ [CodexNext]_codexVars => CodexInv'
    BY CodexNextKeeps
<1> QED
    BY <1>1, <1>2, PTL DEF CodexSpec

\* Every variable keeps its type, the messages that are read among them: there are never
\* more of them to handle than the process has written.
THEOREM CodexTypeCorrect == CodexSpec => []CodexTypeOK
<1>1. CodexInv => CodexTypeOK
    BY DEF CodexInv
<1> QED
    BY <1>1, CodexInvariance, PTL

\* Nothing waits for a process the client has forgotten, whatever has ended it.
THEOREM NothingIsForgotten == CodexSpec => []PendingHasProcess
<1>1. CodexInv => PendingHasProcess
    BY DEF CodexInv, StartAndProc, PendingHasProcess
<1> QED
    BY <1>1, CodexInvariance, PTL

\* No call goes on with the answer to the request of another one, or to one of its own
\* that it no longer waits for, although a request that has timed out is still answered and
\* answers of an earlier process are matched by number alone.
THEOREM NoneTakesAnothers == CodexSpec => []AnswerIsOwn
<1>1. CodexInv => AnswerIsOwn
    BY DEF CodexInv
<1> QED
    BY <1>1, CodexInvariance, PTL

\* As long as no exit is taken for that of another process, every process that runs is the
\* one the client holds.
THEOREM NoneIsOrphaned == CodexSpec => []NoOrphan
<1>1. CodexInv => NoOrphan
    BY DEF CodexInv
<1> QED
    BY <1>1, CodexInvariance, PTL
===============================================================================

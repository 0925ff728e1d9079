-------------------------------- MODULE MCRoom --------------------------------
EXTENDS Room, TLC

CONSTANTS a, b, s1, s2, s3

MCPlayers == {a, b}
PlayerSymmetry == Permutations(MCPlayers)
MCTwoSongs == {s1, s2}
MCThreeSongs == {s1, s2, s3}

\* s3 is an interrupt, asked for last and to be played before s2.
MCOrderIndex == [s \in Songs |-> CASE s = s1 -> 1 [] s = s2 -> 3 [] s = s3 -> 2]
MCCreatedAt == [s \in Songs |-> CASE s = s1 -> 1 [] s = s2 -> 2 [] s = s3 -> 3]
MCPromptEpoch == [s \in Songs |-> IF s = s2 THEN 1 ELSE 0]
MCInterrupts == {s3} \cap Songs

===============================================================================

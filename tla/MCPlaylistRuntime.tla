--------------------------- MODULE MCPlaylistRuntime ---------------------------
EXTENDS PlaylistRuntime, TLC

CONSTANTS s1, s2

\* One song more than the buffer holds: the one a listener has passed, that still
\* waits behind a question, or that is made without being asked for.
MCSongs == {s1, s2}

\* For liveness.
MCOneSong == {s1}

MCModes == {"endless", "oneshot"}

\* Where there are two songs, rooms play endless playlists only.
MCRoomModes == {"endless"}

SongSymmetry == Permutations(MCSongs)
================================================================================

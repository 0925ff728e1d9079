--------------------------- MODULE MCSongLifecycle ---------------------------
(***************************************************************************)
(* One song.  Two worker objects: the live one, and a cancelled one that   *)
(* is still storing a file.  Three events let the song actor lag behind a  *)
(* whole retry (retry_pending, the status it goes on from, and what the    *)
(* next worker does to it).                                                *)
(***************************************************************************)
EXTENDS SongLifecycle, TLC

CONSTANTS w1, w2

MCWorkers == {w1, w2}

WorkerSymmetry == Permutations(MCWorkers)
===============================================================================

---------------------------- MODULE MCQueryCache ----------------------------
(* One playlist: every key of a playlist names the playlist it is of, so   *)
(* what happens to another one only invalidates what need not be.          *)
EXTENDS QueryCache
=============================================================================

----------------------------- MODULE MCAudioQueue -----------------------------
(***************************************************************************)
(* Two submissions of one song: a late answer of each kind can meet the    *)
(* other request in the slot.  Two polls may overlap.                      *)
(***************************************************************************)
EXTENDS AudioQueue, TLC

CONSTANTS r1, r2, s1, p1, p2

MCRequests == {r1, r2}
MCSongs == {s1}
MCSongOf == (r1 :> s1) @@ (r2 :> s1)

MCPriorities == {0, 1}
MCPolls == {p1, p2}
===============================================================================

----------------------- MODULE MCRequestResponseQueue -----------------------
(***************************************************************************)
(* Four requests of three songs, two of them of the same song: enough for  *)
(* a limit of two to be exceeded by the shared map entry, for a waiting    *)
(* request behind them and for ties between priorities.                    *)
(***************************************************************************)
EXTENDS RequestResponseQueue, TLC

CONSTANTS r1, r2, r3, r4, s1, s2, s3

MCRequests == {r1, r2, r3, r4}
MCSongs == {s1, s2, s3}
MCSongOf == (r1 :> s1) @@ (r2 :> s1) @@ (r3 :> s2) @@ (r4 :> s3)
MCPriorities == {0, 1}
MCLimits == {1, 2}
===============================================================================

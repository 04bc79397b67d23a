--------------------------- MODULE MCOAuthRefresh ---------------------------
(* OAuthRefresh for TLC: the cycle of one instance, a request on another.   *)
EXTENDS OAuthRefresh, TLC

CONSTANTS n1, n2, c1, r1

MCNodeOf == (c1 :> n1) @@ (r1 :> n2)

\* Bound.
FewDisturbances == faults + writes <= 2 \/ (writes = 0 /\ issued <= 1)
=============================================================================

----------------------------- MODULE MCLiveCall -----------------------------
(* LiveCall for TLC: the call is created on one instance; the client's     *)
(* control connection and a competing request are on another.              *)
EXTENDS LiveCall, TLC

CONSTANTS n1, n2, p1, r1

MCNodeOf == (Call :> n1) @@ (p1 :> n2) @@ (r1 :> n2)
=============================================================================

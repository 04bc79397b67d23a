---------------------------- MODULE PaymentLedger ----------------------------
(***************************************************************************)
(* What a payment order promises, with no workers, leases or faults: the   *)
(* provider collects the money, the customer is credited once for it, the  *)
(* affiliate rebate is settled once after the credit, and the order is     *)
(* completed last.  Nothing is ever taken back.                            *)
(***************************************************************************)
EXTENDS Naturals

VARIABLES
    collected,  \* the provider has the amount of the order
    credits,    \* credits given for it
    rebates,    \* rebates settled for it
    completed   \* the order is reported as completed

ledgerVars == <<collected, credits, rebates, completed>>

Init ==
    /\ collected = FALSE
    /\ credits = 0
    /\ rebates = 0
    /\ completed = FALSE

Collect ==
    /\ ~collected
    /\ collected' = TRUE
    /\ UNCHANGED <<credits, rebates, completed>>

Credit ==
    /\ collected /\ credits = 0
    /\ credits' = 1
    /\ UNCHANGED <<collected, rebates, completed>>

SettleRebate ==
    /\ credits = 1 /\ rebates = 0
    /\ rebates' = 1
    /\ UNCHANGED <<collected, credits, completed>>

Complete ==
    /\ rebates = 1 /\ ~completed
    /\ completed' = TRUE
    /\ UNCHANGED <<collected, credits, rebates>>

Next == Collect \/ Credit \/ SettleRebate \/ Complete

Spec == Init /\ [][Next]_ledgerVars
=============================================================================

--------------------------- MODULE MCPaymentOrder ---------------------------
(* PaymentOrder for TLC: workers are interchangeable within their kind.    *)
EXTENDS PaymentOrder, TLC

Symmetry == Permutations(Deliveries) \cup Permutations(Clients)

\* Bound: an order of subscriptions meets no faults.
FaultsWithBalance == orderType = "balance" \/ faults = 0
=============================================================================

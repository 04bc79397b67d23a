--------------------------- MODULE MCPaymentRefund ---------------------------
EXTENDS PaymentRefund, TLC

Symmetry == Permutations(Admins)

\* Bound: faults happen only while one amount has been asked for.
FaultsWithOneAmount ==
    faults > 0 =>
        Cardinality({m \in Amounts : \/ refunds[m] # "none"
                                     \/ \E a \in Admins : plan[a].amount = m}) <= 1

\* Bound: after the second fault one attempt at a time goes on, and as long as
\* the balance is not overdrawn.
SecondFaultAlone ==
    faults = 2 => /\ balance >= 0
                  /\ \A a, b \in Admins : pc[a] # "idle" /\ pc[b] # "idle" => a = b
=============================================================================

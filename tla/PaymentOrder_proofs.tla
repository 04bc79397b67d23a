------------------------- MODULE PaymentOrder_proofs -------------------------
(***************************************************************************)
(* Proofs about PaymentOrder, for any number of workers and of faults.     *)
(***************************************************************************)
EXTENDS PaymentOrder, TLAPS

\* Past "lease" a worker knows that the provider collected the right amount.
PaidSteps == LeaseSteps \cup {"already", "lease", "refused"}

\* The credit is tied to the code of a balance order, and nobody runs the
\* other kind's steps.
GrantInv ==
    /\ granted <= 1 /\ rebated <= granted
    /\ orderType = "balance" => (granted = 1 <=> code = "used")
    /\ \A w \in Workers :
         /\ pc[w] \in {"lookup", "create", "redeem"} => orderType = "balance"
         /\ pc[w] = "assign" => orderType = "subscription"

\* What a worker has done is still done when it reaches a later step.
ProgressInv ==
    \A w \in Workers :
        /\ pc[w] = "rebate" => granted = 1
        /\ pc[w] = "complete" => granted = 1 /\ rebated = 1

\* The row, the provider and the workers agree on what has been paid.
PaymentInv ==
    /\ payment # "none" => creation = "delivered"
    /\ paidAt => payment = "paid"
    /\ \A w \in Workers : pc[w] \in PaidSteps => payment = "paid"
    /\ granted > 0 => payment = "paid"

StatusInv ==
    /\ PaidStaysRecoverable
    /\ status \in {"PAID", "RECHARGING", "COMPLETED"} => paidAt
    /\ status = "FAILED" => paidAt \/ creation = "failed"
    /\ CompletedIsSettled

IInv == TypeOK /\ GrantInv /\ ProgressInv /\ PaymentInv /\ StatusInv

USE DEF LeaseSteps, PaidSteps, Steps, Tasks, Statuses

-----------------------------------------------------------------------------

\* The initial state satisfies the inductive invariant.
LEMMA InitIInv == Init => IInv
  <1> SUFFICES ASSUME Init PROVE IInv
    OBVIOUS
  <1> USE OrderAssumption DEF Init
  <1>1. TypeOK
    <2>1. pc \in [Workers -> Steps] /\ task \in [Workers -> Tasks]
      OBVIOUS
    <2>2. faults \in 0..MaxFaults
      OBVIOUS
    <2> QED BY <2>1, <2>2 DEF TypeOK
  <1>2. GrantInv
    BY DEF GrantInv
  <1>3. ProgressInv
    BY DEF ProgressInv
  <1>4. PaymentInv
    BY DEF PaymentInv
  <1>5. StatusInv
    BY DEF StatusInv, PaidStaysRecoverable, CompletedIsSettled
  <1> QED BY <1>1, <1>2, <1>3, <1>4, <1>5 DEF IInv

\* The provider, the customer and the clock preserve it.
LEMMA EnvironmentIInv == IInv /\ Environment => IInv'
  <1> SUFFICES ASSUME IInv, Environment PROVE IInv'
    OBVIOUS
  <1> USE OrderAssumption
      DEF IInv, TypeOK, GrantInv, ProgressInv, PaymentInv, StatusInv,
          PaidStaysRecoverable, CompletedIsSettled, WriteRow, Fault,
          row, env, ledger, proc
  <1>1. CASE DeliverOrder
    BY <1>1 DEF DeliverOrder
  <1>2. CASE FailCreation
    <2>1. CASE WriteRow("FAILED") /\ UNCHANGED faults
      <3>1. TypeOK'
        BY <1>2, <2>1 DEF FailCreation
      <3>2. GrantInv' /\ ProgressInv'
        BY <1>2, <2>1 DEF FailCreation
      <3>3. PaymentInv' /\ StatusInv'
        BY <1>2, <2>1 DEF FailCreation
      <3> QED
        BY <3>1, <3>2, <3>3
    <2>2. CASE UNCHANGED <<status, aged, holders>> /\ faults < MaxFaults /\ faults' = faults + 1
      BY <1>2, <2>2 DEF FailCreation
    <2> QED
      BY <1>2, <2>1, <2>2 DEF FailCreation
  <1>3. CASE CustomerPays
    BY <1>3 DEF CustomerPays
  <1>4. CASE Timeout
    BY <1>4 DEF Timeout
  <1>5. CASE Age
    BY <1>5 DEF Age
  <1>6. CASE Stall
    BY <1>6 DEF Stall
  <1> QED BY <1>1, <1>2, <1>3, <1>4, <1>5, <1>6 DEF Environment

\* An outcome leaves the workers' control well typed.
LEMMA OutcomeType ==
  ASSUME TypeOK, NEW w \in Workers, NEW next \in Steps, NEW onError \in Steps,
         Outcome(w, next, onError) \/ (Step(w, next) /\ onError = next)
  PROVE  /\ pc' \in [Workers -> Steps]
         /\ task' \in [Workers -> Tasks]
         /\ faults' \in 0..MaxFaults
  BY OrderAssumption DEF TypeOK, Outcome, Step, Goto, Fault

\* Starting a worker preserves it.
LEMMA BeginIInv ==
  ASSUME IInv, NEW w \in Workers, Begin(w) PROVE IInv'
  <1> USE OrderAssumption
      DEF IInv, TypeOK, GrantInv, ProgressInv, PaymentInv, StatusInv,
          PaidStaysRecoverable, CompletedIsSettled, WriteRow, Fault,
          row, env, ledger, proc,
          At, Goto, Step, Start
  <1>1. CASE Webhook(w)
    BY <1>1 DEF Webhook
  <1>2. CASE CancelOrder(w)
    BY <1>2 DEF CancelOrder
  <1>3. CASE VerifyOrderByOutTradeNo(w)
    BY <1>3 DEF VerifyOrderByOutTradeNo
  <1>4. CASE RetryFulfillment(w)
    BY <1>4 DEF RetryFulfillment
  <1>5. CASE ReconcilePendingPaymentOrders(w)
    BY <1>5 DEF ReconcilePendingPaymentOrders
  <1>6. CASE ExpireTimedOutOrders(w)
    BY <1>6 DEF ExpireTimedOutOrders
  <1> QED BY <1>1, <1>2, <1>3, <1>4, <1>5, <1>6 DEF Begin

\* So does every step of a worker.
LEMMA WorkIInv ==
  ASSUME IInv, NEW w \in Workers, Work(w) PROVE IInv'
  <1> USE OrderAssumption
      DEF IInv, TypeOK, GrantInv, ProgressInv, PaymentInv, StatusInv,
          PaidStaysRecoverable, CompletedIsSettled, WriteRow, Fault,
          row, env, ledger, proc,
          At, Goto, Step, Start
  <1>1. CASE QueryOrder(w)
    BY <1>1 DEF QueryOrder, MayCancel
  <1>2. CASE CancelPayment(w)
    <2> USE <1>2 DEF CancelPayment
    <2>1. TypeOK'
      <3>1. /\ pc' \in [Workers -> Steps] /\ task' \in [Workers -> Tasks]
            /\ faults' \in 0..MaxFaults
        BY OutcomeType
      <3>2. /\ status' \in Statuses /\ holders' \in SUBSET Workers
            /\ aged' \in BOOLEAN /\ paidAt' \in BOOLEAN /\ closed' \in BOOLEAN
        OBVIOUS
      <3> QED BY <3>1, <3>2
    <2>2. GrantInv'
      OBVIOUS
    <2>3. ProgressInv'
      OBVIOUS
    <2>4. PaymentInv'
      OBVIOUS
    <2>5. StatusInv'
      OBVIOUS
    <2> QED BY <2>1, <2>2, <2>3, <2>4, <2>5
  <1>3. CASE CancelCore(w)
    <2> USE <1>3 DEF CancelCore
    <2>1. TypeOK'
      <3>1. /\ pc' \in [Workers -> Steps] /\ task' \in [Workers -> Tasks]
            /\ faults' \in 0..MaxFaults
        BY OutcomeType
      <3>2. /\ status' \in Statuses /\ holders' \in SUBSET Workers
            /\ aged' \in BOOLEAN /\ paidAt' \in BOOLEAN /\ closed' \in BOOLEAN
        OBVIOUS
      <3> QED BY <3>1, <3>2
    <2>2. GrantInv'
      OBVIOUS
    <2>3. ProgressInv'
      OBVIOUS
    <2>4. PaymentInv'
      OBVIOUS
    <2>5. StatusInv'
      OBVIOUS
    <2> QED BY <2>1, <2>2, <2>3, <2>4, <2>5
  <1>4. CASE PersistTradeNo(w)
    <2> USE <1>4 DEF PersistTradeNo
    <2>1. TypeOK'
      <3>1. /\ pc' \in [Workers -> Steps] /\ task' \in [Workers -> Tasks]
            /\ faults' \in 0..MaxFaults
        BY OutcomeType
      <3>2. /\ status' \in Statuses /\ holders' \in SUBSET Workers
            /\ aged' \in BOOLEAN /\ paidAt' \in BOOLEAN /\ closed' \in BOOLEAN
        OBVIOUS
      <3> QED BY <3>1, <3>2
    <2>2. GrantInv'
      OBVIOUS
    <2>3. ProgressInv'
      OBVIOUS
    <2>4. PaymentInv'
      OBVIOUS
    <2>5. StatusInv'
      OBVIOUS
    <2> QED BY <2>1, <2>2, <2>3, <2>4, <2>5
  <1>5. CASE RejectAmount(w)
    BY <1>5 DEF RejectAmount, AmountMatches
  <1>6. CASE ToPaid(w)
    <2> USE <1>6 DEF ToPaid, AmountMatches, Payable, Outcome
    <2>1. TypeOK'
      <3>1. /\ pc' \in [Workers -> Steps] /\ task' \in [Workers -> Tasks]
            /\ faults' \in 0..MaxFaults
        BY OutcomeType
      <3>2. /\ status' \in Statuses /\ holders' \in SUBSET Workers
            /\ aged' \in BOOLEAN /\ paidAt' \in BOOLEAN /\ closed' \in BOOLEAN
        OBVIOUS
      <3> QED BY <3>1, <3>2
    <2>2. GrantInv'
      OBVIOUS
    <2>3. ProgressInv'
      OBVIOUS
    <2>4. PaymentInv'
      OBVIOUS
    <2>5. StatusInv'
      OBVIOUS
    <2> QED BY <2>1, <2>2, <2>3, <2>4, <2>5
  <1>7. CASE AlreadyProcessed(w)
    BY <1>7 DEF AlreadyProcessed
  <1>8. CASE AcquireLease(w)
    <2> USE <1>8 DEF AcquireLease, Leasable, Outcome
    <2>1. TypeOK'
      <3>1. /\ pc' \in [Workers -> Steps] /\ task' \in [Workers -> Tasks]
            /\ faults' \in 0..MaxFaults
        BY OutcomeType
      <3>2. /\ status' \in Statuses /\ holders' \in SUBSET Workers
            /\ aged' \in BOOLEAN /\ paidAt' \in BOOLEAN /\ closed' \in BOOLEAN
        OBVIOUS
      <3> QED BY <3>1, <3>2
    <2>2. GrantInv'
      OBVIOUS
    <2>3. ProgressInv'
      OBVIOUS
    <2>4. PaymentInv'
      OBVIOUS
    <2>5. StatusInv'
      OBVIOUS
    <2> QED BY <2>1, <2>2, <2>3, <2>4, <2>5
  <1>9. CASE LeaseRefused(w)
    BY <1>9 DEF LeaseRefused
  <1>10. CASE ReloadLease(w)
    BY <1>10 DEF ReloadLease
  <1>11. CASE GetByCode(w)
    BY <1>11 DEF GetByCode
  <1>12. CASE CreateCode(w)
    BY <1>12 DEF CreateCode, Outcome
  <1>13. CASE Redeem(w)
    BY <1>13 DEF Redeem, Outcome
  <1>14. CASE AssignSubscriptions(w)
    BY <1>14 DEF AssignSubscriptions, Outcome
  <1>15. CASE ApplyAffiliateRebate(w)
    BY <1>15 DEF ApplyAffiliateRebate, Outcome
  <1>16. CASE MarkCompleted(w)
    <2> USE <1>16 DEF MarkCompleted, HoldsLease, Outcome
    <2>1. TypeOK'
      <3>1. /\ pc' \in [Workers -> Steps] /\ task' \in [Workers -> Tasks]
            /\ faults' \in 0..MaxFaults
        BY OutcomeType
      <3>2. /\ status' \in Statuses /\ holders' \in SUBSET Workers
            /\ aged' \in BOOLEAN /\ paidAt' \in BOOLEAN /\ closed' \in BOOLEAN
        OBVIOUS
      <3> QED BY <3>1, <3>2
    <2>2. GrantInv'
      OBVIOUS
    <2>3. ProgressInv'
      OBVIOUS
    <2>4. PaymentInv'
      OBVIOUS
    <2>5. StatusInv'
      OBVIOUS
    <2> QED BY <2>1, <2>2, <2>3, <2>4, <2>5
  <1>17. CASE LeaseLost(w)
    BY <1>17 DEF LeaseLost
  <1>18. CASE MarkFailed(w)
    <2> USE <1>18 DEF MarkFailed, HoldsLease
    <2>1. TypeOK'
      <3>1. /\ pc' \in [Workers -> Steps] /\ task' \in [Workers -> Tasks]
            /\ faults' \in 0..MaxFaults
        BY OutcomeType
      <3>2. /\ status' \in Statuses /\ holders' \in SUBSET Workers
            /\ aged' \in BOOLEAN /\ paidAt' \in BOOLEAN /\ closed' \in BOOLEAN
        OBVIOUS
      <3> QED BY <3>1, <3>2
    <2>2. GrantInv'
      OBVIOUS
    <2>3. ProgressInv'
      OBVIOUS
    <2>4. PaymentInv'
      OBVIOUS
    <2>5. StatusInv'
      OBVIOUS
    <2> QED BY <2>1, <2>2, <2>3, <2>4, <2>5
  <1>19. CASE Reply(w)
    BY <1>19 DEF Reply
  <1> QED BY <1>1, <1>2, <1>3, <1>4, <1>5, <1>6, <1>7, <1>8, <1>9, <1>10, <1>11, <1>12, <1>13, <1>14, <1>15, <1>16, <1>17, <1>18, <1>19 DEF Work

\* So does every failure of a worker.
LEMMA FailureIInv ==
  ASSUME IInv, NEW w \in Workers, Failure(w) PROVE IInv'
  <1> USE OrderAssumption
      DEF IInv, TypeOK, GrantInv, ProgressInv, PaymentInv, StatusInv,
          PaidStaysRecoverable, CompletedIsSettled, WriteRow, Fault,
          row, env, ledger, proc,
          At, Goto, Step, Start
  <1>1. CASE CallFails(w)
    BY <1>1 DEF CallFails, OnError, MayCancel
  <1>2. CASE SwallowReadError(w)
    BY <1>2 DEF SwallowReadError
  <1>3. CASE Crash(w)
    BY <1>3 DEF Crash
  <1> QED BY <1>1, <1>2, <1>3 DEF Failure

-----------------------------------------------------------------------------

\* Together: the invariant is inductive.
LEMMA NextIInv == IInv /\ [Next]_vars => IInv'
  <1> SUFFICES ASSUME IInv, [Next]_vars PROVE IInv'
    OBVIOUS
  <1>1. CASE Environment
    BY <1>1, EnvironmentIInv
  <1>2. ASSUME NEW w \in Workers, Begin(w) \/ Work(w) \/ Failure(w)
        PROVE  IInv'
    BY <1>2, BeginIInv, WorkIInv, FailureIInv
  <1>3. CASE UNCHANGED vars
    BY <1>3 DEF IInv, TypeOK, GrantInv, ProgressInv, PaymentInv, StatusInv,
                PaidStaysRecoverable, CompletedIsSettled,
                vars, row, env, ledger, proc
  <1> QED BY <1>1, <1>2, <1>3 DEF Next

\* Every reachable state satisfies it.
THEOREM Invariance == Spec => []IInv
  BY InitIInv, NextIInv, PTL DEF Spec

\* The variables keep their types (TypeOK of PaymentOrder).
THEOREM TypeCorrect == Spec => []TypeOK
  <1>1. IInv => TypeOK
    BY DEF IInv
  <1> QED BY <1>1, Invariance, PTL

\* An order is credited at most once, only for collected money, and COMPLETED
\* means settled, however many workers race and however much fails.
THEOREM Safety ==
  Spec => [](CreditedAtMostOnce /\ CreditNeedsPayment /\ CompletedIsSettled
               /\ PaidStaysRecoverable)
  <1>1. IInv => CreditedAtMostOnce /\ CreditNeedsPayment /\ CompletedIsSettled
                  /\ PaidStaysRecoverable
    BY DEF IInv, TypeOK, GrantInv, PaymentInv, StatusInv, CreditedAtMostOnce,
           CreditNeedsPayment
  <1> QED BY <1>1, Invariance, PTL

\* Each part by itself.  Neither the credit nor the rebate precedes the
\* provider's money (CreditNeedsPayment of PaymentOrder).
THEOREM PaymentPrecedesCredit == Spec => []CreditNeedsPayment
  BY Safety, PTL

\* Whoever completes an order, its credit and its rebate are settled
\* (CompletedIsSettled of PaymentOrder).
THEOREM CompletionSettles == Spec => []CompletedIsSettled
  BY Safety, PTL

\* A paid order never leaves the states from which it can still be fulfilled
\* (PaidStaysRecoverable of PaymentOrder).
THEOREM PaidIsRecoverable == Spec => []PaidStaysRecoverable
  BY Safety, PTL

-----------------------------------------------------------------------------

\* The step of OnlyHolderEndsFulfillment.
HolderStep ==
    (status = "RECHARGING" /\ status' # status) =>
        \E w \in holders : pc[w] \in {"complete", "fail"} /\ pc'[w] # pc[w]

\* An order leaves RECHARGING only by a worker with the row's lease version.
LEMMA NextHolderStep == IInv /\ [Next]_vars => HolderStep
  <1> SUFFICES ASSUME IInv, [Next]_vars, status = "RECHARGING", status' # status
               PROVE  \E w \in holders :
                        pc[w] \in {"complete", "fail"} /\ pc'[w] # pc[w]
    BY DEF HolderStep
  <1>1. creation = "delivered" /\ paidAt
    BY DEF IInv, StatusInv, PaymentInv
  <1>2. ~Environment /\ ~(UNCHANGED vars)
    BY <1>1 DEF Environment, DeliverOrder, FailCreation, CustomerPays, Timeout,
                Age, Stall, WriteRow, vars, row
  <1>3. PICK w \in Workers : Begin(w) \/ Work(w) \/ Failure(w)
    BY <1>2 DEF Next
  <1>4. ~Begin(w) /\ ~Failure(w)
    BY DEF Begin, Webhook, CancelOrder, VerifyOrderByOutTradeNo,
           RetryFulfillment, ReconcilePendingPaymentOrders,
           ExpireTimedOutOrders, Start, Failure, CallFails, SwallowReadError,
           Crash, row
  <1>5. MarkCompleted(w) \/ MarkFailed(w)
    BY <1>3, <1>4
       DEF Work, QueryOrder, CancelPayment, CancelCore, PersistTradeNo,
           RejectAmount, ToPaid, Payable, AlreadyProcessed, AcquireLease,
           LeaseRefused, ReloadLease, GetByCode, CreateCode, Redeem,
           AssignSubscriptions, ApplyAffiliateRebate, LeaseLost, Reply,
           WriteRow, row
  <1>6. /\ w \in holders /\ pc[w] \in {"complete", "fail"}
        /\ \E l \in Steps \ {"complete", "fail"} : Goto(w, l)
           \/ (pc[w] = "complete" /\ Goto(w, "fail"))
    BY <1>5 DEF MarkCompleted, MarkFailed, HoldsLease, At, Outcome, Step
  <1>7. pc'[w] # pc[w]
    BY <1>6 DEF IInv, TypeOK, Goto
  <1> QED BY <1>6, <1>7

\* The action property OnlyHolderEndsFulfillment of PaymentOrder.
THEOREM HolderEndsFulfillment == Spec => OnlyHolderEndsFulfillment
  <1>1. Spec => [][HolderStep]_vars
    BY Invariance, NextHolderStep, PTL DEF Spec
  <1> QED BY <1>1, PTL DEF OnlyHolderEndsFulfillment, HolderStep

-----------------------------------------------------------------------------
(* The refinement of PaymentLedger.                                        *)

\* What the ledger sees of an order.
LedgerView == <<payment = "paid", granted, rebated, status = "COMPLETED">>

\* The initial states of the order are initial states of the ledger.
LEMMA LedgerInit == Init => Ledger!Init
  BY DEF Init, Ledger!Init

\* A step is one step of the ledger or leaves what the ledger sees unchanged.
LEMMA LedgerStep ==
  IInv /\ [Next]_vars => [Ledger!Next]_(Ledger!ledgerVars)
  <1> SUFFICES ASSUME IInv, [Next]_vars
               PROVE  Ledger!Next \/ UNCHANGED LedgerView
    BY DEF LedgerView, Ledger!ledgerVars
  <1> USE DEF LedgerView
  <1>1. CASE Environment
    <2>1. CASE CustomerPays
      BY <2>1 DEF CustomerPays, Ledger!Next, Ledger!Collect, row, ledger
    <2>2. CASE FailCreation
      BY <2>2 DEF FailCreation, WriteRow, ledger, IInv, StatusInv, PaymentInv
    <2>3. CASE DeliverOrder \/ Timeout \/ Age \/ Stall
      BY <2>3 DEF DeliverOrder, Timeout, Age, Stall, WriteRow, row, env, ledger
    <2> QED BY <1>1, <2>1, <2>2, <2>3 DEF Environment
  <1>2. ASSUME NEW w \in Workers, Begin(w) \/ Failure(w)
        PROVE  UNCHANGED LedgerView
    BY <1>2 DEF Begin, Webhook, CancelOrder, VerifyOrderByOutTradeNo,
                RetryFulfillment, ReconcilePendingPaymentOrders,
                ExpireTimedOutOrders, Start, Failure, CallFails,
                SwallowReadError, Crash, row, env, ledger
  <1>3. ASSUME NEW w \in Workers, Work(w)
        PROVE  Ledger!Next \/ UNCHANGED LedgerView
    <2>1. CASE Redeem(w)
      BY <2>1 DEF Redeem, At, Ledger!Next, Ledger!Credit, row, env, IInv,
                  TypeOK, GrantInv, PaymentInv
    <2>2. CASE AssignSubscriptions(w)
      BY <2>2 DEF AssignSubscriptions, At, Ledger!Next, Ledger!Credit, row,
                  env, IInv, TypeOK, GrantInv, PaymentInv
    <2>3. CASE ApplyAffiliateRebate(w)
      BY <2>3 DEF ApplyAffiliateRebate, At, Ledger!Next, Ledger!SettleRebate,
                  row, env, IInv, TypeOK, GrantInv, ProgressInv
    <2>4. CASE MarkCompleted(w)
      BY <2>4 DEF MarkCompleted, HoldsLease, WriteRow, At, Ledger!Next,
                  Ledger!Complete, env, ledger, IInv, ProgressInv
    <2>5. CASE CancelCore(w) \/ PersistTradeNo(w) \/ ToPaid(w)
                 \/ AcquireLease(w) \/ MarkFailed(w)
      BY <2>5 DEF CancelCore, PersistTradeNo, ToPaid, Payable, AcquireLease,
                  Leasable, MarkFailed, HoldsLease, WriteRow, row, env, ledger
    <2>6. CASE QueryOrder(w) \/ CancelPayment(w) \/ RejectAmount(w)
                 \/ AlreadyProcessed(w) \/ LeaseRefused(w) \/ ReloadLease(w)
                 \/ GetByCode(w) \/ CreateCode(w) \/ LeaseLost(w) \/ Reply(w)
      BY <2>6 DEF QueryOrder, CancelPayment, RejectAmount, AlreadyProcessed,
                  LeaseRefused, ReloadLease, GetByCode, CreateCode, LeaseLost,
                  Reply, row, env, ledger
    <2> QED BY <1>3, <2>1, <2>2, <2>3, <2>4, <2>5, <2>6 DEF Work
  <1>4. CASE UNCHANGED vars
    BY <1>4 DEF vars, row, env, ledger
  <1> QED BY <1>1, <1>2, <1>3, <1>4 DEF Next

\* The order implements the ledger (ImplementsLedger of PaymentOrder).
THEOREM LedgerRefinement == Spec => ImplementsLedger
  BY LedgerInit, LedgerStep, Invariance, PTL
     DEF Spec, ImplementsLedger, Ledger!Spec
=============================================================================

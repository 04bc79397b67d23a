------------------------- MODULE PaymentRefund_proofs -------------------------
(***************************************************************************)
(* Proofs about PaymentRefund, for any number of administrators, any       *)
(* amounts and any number of faults.                                       *)
(***************************************************************************)
EXTENDS PaymentRefund, FiniteSetTheorems, TLAPS

\* The types the arguments need: TypeOK without its bounds on numbers; and an
\* execution is about an amount somebody asked for.
RefundTypes ==
    /\ status \in Statuses
    /\ refundAmount \in 0..Amount
    /\ balance \in Int /\ taken \in Int
    /\ traded \in BOOLEAN /\ rollbackFailed \in BOOLEAN
    /\ pendingAudit \in PendingDetail
    /\ refunds \in [Amounts -> {"none", "pending", "success", "failed"}]
    /\ pc \in [Admins -> Steps]
    /\ plan \in [Admins -> Plans]
    /\ \A a \in Admins : pc[a] \in Locked \cup {"lock"} => plan[a].amount \in Amounts

\* The user has everything back, or a record says that he has not.
Whole == taken = 0 \/ rollbackFailed

\* Until an effect goes unseen, a record is lost or a stale failure is written,
\* what is missing from the balance is what the attempt under the lock has taken.
BalanceInv ==
    past \cap {"effect", "unwritten", "stale"} = {} =>
        /\ status \notin {"REFUNDING", "REFUNDED"} => Whole
        /\ \A a \in Admins :
             /\ pc[a] \in {"deduct", "pend", "restore"} => Whole
             /\ pc[a] \in {"gateway", "rollback"} => taken = plan[a].take \/ rollbackFailed
             /\ pc[a] = "fail" => rollbackFailed

\* Refunds the provider has made or may still make.
Open == {m \in Amounts : refunds[m] \in {"pending", "success"}}

\* Until an effect goes unseen or an order is parked, such a refund is in the
\* hands of the attempt under the lock, or the order is refunded.
PaidOutInv ==
    past \cap {"effect", "parked"} = {} =>
        /\ "stale" \notin past /\ status # "REFUND_PENDING"
        /\ Open # {} => status \in {"REFUNDING", "REFUNDED"}
        /\ \A a \in Admins :
             /\ pc[a] \notin {"detail", "ask", "finalize", "finalizeFailed"}
             /\ pc[a] \in {"deduct", "gateway", "restore", "fail"} => Open = {}
             /\ pc[a] \in {"rollback", "noteRollback"} /\ plan[a].answer # "pending" => Open = {}

\* Amounts the provider has a refund of, whatever became of it.
Known == {m \in Amounts : refunds[m] # "none"}

\* What the row, the audit record and the plans say of the provider's refunds:
\* an order is parked about a refund that exists, and finished about one that
\* was paid out; with one refund at the provider both mean the same.
RecordInv ==
    /\ status = "REFUND_PENDING" => refundAmount \in Known
    /\ pendingAudit.id # 0 => pendingAudit.id \in Known
    /\ traded /\ (\A m, n \in Known : m = n) /\ status = "REFUNDED" => refundAmount \in Returned
    /\ \A a \in Admins :
         /\ pc[a] = "succeed" => plan[a].amount \in Returned \/ ~traded
         /\ pc[a] \in {"rollback", "noteRollback"} /\ plan[a].answer = "pending" =>
               plan[a].amount \in Known
         /\ pc[a] \in {"pend", "notePending"} => plan[a].amount \in Known
         /\ pc[a] \in {"detail", "ask", "finalize", "finalizeFailed"} =>
               /\ plan[a].amount \in Known
               /\ plan[a].detail.id # 0 => plan[a].detail.id \in Known
         /\ pc[a] = "finalize" => Asked(a) \in Returned

IInv == RefundTypes /\ OneRefundAtATime /\ BalanceInv /\ PaidOutInv /\ RecordInv
        /\ TakenAtMostAmount

USE DEF At, Goto, Finish, SpendFault, Fault, Note, Unseen, NoFault, row, money,
        audit, proc

-----------------------------------------------------------------------------

\* The smaller and the larger of two numbers.
LEMMA MinMaxOfTwo ==
    ASSUME NEW x \in Int, NEW y \in Int
    PROVE  /\ Min({x, y}) \in {x, y} /\ Min({x, y}) <= x /\ Min({x, y}) <= y
           /\ Max({x, y}) \in {x, y} /\ Max({x, y}) >= x /\ Max({x, y}) >= y
  <1>1. \E z \in {x, y} : \A u \in {x, y} : z <= u
    BY x <= y \/ y <= x
  <1>2. \E z \in {x, y} : \A u \in {x, y} : z >= u
    BY x <= y \/ y <= x
  <1>3. Min({x, y}) \in {x, y} /\ Min({x, y}) <= x /\ Min({x, y}) <= y
    BY <1>1 DEF Min
  <1>4. Max({x, y}) \in {x, y} /\ Max({x, y}) >= x /\ Max({x, y}) >= y
    BY <1>2 DEF Max
  <1> QED BY <1>3, <1>4

\* What DeductAvailableBalance takes: no more than it was asked for, and
\* nothing that would overdraw the balance, or overdraw it further.
LEMMA WhatIsAvailable ==
    ASSUME RefundTypes, NEW m \in Nat
    PROVE  /\ Available(m) \in Nat /\ Available(m) <= m
           /\ Available(m) = 0 \/ Available(m) <= balance
  <1> DEFINE top == Max({balance, 0})
  <1>1. balance \in Int
    BY DEF RefundTypes
  <1>2. top \in {balance, 0} /\ top >= balance /\ top >= 0
    BY <1>1, MinMaxOfTwo
  <1>3. top \in Int
    BY <1>1, <1>2
  <1> HIDE DEF top
  <1>4. Min({m, top}) \in {m, top} /\ Min({m, top}) <= m /\ Min({m, top}) <= top
    BY <1>3, MinMaxOfTwo
  <1>5. Available(m) = Min({m, top})
    BY DEF Available, top
  <1> QED BY <1>1, <1>2, <1>3, <1>4, <1>5

\* What a deduction leaves in the balance is a number again.
LEMMA DeductTypes ==
    ASSUME RefundTypes, NEW m \in Nat, Deduct(m)
    PROVE  balance' \in Int /\ taken' \in Int
  BY WhatIsAvailable DEF Deduct, RefundTypes

\* The parts of a plan.
LEMMA PlanParts ==
    ASSUME NEW p \in Plans
    PROVE  /\ p.take \in 0..Amount /\ p.take \in Nat
           /\ p.amount \in 0..Amount /\ p.amount \in Nat
           /\ p.detail \in PendingDetail
  BY RefundAssumption DEF Plans

\* Plans stay plans under the updates that requests make.
LEMMA PlanUpdates ==
    ASSUME NEW p \in Plans
    PROVE  /\ \A t \in 0..Amount : [p EXCEPT !.take = t] \in Plans
           /\ \A x \in {"pending", "failed"} : [p EXCEPT !.answer = x] \in Plans
           /\ \A d \in PendingDetail : [p EXCEPT !.detail = d] \in Plans
           /\ [p EXCEPT !.detail.rollbackOK = FALSE] \in Plans
           /\ [p.detail EXCEPT !.id = p.amount] \in PendingDetail
  <1>1. \A t \in 0..Amount : [p EXCEPT !.take = t] \in Plans
    BY DEF Plans
  <1>2. \A x \in {"pending", "failed"} : [p EXCEPT !.answer = x] \in Plans
    BY DEF Plans
  <1>3. \A d \in PendingDetail : [p EXCEPT !.detail = d] \in Plans
    BY DEF Plans
  <1>4. [p.detail EXCEPT !.rollbackOK = FALSE] \in PendingDetail
    BY PlanParts DEF PendingDetail
  <1>5. [p.detail EXCEPT !.id = p.amount] \in PendingDetail
    BY PlanParts DEF PendingDetail
  <1> QED BY <1>1, <1>2, <1>3, <1>4, <1>5

\* The empty plan is one of the plans.
LEMMA NoPlanIsPlan == NoPlan \in Plans
  <1>1. NoAudit \in PendingDetail /\ 0 \in 0..Amount
    BY RefundAssumption DEF NoAudit, PendingDetail
  <1> QED BY <1>1 DEF NoPlan, Plans, Statuses

\* New plans are plans.
LEMMA NewPlans ==
    ASSUME NEW m \in 0..Amount, NEW t \in 0..Amount, NEW s \in Statuses
    PROVE  /\ [NoPlan EXCEPT !.amount = m, !.take = t, !.from = s] \in Plans
           /\ [NoPlan EXCEPT !.amount = m, !.from = s] \in Plans
  <1>1. [NoPlan EXCEPT !.amount = m, !.from = s] \in Plans
    BY NoPlanIsPlan DEF Plans
  <1>2. [NoPlan EXCEPT !.amount = m, !.take = t, !.from = s]
           = [[NoPlan EXCEPT !.amount = m, !.from = s] EXCEPT !.take = t]
    BY DEF NoPlan
  <1> QED BY <1>1, <1>2, PlanUpdates

\* No step leaves the types.
LEMMA TypesStep == RefundTypes /\ [Next]_vars => RefundTypes'
  <1> SUFFICES ASSUME RefundTypes, [Next]_vars PROVE RefundTypes'
    OBVIOUS
  <1> USE DEF Steps, Locked, Statuses
  <1>1. CASE RequestRefund
    BY <1>1, RefundAssumption DEF RequestRefund, RefundTypes
  <1>2. CASE Spend
    <2>1. PICK cost \in 1..(balance + MaxDebt) : balance' = balance - cost
      BY <1>2 DEF Spend
    <2>2. balance' \in Int
      BY <2>1, RefundAssumption DEF RefundTypes
    <2> QED BY <1>2, <2>2 DEF Spend, RefundTypes
  <1>3. CASE ProviderSettles
    BY <1>3 DEF ProviderSettles, RefundTypes
  <1>4. ASSUME NEW a \in Admins, Execute(a) PROVE RefundTypes'
    <2> USE DEF RefundTypes
    <2> plan[a] \in Plans /\ NoPlan \in Plans /\ 0 \in 0..Amount
      BY NoPlanIsPlan, RefundAssumption
    <2>1. CASE PrepareRefund(a)
      <3>1. PICK m \in Amounts, t \in 0..Amount :
              plan' = [plan EXCEPT ![a] =
                          [NoPlan EXCEPT !.amount = m, !.take = t, !.from = status]]
        BY <2>1 DEF PrepareRefund
      <3>2. [NoPlan EXCEPT !.amount = m, !.take = t, !.from = status] \in Plans
        <4>1. m \in 0..Amount
          BY RefundAssumption
        <4> QED BY <4>1, NewPlans
      <3> QED BY <2>1, <3>1, <3>2 DEF PrepareRefund
    <2>2. CASE Lock(a) \/ LockRefused(a)
      BY <2>2 DEF Lock, LockRefused
    <2>3. CASE DeductBalance(a)
      <3>1. plan[a].take \in 0..Amount /\ plan[a].take \in Nat
        BY PlanParts
      <3>2. balance' \in Int /\ taken' \in Int
        BY <2>3, <3>1, DeductTypes DEF DeductBalance
      <3>3. Available(plan[a].take) \in 0..Amount
        BY <3>1, WhatIsAvailable, RefundAssumption
      <3>4. [plan[a] EXCEPT !.take = Available(plan[a].take)] \in Plans
        BY <3>3, PlanUpdates
      <3>5. plan' \in [Admins -> Plans]
        BY <2>3, <3>4 DEF DeductBalance
      <3> QED BY <2>3, <3>2, <3>5 DEF DeductBalance
    <2>4. CASE SkipDeduction(a)
      <3>1. [plan[a] EXCEPT !.take = 0] \in Plans
        BY PlanParts, PlanUpdates
      <3> QED BY <2>4, <3>1 DEF SkipDeduction
    <2>5. CASE DeductionFails(a)
      <3>1. plan[a].take \in Nat
        BY PlanParts
      <3>2. balance' \in Int /\ taken' \in Int
        BY <2>5, <3>1, DeductTypes DEF DeductionFails
      <3> QED BY <2>5, <3>2 DEF DeductionFails
    <2>6. CASE GwRefund(a)
      <3>1. PICK s \in Accepted(plan[a].amount) :
              /\ refunds' = [refunds EXCEPT ![plan[a].amount] = s]
              /\ \/ \E answer \in Answers(s) : AfterAnswer(a, answer) /\ NoFault
                 \/ Unseen("effect") /\ AfterAnswer(a, "failed")
        BY <2>6 DEF GwRefund
      <3>2. refunds' \in [Amounts -> {"none", "pending", "success", "failed"}]
        BY <3>1 DEF Accepted
      <3>3. PICK answer \in Answers(s) \cup {"failed"} : AfterAnswer(a, answer)
        BY <3>1
      <3>4. pc' \in [Admins -> Steps]
        BY <3>3 DEF AfterAnswer
      <3>5. plan' \in [Admins -> Plans]
        <4>1. CASE answer = "success"
          BY <3>3, <4>1 DEF AfterAnswer
        <4>2. CASE answer # "success"
          <5>1. answer \in {"pending", "failed"}
            BY <3>1, <3>3, <4>2, <2>6 DEF GwRefund, Accepted, Answers
          <5>2. [plan[a] EXCEPT !.answer = answer] \in Plans
            BY <5>1, PlanUpdates
          <5> QED BY <3>3, <4>2, <5>2 DEF AfterAnswer
        <4> QED BY <4>1, <4>2
      <3>6. \A b \in Admins : plan'[b].amount = plan[b].amount
        BY <3>3 DEF AfterAnswer, Plans
      <3> QED BY <2>6, <3>2, <3>3, <3>4, <3>5, <3>6 DEF GwRefund, AfterAnswer
    <2>12. CASE GwRefundSkipped(a) \/ NoteRollbackFailed(a)
      BY <2>12 DEF GwRefundSkipped, NoteRollbackFailed
    <2>7. CASE MarkRefundOk(a) \/ MarkRefundPending(a)
      <3>1. plan[a].amount \in 0..Amount
        BY PlanParts
      <3> QED BY <2>7, <3>1 DEF MarkRefundOk, MarkRefundPending
    <2>8. CASE NoteSuccess(a) \/ RestoreStatus(a) \/ MarkRefundFailed(a)
      BY <2>8 DEF NoteSuccess, RestoreStatus, MarkRefundFailed
    <2>9. CASE RollbackRefund(a)
      <3>1. plan[a].take \in Nat /\ [plan[a] EXCEPT !.take = 0] \in Plans
        BY PlanParts, PlanUpdates
      <3> QED BY <2>9, <3>1 DEF RollbackRefund, RolledBack, GiveBack
    <2>10. CASE RollbackFails(a)
      <3>1. plan[a].take \in Nat /\ [plan[a] EXCEPT !.detail.rollbackOK = FALSE] \in Plans
        BY PlanParts, PlanUpdates
      <3>2. balance' \in Int /\ taken' \in Int
        BY <2>10, <3>1 DEF RollbackFails, GiveBack
      <3> QED BY <2>10, <3>1, <3>2 DEF RollbackFails
    <2>11. CASE NotePending(a)
      <3>1. [plan[a].detail EXCEPT !.id = plan[a].amount] \in PendingDetail
        BY PlanUpdates
      <3> QED BY <2>11, <3>1 DEF NotePending
    <2> QED BY <1>4, <2>1, <2>2, <2>3, <2>4, <2>5, <2>6, <2>7, <2>8, <2>9, <2>10,
               <2>11, <2>12 DEF Execute
  <1>5. ASSUME NEW a \in Admins, Query(a) PROVE RefundTypes'
    <2> USE DEF RefundTypes
    <2> plan[a] \in Plans /\ NoPlan \in Plans /\ 0 \in 0..Amount
      BY NoPlanIsPlan, RefundAssumption
    <2>1. CASE QueryAndFinalizeRefund(a)
      <3>1. [NoPlan EXCEPT !.amount = refundAmount, !.from = status] \in Plans
        BY NewPlans
      <3> QED BY <2>1, <3>1 DEF QueryAndFinalizeRefund
    <2>2. CASE ReadPendingDetail(a)
      <3>1. [plan[a] EXCEPT !.detail = pendingAudit] \in Plans
        BY PlanUpdates
      <3> QED BY <2>2, <3>1 DEF ReadPendingDetail
    <2>3. CASE QueryRefund(a)
      BY <2>3 DEF QueryRefund
    <2>4. CASE FinalizePendingRefundSuccess(a)
      <3>1. plan[a].amount \in 0..Amount /\ plan[a].amount \in Nat
        BY PlanParts
      <3>2. balance' \in Int /\ taken' \in Int
        BY <2>4, <3>1, DeductTypes DEF FinalizePendingRefundSuccess
      <3> QED BY <2>4, <3>1, <3>2 DEF FinalizePendingRefundSuccess
    <2>5. CASE FinalizeRefundFailed(a)
      BY <2>5 DEF FinalizeRefundFailed
    <2> QED BY <1>5, <2>1, <2>2, <2>3, <2>4, <2>5 DEF Query
  <1>6. ASSUME NEW a \in Admins, Crash(a) PROVE RefundTypes'
    BY <1>6, NoPlanIsPlan DEF Crash, RefundTypes
  <1>7. CASE UNCHANGED vars
    BY <1>7 DEF vars, RefundTypes
  <1> QED BY <1>1, <1>2, <1>3, <1>4, <1>5, <1>6, <1>7 DEF Next

-----------------------------------------------------------------------------

\* The history only grows.
LEMMA HistoryGrows == [Next]_vars => past \subseteq past'
  <1>1. \A a \in Admins : Execute(a) => past \subseteq past'
    BY DEF Execute, PrepareRefund, Lock, LockRefused, DeductBalance, SkipDeduction,
           DeductionFails, GwRefundSkipped, GwRefund, MarkRefundOk, NoteSuccess, RollbackRefund,
           RollbackFails, NoteRollbackFailed, MarkRefundPending, NotePending, RestoreStatus,
           MarkRefundFailed
  <1>2. \A a \in Admins : Query(a) => past \subseteq past'
    BY DEF Query, QueryAndFinalizeRefund, ReadPendingDetail, QueryRefund,
           FinalizePendingRefundSuccess, FinalizeRefundFailed
  <1> QED BY <1>1, <1>2 DEF Next, vars, RequestRefund, Spend, ProviderSettles, Crash

\* The lock is kept: who works under it is the only one, and only he takes the
\* order out of REFUNDING.
LEMMA LockStep == RefundTypes /\ OneRefundAtATime /\ [Next]_vars => OneRefundAtATime'
  <1> SUFFICES ASSUME RefundTypes, OneRefundAtATime, [Next]_vars, "stale" \notin past'
               PROVE  \A a, b \in Admins : pc'[a] \in Locked =>
                          status' = "REFUNDING" /\ (pc'[b] \in Locked => a = b)
    BY DEF OneRefundAtATime
  <1>1. /\ pc \in [Admins -> Steps]
        /\ \A a, b \in Admins : pc[a] \in Locked =>
              status = "REFUNDING" /\ (pc[b] \in Locked => a = b)
    BY HistoryGrows DEF OneRefundAtATime, RefundTypes
  <1> USE DEF Locked
  <1>2. CASE RequestRefund \/ Spend \/ ProviderSettles \/ UNCHANGED vars
    BY <1>1, <1>2 DEF RequestRefund, Spend, ProviderSettles, vars
  <1>3. ASSUME NEW a \in Admins, Execute(a)
        PROVE  \A b, c \in Admins : pc'[b] \in Locked =>
                   status' = "REFUNDING" /\ (pc'[c] \in Locked => b = c)
    <2>1. CASE Lock(a)
      BY <1>1, <2>1 DEF Lock, Refundable
    <2>2. CASE PrepareRefund(a) \/ LockRefused(a) \/ NoteSuccess(a) \/ NotePending(a)
      <3>1. status' = status /\ pc' \in {[pc EXCEPT ![a] = "lock"], [pc EXCEPT ![a] = "idle"]}
        BY <2>2 DEF PrepareRefund, LockRefused, NoteSuccess, NotePending
      <3> QED BY <1>1, <3>1
    <2>3. CASE DeductBalance(a) \/ SkipDeduction(a) \/ DeductionFails(a) \/ GwRefundSkipped(a)
               \/ GwRefund(a)
      BY <1>1, <2>3 DEF DeductBalance, SkipDeduction, DeductionFails, GwRefundSkipped, GwRefund,
         AfterAnswer
    <2>4. CASE RollbackRefund(a) \/ RollbackFails(a) \/ NoteRollbackFailed(a)
      BY <1>1, <2>4 DEF RollbackRefund, RollbackFails, NoteRollbackFailed, RolledBack
    <2>5. CASE MarkRefundOk(a) \/ MarkRefundPending(a) \/ RestoreStatus(a) \/ MarkRefundFailed(a)
      BY <1>1, <2>5 DEF MarkRefundOk, MarkRefundPending, RestoreStatus, MarkRefundFailed
    <2> QED BY <1>3, <2>1, <2>2, <2>3, <2>4, <2>5 DEF Execute
  <1>4. ASSUME NEW a \in Admins, Query(a)
        PROVE  \A b, c \in Admins : pc'[b] \in Locked =>
                   status' = "REFUNDING" /\ (pc'[c] \in Locked => b = c)
    BY <1>1, <1>4 DEF Query, QueryAndFinalizeRefund, ReadPendingDetail, QueryRefund,
       FinalizePendingRefundSuccess, FinalizeRefundFailed
  <1>5. ASSUME NEW a \in Admins, Crash(a)
        PROVE  \A b, c \in Admins : pc'[b] \in Locked =>
                   status' = "REFUNDING" /\ (pc'[c] \in Locked => b = c)
    BY <1>1, <1>5 DEF Crash
  <1> QED BY <1>2, <1>3, <1>4, <1>5 DEF Next

\* What is missing from the balance stays accounted for.
LEMMA BalanceStep ==
    RefundTypes /\ OneRefundAtATime /\ BalanceInv /\ [Next]_vars => BalanceInv'
  <1> DEFINE Accounts ==
        /\ status \notin {"REFUNDING", "REFUNDED"} => Whole
        /\ \A a \in Admins :
             /\ pc[a] \in {"deduct", "pend", "restore"} => Whole
             /\ pc[a] \in {"gateway", "rollback"} => taken = plan[a].take \/ rollbackFailed
             /\ pc[a] = "fail" => rollbackFailed
  <1> SUFFICES ASSUME RefundTypes, OneRefundAtATime, BalanceInv, [Next]_vars,
                      past' \cap {"effect", "unwritten", "stale"} = {}
               PROVE  Accounts'
    BY DEF BalanceInv
  <1>1. /\ pc \in [Admins -> Steps] /\ plan \in [Admins -> Plans]
        /\ taken \in Int /\ rollbackFailed \in BOOLEAN
        /\ \A a, b \in Admins : pc[a] \in Locked =>
              status = "REFUNDING" /\ (pc[b] \in Locked => a = b)
        /\ Accounts
    BY HistoryGrows DEF OneRefundAtATime, RefundTypes, BalanceInv
  <1> USE DEF Locked, Whole
  <1>2. CASE RequestRefund \/ Spend \/ ProviderSettles \/ UNCHANGED vars
    BY <1>1, <1>2 DEF RequestRefund, Spend, ProviderSettles, vars
  <1>3. ASSUME NEW a \in Admins, Execute(a) PROVE Accounts'
    <2> plan[a] \in Plans
      BY <1>1
    <2>1. CASE Lock(a)
      BY <1>1, <2>1 DEF Lock, Refundable
    <2>2. CASE PrepareRefund(a) \/ LockRefused(a) \/ NoteSuccess(a) \/ NotePending(a)
      BY <1>1, <2>2 DEF PrepareRefund, LockRefused, NoteSuccess, NotePending
    <2>3. CASE DeductBalance(a)
      <3>1. /\ taken' = taken + Available(plan[a].take)
            /\ plan'[a].take = Available(plan[a].take)
        BY <1>1, <2>3 DEF DeductBalance, Deduct, Plans
      <3>2. Available(plan[a].take) \in Int
        BY WhatIsAvailable, PlanParts
      <3>3. pc[a] = "deduct" /\ pc' = [pc EXCEPT ![a] = "gateway"]
        BY <2>3 DEF DeductBalance
      <3>4. UNCHANGED <<status, rollbackFailed>>
        BY <2>3 DEF DeductBalance
      <3>5. \A b \in Admins : b # a => pc'[b] \notin Locked
        BY <1>1, <3>3
      <3> QED BY <1>1, <3>1, <3>2, <3>3, <3>4, <3>5
    <2>4. CASE SkipDeduction(a)
      BY <1>1, <2>4 DEF SkipDeduction, MayDeduct
    <2>5. CASE DeductionFails(a)
      BY <1>1, <2>5 DEF DeductionFails
    <2>6. CASE GwRefund(a)
      <3>1. plan'[a].take = plan[a].take
        BY <1>1, <2>6 DEF GwRefund, AfterAnswer, Plans
      <3>2. \A b \in Admins : b # a => plan'[b] = plan[b] /\ pc'[b] = pc[b]
        BY <1>1, <2>6 DEF GwRefund, AfterAnswer
      <3>3. pc'[a] \in {"succeed", "rollback"}
        BY <1>1, <2>6 DEF GwRefund, AfterAnswer
      <3> QED BY <1>1, <2>6, <3>1, <3>2, <3>3 DEF GwRefund
    <2>7. CASE RollbackRefund(a)
      <3>1. taken' = taken - plan[a].take /\ plan[a].take \in Int
        BY <2>7, PlanParts DEF RollbackRefund, GiveBack
      <3> QED BY <1>1, <2>7, <3>1 DEF RollbackRefund, RolledBack
    <2>8. CASE RollbackFails(a)
      BY <1>1, <2>8 DEF RollbackFails
    <2>10. CASE GwRefundSkipped(a) \/ NoteRollbackFailed(a)
      BY <1>1, <2>10 DEF GwRefundSkipped, NoteRollbackFailed
    <2>9. CASE MarkRefundOk(a) \/ MarkRefundPending(a) \/ RestoreStatus(a) \/ MarkRefundFailed(a)
      BY <1>1, <2>9 DEF MarkRefundOk, MarkRefundPending, RestoreStatus, MarkRefundFailed
    <2> QED BY <1>3, <2>1, <2>2, <2>3, <2>4, <2>5, <2>6, <2>7, <2>8, <2>9, <2>10
            DEF Execute
  <1>4. ASSUME NEW a \in Admins, Query(a) PROVE Accounts'
    <2>1. CASE FinalizePendingRefundSuccess(a)
      BY <1>1, <2>1 DEF FinalizePendingRefundSuccess
    <2>2. CASE FinalizeRefundFailed(a)
      BY <1>1, <2>2 DEF FinalizeRefundFailed
    <2>3. CASE QueryAndFinalizeRefund(a) \/ ReadPendingDetail(a) \/ QueryRefund(a)
      BY <1>1, <2>3 DEF QueryAndFinalizeRefund, ReadPendingDetail, QueryRefund
    <2> QED BY <1>4, <2>1, <2>2, <2>3 DEF Query
  <1>5. ASSUME NEW a \in Admins, Crash(a) PROVE Accounts'
    BY <1>1, <1>5 DEF Crash
  <1> QED BY <1>2, <1>3, <1>4, <1>5 DEF Next

\* A refund the provider made stays with the order that shows it.
LEMMA PaidOutStep ==
    RefundTypes /\ OneRefundAtATime /\ PaidOutInv /\ [Next]_vars => PaidOutInv'
  <1> DEFINE Shown ==
        /\ "stale" \notin past /\ status # "REFUND_PENDING"
        /\ Open # {} => status \in {"REFUNDING", "REFUNDED"}
        /\ \A a \in Admins :
             /\ pc[a] \notin {"detail", "ask", "finalize", "finalizeFailed"}
             /\ pc[a] \in {"deduct", "gateway", "restore", "fail"} => Open = {}
             /\ pc[a] \in {"rollback", "noteRollback"} /\ plan[a].answer # "pending" => Open = {}
  <1> SUFFICES ASSUME RefundTypes, OneRefundAtATime, PaidOutInv, [Next]_vars,
                      past' \cap {"effect", "parked"} = {}
               PROVE  Shown'
    BY DEF PaidOutInv
  <1>1. /\ pc \in [Admins -> Steps] /\ plan \in [Admins -> Plans]
        /\ refunds \in [Amounts -> {"none", "pending", "success", "failed"}]
        /\ Shown
        /\ \A a, b \in Admins : pc[a] \in Locked =>
              status = "REFUNDING" /\ (pc[b] \in Locked => a = b)
    BY HistoryGrows DEF OneRefundAtATime, RefundTypes, PaidOutInv
  <1> USE DEF Locked
  <1>2. ASSUME refunds' = refunds PROVE Open' = Open
    BY <1>2 DEF Open
  <1>3. CASE RequestRefund \/ Spend \/ UNCHANGED vars
    BY <1>1, <1>2, <1>3 DEF RequestRefund, Spend, vars
  <1>4. CASE ProviderSettles
    <2>1. Open' \subseteq Open
      BY <1>1, <1>4 DEF ProviderSettles, Open
    <2> QED BY <1>1, <1>4, <2>1 DEF ProviderSettles
  <1>5. ASSUME NEW a \in Admins, Execute(a) PROVE Shown'
    <2> plan[a] \in Plans
      BY <1>1
    <2>1. CASE Lock(a)
      BY <1>1, <1>2, <2>1 DEF Lock, Refundable
    <2>2. CASE PrepareRefund(a) \/ LockRefused(a) \/ NoteSuccess(a) \/ NotePending(a)
      <3>1. /\ UNCHANGED <<status, refunds, past>>
            /\ pc' \in {[pc EXCEPT ![a] = "lock"], [pc EXCEPT ![a] = "idle"]}
            /\ \A b \in Admins : b # a => plan'[b] = plan[b]
        BY <1>1, <2>2 DEF PrepareRefund, LockRefused, NoteSuccess, NotePending
      <3> QED BY <1>1, <1>2, <3>1
    <2>3. CASE DeductBalance(a) \/ SkipDeduction(a) \/ DeductionFails(a)
      <3>1. /\ pc[a] = "deduct" /\ UNCHANGED <<status, refunds>>
            /\ pc' \in {[pc EXCEPT ![a] = "gateway"], [pc EXCEPT ![a] = "restore"]}
            /\ "stale" \notin past'
        BY <1>1, <2>3 DEF DeductBalance, SkipDeduction, DeductionFails
      <3>2. \A b \in Admins : b # a => pc'[b] = pc[b] /\ pc'[b] \notin Locked
        BY <1>1, <3>1
      <3> QED BY <1>1, <1>2, <3>1, <3>2
    <2>4. CASE GwRefund(a)
      <3>1. PICK s \in Accepted(plan[a].amount) :
              /\ refunds' = [refunds EXCEPT ![plan[a].amount] = s]
              /\ \E answer \in Answers(s) : AfterAnswer(a, answer) /\ NoFault
        BY <2>4 DEF GwRefund
      <3>2. PICK answer \in Answers(s) : AfterAnswer(a, answer) /\ NoFault
        BY <3>1
      <3>3. \A b \in Admins : b # a => pc'[b] = pc[b] /\ pc'[b] \notin Locked
        BY <1>1, <2>4, <3>2 DEF GwRefund, AfterAnswer
      <3>4. pc'[a] \in {"succeed", "rollback"} /\ status' = "REFUNDING" /\ "stale" \notin past'
        BY <1>1, <2>4, <3>2 DEF GwRefund, AfterAnswer
      <3>5. ASSUME pc'[a] = "rollback", plan'[a].answer # "pending" PROVE Open' = {}
        <4>1. answer = plan'[a].answer /\ answer # "success"
          BY <1>1, <3>2, <3>5 DEF AfterAnswer, Plans
        <4>2. s \in {"none", "failed"}
          <5>1. plan[a].amount \in Amounts
            BY <2>4 DEF GwRefund, RefundTypes
          <5>2. s \in {"none", "pending", "success", "failed"}
            BY <1>1, <3>1, <5>1 DEF Accepted
          <5> QED BY <3>2, <3>5, <4>1, <5>2 DEF Answers
        <4>3. Open = {}
          BY <1>1, <2>4 DEF GwRefund
        <4> QED BY <1>1, <3>1, <4>2, <4>3 DEF Open
      <3> QED BY <3>3, <3>4, <3>5, <1>1
    <2>5. CASE MarkRefundOk(a)
      <3>1. \A b \in Admins : b # a => pc'[b] = pc[b] /\ pc'[b] \notin Locked
        BY <1>1, <2>5 DEF MarkRefundOk
      <3> QED BY <1>1, <1>2, <2>5, <3>1 DEF MarkRefundOk
    <2>6. CASE RollbackRefund(a) \/ RollbackFails(a)
      <3>1. /\ pc[a] = "rollback" /\ UNCHANGED <<status, refunds>>
            /\ "stale" \notin past'
            /\ plan'[a].answer = plan[a].answer
            /\ \/ pc' \in {[pc EXCEPT ![a] = "pend"], [pc EXCEPT ![a] = "noteRollback"]}
               \/ /\ plan[a].answer # "pending"
                  /\ pc' = [pc EXCEPT ![a] = "restore"]
        <4>1. CASE RollbackRefund(a)
          BY <1>1, <4>1 DEF RollbackRefund, RolledBack, Plans
        <4>2. CASE RollbackFails(a)
          <5>1. "stale" \notin past'
            BY <1>1, <4>2 DEF RollbackFails
          <5> QED BY <1>1, <4>2, <5>1 DEF RollbackFails, Plans
        <4> QED BY <2>6, <4>1, <4>2
      <3>2. \A b \in Admins : b # a => pc'[b] = pc[b] /\ pc'[b] \notin Locked
        BY <1>1, <3>1
      <3> QED BY <1>1, <1>2, <3>1, <3>2
    <2>9. CASE GwRefundSkipped(a) \/ NoteRollbackFailed(a)
      <3>1. /\ pc[a] \in Locked /\ UNCHANGED <<status, refunds>> /\ "stale" \notin past'
            /\ \/ pc' \in {[pc EXCEPT ![a] = "succeed"], [pc EXCEPT ![a] = "pend"]}
               \/ /\ pc[a] = "noteRollback" /\ plan[a].answer # "pending"
                  /\ pc' = [pc EXCEPT ![a] = "fail"]
        BY <1>1, <2>9 DEF GwRefundSkipped, NoteRollbackFailed
      <3>2. \A b \in Admins : b # a => pc'[b] = pc[b] /\ pc'[b] \notin Locked
        BY <1>1, <3>1
      <3> QED BY <1>1, <1>2, <3>1, <3>2
    <2>7. CASE MarkRefundPending(a)
      BY <2>7 DEF MarkRefundPending
    <2>8. CASE RestoreStatus(a) \/ MarkRefundFailed(a)
      <3>1. Open = {} /\ Open' = {}
        BY <1>1, <1>2, <2>8 DEF RestoreStatus, MarkRefundFailed
      <3>2. /\ status' # "REFUND_PENDING" /\ past' = past
            /\ pc' = [pc EXCEPT ![a] = "idle"]
        BY <2>8 DEF RestoreStatus, MarkRefundFailed
      <3> QED BY <1>1, <3>1, <3>2
    <2> QED BY <1>5, <2>1, <2>2, <2>3, <2>4, <2>5, <2>6, <2>7, <2>8, <2>9
            DEF Execute
  <1>6. ASSUME NEW a \in Admins, Query(a) PROVE FALSE
    BY <1>1, <1>6 DEF Query, QueryAndFinalizeRefund, ReadPendingDetail, QueryRefund,
       FinalizePendingRefundSuccess, FinalizeRefundFailed
  <1>7. ASSUME NEW a \in Admins, Crash(a) PROVE Shown'
    BY <1>1, <1>2, <1>7 DEF Crash
  <1> QED BY <1>3, <1>4, <1>5, <1>6, <1>7 DEF Next

\* The provider forgets no refund and takes none back.
LEMMA ProviderKeeps ==
    RefundTypes /\ [Next]_vars => Known \subseteq Known' /\ Returned \subseteq Returned'
  <1> SUFFICES ASSUME RefundTypes, [Next]_vars
               PROVE  Known \subseteq Known' /\ Returned \subseteq Returned'
    OBVIOUS
  <1> USE DEF Known, Returned
  <1>1. refunds \in [Amounts -> {"none", "pending", "success", "failed"}]
    BY DEF RefundTypes
  <1>2. CASE ProviderSettles
    BY <1>1, <1>2 DEF ProviderSettles
  <1>3. ASSUME NEW a \in Admins, GwRefund(a)
        PROVE  Known \subseteq Known' /\ Returned \subseteq Returned'
    <2>1. plan[a].amount \in Amounts
      BY <1>3 DEF GwRefund, RefundTypes, Locked
    <2>2. PICK t \in Accepted(plan[a].amount) :
            refunds' = [refunds EXCEPT ![plan[a].amount] = t]
      BY <1>3 DEF GwRefund
    <2>3. refunds[plan[a].amount] # "none" => t = refunds[plan[a].amount]
      BY <2>2 DEF Accepted
    <2> QED BY <1>1, <2>1, <2>2, <2>3
  <1>4. CASE UNCHANGED refunds
    BY <1>4
  <1>5. ASSUME NEW a \in Admins, Execute(a), ~GwRefund(a) PROVE UNCHANGED refunds
    BY <1>5 DEF Execute, PrepareRefund, Lock, LockRefused, DeductBalance, SkipDeduction,
       DeductionFails, GwRefundSkipped, MarkRefundOk, NoteSuccess, RollbackRefund,
       RollbackFails, NoteRollbackFailed,
       MarkRefundPending, NotePending, RestoreStatus, MarkRefundFailed
  <1>6. ASSUME NEW a \in Admins, Query(a) PROVE UNCHANGED refunds
    BY <1>6 DEF Query, QueryAndFinalizeRefund, ReadPendingDetail, QueryRefund,
       FinalizePendingRefundSuccess, FinalizeRefundFailed
  <1>7. ASSUME NEW a \in Admins, Crash(a) PROVE UNCHANGED refunds
    BY <1>7 DEF Crash
  <1>8. CASE RequestRefund \/ Spend \/ UNCHANGED vars
    BY <1>4, <1>8 DEF RequestRefund, Spend, vars
  <1> QED BY <1>2, <1>3, <1>4, <1>5, <1>6, <1>7, <1>8 DEF Next

\* The trade number was written when the order was paid.
LEMMA TradeKept == [Next]_vars => traded' = traded
  <1>1. \A a \in Admins : Execute(a) => traded' = traded
    BY DEF Execute, PrepareRefund, Lock, LockRefused, DeductBalance, SkipDeduction,
           DeductionFails, GwRefundSkipped, GwRefund, MarkRefundOk, NoteSuccess, RollbackRefund,
           RollbackFails, NoteRollbackFailed, MarkRefundPending, NotePending, RestoreStatus,
           MarkRefundFailed
  <1>2. \A a \in Admins : Query(a) => traded' = traded
    BY DEF Query, QueryAndFinalizeRefund, ReadPendingDetail, QueryRefund,
           FinalizePendingRefundSuccess, FinalizeRefundFailed
  <1> QED BY <1>1, <1>2 DEF Next, vars, RequestRefund, Spend, ProviderSettles, Crash

\* What is on record about the provider's refunds stays true.
LEMMA RecordStep == RefundTypes /\ RecordInv /\ [Next]_vars => RecordInv'
  <1> SUFFICES ASSUME RefundTypes, RecordInv, [Next]_vars PROVE RecordInv'
    OBVIOUS
  <1> DEFINE
        Sole == \A m, n \in Known : m = n
        OfPlan(b) ==
          /\ pc[b] = "succeed" => plan[b].amount \in Returned \/ ~traded
          /\ pc[b] \in {"rollback", "noteRollback"} /\ plan[b].answer = "pending" =>
                plan[b].amount \in Known
          /\ pc[b] \in {"pend", "notePending"} => plan[b].amount \in Known
          /\ pc[b] \in {"detail", "ask", "finalize", "finalizeFailed"} =>
                /\ plan[b].amount \in Known
                /\ plan[b].detail.id # 0 => plan[b].detail.id \in Known
          /\ pc[b] = "finalize" => Asked(b) \in Returned
        OfRow ==
          /\ status = "REFUND_PENDING" => refundAmount \in Known
          /\ pendingAudit.id # 0 => pendingAudit.id \in Known
          /\ traded /\ Sole /\ status = "REFUNDED" => refundAmount \in Returned
  <1>1. /\ pc \in [Admins -> Steps] /\ plan \in [Admins -> Plans]
        /\ pendingAudit \in PendingDetail
        /\ Known \subseteq Known' /\ Returned \subseteq Returned' /\ traded' = traded
        /\ OfRow /\ \A b \in Admins : OfPlan(b)
    BY ProviderKeeps, TradeKept DEF RefundTypes, RecordInv
  <1>2. Sole' => Sole
    BY <1>1
  <1>3. ASSUME NEW b \in Admins, pc'[b] = pc[b], plan'[b] = plan[b] PROVE OfPlan(b)'
    BY <1>1, <1>3 DEF Asked
  <1>4. ASSUME UNCHANGED <<status, refundAmount, pendingAudit>> PROVE OfRow'
    BY <1>1, <1>2, <1>4
  <1>5. SUFFICES OfRow' /\ \A b \in Admins : OfPlan(b)'
    BY DEF RecordInv
  <1> HIDE DEF OfPlan, OfRow
  <1>6. CASE Spend \/ ProviderSettles \/ UNCHANGED vars
    BY <1>3, <1>4, <1>6 DEF Spend, ProviderSettles, vars
  <1>7. CASE RequestRefund
    <2>1. OfRow'
      BY <1>1, <1>7 DEF RequestRefund, OfRow
    <2> QED BY <1>3, <1>7, <2>1 DEF RequestRefund
  <1>8. ASSUME NEW a \in Admins, Execute(a) \/ Query(a) \/ Crash(a)
        PROVE  OfRow' /\ \A b \in Admins : OfPlan(b)'
    <2> SUFFICES OfRow' /\ OfPlan(a)'
      <3>1. \A b \in Admins : b # a => pc'[b] = pc[b] /\ plan'[b] = plan[b]
        BY <1>1, <1>8 DEF Execute, Query, Crash, PrepareRefund, Lock, LockRefused,
           DeductBalance, SkipDeduction, DeductionFails, GwRefundSkipped, GwRefund, AfterAnswer,
           MarkRefundOk, NoteSuccess, RollbackRefund, RollbackFails, NoteRollbackFailed, RolledBack,
           MarkRefundPending, NotePending, RestoreStatus, MarkRefundFailed,
           QueryAndFinalizeRefund, ReadPendingDetail, QueryRefund,
           FinalizePendingRefundSuccess, FinalizeRefundFailed
      <3> QED BY <1>3, <3>1
    <2> OfPlan(a) /\ plan[a] \in Plans /\ pc[a] \in Steps
      BY <1>1
    <2>1. CASE PrepareRefund(a) \/ Lock(a) \/ LockRefused(a) \/ NoteSuccess(a)
               \/ RestoreStatus(a) \/ MarkRefundFailed(a) \/ FinalizeRefundFailed(a) \/ Crash(a)
      <3>1. pc'[a] \in {"lock", "deduct", "idle"}
        BY <1>1, <2>1 DEF PrepareRefund, Lock, LockRefused, NoteSuccess, RestoreStatus,
           MarkRefundFailed, FinalizeRefundFailed, Crash
      <3>2. OfPlan(a)'
        BY <3>1 DEF OfPlan
      <3>3. /\ UNCHANGED <<refundAmount, pendingAudit>>
            /\ status' = status \/ status' \notin {"REFUND_PENDING", "REFUNDED"}
        BY <2>1 DEF PrepareRefund, Lock, LockRefused, NoteSuccess, RestoreStatus,
           MarkRefundFailed, FinalizeRefundFailed, Crash
      <3>4. OfRow'
        BY <1>1, <1>2, <3>3 DEF OfRow
      <3> QED BY <3>2, <3>4
    <2>2. CASE DeductBalance(a) \/ SkipDeduction(a) \/ DeductionFails(a)
      <3>1. pc'[a] \in {"gateway", "restore"} /\ UNCHANGED <<status, refundAmount, pendingAudit>>
        BY <1>1, <2>2 DEF DeductBalance, SkipDeduction, DeductionFails
      <3> QED BY <1>4, <3>1 DEF OfPlan
    <2>3. CASE GwRefund(a)
      <3>1. PICK s \in Accepted(plan[a].amount) :
              /\ refunds' = [refunds EXCEPT ![plan[a].amount] = s]
              /\ \/ \E answer \in Answers(s) : AfterAnswer(a, answer)
                 \/ AfterAnswer(a, "failed")
        BY <2>3 DEF GwRefund
      <3>2. plan[a].amount \in Amounts /\ s \in {"none", "pending", "success", "failed"}
        BY <2>3, <3>1 DEF GwRefund, RefundTypes, Locked, Accepted
      <3>3. PICK answer \in Answers(s) \cup {"failed"} : AfterAnswer(a, answer)
        BY <3>1
      <3>4. /\ answer = "success" => s = "success"
            /\ answer = "pending" => s # "none"
        BY <3>2, <3>3 DEF Answers
      <3>5. refunds'[plan[a].amount] = s
        BY <3>1, <3>2 DEF RefundTypes
      <3>6. CASE answer = "success"
        <4>1. pc'[a] = "succeed" /\ plan'[a] = plan[a] /\ plan[a].amount \in Returned'
          BY <1>1, <3>2, <3>3, <3>4, <3>5, <3>6 DEF AfterAnswer, Returned
        <4> QED BY <1>4, <2>3, <4>1 DEF OfPlan, GwRefund
      <3>7. CASE answer # "success"
        <4>1. /\ pc'[a] = "rollback" /\ plan'[a].answer = answer
              /\ plan'[a].amount = plan[a].amount
          BY <1>1, <3>3, <3>7 DEF AfterAnswer, Plans
        <4>2. answer = "pending" => plan[a].amount \in Known'
          BY <3>2, <3>4, <3>5 DEF Known
        <4> QED BY <1>4, <2>3, <4>1, <4>2 DEF OfPlan, GwRefund
      <3> QED BY <3>6, <3>7
    <2>4. CASE MarkRefundOk(a)
      <3>1. /\ pc'[a] = "noteSuccess" /\ status' = "REFUNDED" /\ pendingAudit' = pendingAudit
            /\ refundAmount' = plan[a].amount /\ (plan[a].amount \in Returned \/ ~traded)
        BY <1>1, <2>4 DEF MarkRefundOk, OfPlan
      <3> QED BY <1>1, <3>1 DEF OfRow, OfPlan
    <2>5. CASE RollbackRefund(a) \/ RollbackFails(a)
      <3>1. /\ pc[a] = "rollback" /\ plan'[a].amount = plan[a].amount
            /\ plan'[a].answer = plan[a].answer
            /\ pc'[a] \in {"noteRollback", "pend", "restore"}
            /\ pc'[a] = "pend" => plan[a].answer = "pending"
            /\ UNCHANGED <<status, refundAmount, pendingAudit>>
        BY <1>1, <2>5 DEF RollbackRefund, RollbackFails, RolledBack, Plans
      <3> QED BY <1>1, <1>4, <3>1 DEF OfPlan
    <2>12. CASE GwRefundSkipped(a) \/ NoteRollbackFailed(a)
      <3>1. /\ plan' = plan /\ UNCHANGED <<status, refundAmount, pendingAudit>>
            /\ \/ pc'[a] = "succeed" /\ ~traded
               \/ pc'[a] = "fail"
               \/ pc[a] = "noteRollback" /\ plan[a].answer = "pending" /\ pc'[a] = "pend"
        BY <1>1, <2>12 DEF GwRefundSkipped, NoteRollbackFailed
      <3> QED BY <1>1, <1>4, <3>1 DEF OfPlan
    <2>6. CASE MarkRefundPending(a)
      <3>1. /\ pc'[a] = "notePending" /\ status' = "REFUND_PENDING" /\ plan' = plan
            /\ refundAmount' = plan[a].amount /\ plan[a].amount \in Known
            /\ pendingAudit' = pendingAudit
        BY <1>1, <2>6 DEF MarkRefundPending, OfPlan
      <3> QED BY <1>1, <3>1 DEF OfRow, OfPlan
    <2>7. CASE NotePending(a)
      <3>1. /\ pc'[a] = "idle" /\ plan[a].amount \in Known
            /\ UNCHANGED <<status, refundAmount>>
            /\ pendingAudit' = pendingAudit \/ pendingAudit'.id = plan[a].amount
        BY <1>1, <2>7 DEF NotePending, OfPlan, Plans, PendingDetail
      <3> QED BY <1>1, <1>2, <3>1 DEF OfRow, OfPlan
    <2>8. CASE QueryAndFinalizeRefund(a)
      <3>1. /\ pc'[a] = "detail" /\ plan'[a].amount = refundAmount /\ plan'[a].detail.id = 0
            /\ refundAmount \in Known /\ UNCHANGED <<status, refundAmount, pendingAudit>>
        BY <1>1, <2>8 DEF QueryAndFinalizeRefund, NoPlan, NoAudit, OfRow
      <3> QED BY <1>1, <1>4, <3>1 DEF OfPlan
    <2>9. CASE ReadPendingDetail(a)
      <3>1. /\ pc[a] = "detail" /\ pc'[a] = "ask" /\ plan'[a].amount = plan[a].amount
            /\ plan'[a].detail \in {pendingAudit, plan[a].detail}
            /\ UNCHANGED <<status, refundAmount, pendingAudit>>
        BY <1>1, <2>9 DEF ReadPendingDetail, Plans
      <3>2. pendingAudit.id # 0 => pendingAudit.id \in Known
        BY <1>1 DEF OfRow
      <3> QED BY <1>1, <1>4, <3>1, <3>2 DEF OfPlan
    <2>10. CASE QueryRefund(a)
      <3>1. /\ pc[a] = "ask" /\ UNCHANGED <<status, refundAmount, pendingAudit>>
            /\ \/ pc'[a] = "idle"
               \/ plan'[a] = plan[a] /\ pc'[a] = "finalizeFailed"
               \/ plan'[a] = plan[a] /\ pc'[a] = "finalize" /\ refunds[Asked(a)] = "success"
        BY <1>1, <2>10 DEF QueryRefund
      <3>2. Asked(a) \in Known
        BY <3>1 DEF OfPlan, Asked
      <3>3. refunds[Asked(a)] = "success" => Asked(a) \in Returned'
        BY <1>1, <3>2 DEF Known, Returned
      <3> QED BY <1>1, <1>4, <3>1, <3>3 DEF OfPlan, Asked
    <2>11. CASE FinalizePendingRefundSuccess(a)
      <3>1. /\ pc[a] = "finalize" /\ pc'[a] = "idle" /\ pendingAudit' = pendingAudit
            /\ \/ UNCHANGED <<status, refundAmount>>
               \/ status' = "REFUNDED" /\ refundAmount' = plan[a].amount
        BY <1>1, <2>11 DEF FinalizePendingRefundSuccess
      <3>2. Sole => plan[a].amount \in Returned
        BY <3>1 DEF OfPlan, Asked, Returned, Known
      <3> QED BY <1>1, <1>2, <3>1, <3>2 DEF OfRow, OfPlan
    <2> QED BY <1>8, <2>1, <2>2, <2>3, <2>4, <2>5, <2>6, <2>7, <2>8, <2>9, <2>10, <2>11,
            <2>12 DEF Execute, Query
  <1> QED BY <1>6, <1>7, <1>8 DEF Next

\* A deduction finds the balance whole, or is not made: what is missing never
\* adds up.
LEMMA TakenStep ==
    RefundTypes /\ BalanceInv /\ PaidOutInv /\ TakenAtMostAmount /\ [Next]_vars
        => TakenAtMostAmount'
  <1> SUFFICES ASSUME RefundTypes, BalanceInv, PaidOutInv, TakenAtMostAmount, [Next]_vars,
                      past' \subseteq {"parked"}, ~(rollbackFailed' /\ "parked" \in past')
               PROVE  taken' <= Amount
    BY DEF TakenAtMostAmount
  <1>1. past \subseteq past' /\ (rollbackFailed => rollbackFailed')
    <2>1. \A a \in Admins : Execute(a) => (rollbackFailed => rollbackFailed')
      BY DEF Execute, PrepareRefund, Lock, LockRefused, DeductBalance, SkipDeduction,
             DeductionFails, GwRefundSkipped, GwRefund, MarkRefundOk, NoteSuccess, RollbackRefund,
             RollbackFails, NoteRollbackFailed, MarkRefundPending, NotePending, RestoreStatus,
             MarkRefundFailed
    <2>2. \A a \in Admins : Query(a) => (rollbackFailed => rollbackFailed')
      BY DEF Query, QueryAndFinalizeRefund, ReadPendingDetail, QueryRefund,
             FinalizePendingRefundSuccess, FinalizeRefundFailed
    <2> QED BY <2>1, <2>2, HistoryGrows DEF Next, vars, RequestRefund, Spend,
            ProviderSettles, Crash
  <1>2. /\ taken <= Amount /\ taken \in Int /\ Amount \in Nat
        /\ plan \in [Admins -> Plans]
        /\ \A a \in Admins : pc[a] = "deduct" => Whole
        /\ status \notin {"REFUNDING", "REFUNDED"} => Whole
    BY <1>1, RefundAssumption DEF TakenAtMostAmount, RefundTypes, BalanceInv
  <1>3. status = "REFUND_PENDING" => ~rollbackFailed
    BY <1>1 DEF PaidOutInv
  <1>4. ASSUME NEW a \in Admins, Execute(a) PROVE taken' <= Amount
    <2> plan[a].take \in 0..Amount /\ plan[a].take \in Nat
      BY <1>2, PlanParts
    <2>1. CASE DeductBalance(a)
      <3>1. taken = 0
        BY <1>1, <1>2, <2>1 DEF DeductBalance, MayDeduct, Whole
      <3>2. Available(plan[a].take) \in Nat /\ Available(plan[a].take) <= plan[a].take
        BY WhatIsAvailable
      <3> QED BY <1>2, <2>1, <3>1, <3>2 DEF DeductBalance, Deduct
    <2>2. CASE DeductionFails(a) \/ RollbackFails(a)
      BY <1>2, <2>2 DEF DeductionFails, RollbackFails
    <2>3. CASE RollbackRefund(a)
      BY <1>2, <2>3 DEF RollbackRefund, GiveBack
    <2> QED BY <1>2, <1>4, <2>1, <2>2, <2>3 DEF Execute, PrepareRefund, Lock, LockRefused,
            SkipDeduction, GwRefundSkipped, GwRefund, MarkRefundOk, NoteSuccess,
            NoteRollbackFailed, MarkRefundPending, NotePending, RestoreStatus, MarkRefundFailed
  <1>5. ASSUME NEW a \in Admins, Query(a) PROVE taken' <= Amount
    <2>1. CASE FinalizePendingRefundSuccess(a) /\ status = "REFUND_PENDING"
      <3>1. taken = 0
        BY <1>2, <1>3, <2>1 DEF Whole
      <3>2. plan[a].amount \in 0..Amount /\ plan[a].amount \in Nat
        BY <1>2, PlanParts
      <3>3. \A m \in Nat : Available(m) \in Nat /\ Available(m) <= m
        BY WhatIsAvailable
      <3> QED BY <1>2, <2>1, <3>1, <3>2, <3>3 DEF FinalizePendingRefundSuccess, Deduct
    <2> QED BY <1>2, <1>5, <2>1 DEF Query, QueryAndFinalizeRefund, ReadPendingDetail,
            QueryRefund, FinalizePendingRefundSuccess, FinalizeRefundFailed
  <1>6. CASE RequestRefund \/ Spend \/ ProviderSettles \/ UNCHANGED vars
    BY <1>2, <1>6 DEF RequestRefund, Spend, ProviderSettles, vars
  <1>7. ASSUME NEW a \in Admins, Crash(a) PROVE taken' <= Amount
    BY <1>2, <1>7 DEF Crash
  <1> QED BY <1>4, <1>5, <1>6, <1>7 DEF Next

-----------------------------------------------------------------------------

\* The first state has nothing under way.
LEMMA InitIInv == Init => IInv
  <1> SUFFICES ASSUME Init PROVE IInv
    OBVIOUS
  <1> USE RefundAssumption DEF Init
  <1>1. RefundTypes
    <2>1. 0 \in 0..Amount /\ NoAudit \in PendingDetail
      BY DEF NoAudit, PendingDetail
    <2>2. /\ pc \in [Admins -> Steps] /\ plan \in [Admins -> Plans]
          /\ \A a \in Admins : pc[a] \notin Locked \cup {"lock"}
      BY NoPlanIsPlan DEF Steps, Locked
    <2>3. rollbackFailed \in BOOLEAN /\ traded \in BOOLEAN
      BY Zenon
    <2>4. refunds \in [Amounts -> {"none", "pending", "success", "failed"}]
      OBVIOUS
    <2>5. status \in Statuses /\ refundAmount \in 0..Amount /\ balance \in Int /\ taken \in Int
      BY DEF Statuses
    <2>6. pendingAudit \in PendingDetail
      BY <2>1
    <2> QED BY <2>2, <2>3, <2>4, <2>5, <2>6 DEF RefundTypes
  <1>2. OneRefundAtATime
    BY DEF OneRefundAtATime, Locked
  <1>3. BalanceInv
    BY DEF BalanceInv, Whole
  <1>4. PaidOutInv
    BY DEF PaidOutInv, Open
  <1>5. RecordInv
    BY DEF RecordInv, NoAudit
  <1>6. TakenAtMostAmount
    BY DEF TakenAtMostAmount
  <1> QED BY <1>1, <1>2, <1>3, <1>4, <1>5, <1>6 DEF IInv

\* The inductive invariant holds.
LEMMA Invariance == Spec => []IInv
  <1>1. IInv /\ [Next]_vars => IInv'
    BY TypesStep, LockStep, BalanceStep, PaidOutStep, RecordStep, TakenStep DEF IInv
  <1> QED BY InitIInv, <1>1, PTL DEF Spec

\* REFUNDING excludes: between taking it (the conditional update of
\* ExecuteRefund) and writing the outcome there is one request, whatever dies,
\* fails or goes unseen, until a query's failure is written over a status it had not seen.
THEOREM LockExcludes == Spec => []OneRefundAtATime
  <1>1. IInv => OneRefundAtATime
    BY DEF IInv
  <1> QED BY Invariance, <1>1, PTL

\* restoreStatus, markRefundPending and markRefundFailed write without a
\* condition, and still never over a refunded order.
THEOREM RefundedStays == Spec => RefundedIsFinal
  <1>1. ASSUME IInv, [Next]_vars
        PROVE  [status = "REFUNDED" /\ "stale" \notin past' => status' = "REFUNDED"]_vars
    <2> SUFFICES ASSUME status = "REFUNDED", "stale" \notin past' PROVE status' = "REFUNDED"
      OBVIOUS
    <2>1. \A a \in Admins : pc[a] \notin Locked
      BY <1>1, HistoryGrows DEF IInv, OneRefundAtATime
    <2>2. ASSUME NEW a \in Admins, Execute(a) PROVE status' = "REFUNDED"
      BY <2>1, <2>2 DEF Execute, PrepareRefund, Lock, LockRefused, DeductBalance,
         SkipDeduction, DeductionFails, GwRefundSkipped, GwRefund, MarkRefundOk, NoteSuccess,
         RollbackRefund, RollbackFails, NoteRollbackFailed, MarkRefundPending, NotePending,
         RestoreStatus, MarkRefundFailed, Refundable, Locked
    <2>3. ASSUME NEW a \in Admins, Query(a) PROVE status' = "REFUNDED"
      BY <2>3 DEF Query, QueryAndFinalizeRefund, ReadPendingDetail, QueryRefund,
         FinalizePendingRefundSuccess, FinalizeRefundFailed
    <2>4. CASE RequestRefund \/ Spend \/ ProviderSettles \/ UNCHANGED vars
      BY <2>4 DEF RequestRefund, Spend, ProviderSettles, vars
    <2>5. ASSUME NEW a \in Admins, Crash(a) PROVE status' = "REFUNDED"
      BY <2>5 DEF Crash
    <2> QED BY <1>1, <2>2, <2>3, <2>4, <2>5 DEF Next
  <1> QED BY Invariance, <1>1, PTL DEF Spec, RefundedIsFinal

\* Whatever attempts were made and failed, between them the user has his
\* balance back, or the record of a failed rollback says that he has not.
THEOREM BalanceIsWhole == Spec => []NothingTakenAtRest
  <1>1. IInv => NothingTakenAtRest
    BY DEF IInv, BalanceInv, Whole, NothingTakenAtRest
  <1> QED BY Invariance, <1>1, PTL

\* The order never reads as if nothing had happened once the provider has paid.
THEOREM NothingForFree == Spec => []NoFreeRefund
  <1>1. IInv => NoFreeRefund
    BY DEF IInv, PaidOutInv, Open, Returned, NoFreeRefund
  <1> QED BY Invariance, <1>1, PTL

\* With one refund at the provider an order that has a trade number says REFUNDED
\* only of what was paid out, through markRefundOk as through a query long after
\* the attempt; an order without one is refunded without asking (gwRefund).
THEOREM RefundsArePaidOut == Spec => []RefundedIsPaidOut
  <1>1. IInv => RefundedIsPaidOut
    <2> SUFFICES ASSUME IInv, traded, Cardinality(Known) <= 1, status = "REFUNDED"
                 PROVE  refundAmount \in Returned
      BY DEF RefundedIsPaidOut, Known
    <2>1. IsFiniteSet(Known)
      <3>1. IsFiniteSet(1..Amount)
        BY FS_Interval, RefundAssumption
      <3>2. Known \subseteq 1..Amount
        BY RefundAssumption DEF Known
      <3> QED BY <3>1, <3>2, FS_Subset
    <2>2. ASSUME NEW m \in Known, NEW n \in Known, m # n PROVE FALSE
      <3>1. IsFiniteSet({m}) /\ Cardinality({m}) = 1
        BY FS_Singleton
      <3>2. Cardinality({m} \cup {n}) = 2
        BY <2>2, <3>1, FS_AddElement
      <3>3. Cardinality({m} \cup {n}) <= Cardinality(Known)
        BY <2>1, FS_Subset
      <3>4. Cardinality(Known) \in Nat
        BY <2>1, FS_CardinalityType
      <3> QED BY <3>2, <3>3, <3>4
    <2> QED BY <2>2 DEF IInv, RecordInv
  <1> QED BY Invariance, <1>1, PTL

\* However many attempts are made, the user never loses more than the order's
\* amount, unless a failed rollback and a parked order come together.
THEOREM LossIsBounded == Spec => []TakenAtMostAmount
  <1>1. IInv => TakenAtMostAmount
    BY DEF IInv
  <1> QED BY Invariance, <1>1, PTL

-----------------------------------------------------------------------------
(* Types.  A balance that is given back never exceeds what it was, although *)
(* after a stale failure several attempts may have deductions to undo: each *)
(* unit that one of them may still give back was taken, and counted once.   *)

\* What an attempt has taken and may still give back.
Holding(a) == IF pc[a] \in {"gateway", "rollback"} THEN plan[a].take ELSE 0

\* The units of it, told apart by the attempt that took them.
Coins == {c \in Admins \X (1..Amount) : c[2] <= Holding(c[1])}

PurseInv ==
    /\ IsFiniteSet(Coins) /\ Cardinality(Coins) <= taken
    /\ balance + taken <= MaxBalance /\ balance >= -MaxDebt

\* A part of a plan's amount is held.
LEMMA HoldingTypes == RefundTypes => \A a \in Admins : Holding(a) \in 0..Amount
  <1>1. RefundTypes => \A a \in Admins : plan[a].take \in 0..Amount
    BY PlanParts DEF RefundTypes
  <1> QED BY <1>1, RefundAssumption DEF Holding

\* One attempt's units are as many as it holds.
LEMMA CoinsOfOne ==
    ASSUME NEW a, NEW t \in Nat
    PROVE  IsFiniteSet({a} \X (1..t)) /\ Cardinality({a} \X (1..t)) = t
  <1>1. IsFiniteSet({a}) /\ Cardinality({a}) = 1
    BY FS_Singleton
  <1>2. IsFiniteSet(1..t) /\ Cardinality(1..t) = t
    BY FS_Interval
  <1>3. /\ IsFiniteSet({a} \X (1..t))
        /\ Cardinality({a} \X (1..t)) = Cardinality({a}) * Cardinality(1..t)
    BY ONLY <1>1, <1>2, FS_Product
  <1>4. 1 * t = t
    OBVIOUS
  <1> QED BY <1>1, <1>2, <1>3, <1>4

\* How the units of two states compare, when one attempt's part changes.
LEMMA CoinsChange ==
    ASSUME NEW C \in SUBSET (Admins \X (1..Amount)), NEW D \in SUBSET (Admins \X (1..Amount)),
           NEW H \in [Admins -> 0..Amount], NEW G \in [Admins -> 0..Amount],
           \A b \in Admins : \A k \in 1..Amount : <<b, k>> \in C <=> k <= H[b],
           \A b \in Admins : \A k \in 1..Amount : <<b, k>> \in D <=> k <= G[b]
    PROVE  /\ (\A b \in Admins : G[b] <= H[b]) => D \in SUBSET C
           /\ \A a \in Admins :
                H[a] = 0 /\ (\A b \in Admins \ {a} : G[b] = H[b]) =>
                  /\ D = C \cup ({a} \X (1..G[a]))
                  /\ C \cap ({a} \X (1..G[a])) = {}
  <1> USE RefundAssumption
  <1>1. ASSUME \A b \in Admins : G[b] <= H[b] PROVE D \in SUBSET C
    <2> SUFFICES ASSUME NEW b \in Admins, NEW k \in 1..Amount, <<b, k>> \in D
                 PROVE <<b, k>> \in C
      OBVIOUS
    <2>1. k <= G[b] /\ G[b] <= H[b] /\ k \in Int /\ G[b] \in Int /\ H[b] \in Int
      BY <1>1
    <2> QED BY <2>1
  <1>2. ASSUME NEW a \in Admins, H[a] = 0, \A b \in Admins \ {a} : G[b] = H[b]
        PROVE  /\ D = C \cup ({a} \X (1..G[a]))
               /\ C \cap ({a} \X (1..G[a])) = {}
    <2>1. ({a} \X (1..G[a])) \subseteq Admins \X (1..Amount)
      OBVIOUS
    <2>2. ASSUME NEW b \in Admins, NEW k \in 1..Amount
          PROVE  /\ <<b, k>> \in D <=> <<b, k>> \in C \/ <<b, k>> \in {a} \X (1..G[a])
                 /\ ~(<<b, k>> \in C /\ <<b, k>> \in {a} \X (1..G[a]))
      <3>1. k \in Int /\ k >= 1 /\ G[b] \in Int /\ H[b] \in Int
        OBVIOUS
      <3>2. <<b, k>> \in {a} \X (1..G[a]) <=> b = a /\ k <= G[a]
        BY <3>1
      <3>3. (<<b, k>> \in C <=> k <= H[b]) /\ (<<b, k>> \in D <=> k <= G[b])
        OBVIOUS
      <3>4. b = a => ~(k <= H[b])
        BY <1>2, <3>1
      <3> QED BY <1>2, <3>2, <3>3, <3>4
    <2> QED BY <2>1, <2>2
  <1> QED BY <1>1, <1>2

\* The same of the units before and after a step.
LEMMA CoinsStep ==
    ASSUME RefundTypes, RefundTypes'
    PROVE  /\ (\A b \in Admins : Holding(b)' <= Holding(b)) => Coins' \in SUBSET Coins
           /\ \A a \in Admins : (\A b \in Admins \ {a} : Holding(b)' = Holding(b)) =>
                /\ Holding(a) = 0 =>
                     /\ Coins' = Coins \cup ({a} \X (1..Holding(a)'))
                     /\ Coins \cap ({a} \X (1..Holding(a)')) = {}
                /\ Holding(a)' = 0 =>
                     /\ Coins = Coins' \cup ({a} \X (1..Holding(a)))
                     /\ Coins' \cap ({a} \X (1..Holding(a))) = {}
  <1> DEFINE H == [b \in Admins |-> Holding(b)]
             G == [b \in Admins |-> Holding(b)']
  <1>1. \A b \in Admins : Holding(b) \in 0..Amount /\ Holding(b)' \in 0..Amount
    <2>1. (RefundTypes => \A a \in Admins : Holding(a) \in 0..Amount)'
      BY HoldingTypes, PTL
    <2> QED BY <2>1, HoldingTypes
  <1>2. H \in [Admins -> 0..Amount] /\ G \in [Admins -> 0..Amount]
    BY <1>1
  <1>3. \A b \in Admins : H[b] = Holding(b) /\ G[b] = Holding(b)'
    OBVIOUS
  <1>4. /\ Coins \in SUBSET (Admins \X (1..Amount))
        /\ \A b \in Admins : \A k \in 1..Amount : <<b, k>> \in Coins <=> k <= H[b]
    BY <1>3 DEF Coins
  <1>5. /\ Coins' \in SUBSET (Admins \X (1..Amount))
        /\ \A b \in Admins : \A k \in 1..Amount : <<b, k>> \in Coins' <=> k <= G[b]
    BY <1>3 DEF Coins
  <1> HIDE DEF H, G
  <1>6. (\A b \in Admins : G[b] <= H[b]) => Coins' \in SUBSET Coins
    BY <1>2, <1>4, <1>5, CoinsChange
  <1>7. \A a \in Admins :
            H[a] = 0 /\ (\A b \in Admins \ {a} : G[b] = H[b]) =>
              /\ Coins' = Coins \cup ({a} \X (1..G[a]))
              /\ Coins \cap ({a} \X (1..G[a])) = {}
    BY <1>2, <1>4, <1>5, CoinsChange
  <1>8. \A a \in Admins :
            G[a] = 0 /\ (\A b \in Admins \ {a} : H[b] = G[b]) =>
              /\ Coins = Coins' \cup ({a} \X (1..H[a]))
              /\ Coins' \cap ({a} \X (1..H[a])) = {}
    BY <1>2, <1>4, <1>5, CoinsChange
  <1> QED BY <1>3, <1>6, <1>7, <1>8

\* While nobody holds more and no less is taken, the units are covered.
LEMMA NothingMoreHeld ==
    ASSUME RefundTypes, RefundTypes', IsFiniteSet(Coins), Cardinality(Coins) <= taken,
           \A b \in Admins : Holding(b)' <= Holding(b), taken' >= taken
    PROVE  IsFiniteSet(Coins') /\ Cardinality(Coins') <= taken'
  <1>1. Coins' \in SUBSET Coins
    BY CoinsStep
  <1>2. IsFiniteSet(Coins') /\ Cardinality(Coins') <= Cardinality(Coins)
    BY <1>1, FS_Subset
  <1>3. Cardinality(Coins) \in Nat /\ Cardinality(Coins') \in Nat
    BY <1>2, FS_CardinalityType
  <1> QED BY <1>2, <1>3 DEF RefundTypes

\* A deduction adds its units, which nobody held before.
LEMMA Taking ==
    ASSUME RefundTypes, RefundTypes', IsFiniteSet(Coins), Cardinality(Coins) <= taken,
           NEW a \in Admins, NEW t \in 0..Amount,
           Holding(a) = 0, Holding(a)' = t, taken' = taken + t,
           \A b \in Admins \ {a} : Holding(b)' = Holding(b)
    PROVE  IsFiniteSet(Coins') /\ Cardinality(Coins') <= taken'
  <1> DEFINE New == {a} \X (1..t)
  <1>1. Coins' = Coins \cup New /\ Coins \cap New = {}
    BY CoinsStep
  <1>2. t \in Nat
    BY RefundAssumption
  <1>3. IsFiniteSet(New) /\ Cardinality(New) = t
    BY <1>2, CoinsOfOne
  <1> HIDE DEF New
  <1>4. /\ IsFiniteSet(Coins \cup New)
        /\ Cardinality(Coins \cup New)
             = Cardinality(Coins) + Cardinality(New) - Cardinality(Coins \cap New)
    BY <1>3, FS_Union
  <1>5. Cardinality(Coins) \in Nat /\ Cardinality({}) = 0
    BY FS_CardinalityType, FS_EmptySet
  <1>6. IsFiniteSet(Coins') /\ Cardinality(Coins') = Cardinality(Coins) + t
    <2>1. Cardinality(Coins \cap New) = 0
      BY <1>1, <1>5
    <2>2. Cardinality(Coins \cup New) = Cardinality(Coins) + t - 0
      BY <1>3, <1>4, <2>1
    <2> QED BY <1>1, <1>2, <1>4, <1>5, <2>2
  <1> QED BY <1>2, <1>5, <1>6 DEF RefundTypes

\* What is given back was taken.
LEMMA GivingBack ==
    ASSUME RefundTypes, RefundTypes', IsFiniteSet(Coins), Cardinality(Coins) <= taken,
           NEW a \in Admins, NEW t \in 0..Amount,
           Holding(a) = t, Holding(a)' = 0, taken' = taken - t,
           \A b \in Admins \ {a} : Holding(b)' = Holding(b)
    PROVE  IsFiniteSet(Coins') /\ Cardinality(Coins') <= taken'
  <1> DEFINE Old == {a} \X (1..t)
  <1>1. Coins = Coins' \cup Old /\ Coins' \cap Old = {}
    BY CoinsStep
  <1>2. t \in Nat
    BY RefundAssumption
  <1>3. IsFiniteSet(Old) /\ Cardinality(Old) = t
    BY <1>2, CoinsOfOne
  <1>4. Coins' \in SUBSET Coins
    BY <1>1
  <1>5. IsFiniteSet(Coins')
    BY <1>4, FS_Subset
  <1> HIDE DEF Old
  <1>6. Cardinality(Coins' \cup Old)
             = Cardinality(Coins') + Cardinality(Old) - Cardinality(Coins' \cap Old)
    BY <1>3, <1>5, FS_Union
  <1>7. Cardinality(Coins') \in Nat /\ Cardinality({}) = 0
    BY <1>5, FS_CardinalityType, FS_EmptySet
  <1>8. Cardinality(Coins) = Cardinality(Coins') + t
    <2>1. Cardinality(Coins' \cap Old) = 0
      BY <1>1, <1>7
    <2>2. Cardinality(Coins' \cup Old) = Cardinality(Coins') + t - 0
      BY <1>3, <1>6, <2>1
    <2> QED BY <1>1, <1>2, <1>7, <2>2
  <1> QED BY <1>2, <1>5, <1>7, <1>8 DEF RefundTypes

\* A deduction and a rollback move money between the two, and nothing adds any;
\* only usage overdraws the balance.
LEMMA NoMoneyAppears ==
    RefundTypes /\ [Next]_vars =>
        balance' + taken' <= balance + taken /\ (balance >= -MaxDebt => balance' >= -MaxDebt)
  <1> DEFINE Kept == balance' + taken' <= balance + taken
                     /\ (balance >= -MaxDebt => balance' >= -MaxDebt)
  <1> SUFFICES ASSUME RefundTypes, [Next]_vars PROVE Kept
    OBVIOUS
  <1>1. balance \in Int /\ MaxDebt \in Nat /\ taken \in Int /\ \A a \in Admins : plan[a] \in Plans
    BY RefundAssumption DEF RefundTypes
  <1>2. \A a \in Admins : plan[a].take \in Nat /\ plan[a].amount \in Nat
    BY <1>1, PlanParts
  <1>3. \A m \in Nat : Deduct(m) \/ GiveBack(m) => Kept
    <2> TAKE m \in Nat
    <2>1. Available(m) \in Nat /\ (Available(m) = 0 \/ Available(m) <= balance)
      BY WhatIsAvailable
    <2>2. Deduct(m) => Kept
      BY <1>1, <2>1 DEF Deduct
    <2>3. GiveBack(m) => Kept
      BY <1>1 DEF GiveBack
    <2> QED BY <2>2, <2>3
  <1>4. UNCHANGED money => Kept
    BY <1>1
  <1>9. Spend => Kept
    <2> SUFFICES ASSUME Spend PROVE Kept
      OBVIOUS
    <2>1. PICK cost \in 1..(balance + MaxDebt) : balance' = balance - cost
      BY DEF Spend
    <2>2. taken' = taken /\ cost \in Int /\ 1 <= cost /\ cost <= balance + MaxDebt
      BY <1>1, <2>1 DEF Spend
    <2> QED BY <1>1, <2>1, <2>2
  <1> HIDE DEF Kept
  <1>5. ASSUME NEW a \in Admins, Execute(a) PROVE Kept
    <2>1. CASE DeductBalance(a) \/ DeductionFails(a) \/ RollbackRefund(a) \/ RollbackFails(a)
      BY <1>1, <1>2, <1>3, <1>4, <2>1 DEF DeductBalance, DeductionFails, RollbackRefund,
         RollbackFails
    <2> QED BY <1>4, <1>5, <2>1 DEF Execute, PrepareRefund, Lock, LockRefused, SkipDeduction,
         GwRefundSkipped, GwRefund, MarkRefundOk, NoteSuccess, NoteRollbackFailed,
         MarkRefundPending, NotePending, RestoreStatus,
         MarkRefundFailed
  <1>6. ASSUME NEW a \in Admins, Query(a) PROVE Kept
    <2>1. CASE FinalizePendingRefundSuccess(a)
      BY <1>1, <1>2, <1>3, <1>4, <2>1 DEF FinalizePendingRefundSuccess
    <2> QED BY <1>4, <1>6, <2>1 DEF Query, QueryAndFinalizeRefund, ReadPendingDetail,
         QueryRefund, FinalizeRefundFailed
  <1>7. CASE RequestRefund \/ ProviderSettles \/ UNCHANGED vars
    BY <1>4, <1>7 DEF RequestRefund, ProviderSettles, vars
  <1>8. ASSUME NEW a \in Admins, Crash(a) PROVE Kept
    BY <1>4, <1>8 DEF Crash
  <1>10. Kept
    BY <1>5, <1>6, <1>7, <1>8, <1>9 DEF Next
  <1> QED BY <1>10 DEF Kept

\* Nobody gives back what was not taken: the units stay covered.
LEMMA PurseStep == RefundTypes /\ RefundTypes' /\ PurseInv /\ [Next]_vars => PurseInv'
  <1> SUFFICES ASSUME RefundTypes, RefundTypes', PurseInv, [Next]_vars PROVE PurseInv'
    OBVIOUS
  <1>1. /\ balance \in Int /\ taken \in Int /\ pc \in [Admins -> Steps]
        /\ plan \in [Admins -> Plans] /\ balance' \in Int /\ taken' \in Int
        /\ IsFiniteSet(Coins) /\ Cardinality(Coins) <= taken
        /\ balance + taken <= MaxBalance /\ balance >= -MaxDebt
    BY DEF RefundTypes, PurseInv
  <1>2. \A a \in Admins : plan[a].take \in Nat /\ plan[a].take \in 0..Amount
                          /\ plan[a].amount \in Nat
    BY <1>1, PlanParts
  <1>3. balance' + taken' <= MaxBalance /\ balance' >= -MaxDebt
    <2>1. balance' + taken' <= balance + taken /\ balance' >= -MaxDebt
      BY <1>1, NoMoneyAppears
    <2>2. balance' + taken' \in Int /\ balance + taken \in Int /\ MaxBalance \in Int
      BY <1>1, RefundAssumption
    <2>3. \A x, y, z \in Int : x <= y /\ y <= z => x <= z
      OBVIOUS
    <2> QED BY <1>1, <2>1, <2>2, <2>3
  <1>4. \A b \in Admins : Holding(b) \in Nat
    BY <1>2 DEF Holding
  <1>5. \A m \in Nat : Deduct(m) => taken' >= taken /\ taken' = taken + Available(m)
                                    /\ Available(m) \in Nat /\ Available(m) <= m
    BY <1>1, WhatIsAvailable DEF Deduct
  <1> DEFINE Covered == IsFiniteSet(Coins') /\ Cardinality(Coins') <= taken'
             Eased == (\A b \in Admins : Holding(b)' <= Holding(b)) /\ taken' >= taken
  <1>6. Eased => Covered
    BY <1>1, NothingMoreHeld
  <1>7. ASSUME NEW a \in Admins, Execute(a) PROVE Covered
    <2>1. CASE DeductBalance(a)
      <3> DEFINE t == Available(plan[a].take)
      <3>1. t \in 0..Amount /\ taken' = taken + t
        <4>1. plan[a].take \in Nat /\ Deduct(plan[a].take)
          BY <1>2, <2>1 DEF DeductBalance
        <4>2. taken' = taken + t /\ t \in Nat /\ t <= plan[a].take
          BY <1>5, <4>1
        <4>3. \A x \in 0..Amount, y \in Nat : y <= x => y \in 0..Amount
          BY RefundAssumption
        <4> QED BY <1>2, <4>2, <4>3
      <3>2. /\ pc[a] = "deduct" /\ pc' = [pc EXCEPT ![a] = "gateway"]
            /\ plan' = [plan EXCEPT ![a].take = t]
        BY <2>1 DEF DeductBalance
      <3> HIDE DEF t
      <3>3. plan'[a].take = t /\ \A b \in Admins \ {a} : plan'[b] = plan[b]
        BY <1>1, <3>2 DEF Plans
      <3>4. Holding(a) = 0 /\ Holding(a)' = t /\ \A b \in Admins \ {a} : Holding(b)' = Holding(b)
        BY <1>1, <3>2, <3>3 DEF Holding
      <3> QED BY <1>1, <3>1, <3>4, Taking
    <2>2. CASE RollbackRefund(a)
      <3>1. /\ pc[a] = "rollback" /\ pc' = [pc EXCEPT ![a] = RolledBack(a)]
            /\ plan' = [plan EXCEPT ![a].take = 0] /\ taken' = taken - plan[a].take
        BY <2>2 DEF RollbackRefund, GiveBack
      <3>2. pc'[a] \notin {"gateway", "rollback"} /\ \A b \in Admins \ {a} : pc'[b] = pc[b]
        BY <1>1, <3>1 DEF RolledBack
      <3>3. \A b \in Admins \ {a} : plan'[b] = plan[b]
        BY <1>1, <3>1
      <3>4. /\ Holding(a) = plan[a].take /\ Holding(a)' = 0
            /\ \A b \in Admins \ {a} : Holding(b)' = Holding(b)
        BY <3>1, <3>2, <3>3 DEF Holding
      <3> QED BY <1>1, <1>2, <3>1, <3>4, GivingBack
    <2>3. CASE RollbackFails(a)
      <3>1. /\ pc[a] = "rollback"
            /\ pc' = [pc EXCEPT ![a] = "noteRollback"]
            /\ plan' = [plan EXCEPT ![a].detail.rollbackOK = FALSE]
            /\ taken' = taken \/ taken' = taken - plan[a].take
        BY <2>3 DEF RollbackFails, GiveBack
      <3>2. pc'[a] \notin {"gateway", "rollback"} /\ \A b \in Admins \ {a} : pc'[b] = pc[b]
        BY <1>1, <3>1
      <3>3. \A b \in Admins \ {a} : plan'[b] = plan[b]
        BY <1>1, <3>1
      <3>4. /\ Holding(a) = plan[a].take /\ Holding(a)' = 0
            /\ \A b \in Admins \ {a} : Holding(b)' = Holding(b)
        BY <3>1, <3>2, <3>3 DEF Holding
      <3>5. CASE taken' = taken
        <4>1. Eased
          BY <1>1, <1>4, <3>4, <3>5
        <4> QED BY <1>6, <4>1
      <3>6. CASE taken' = taken - plan[a].take
        BY <1>1, <1>2, <3>4, <3>6, GivingBack
      <3> QED BY <3>1, <3>5, <3>6
    <2>4. CASE GwRefund(a)
      <3>1. /\ pc[a] = "gateway" /\ taken' = taken
            /\ pc' \in {[pc EXCEPT ![a] = "succeed"], [pc EXCEPT ![a] = "rollback"]}
            /\ \/ plan' = plan
               \/ \E x : plan' = [plan EXCEPT ![a].answer = x]
        BY <2>4 DEF GwRefund, AfterAnswer
      <3>2. \A b \in Admins : plan'[b].take = plan[b].take
        BY <1>1, <3>1 DEF Plans
      <3>3. \A b \in Admins : Holding(b)' \in {Holding(b), 0}
        BY <1>1, <3>1, <3>2 DEF Holding
      <3> QED BY <1>1, <1>4, <1>6, <3>1, <3>3
    <2>5. CASE ~(DeductBalance(a) \/ RollbackRefund(a) \/ RollbackFails(a) \/ GwRefund(a))
      <3>1. \A b \in Admins \ {a} : pc'[b] = pc[b] /\ plan'[b] = plan[b]
        BY <1>1, <1>7, <2>5 DEF Execute, PrepareRefund, Lock, LockRefused, SkipDeduction,
           DeductionFails, GwRefundSkipped, MarkRefundOk, NoteSuccess, NoteRollbackFailed,
           MarkRefundPending, NotePending,
           RestoreStatus, MarkRefundFailed
      <3>2. Holding(a)' \in {0, Holding(a)}
        <4>1. CASE SkipDeduction(a)
          <5>1. plan'[a].take = 0
            BY <1>1, <4>1 DEF SkipDeduction, Plans
          <5> QED BY <5>1 DEF Holding
        <4>2. CASE ~SkipDeduction(a)
          BY <1>1, <1>7, <2>5, <4>2 DEF Holding, Execute, PrepareRefund, Lock, LockRefused,
             DeductionFails, GwRefundSkipped, MarkRefundOk, NoteSuccess, NoteRollbackFailed,
             MarkRefundPending, NotePending,
             RestoreStatus, MarkRefundFailed
        <4> QED BY <4>1, <4>2
      <3>3. taken' >= taken
        <4>1. taken' = taken \/ Deduct(plan[a].take)
          BY <1>7, <2>5 DEF Execute, PrepareRefund, Lock, LockRefused, SkipDeduction,
             DeductionFails, GwRefundSkipped, MarkRefundOk, NoteSuccess, NoteRollbackFailed,
             MarkRefundPending, NotePending,
             RestoreStatus, MarkRefundFailed
        <4>2. taken' = taken => taken' >= taken
          BY <1>1
        <4> QED BY <1>2, <1>5, <4>1, <4>2
      <3>4. \A b \in Admins : Holding(b)' \in {0, Holding(b)}
        BY <3>1, <3>2 DEF Holding
      <3> QED BY <1>4, <1>6, <3>3, <3>4
    <2> QED BY <2>1, <2>2, <2>3, <2>4, <2>5
  <1>8. ASSUME NEW a \in Admins, Query(a) \/ Crash(a) PROVE Covered
    <2>1. \A b \in Admins \ {a} : pc'[b] = pc[b] /\ plan'[b] = plan[b]
      BY <1>1, <1>8 DEF Query, Crash, QueryAndFinalizeRefund, ReadPendingDetail, QueryRefund,
         FinalizePendingRefundSuccess, FinalizeRefundFailed
    <2>2. Holding(a)' = 0
      BY <1>1, <1>8 DEF Holding, Query, Crash, QueryAndFinalizeRefund, ReadPendingDetail,
         QueryRefund, FinalizePendingRefundSuccess, FinalizeRefundFailed
    <2>3. taken' >= taken
      <3>1. taken' = taken \/ \E m \in Nat : Deduct(m)
        <4>1. 0 \in Nat /\ plan[a].amount \in Nat
          BY <1>2
        <4> QED BY <1>8, <4>1 DEF Query, Crash, QueryAndFinalizeRefund, ReadPendingDetail,
             QueryRefund, FinalizePendingRefundSuccess, FinalizeRefundFailed
      <3>2. taken' = taken => taken' >= taken
        BY <1>1
      <3> QED BY <1>5, <3>1, <3>2
    <2>4. \A b \in Admins : Holding(b)' \in {0, Holding(b)}
      BY <2>1, <2>2 DEF Holding
    <2> QED BY <1>4, <1>6, <2>3, <2>4
  <1>9. ASSUME RequestRefund \/ Spend \/ ProviderSettles \/ UNCHANGED vars PROVE Covered
    <2>1. UNCHANGED <<pc, plan, taken>>
      BY <1>9 DEF RequestRefund, Spend, ProviderSettles, vars
    <2>2. \A b \in Admins : Holding(b)' = Holding(b)
      BY <2>1 DEF Holding
    <2>3. taken' >= taken
      BY <1>1, <2>1
    <2>4. \A x \in Nat : x <= x
      OBVIOUS
    <2>5. \A b \in Admins : Holding(b)' <= Holding(b)
      BY <1>4, <2>2, <2>4
    <2>6. Eased
      BY <2>3, <2>5
    <2> QED BY <1>6, <2>6, Zenon
  <1> HIDE DEF Covered
  <1>10. Covered
    BY <1>7, <1>8, <1>9 DEF Next
  <1> QED BY <1>3, <1>10 DEF PurseInv, Covered

\* The account of what went wrong, and the record of success.
AuditTypes ==
    /\ successAudit \in BOOLEAN
    /\ faults \in 0..MaxFaults
    /\ past \subseteq Events

\* They too keep their types.
LEMMA AuditTypesStep == AuditTypes /\ [Next]_vars => AuditTypes'
  <1> SUFFICES ASSUME AuditTypes, [Next]_vars PROVE AuditTypes'
    OBVIOUS
  <1> DEFINE Noted == successAudit' = successAudit \/ successAudit' = TRUE
             Counted == SpendFault \/ faults' = faults
             Recorded == \E what \in Events : past' = past \/ past' = past \cup {what}
  <1>1. ASSUME NEW a \in Admins, Execute(a) PROVE Noted /\ Counted /\ Recorded
    BY <1>1 DEF Events, Execute, PrepareRefund, Lock, LockRefused, DeductBalance, SkipDeduction,
       DeductionFails, GwRefundSkipped, GwRefund, MarkRefundOk, NoteSuccess, RollbackRefund,
       RollbackFails, NoteRollbackFailed,
       MarkRefundPending, NotePending, RestoreStatus, MarkRefundFailed
  <1>2. ASSUME NEW a \in Admins, Query(a) PROVE Noted /\ Counted /\ Recorded
    BY <1>2 DEF Events, Query, QueryAndFinalizeRefund, ReadPendingDetail, QueryRefund,
       FinalizePendingRefundSuccess, FinalizeRefundFailed
  <1>3. Noted /\ Counted /\ Recorded
    BY <1>1, <1>2 DEF Events, Next, vars, RequestRefund, Spend, ProviderSettles, Crash
  <1>4. faults' \in 0..MaxFaults
    BY <1>3, RefundAssumption DEF AuditTypes
  <1>5. successAudit' \in BOOLEAN
    BY <1>3, Zenon DEF AuditTypes
  <1>6. past' \subseteq Events
    BY <1>3 DEF AuditTypes
  <1> QED BY <1>4, <1>5, <1>6 DEF AuditTypes

\* Every variable keeps its type, for any administrators, amounts and faults;
\* in particular no refund makes a deficit deeper than usage has made it, the
\* balance is never more than it was before the refunds, and nothing is given
\* back that was not taken.
THEOREM TypeCorrect == Spec => []TypeOK
  <1> DEFINE TypeInv == RefundTypes /\ PurseInv /\ AuditTypes
  <1>1. Init => TypeInv
    <2> SUFFICES ASSUME Init PROVE PurseInv /\ AuditTypes
      BY InitIInv DEF IInv
    <2>1. Coins = {}
      BY DEF Init, Coins, Holding
    <2>2. IsFiniteSet(Coins) /\ Cardinality(Coins) = 0
      BY <2>1, FS_EmptySet
    <2>3. PurseInv
      <3>1. balance = MaxBalance /\ taken = 0
        BY DEF Init
      <3>2. MaxBalance + 0 <= MaxBalance /\ MaxBalance >= -MaxDebt
        BY RefundAssumption
      <3> QED BY ONLY <2>2, <3>1, <3>2 DEF PurseInv
    <2>4. AuditTypes
      <3>1. successAudit \in BOOLEAN
        BY Zenon DEF Init
      <3> QED BY <3>1, RefundAssumption DEF Init, AuditTypes
    <2> QED BY <2>3, <2>4
  <1>2. TypeInv /\ [Next]_vars => TypeInv'
    BY TypesStep, PurseStep, AuditTypesStep
  <1>3. TypeInv => TypeOK
    <2> SUFFICES ASSUME TypeInv PROVE TypeOK
      OBVIOUS
    <2>1. taken \in Nat
      <3>1. Cardinality(Coins) \in Nat
        BY FS_CardinalityType DEF PurseInv
      <3> QED BY <3>1 DEF PurseInv, RefundTypes
    <2>2. balance \in -MaxDebt..MaxBalance
      BY <2>1, RefundAssumption DEF PurseInv, RefundTypes
    <2> QED BY <2>1, <2>2 DEF RefundTypes, AuditTypes, TypeOK
  <1> QED BY <1>1, <1>2, <1>3, PTL DEF Spec
=============================================================================

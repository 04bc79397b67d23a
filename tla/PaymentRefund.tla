---------------------------- MODULE PaymentRefund ----------------------------
(***************************************************************************)
(* Refunds of one completed balance order (payment_refund.go).  The user   *)
(* requests a refund; administrators execute it and, when the provider     *)
(* leaves it pending, query and finalise it later.  An execution takes the *)
(* status REFUNDING as its lock, deducts the user's balance, calls the     *)
(* provider and then completes, gives the balance back, or parks the order *)
(* in REFUND_PENDING.  What a later attempt knows of an earlier one is the *)
(* row and two audit records, unique per order and action.                 *)
(* The provider is one whose refunds are keyed by order and amount, as     *)
(* Stripe, WeChat Pay and Airwallex are called.                            *)
(***************************************************************************)
EXTENDS Integers, FiniteSets, FiniteSetsExt

CONSTANTS
    Admins,           \* administrators' requests that may run at a time
    Amount,           \* amount of the order
    Amounts,          \* refund amounts administrators ask for
    MaxBalance,       \* bound: the user's balance when the model starts
    MaxDebt,          \* bound: how far usage may overdraw it
    MaxFaults         \* bound: crashes, failed calls and lost answers

ASSUME RefundAssumption ==
    /\ Amount \in Nat \ {0}
    /\ Amounts \subseteq 1..Amount
    /\ {MaxBalance, MaxDebt} \subseteq Nat
    /\ MaxFaults \in Nat

VARIABLES
    status,          \* status column of the order's row
    traded,          \* does the row carry the provider's trade number
    refundAmount,    \* refund_amount column
    balance,         \* the user's balance, negative when overdrawn
    taken,           \* deducted for refunds of this order and not given back
    rollbackFailed,  \* is there an audit record REFUND_ROLLBACK_FAILED
    pendingAudit,    \* the audit record REFUND_PENDING, or NoAudit
    successAudit,    \* is there an audit record REFUND_SUCCESS
    refunds,         \* the provider's refund of each amount
    pc,              \* the step each administrator's request is about to take
    plan,            \* its RefundPlan
    faults,          \* faults so far
    past             \* history: which Events happened

row   == <<status, traded, refundAmount>>
money == <<balance, taken>>
audit == <<rollbackFailed, pendingAudit, successAudit>>
proc  == <<pc, plan, faults, past>>
vars  == <<row, money, audit, refunds, proc>>

\* REFUNDED stands for PARTIALLY_REFUNDED too: both are final.
Statuses == {"COMPLETED", "REFUND_REQUESTED", "REFUNDING", "REFUND_PENDING",
             "REFUND_FAILED", "REFUNDED"}

RefundableWithRefunded == {"COMPLETED", "REFUND_REQUESTED", "REFUND_PENDING",
                           "REFUND_FAILED", "REFUNDED"}

Refundable == {"COMPLETED", "REFUND_REQUESTED", "REFUND_PENDING",
               "REFUND_FAILED"}

\* id: the refund it concerns (0: none known); rollbackOK: was the deduction
\* of the attempt given back.
PendingDetail == [id : 0..Amount, rollbackOK : BOOLEAN]
NoAudit == [id |-> 0, rollbackOK |-> TRUE]

Locked   == {"deduct", "gateway", "succeed", "rollback", "noteRollback", "pend",
             "restore", "fail"}
Steps    == Locked \cup {"idle", "lock", "notePending", "noteSuccess",
                         "detail", "ask", "finalize", "finalizeFailed"}

\* from: status when the plan was made; take: BalanceToDeduct; answer: the
\* provider's.
Plans == [amount : 0..Amount, take : 0..Amount, from : Statuses,
          answer : {"none", "pending", "failed"}, detail : PendingDetail]
NoPlan == [amount |-> 0, take |-> 0, from |-> "COMPLETED", answer |-> "none",
           detail |-> NoAudit]

\* "parked": the order was left in REFUND_PENDING; "record": a failing read
\* overlooked an audit record; "unwritten": the record of a failed rollback was
\* lost; "effect": a call took effect and reported an error; "stale": a failed
\* refund was written over a status the query had not seen.
Events == {"parked", "record", "unwritten", "effect", "stale"}

TypeOK ==
    /\ status \in Statuses
    /\ traded \in BOOLEAN
    /\ refundAmount \in 0..Amount
    /\ balance \in -MaxDebt..MaxBalance
    /\ taken \in Nat
    /\ rollbackFailed \in BOOLEAN
    /\ pendingAudit \in PendingDetail
    /\ successAudit \in BOOLEAN
    /\ refunds \in [Amounts -> {"none", "pending", "success", "failed"}]
    /\ pc \in [Admins -> Steps]
    /\ plan \in [Admins -> Plans]
    /\ faults \in 0..MaxFaults
    /\ past \subseteq Events

Init ==
    /\ status = "COMPLETED"
    /\ traded \in BOOLEAN
    /\ refundAmount = 0
    /\ balance = MaxBalance
    /\ taken = 0
    /\ rollbackFailed = FALSE
    /\ pendingAudit = NoAudit
    /\ successAudit = FALSE
    /\ refunds = [m \in Amounts |-> "none"]
    /\ pc = [a \in Admins |-> "idle"]
    /\ plan = [a \in Admins |-> NoPlan]
    /\ faults = 0
    /\ past = {}

-----------------------------------------------------------------------------

At(a, l)   == pc[a] = l
Goto(a, l) == pc' = [pc EXCEPT ![a] = l]

\* The request ends; nothing of its plan outlives it.
Finish(a) ==
    /\ Goto(a, "idle")
    /\ plan' = [plan EXCEPT ![a] = NoPlan]

SpendFault ==
    /\ faults < MaxFaults
    /\ faults' = faults + 1

Fault == SpendFault /\ UNCHANGED past

Note(what) == past' = past \cup {what}

\* A call that took effect reports an error, or a read that fails is taken for
\* "no record".
Unseen(what) == SpendFault /\ Note(what)

NoFault == UNCHANGED <<faults, past>>

DeductOverdraws(m) ==
    /\ balance' = balance - m
    /\ taken' = taken + m

\* What can be taken of m: a balance that is overdrawn has nothing to give.
Available(m) == Min({m, Max({balance, 0})})

\* DeductAvailableBalance: one statement, which never makes a deficit deeper.
Deduct(m) ==
    /\ balance' = balance - Available(m)
    /\ taken' = taken + Available(m)

\* UpdateBalance.
GiveBack(m) ==
    /\ balance' = balance + m
    /\ taken' = taken - m

\* Added up over the refunds the provider accepted and has not failed.
Granted == MapThenSumSet(LAMBDA m : m, {m \in Amounts : refunds[m] \in {"pending", "success"}})

Returned == {m \in Amounts : refunds[m] = "success"}

-----------------------------------------------------------------------------
(* Mutants: plausible bugs that the properties below must reveal.          *)

LockUnguarded(a) ==
    /\ At(a, "lock")
    /\ status' = "REFUNDING"
    /\ Goto(a, "deduct")
    /\ UNCHANGED <<traded, refundAmount, money, audit, refunds, plan, faults, past>>

MayDeductAlways == TRUE

AfterAnswerUnvalidated(a, answer) == Goto(a, "succeed") /\ UNCHANGED plan

AfterAnswerUnknown(a, answer) ==
    /\ Goto(a, "rollback")
    /\ plan' = [plan EXCEPT ![a].answer = "failed"]

RollbackFailsSilently(a) ==
    /\ At(a, "rollback")
    /\ plan[a].take > 0
    /\ Fault
    /\ Goto(a, "restore")
    /\ UNCHANGED <<row, money, audit, refunds, plan>>

-----------------------------------------------------------------------------
(* The user, and the provider.                                             *)

RequestRefund ==
    /\ status = "COMPLETED"
    /\ balance >= Amount
    /\ status' = "REFUND_REQUESTED"
    /\ refundAmount' = Amount
    /\ UNCHANGED <<traded, money, audit, refunds, proc>>

\* deductUsageBillingBalance: usage is charged in full, below zero if need be,
\* so that the request in hand can be completed.
Spend ==
    /\ \E cost \in 1..(balance + MaxDebt) : balance' = balance - cost
    /\ UNCHANGED <<row, taken, audit, refunds, proc>>

ProviderSettles ==
    \E m \in Amounts :
        /\ refunds[m] = "pending"
        /\ \E s \in {"success", "failed"} :
               refunds' = [refunds EXCEPT ![m] = s]
        /\ UNCHANGED <<row, money, audit, proc>>

-----------------------------------------------------------------------------
(* PrepareRefund and ExecuteRefund.                                        *)

\* With force, or when told not to deduct, less than the amount is taken.
PrepareRefund(a) ==
    /\ At(a, "idle")
    /\ status \in Refundable
    /\ \E m \in Amounts, t \in 0..Amount :
           /\ t \in {0, Available(m)}
           /\ plan' = [plan EXCEPT ![a] =
                          [NoPlan EXCEPT !.amount = m, !.take = t, !.from = status]]
    /\ Goto(a, "lock")
    /\ UNCHANGED <<row, money, audit, refunds, faults, past>>

Lock(a) ==
    /\ At(a, "lock")
    /\ status \in Refundable
    /\ status' = "REFUNDING"
    /\ Goto(a, "deduct")
    /\ UNCHANGED <<traded, refundAmount, money, audit, refunds, plan, faults, past>>

LockRefused(a) ==
    /\ At(a, "lock")
    /\ status \notin Refundable
    /\ Finish(a)
    /\ UNCHANGED <<row, money, audit, refunds, faults, past>>

MayDeduct == ~rollbackFailed

DeductBalance(a) ==
    /\ At(a, "deduct")
    /\ \/ MayDeduct /\ NoFault
       \/ rollbackFailed /\ Unseen("record")
    /\ Deduct(plan[a].take)
    /\ plan' = [plan EXCEPT ![a].take = Available(@)]
    /\ Goto(a, "gateway")
    /\ UNCHANGED <<row, audit, refunds>>

SkipDeduction(a) ==
    /\ At(a, "deduct")
    /\ ~MayDeduct
    /\ plan' = [plan EXCEPT ![a].take = 0]
    /\ Goto(a, "gateway")
    /\ UNCHANGED <<row, money, audit, refunds, faults, past>>

\* The deduction reports an error: the attempt ends without a rollback.
DeductionFails(a) ==
    /\ At(a, "deduct")
    /\ MayDeduct /\ plan[a].take > 0
    /\ \/ Fault /\ UNCHANGED money
       \/ Unseen("effect") /\ Deduct(plan[a].take)
    /\ Goto(a, "restore")
    /\ UNCHANGED <<row, audit, refunds, plan>>

-----------------------------------------------------------------------------
(* gwRefund.  A refund of an amount exists once at the provider; asking    *)
(* again returns the one there is.  It refuses more than was paid.         *)

\* The states the provider's refund of m may have after the call.
Accepted(m) ==
    IF refunds[m] # "none" THEN {refunds[m]}
    ELSE {"none"} \cup
         (IF Granted + m <= Amount THEN {"success", "pending"} ELSE {})

\* A request that created nothing is an error; a failed refund is reported as
\* such, or as it was first, pending.
Answers(s) ==
    CASE s = "none"   -> {"failed"}
      [] s = "failed" -> {"failed"} \cup {"pending"}
      [] OTHER        -> {s}

AfterAnswer(a, answer) ==
    IF answer = "success"
    THEN Goto(a, "succeed") /\ UNCHANGED plan
    ELSE Goto(a, "rollback") /\ plan' = [plan EXCEPT ![a].answer = answer]

\* The row has no trade number: a refund that nobody is asked for succeeds.
GwRefundSkipped(a) ==
    /\ At(a, "gateway")
    /\ ~traded
    /\ Goto(a, "succeed")
    /\ UNCHANGED <<row, money, audit, refunds, plan, faults, past>>

GwRefund(a) ==
    /\ At(a, "gateway")
    /\ traded
    /\ LET m == plan[a].amount IN
       \E s \in Accepted(m) :
           /\ refunds' = [refunds EXCEPT ![m] = s]
           /\ \/ \E answer \in Answers(s) : AfterAnswer(a, answer) /\ NoFault
              \/ Unseen("effect") /\ AfterAnswer(a, "failed")
    /\ UNCHANGED <<row, money, audit>>

-----------------------------------------------------------------------------
(* finishRefund: markRefundOk, markRefundPending, handleGwFail.            *)

MarkRefundOk(a) ==
    /\ At(a, "succeed")
    /\ status' = "REFUNDED"
    /\ refundAmount' = plan[a].amount
    /\ Goto(a, "noteSuccess")
    /\ UNCHANGED <<traded, money, audit, refunds, plan, faults, past>>

NoteSuccess(a) ==
    /\ At(a, "noteSuccess")
    /\ successAudit' = TRUE
    /\ Finish(a)
    /\ UNCHANGED <<row, money, rollbackFailed, pendingAudit, refunds, faults, past>>

RolledBack(a) == IF plan[a].answer = "pending" THEN "pend" ELSE "restore"

RollbackRefund(a) ==
    /\ At(a, "rollback")
    /\ GiveBack(plan[a].take)
    /\ Goto(a, RolledBack(a))
    /\ plan' = [plan EXCEPT ![a].take = 0]
    /\ UNCHANGED <<row, audit, refunds, faults, past>>

\* The balance cannot be given back.
RollbackFails(a) ==
    /\ At(a, "rollback")
    /\ plan[a].take > 0
    /\ Goto(a, "noteRollback")
    /\ plan' = [plan EXCEPT ![a].detail.rollbackOK = FALSE]
    /\ \/ Fault /\ UNCHANGED money
       \/ Unseen("effect") /\ GiveBack(plan[a].take)
    /\ UNCHANGED <<row, audit, refunds>>

\* An audit record says so; writeAuditLog only logs that it could not be
\* written, and the attempt goes on.
NoteRollbackFailed(a) ==
    /\ At(a, "noteRollback")
    /\ \/ rollbackFailed' = TRUE /\ NoFault
       \/ UNCHANGED rollbackFailed /\ Unseen("unwritten")
    /\ Goto(a, IF plan[a].answer = "pending" THEN "pend" ELSE "fail")
    /\ UNCHANGED <<row, money, pendingAudit, successAudit, refunds, plan>>

MarkRefundPending(a) ==
    /\ At(a, "pend")
    /\ status' = "REFUND_PENDING"
    /\ refundAmount' = plan[a].amount
    /\ Note("parked")
    /\ Goto(a, "notePending")
    /\ UNCHANGED <<traded, money, audit, refunds, plan, faults>>

\* The index on order and action lets the first record in and no other.
NotePending(a) ==
    /\ At(a, "notePending")
    /\ pendingAudit' = IF pendingAudit = NoAudit
                       THEN [plan[a].detail EXCEPT !.id = plan[a].amount]
                       ELSE pendingAudit
    /\ Finish(a)
    /\ UNCHANGED <<row, money, rollbackFailed, successAudit, refunds, faults, past>>

RestoreStatus(a) ==
    /\ At(a, "restore")
    /\ status' = IF plan[a].from = "REFUND_REQUESTED" THEN "REFUND_REQUESTED"
                                                      ELSE "COMPLETED"
    /\ Finish(a)
    /\ UNCHANGED <<traded, refundAmount, money, audit, refunds, faults, past>>

MarkRefundFailed(a) ==
    /\ At(a, "fail")
    /\ status' = "REFUND_FAILED"
    /\ Finish(a)
    /\ UNCHANGED <<traded, refundAmount, money, audit, refunds, faults, past>>

-----------------------------------------------------------------------------
(* QueryAndFinalizeRefund.                                                 *)

QueryAndFinalizeRefund(a) ==
    /\ At(a, "idle")
    /\ status = "REFUND_PENDING"
    /\ plan' = [plan EXCEPT ![a] = [NoPlan EXCEPT !.amount = refundAmount,
                                                  !.from = status]]
    /\ Goto(a, "detail")
    /\ UNCHANGED <<row, money, audit, refunds, faults, past>>

\* A read that fails is taken for an order without a record.
ReadPendingDetail(a) ==
    /\ At(a, "detail")
    /\ \/ plan' = [plan EXCEPT ![a].detail = pendingAudit] /\ NoFault
       \/ UNCHANGED plan /\ Unseen("record")
    /\ Goto(a, "ask")
    /\ UNCHANGED <<row, money, audit, refunds>>

\* The refund asked about: the recorded one, else the one of the row's amount.
Asked(a) == IF plan[a].detail.id # 0 THEN plan[a].detail.id ELSE plan[a].amount

QueryRefund(a) ==
    /\ At(a, "ask")
    /\ CASE refunds[Asked(a)] = "success" -> Goto(a, "finalize") /\ UNCHANGED plan
         [] refunds[Asked(a)] = "failed"  -> Goto(a, "finalizeFailed") /\ UNCHANGED plan
         [] OTHER                         -> Finish(a)
    /\ UNCHANGED <<row, money, audit, refunds, faults, past>>

\* One transaction: claim the pending order, deduct, complete, record.
FinalizePendingRefundSuccess(a) ==
    /\ At(a, "finalize")
    /\ IF status = "REFUND_PENDING" /\ ~successAudit
       THEN /\ status' = "REFUNDED"
            /\ refundAmount' = plan[a].amount
            /\ Deduct(IF plan[a].detail.rollbackOK THEN plan[a].amount ELSE 0)
            /\ successAudit' = TRUE
       ELSE UNCHANGED <<row, money, successAudit>>
    /\ Finish(a)
    /\ UNCHANGED <<traded, rollbackFailed, pendingAudit, refunds, faults, past>>

\* The failure is written without a condition on the status.
FinalizeRefundFailed(a) ==
    /\ At(a, "finalizeFailed")
    /\ status' = "REFUND_FAILED"
    /\ IF status = "REFUND_PENDING" THEN UNCHANGED past ELSE Note("stale")
    /\ Finish(a)
    /\ UNCHANGED <<traded, refundAmount, money, audit, refunds, faults>>

-----------------------------------------------------------------------------

\* The request dies, or a call it cannot go on without fails before it took
\* effect.  An order it had locked stays REFUNDING.
Crash(a) ==
    /\ pc[a] # "idle"
    /\ Fault
    /\ Finish(a)
    /\ UNCHANGED <<row, money, audit, refunds>>

Execute(a) ==
    \/ PrepareRefund(a) \/ Lock(a) \/ LockRefused(a)
    \/ DeductBalance(a) \/ SkipDeduction(a) \/ DeductionFails(a)
    \/ GwRefundSkipped(a) \/ GwRefund(a)
    \/ MarkRefundOk(a) \/ NoteSuccess(a)
    \/ RollbackRefund(a) \/ RollbackFails(a) \/ NoteRollbackFailed(a)
    \/ MarkRefundPending(a) \/ NotePending(a)
    \/ RestoreStatus(a) \/ MarkRefundFailed(a)

Query(a) ==
    \/ QueryAndFinalizeRefund(a) \/ ReadPendingDetail(a) \/ QueryRefund(a)
    \/ FinalizePendingRefundSuccess(a) \/ FinalizeRefundFailed(a)

Next ==
    \/ RequestRefund \/ Spend \/ ProviderSettles
    \/ \E a \in Admins : Execute(a) \/ Query(a) \/ Crash(a)

Spec == Init /\ [][Next]_vars

-----------------------------------------------------------------------------
(* Properties.  The history names what the code does not survive: each     *)
(* property says which of the Events it holds in spite of.                 *)

\* REFUNDING is a lock: one request at a time is between taking it and writing
\* the outcome, and the order shows it, so that no status is restored over
\* another's work, whatever dies or goes unseen (ExecuteRefund's conditional
\* update), until a query writes a failed refund over a status it had not seen.
OneRefundAtATime ==
    "stale" \notin past =>
        \A a, b \in Admins : pc[a] \in Locked =>
            status = "REFUNDING" /\ (pc[b] \in Locked => a = b)

\* A refunded order stays refunded: no later attempt, query or rollback writes
\* over it (the unconditional writes of restoreStatus and markRefund*).
RefundedIsFinal ==
    [][status = "REFUNDED" /\ "stale" \notin past' => status' = "REFUNDED"]_vars

\* An order that carries the provider's trade number reads REFUNDED only if the
\* provider paid out the amount the row records as refunded.  Without one
\* gwRefund asks nobody, and the order is refunded in the books alone.  With
\* refunds of several amounts at the provider the one REFUND_PENDING record no
\* longer tells which is meant.
RefundedIsPaidOut ==
    traded /\ Cardinality({m \in Amounts : refunds[m] # "none"}) <= 1
        => (status = "REFUNDED" => refundAmount \in Returned)

\* Over all attempts together the user never loses more than the order's
\* amount, as far as the audit records can tell: not once a rollback failed in
\* an attempt the provider left pending, or in one that follows it.
TakenAtMostAmount ==
    past \subseteq {"parked"} /\ ~(rollbackFailed /\ "parked" \in past)
        => taken <= Amount

\* "Skip balance deduction on retry if previous attempt already deducted but
\* failed to roll back": pending or not, the retry deducts nothing.
RetryDeductsNothing == past \subseteq {"parked"} => taken <= Amount

\* Between attempts the balance is whole again, or an audit record says that
\* it is not: no deduction outlives a failed or parked attempt unnoticed,
\* unless that record was the one that could not be written.
NothingTakenAtRest ==
    past \cap {"effect", "unwritten", "stale"} = {} /\ status \notin {"REFUNDING", "REFUNDED"}
        => taken = 0 \/ rollbackFailed

\* Once the provider has paid out, the order no longer reads as if nothing had
\* happened: it is refunded, or still in the hands of an attempt.
NoFreeRefund ==
    past \cap {"effect", "parked"} = {}
        /\ status \in {"COMPLETED", "REFUND_REQUESTED", "REFUND_FAILED"}
        => Returned = {}
=============================================================================

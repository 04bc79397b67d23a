---------------------------- MODULE PaymentOrder ----------------------------
(***************************************************************************)
(* One payment order of sub2api, from its creation to its fulfilment.      *)
(* Webhook deliveries, the leader-elected expiry sweeper and the requests  *)
(* of users and administrators race on the row of the order.  Every action *)
(* is one database statement, one transaction or one provider call of      *)
(* payment_order.go, payment_order_lifecycle.go, payment_fulfillment.go    *)
(* and redeem_service.go; anything may happen between two of them.         *)
(* Refunds start from COMPLETED and are the subject of PaymentRefund.      *)
(***************************************************************************)
EXTENDS Naturals, FiniteSets

CONSTANTS
    Deliveries,     \* webhook requests the server may be handling at a time
    Sweepers,       \* the expiry service's run (at most one: leader lock)
    Clients,        \* requests of the user and of administrators
    MaxFaults,      \* bound: crashes, failed calls and stalls in a behaviour
    SwallowedReads  \* may a read fail whose error the code swallows?

Workers == Deliveries \cup Sweepers \cup Clients

ASSUME OrderAssumption ==
    /\ MaxFaults \in Nat
    /\ SwallowedReads \in BOOLEAN

VARIABLES
    status,     \* status column of the order's row
    paidAt,     \* is paid_at set
    aged,       \* have five minutes passed since updated_at
    holders,    \* workers whose lease.version equals the row's updated_at
    orderType,  \* order_type column: "balance" or "subscription"
    creation,   \* CreateOrder: "calling" the provider, "delivered", "failed"
    payment,    \* what the provider collected: "none", "paid" or "mispaid"
    closed,     \* has CancelPayment closed the payment at the provider
    timedOut,   \* has expires_at passed
    hook,       \* notification: "none", "due" or "acked" by a 2xx
    code,       \* the order's redeem code: "none", "unused" or "used"
    granted,    \* times the balance was credited or the subscriptions assigned
    rebated,    \* times the affiliate rebate of the order was settled
    pc,         \* the step each worker is about to take
    task,       \* what each worker was started for
    faults      \* faults so far

row    == <<status, paidAt, aged, holders>>
env    == <<orderType, creation, payment, closed, timedOut, hook>>
ledger == <<code, granted, rebated>>
proc   == <<pc, task, faults>>
vars   == <<row, env, ledger, proc>>

Statuses == {"PENDING", "PAID", "RECHARGING", "COMPLETED",
             "EXPIRED", "CANCELLED", "FAILED"}
Tasks    == {"none", "webhook", "cancel", "expire", "verify",
             "reconcile", "retry"}

\* Steps between acquiring the fulfilment lease and giving it up.
LeaseSteps == {"reload", "lookup", "create", "redeem", "assign", "rebate",
               "complete", "beaten", "fail"}
Steps == LeaseSteps \cup
         {"idle", "query", "close", "cancel", "persist", "confirm",
          "already", "lease", "refused", "done", "error"}

TypeOK ==
    /\ status \in Statuses
    /\ paidAt \in BOOLEAN
    /\ aged \in BOOLEAN
    /\ holders \in SUBSET Workers
    /\ orderType \in {"balance", "subscription"}
    /\ creation \in {"calling", "delivered", "failed"}
    /\ payment \in {"none", "paid", "mispaid"}
    /\ closed \in BOOLEAN
    /\ timedOut \in BOOLEAN
    /\ hook \in {"none", "due", "acked"}
    /\ code \in {"none", "unused", "used"}
    /\ granted \in Nat
    /\ rebated \in Nat
    /\ pc \in [Workers -> Steps]
    /\ task \in [Workers -> Tasks]
    /\ faults \in 0..MaxFaults

Init ==
    /\ status = "PENDING"
    /\ paidAt = FALSE
    /\ aged = FALSE
    /\ holders = {}
    /\ orderType \in {"balance", "subscription"}
    /\ creation = "calling"
    /\ payment = "none"
    /\ closed = FALSE
    /\ timedOut = FALSE
    /\ hook = "none"
    /\ code = "none"
    /\ granted = 0
    /\ rebated = 0
    /\ pc = [w \in Workers |-> "idle"]
    /\ task = [w \in Workers |-> "none"]
    /\ faults = 0

-----------------------------------------------------------------------------
(* Statements on the row.  Every update gives updated_at a value it never  *)
(* had, so the versions workers hold stop matching and the row is young.   *)

WriteRow(s) ==
    /\ status' = s
    /\ aged' = FALSE
    /\ holders' = {}

(* Control of a worker.  Outcome: a write succeeds and the worker goes on, *)
(* or it is committed but its caller sees an error (lost acknowledgement,  *)
(* a failing read or cache invalidation after the commit).                 *)

At(w, l) == pc[w] = l

Goto(w, l) == pc' = [pc EXCEPT ![w] = l]

Fault ==
    /\ faults < MaxFaults
    /\ faults' = faults + 1

Outcome(w, next, onError) ==
    /\ UNCHANGED task
    /\ \/ Goto(w, next) /\ UNCHANGED faults
       \/ Goto(w, onError) /\ Fault

Start(w, t, l) ==
    /\ At(w, "idle")
    /\ task' = [task EXCEPT ![w] = t]
    /\ Goto(w, l)
    /\ UNCHANGED <<row, env, ledger, faults>>

Step(w, l) ==
    /\ Goto(w, l)
    /\ UNCHANGED <<task, faults>>

-----------------------------------------------------------------------------
(* Mutants: plausible bugs that the properties below must reveal.          *)

MayCancelByUserOnly(w) == task[w] = "cancel"

CancelCoreBadStatus(w) ==
    /\ At(w, "cancel")
    /\ status = "PENDING" /\ WriteRow("CLOSED")
    /\ Step(w, "done")
    /\ UNCHANGED <<paidAt, env, ledger>>

CancelCoreUnguarded(w) ==
    /\ At(w, "cancel")
    /\ WriteRow(IF task[w] = "expire" THEN "EXPIRED" ELSE "CANCELLED")
    /\ Step(w, "done")
    /\ UNCHANGED <<paidAt, env, ledger>>

AmountUnchecked == payment # "none"

LeasableWithoutTakeover == status \in {"PAID", "FAILED"}

GetByCodeSkipsRebate(w) ==
    /\ At(w, "lookup")
    /\ Step(w, CASE code = "none"   -> "create"
                 [] code = "unused" -> "redeem"
                 [] code = "used"   -> "complete")
    /\ UNCHANGED <<row, env, ledger>>

RedeemUnguarded(w) ==
    /\ At(w, "redeem")
    /\ code' = "used"
    /\ granted' = granted + 1
    /\ Outcome(w, "rebate", "fail")
    /\ UNCHANGED <<row, env, rebated>>

AssignUnguarded(w) ==
    /\ At(w, "assign")
    /\ granted' = granted + 1
    /\ Outcome(w, "rebate", "fail")
    /\ UNCHANGED <<row, env, code, rebated>>

HoldsLeaseByStatus(w) == status = "RECHARGING"

-----------------------------------------------------------------------------
(* The provider, the customer and the clock.                               *)

\* CreateOrder: the provider accepted the payment and its details were saved.
DeliverOrder ==
    /\ creation = "calling"
    /\ creation' = "delivered"
    /\ WriteRow(status)
    /\ UNCHANGED <<paidAt, orderType, payment, closed, timedOut, hook, ledger, proc>>

\* CreateOrder: invokeProvider failed; the row becomes FAILED whatever it was,
\* if that write does not fail too.  The provider may have made the payment and
\* only its details could not be saved: the customer gets an error instead of
\* them, and an order's PaymentOrderResult has no URL, so nobody can pay it.
FailCreation ==
    /\ creation = "calling"
    /\ creation' = "failed"
    /\ \/ WriteRow("FAILED") /\ UNCHANGED faults
       \/ UNCHANGED <<status, aged, holders>> /\ Fault
    /\ UNCHANGED <<paidAt, orderType, payment, closed, timedOut, hook, ledger, pc, task>>

\* The customer pays, perhaps another amount, and a notification is due.
CustomerPays ==
    /\ creation = "delivered" /\ payment = "none" /\ ~closed
    /\ payment' \in {"paid", "mispaid"}
    /\ hook' = "due"
    /\ UNCHANGED <<row, orderType, creation, closed, timedOut, ledger, proc>>

Timeout ==
    /\ ~timedOut
    /\ timedOut' = TRUE
    /\ UNCHANGED <<row, orderType, creation, payment, closed, hook, ledger, proc>>

LeaseInUse == \E w \in Workers : pc[w] \in LeaseSteps

\* Five minutes pass while no worker is inside a fulfilment.
Age ==
    /\ ~aged /\ ~LeaseInUse
    /\ aged' = TRUE
    /\ UNCHANGED <<status, paidAt, holders, env, ledger, proc>>

\* A worker stalls for five minutes inside a fulfilment.
Stall ==
    /\ ~aged /\ LeaseInUse
    /\ aged' = TRUE
    /\ Fault
    /\ UNCHANGED <<status, paidAt, holders, env, ledger, pc, task>>

-----------------------------------------------------------------------------
(* What starts a worker.                                                   *)

\* The provider delivers until it gets a 2xx, and may deliver once more.
Webhook(w) ==
    /\ w \in Deliveries
    /\ hook # "none"
    /\ Start(w, "webhook", "confirm")

CancelOrder(w) ==
    /\ w \in Clients
    /\ status = "PENDING"
    /\ Start(w, "cancel", "query")

VerifyOrderByOutTradeNo(w) ==
    /\ w \in Clients
    /\ status \in {"PENDING", "EXPIRED"}
    /\ Start(w, "verify", "query")

RetryFulfillment(w) ==
    /\ w \in Clients
    /\ paidAt
    /\ status \in {"FAILED", "PAID", "RECHARGING"}
    /\ Start(w, "retry", "lease")

ReconcilePendingPaymentOrders(w) ==
    /\ w \in Sweepers
    /\ status = "PENDING" /\ ~timedOut
    /\ Start(w, "reconcile", "query")

ExpireTimedOutOrders(w) ==
    /\ w \in Sweepers
    /\ status = "PENDING" /\ timedOut
    /\ Start(w, "expire", "query")

-----------------------------------------------------------------------------
(* checkPaid and cancelCore.                                               *)

MayCancel(w) == task[w] \in {"cancel", "expire"}

\* The provider's answer.  The upstream trade number is saved only when it is
\* new to the row, which depends on the provider.
QueryOrder(w) ==
    /\ At(w, "query")
    /\ \/ /\ payment # "none"
          /\ \E l \in {"persist", "confirm"} : Step(w, l)
       \/ /\ payment = "none"
          /\ Step(w, IF MayCancel(w) THEN "close" ELSE "done")
    /\ UNCHANGED <<row, env, ledger>>

\* CancelPayment is best effort, and not every provider has it.
CancelPayment(w) ==
    /\ At(w, "close")
    /\ closed' \in {closed, payment = "none"}
    /\ Step(w, "cancel")
    /\ UNCHANGED <<row, orderType, creation, payment, timedOut, hook, ledger>>

CancelCore(w) ==
    /\ At(w, "cancel")
    /\ IF status = "PENDING"
       THEN WriteRow(IF task[w] = "expire" THEN "EXPIRED" ELSE "CANCELLED")
       ELSE UNCHANGED <<status, aged, holders>>
    /\ Step(w, "done")
    /\ UNCHANGED <<paidAt, env, ledger>>

\* The trade number is written without a condition on the row's status.
PersistTradeNo(w) ==
    /\ At(w, "persist")
    /\ WriteRow(status)
    /\ Step(w, "confirm")
    /\ UNCHANGED <<paidAt, env, ledger>>

-----------------------------------------------------------------------------
(* HandlePaymentNotification: confirmPayment, toPaid, alreadyProcessed.    *)

AmountMatches == payment = "paid"

\* Another amount is reported as an error; the row is not touched.
RejectAmount(w) ==
    /\ At(w, "confirm")
    /\ ~AmountMatches
    /\ Step(w, "error")
    /\ UNCHANGED <<row, env, ledger>>

Payable == status \in {"PENDING", "CANCELLED"} \/ (status = "EXPIRED" /\ ~aged)

ToPaid(w) ==
    /\ At(w, "confirm")
    /\ AmountMatches
    /\ IF Payable
       THEN /\ WriteRow("PAID")
            /\ paidAt' = TRUE
            /\ Outcome(w, "lease", "error")
       ELSE /\ UNCHANGED row
            /\ Step(w, "already")
    /\ UNCHANGED <<env, ledger>>

\* An order past its grace period is audited and the notification accepted.
AlreadyProcessed(w) ==
    /\ At(w, "already")
    /\ Step(w, IF status \in {"PAID", "RECHARGING", "FAILED"}
               THEN "lease" ELSE "done")
    /\ UNCHANGED <<row, env, ledger>>

-----------------------------------------------------------------------------
(* The fulfilment lease.                                                   *)

Leasable == status \in {"PAID", "FAILED"} \/ (status = "RECHARGING" /\ aged)

\* One conditional update; the caller has checked the status it read before.
AcquireLease(w) ==
    /\ At(w, "lease")
    /\ IF Leasable
       THEN WriteRow("RECHARGING") /\ Outcome(w, "reload", "error")
       ELSE UNCHANGED <<status, aged, holders>> /\ Step(w, "refused")
    /\ UNCHANGED <<paidAt, env, ledger>>

LeaseRefused(w) ==
    /\ At(w, "refused")
    /\ Step(w, IF status = "COMPLETED" THEN "done" ELSE "error")
    /\ UNCHANGED <<row, env, ledger>>

\* The version is read back from the row, in a statement of its own.
ReloadLease(w) ==
    /\ At(w, "reload")
    /\ IF status = "RECHARGING"
       THEN /\ holders' = holders \cup {w}
            /\ Step(w, IF orderType = "balance" THEN "lookup" ELSE "assign")
       ELSE /\ UNCHANGED holders
            /\ Step(w, "error")
    /\ UNCHANGED <<status, paidAt, aged, env, ledger>>

-----------------------------------------------------------------------------
(* doBalance and doSub.                                                    *)

GetByCode(w) ==
    /\ At(w, "lookup")
    /\ Step(w, CASE code = "none"   -> "create"
                 [] code = "unused" -> "redeem"
                 [] code = "used"   -> "rebate")
    /\ UNCHANGED <<row, env, ledger>>

\* The code is unique: a second insertion fails.
CreateCode(w) ==
    /\ At(w, "create")
    /\ IF code = "none"
       THEN code' = "unused" /\ Outcome(w, "redeem", "fail")
       ELSE UNCHANGED code /\ Step(w, "fail")
    /\ UNCHANGED <<row, env, granted, rebated>>

\* Marking the code as used and crediting the balance is one transaction.
Redeem(w) ==
    /\ At(w, "redeem")
    /\ IF code = "unused"
       THEN /\ code' = "used"
            /\ granted' = granted + 1
            /\ Outcome(w, "rebate", "fail")
       ELSE /\ UNCHANGED <<code, granted>>
            /\ Step(w, "fail")
    /\ UNCHANGED <<row, env, rebated>>

\* The assignment and its audit row are one transaction; an order whose audit
\* row exists is not assigned again.
AssignSubscriptions(w) ==
    /\ At(w, "assign")
    /\ granted' = IF granted = 0 THEN 1 ELSE granted
    /\ Outcome(w, "rebate", "fail")
    /\ UNCHANGED <<row, env, code, rebated>>

\* Claiming the rebate's audit row and accruing it is one transaction.
ApplyAffiliateRebate(w) ==
    /\ At(w, "rebate")
    /\ rebated' = IF rebated = 0 THEN 1 ELSE rebated
    /\ Outcome(w, "complete", "fail")
    /\ UNCHANGED <<row, env, code, granted>>

HoldsLease(w) == status = "RECHARGING" /\ w \in holders

MarkCompleted(w) ==
    /\ At(w, "complete")
    /\ IF HoldsLease(w)
       THEN WriteRow("COMPLETED") /\ Outcome(w, "done", "fail")
       ELSE UNCHANGED <<status, aged, holders>> /\ Step(w, "beaten")
    /\ UNCHANGED <<paidAt, env, ledger>>

LeaseLost(w) ==
    /\ At(w, "beaten")
    /\ Step(w, IF status = "COMPLETED" THEN "done" ELSE "fail")
    /\ UNCHANGED <<row, env, ledger>>

MarkFailed(w) ==
    /\ At(w, "fail")
    /\ IF HoldsLease(w)
       THEN WriteRow("FAILED")
       ELSE UNCHANGED <<status, aged, holders>>
    /\ Step(w, "error")
    /\ UNCHANGED <<paidAt, env, ledger>>

\* A webhook is answered 200 on success and 500 on error; checkPaid discards
\* the error of the fulfilment.
Reply(w) ==
    /\ pc[w] \in {"done", "error"}
    /\ Goto(w, "idle")
    /\ task' = [task EXCEPT ![w] = "none"]
    /\ hook' = IF At(w, "done") /\ task[w] = "webhook" THEN "acked" ELSE hook
    /\ holders' = holders \ {w}
    /\ UNCHANGED <<status, paidAt, aged, orderType, creation, payment, closed,
                   timedOut, ledger, faults>>

-----------------------------------------------------------------------------
(* Faults.                                                                 *)

\* Where a worker goes when the call it is about to make fails.
OnError(l) ==
    CASE l = "query"                         -> "cancel"
      [] l = "persist"                       -> "confirm"
      [] l \in LeaseSteps \ {"reload", "fail"} -> "fail"
      [] OTHER                               -> "error"

CallFails(w) ==
    /\ pc[w] \notin {"idle", "close", "done", "error"}
    /\ Goto(w, IF At(w, "query") /\ ~MayCancel(w) THEN "done"
               ELSE OnError(pc[w]))
    /\ Fault
    /\ UNCHANGED <<row, env, ledger, task>>

\* confirmPayment and alreadyProcessed report success when they cannot read
\* the order.
SwallowReadError(w) ==
    /\ SwallowedReads
    /\ pc[w] \in {"confirm", "already"}
    /\ Goto(w, "done")
    /\ Fault
    /\ UNCHANGED <<row, env, ledger, task>>

\* The process dies, between any two steps, and forgets its lease.
Crash(w) ==
    /\ ~At(w, "idle")
    /\ Goto(w, "idle")
    /\ task' = [task EXCEPT ![w] = "none"]
    /\ holders' = holders \ {w}
    /\ Fault
    /\ UNCHANGED <<status, paidAt, aged, env, ledger>>

-----------------------------------------------------------------------------
(* The specification.                                                      *)

Environment ==
    DeliverOrder \/ FailCreation \/ CustomerPays \/ Timeout \/ Age \/ Stall

Begin(w) ==
    \/ Webhook(w) \/ CancelOrder(w) \/ VerifyOrderByOutTradeNo(w)
    \/ RetryFulfillment(w) \/ ReconcilePendingPaymentOrders(w)
    \/ ExpireTimedOutOrders(w)

Work(w) ==
    \/ QueryOrder(w) \/ CancelPayment(w) \/ CancelCore(w) \/ PersistTradeNo(w)
    \/ RejectAmount(w) \/ ToPaid(w) \/ AlreadyProcessed(w)
    \/ AcquireLease(w) \/ LeaseRefused(w) \/ ReloadLease(w)
    \/ GetByCode(w) \/ CreateCode(w) \/ Redeem(w) \/ AssignSubscriptions(w)
    \/ ApplyAffiliateRebate(w) \/ MarkCompleted(w) \/ LeaseLost(w)
    \/ MarkFailed(w) \/ Reply(w)

Failure(w) == CallFails(w) \/ SwallowReadError(w) \/ Crash(w)

Next ==
    \/ Environment
    \/ \E w \in Workers : Begin(w) \/ Work(w) \/ Failure(w)

\* A provider redelivers until it gets a 2xx, the expiry service ticks, a
\* started request keeps running unless it fails, and time passes.  Nobody is
\* obliged to pay, to cancel, to verify or to retry.
Fairness ==
    /\ \A w \in Workers : WF_vars(Work(w))
    /\ WF_vars(hook = "due" /\ \E w \in Deliveries : Webhook(w))
    /\ WF_vars(\E w \in Sweepers : ExpireTimedOutOrders(w))
    /\ WF_vars(Timeout)
    /\ WF_vars(Age)

Spec == Init /\ [][Next]_vars

FairSpec == Spec /\ Fairness

-----------------------------------------------------------------------------
(* Safety.                                                                 *)

\* However often the order is delivered, retried, taken over or cut short by
\* a crash, its customer is credited (or its subscriptions extended) once.
CreditedAtMostOnce == granted <= 1

\* Nothing is credited and no rebate is accrued for an order whose amount the
\* provider has not collected.
CreditNeedsPayment == granted + rebated > 0 => payment = "paid"

\* COMPLETED is written only when the credit and the rebate are both settled,
\* by whichever worker holds the lease at that moment.
CompletedIsSettled ==
    status = "COMPLETED" => paidAt /\ granted = 1 /\ rebated = 1

\* Once paid_at is set no cancellation, expiry or late creation failure takes
\* the order out of the states a retry can complete.
PaidStaysRecoverable ==
    paidAt => status \in {"PAID", "RECHARGING", "COMPLETED", "FAILED"}

\* An order in fulfilment changes its status only by the hand of a worker
\* whose lease version is the row's.
OnlyHolderEndsFulfillment ==
    [][(status = "RECHARGING" /\ status' # status) =>
         \E w \in holders : pc[w] \in {"complete", "fail"} /\ pc'[w] # pc[w]]_vars

-----------------------------------------------------------------------------
(* The order implements the ledger.                                        *)

Ledger == INSTANCE PaymentLedger WITH
              collected <- payment = "paid",
              credits   <- granted,
              rebates   <- rebated,
              completed <- status = "COMPLETED"

\* Through every race, takeover and crash the order moves as the ledger does:
\* collect, credit once, settle the rebate once, complete.
ImplementsLedger == Ledger!Spec

-----------------------------------------------------------------------------
(* Liveness, under FairSpec.                                               *)

\* A paid order whose notification has not been accepted, and is not about to
\* be, is fulfilled, whatever fails on the way and whoever holds the lease.
PaidOrderIsFulfilled ==
    (paidAt /\ hook = "due" /\ \A w \in Deliveries : ~At(w, "done"))
        ~> status = "COMPLETED"

\* A timed-out order leaves PENDING, unless a wrong amount was paid: then the
\* sweeper takes it for paid for ever and never expires it.
TimedOutLeavesPending ==
    timedOut ~> (status # "PENDING" \/ payment = "mispaid")
=============================================================================

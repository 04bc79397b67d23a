# Verification of sub2api

sub2api is a relay and billing platform for AI APIs: a Go backend (`src/backend`) over PostgreSQL
and Redis, and a Vue frontend. Several instances of the backend run side by side behind a load
balancer; what keeps them consistent is conditional SQL updates, unique indexes, Lua scripts in
Redis, leases and outbox tables. That control logic is what this directory models in TLA+, checks
with TLC on small instances and, where it matters most, proves with TLAPS for all instances.

## 1. Inventory

| Component | State | Operations | Talks to | Hard behaviour |
|---|---|---|---|---|
| **Payment orders and fulfilment** (`service/payment_order*.go`, `payment_fulfillment.go`, `redeem_service.go`) | `payment_orders` row (status, `updated_at` as lease version), redeem codes, `payment_audit_logs` | create, webhook, cancel, verify, reconcile, expire, fulfil, retry | providers, redeem codes, subscriptions, affiliate rebates | takeover of a stalled fulfilment, crash between credit and completion, late or duplicated callbacks |
| **Payment refunds** (`payment_refund.go`) | same row, user balance, audit rows used as memory | request, prepare, execute, query-and-finalise, roll back | providers, balances, subscriptions | partial failure after deduction, pending refunds, retries |
| **Idempotency coordinator** (`idempotency.go`, `repository/idempotency_repo.go`) | `idempotency_records` (status, `locked_until`, `expires_at`) | claim, renew, succeed, fail, replay, sweep | every mutating API | lease expiry under a slow owner, unconditional writes by id |
| **Concurrency slots** (`concurrency_service.go`, `repository/concurrency_cache.go`) | Redis sorted sets of slots and live leases per account and user, wait counters | acquire, release, trade a slot for a lease, wait, clean up | gateway handlers, live calls | crash of a holder, clean-up against live holders, a slot older than its life, counter drift |
| **Live calls** (`openai_live.go`, `repository/gateway_cache.go`) | the stored call in Redis (controller, owner), a lease, the session at the provider | create, observe, take over, give back, refresh, finalise | concurrency slots, provider, usage log | hand-over between observers and proxies, failing Redis, crash of the controller |
| **OAuth token refresh** (`oauth_refresh_api.go`, `token_refresh_service.go`) | account credentials with `_token_version`, Redis lock | refresh if needed, background refresh, invalidate | OAuth providers, scheduler cache | rotating refresh tokens, lock expiry, stale overwrite |
| **Usage billing** (`usage_billing.go`, `repository/usage_billing_repo.go`) | `usage_billing_dedup`, balances, quotas | apply once, archive | gateway, billing cache | retried request, fingerprint conflict |
| **Billing cache and quota flusher** (`billing_cache_service.go`, `user_platform_quota_flusher.go`) | Redis balances and counters, dirty sets | queue write, deduct, flush, requeue | usage billing | lost or double flush, stale cache |
| **Batch image jobs** (`batch_image_*.go`) | job rows with lease, Redis queue, balance hold | submit, claim, poll, settle, cancel, clean | providers, balances | lease loss, settlement after crash |
| **Scheduler snapshot and outbox** (`scheduler_snapshot_service.go`, `repository/scheduler_cache.go`, `scheduler_outbox_repo.go`) | outbox rows, watermark, versioned snapshots in Redis | publish, poll, rebuild bucket, full rebuild | account repository | out-of-order commits, old snapshot over new |
| **API-key auth cache** (`api_key_auth_cache_impl.go`, `auth_cache_invalidation_outbox.go`) | L1, Redis L2, outbox, pub/sub | lookup, load, invalidate, drain | user/key/group mutations | stale fill after invalidation, lost pub/sub |
| **User message queue** (`user_msg_queue_service.go`, `repository/user_msg_queue_cache.go`) | Redis lock per account, last completion time | try acquire, wait, release, reconcile | gateway | lost release, TTL |
| **Usage record worker pool** (`usage_record_worker_pool.go`) | bounded queue, worker count | submit with overflow policy, scale, stop | gateway | drop/sync/sample at the limit, stop while submitting |
| **System operation lock** (`system_operation_lock_service.go`) | idempotency record used as a lock | acquire, renew, release | updates, restores | lease loss |
| **OpenAI WebSocket pool** (`openai_ws_pool.go`) | connections, leases, per-account limits | acquire, release, evict, prewarm | upstream | limits under concurrent dial |
| **Prompt audit queue** (`securityaudit/`) | job table with claims | enqueue, claim, complete, retry | gateway | reclaim of a slow worker |
| **Refresh token rotation** (`auth_service.go`) | token families in Redis | login, rotate, revoke family | frontend | replayed token |
| **Subscriptions** (`subscription_service.go`) | `user_subscriptions` rows, windows | assign, extend, revoke, window reset | payment, billing | concurrent extension |
| **Leader lock** (`leader_lock.go`) | Redis key / advisory lock | acquire, release | periodic jobs | TTL shorter than the job |
| Gateway relay, account scheduler, rate limiting, content moderation, channel monitor, plugin runtime, ops, invoices, affiliate, promo codes, image tasks, frontend, deployment | – | – | – | see PROJECT.json for why each is not modelled |

What makes each component correct is listed with it in section 4 (built) and section 5 (planned).
`PROJECT.json` lists the hazards line by line.

## 2. Modules

| Module | What it is | Extends |
|---|---|---|
| `PaymentLedger` | what an order promises: collect, credit once, settle the rebate once, complete | – |
| `PaymentOrder` | one order: row, provider, webhook deliveries, sweeper, users and administrators | instance of `PaymentLedger` as its refinement |
| `PaymentOrder_proofs` | theorems about `PaymentOrder` | `PaymentOrder`, `TLAPS` |
| `PaymentRefund` | refunds of one completed order: administrators, provider, balance, audit records | – |
| `IdempotencyStore` | one row of `idempotency_records`, its SQL statements, the lease of a claimant, a clock | – |
| `Idempotency` | the coordinator that guards mutating requests | `IdempotencyStore` |
| `SystemOperationLock` | the lock of update, rollback and restart | `IdempotencyStore` |
| `SchedulerSnapshot` | one scheduler bucket in Redis: outbox, watermark, bucket lock, epochs, snapshot versions, group lifecycle | – |
| `BatchImage` | one batch image job and the user's frozen money: submission, workers, settlement, cancellation, recovery sweep, queue | – |
| `OAuthRefresh` | the refresh of one account's rotating token by cycles and requests of several instances, beside an administrator | – |
| `PaymentRefund_proofs`, `Idempotency_proofs`, `SystemOperationLock_proofs`, `SchedulerSnapshot_proofs`, `BatchImage_proofs`, `OAuthRefresh_proofs` | theorems about the module named | that module, `TLAPS`; the refunds and the scheduler also `FiniteSetTheorems` |
| `ConcurrencySlots` | the slots and live leases of one account, requests that compete for them, the instances | – |
| `LiveCall` | one live call from its slot to its usage log, among the requests of `ConcurrencySlots` | `ConcurrencySlots` |
| `LiveCall_proofs` | how a call is settled, that calls and requests stay within the account's limit | `LiveCall`, `FiniteSetTheorems`, `TLAPS` |
| `MCPaymentOrder`, `MCPaymentRefund`, `MCIdempotency`, `MCSystemOperationLock`, `MCSchedulerSnapshot`, `MCBatchImage`, `MCOAuthRefresh`, `MCLiveCall` | instances for TLC | the module named |

Operators named after another one and placed before it (`LockUnguarded`, `DispatchTakesLapsed`, ...)
are mutants: the plausible bugs with which each property was tested.

### How state and actions correspond to the code

*One action is one SQL statement, one transaction, one Redis call or one provider call, with the
local code up to the next one.* A request is a worker with a program counter; the step it is about
to take is named after the call. Between two steps anything may happen: this is the concurrency of
several instances over one database. What a request remembers of an earlier read (a plan, a record,
the time it began) is a variable of that worker, so stale reads stay stale.

**PaymentOrder.** `status`, `paidAt` are columns. `updated_at` is used by the code as the version of
the fulfilment lease and as its age; the model keeps `holders` (workers whose version still matches)
and `aged` (five minutes have passed), which is all the code compares. `WriteRow` is every update of
the row: it makes all remembered versions stale. `code`, `granted` and `rebated` are the redeem code,
the number of times the credit was given, and the number of rebates settled. The provider may report
another amount (`mispaid`), deliver again and again until a 2xx, and refuse to be closed. A failing
call (`CallFails`), a committed write whose caller sees an error (`Outcome`), a stall of five minutes
inside the lease (`Stall`) and a crash (`Crash`) each cost one of `MaxFaults`. `orderType` is a column that
nothing changes; both kinds of order are initial states. A failed creation (`FailCreation`) stands for every error of
`invokeProvider`, also that the provider made a payment whose details could not be stored: the customer is then given
neither its address nor its code, so nobody can pay it. The write of FAILED after it may itself fail.

**PaymentRefund.** One plan per administrator (`PrepareRefund`), the `REFUNDING` status as a lock, the
balance, and the two audit records that later attempts read. Usage of the gateway (`Spend`) is charged to the same balance in
full, below zero if need be (`deductUsageBillingBalance`), while a refund takes only what is above zero (`Available`):
`MaxDebt` is a bound of the model on how far usage overdraws, none of the code. The provider's refunds are keyed by
order and amount, as Stripe, WeChat Pay and Airwallex are called. `traded` says whether the row carries the provider's
trade number; without one `gwRefund` asks nobody and reports success (`GwRefundSkipped`). The record of a failed rollback
is a write of its own, whose failure the code only logs (`NoteRollbackFailed`). `taken` is history: what has been
deducted for refunds of this order and not given back. `past` is history too: the kinds of disturbance
that have happened (an answer that was lost, a query that wrote over a status it had not seen, a refund the
provider left pending). A property that the code keeps only in spite of some of them says so.

**IdempotencyStore.** The row is a record or absent; every statement of `idempotency_repo.go` is an
effect with, where it has a WHERE clause, a predicate. `now` is the database's and the instances'
common clock; times are whole ticks. `Begin`, `Renew`, `StopRenewing`, `LetGo` are the claimant's
lease and its renewal goroutine, the same in both users of the table.

**Idempotency.** The steps of `Execute`: create, read, take an expired row, read again, take a failed
row, run, store the outcome. The time `now` of the code, read once at the beginning, is `start[w]`;
the guards compare with it, not with the current time. `Renews` is `ExecutionTimeout > 0`.

**SystemOperationLock.** The steps of `Acquire`, `renewLoop` and `Release`. A worker is an operation
id; the fingerprint written by the first claim of a row stays in it when the row is reclaimed. An operation may run for as
long as it likes (`MaxRun`, minutes in the handlers of `system_handler.go` against a lease of 30 seconds). `outlived` is
history: an operation has run on past the lease of a row that it took over, which no renewal matches.

**SchedulerSnapshot.** `data` numbers the states of the group's accounts; whatever a process has loaded is
such a number, kept in `task[p].data` until it is published, so a stale load stays stale. `open` is what a
writer's request has still to do: its transaction takes an id of the outbox sequence before it commits, so
ids commit in any order and the poller's watermark may pass one. `dedup` is the event's dedup key, which
swallows the next event of its kind until the poller clears it. `newer` keeps the order in which processes
took versions from `sched:ver`, which is all that `activate` compares. A bucket's epoch is a number that
every retirement raises, without bound; a write token is the epoch that was captured. `Handled` and `LifecycleSeen` are the
poller's memory of the events it need not handle again in one poll. `payload` are the account keys that
snapshots share and write last-wins. Locks are deleted without looking at the owner, as the code does; a
slow holder whose lock lapses, a crash and a failed call cost one of `MaxMoves`.

**BatchImage.** The columns of the job's row, the user's `balance` and `frozen_balance`, the claimed billing
request ids (`claims`), the four Redis keys of the queue, the job lock, and one program counter each for the
submission, the user's cancel request, the recovery sweep and every worker. `cost` is the price of what the
provider made, unknown until it is indexed; it may exceed the hold. A cost above the hold stands for whatever else makes `Settle`
return before it captures (item counts that do not add up, a manifest that differs, a price that is missing); the capture
refuses it too, by `actual > hold`. Every call may fail before or after its
effect. `past` names what happened that the code does not survive, and each property says which.

**OAuthRefresh.** A token is the number under which the provider issued it; `accepted` is what the provider
still takes, `family` the administrator's authorization it descends from. A worker's `section` walks
through `refreshAccount`: read, mutex, lease, reread, provider call, store with its recovery reads, release;
what it read of the row is in its record and goes stale there. Grok's strict lease and
compare-and-set store, and the other platforms' degraded path and unconditional store, are the two
values of `platform`, which is chosen at the start. `age` is what `NeedsRefresh` compares, and a worker that is `forced`, because the provider refused an
access token, does not ask it. An administrator may pause the account (`AdminSwitches`); a paused one is no candidate of the
cycles. The legacy query `ListOAuthRefreshCandidates`, which does not filter paused accounts, is not modelled: the paged query
takes its place wherever it exists (`token_refresh_service.go`). Nor is the recovery of an account in error
(`allowsValidationErrorRecovery`): it concerns an error that the gateway writes when the provider asks for a validation, and no
step of the module writes it.

**ConcurrencySlots.** The two sorted sets map a member to its age: out, young, or old, which is a score that the
next script will remove. Each script is one step, with the prunings that it does and not those it leaves
out (the lease's script does not prune the regular set). A starting instance removes the members of all others, alive or not.

**LiveCall.** `controller` and `owner` are the fields of the stored call; a worker is the request that creates it or
a client's proxy, and goes on as the observer it leaves behind with `go observeLiveCall`. The reader goroutines,
tickers and timers of a connection are the disjuncts of `Observe` and `RunLiveController`, in any order. `session` is
the provider's, `expired` is the clock against `ExpiresAt`. The stored record
itself runs out five minutes after the longest session (`MappingExpires`), and whoever reads it then leaves without closing the
call. `WriteUsageLog` is the single attempt to store the log, after the closing has elected its writer: it may fail. `past` names the events that a property excepts.

## 3. Runs

| Run | Instance | Question |
|---|---|---|
| `order_safety` | both order types, 2 deliveries, sweeper, client, 1 fault, swallowed reads | with every kind of actor: one credit, none without payment, completion means settled, a paid order stays recoverable, only the lease's holder ends a fulfilment, the ledger is implemented |
| `order_liveness` | both order types, 1 delivery, sweeper, client, 1 fault, fairness | a paid order is fulfilled; a timed-out order leaves PENDING |
| `refund` | 2 administrators, refunds of 1 or 2 of an amount of 2, with and without a trade number, balance -1 to 3, pending refunds that settle either way, 2 faults | one refund at a time, refunded is paid out and final, the balance is whole over all attempts or an audit record says it is not |
| `refund_double_deduction` | 1 administrator, 1 amount, 2 faults | **violated**: the amount is deducted twice |
| `idem_claim` | 3 requests, 2 payloads, renewed lease, executions longer than the record's life, 1 fault | one execution at a time, on a row that neither claims nor the clean-up take away; a success stands, a failure rests |
| `idem_reexecuted` | 2 requests, no fault | **violated**: an expired success executed twice |
| `syslock_exclusion` | 3 operations of up to 6 ticks, lease 3, row kept 4, 1 fault | no two system operations, until one outlives the lease of a row it took over |
| `syslock_renewal` | 2 operations, no fault | **violated**: the lease of a reclaimed lock is not renewed |
| `scheduler` | 1 account writer, 1 group writer, 1 poller, a process that is the full rebuild or a reader, 1 change and 2 moves, fairness | a retired bucket serves nothing, nothing loaded before a retirement comes back, the cache catches up with the database |
| `batch` | 2 workers, 1 submission, cancels, recovery, a balance below and at the hold, costs below (2 faults) and above it (1 fault), fairness | the hold is captured or released once, a completed job is charged, a refunded batch does not run, frozen money is freed |
| `oauth` | Grok and another rotating platform, a cycle on one instance, a request, forced or not, on another, an administrator's write or pause and 1 fault, or up to 3 faults, fairness | the token that works is never lost, a healthy account is never condemned, a re-authorization stands, a due token is refreshed |
| `live` | limit 1, the creator and a proxy on two instances, 1 competing request or call, 2 faults, fairness | requests and calls stay within the limit, a call is settled once and not while it runs, and at last unless its record or its log was lost |

**Why the bounds are enough.** Two deliveries are the smallest number with a takeover; the third
actor (client or sweeper) is the one that cancels, verifies or retries meanwhile. Fulfilment has
one resource per order, and a third contender meets the same guards as the second. In `order_liveness`
orders of subscriptions meet no fault: their part of the fulfilment has one step, which the faults of
`order_safety` cover. In `refund`, amounts 1 and 2 of 2 let two attempts differ and their sum pass the
amount; `MaxBalance` below and above the amount exercises the partial deduction and `MaxDebt` the deficit that must not be made
deeper; faults happen only while
one of the two amounts has been asked for (`FaultsWithOneAmount`), since with both the audit record no longer
tells which refund is meant, and after the second fault one attempt at a time goes on (`SecondFaultAlone`; the theorems have
neither bound). In
`idem_claim` an execution may take longer than the lease and than the record's life, and a renewal may
fail, so that rows lapse under their executor; the clock runs for two lives of the record.
In `syslock_exclusion` operations run for twice the life of their lease and longer than the row is kept, so that the renewal
decides: it holds the lock of the operation that inserted the row, and not that of one which took the row over
(`syslock_renewal` refutes that). From there on `OneSystemOperation` promises nothing: with the default lease two
operations may overlap as soon as one has reclaimed the row and runs for more than 30 seconds. In `scheduler` one version of the accounts beside
the first is enough to tell fresh from stale, two moves let a group be switched off and on again or a
fault meet a switch, and a rebuild, a poller and a writer are three publishers of one bucket; a reader that is a
process of its own was checked once at these bounds (1.2 million states). In `batch` two faults with two retries
reach the retry limit, two workers are a settlement and a stale worker, and `Other` is the frozen money of
the user's other jobs that a second release would take. In `oauth` two tokens after the first let the
provider rotate twice, or once beside a re-authorization; two failed attempts reach the retry
limit and a third fault meets what is written then; an instance with two requests, three workers in all, was
checked once with one fault. In `live` a limit of one makes the trade of a slot for a lease meet a full account; the proxy
leaves an observer behind that meets the first one; two failed reads reach the retry limit; two proxies were
checked once with one fault (1.1 million states). No run counts on a number that grows without bound except row ids and the ledger's counters,
which the guards bound.

**Deadlock** is not checked: all the systems come to rest (an order that is completed, a clock that
has reached its bound, faults used up).

**Fairness.** *PaymentOrder* (`order_liveness`): started requests keep running (a goroutine is
scheduled; crashes are explicit and bounded); the provider redelivers until it gets a 2xx, as payment
providers do and the handler relies on; the expiry service ticks (a ticker in
`payment_order_expiry_service.go`, one leader at a time); time passes. Nobody is
obliged to pay, cancel, verify or retry. *SchedulerSnapshot*: pollers and the full rebuild tick, a request
that has changed the database goes on, Redis expires the locks of the dead; nobody is obliged to change anything.
*BatchImage*: worker loops, the mover of due delayed jobs and the recovery of stale active ones run for ever, and
Redis expires job locks; clients, the provider and the sweep over dead submissions owe nothing, and neither
does the crashed submission. *OAuthRefresh*: the cycle's ticker begins, a refresh that has begun goes on, a
lease nobody releases expires. *LiveCall*: the goroutines of the call go on, and its time passes; neither the client nor the
provider ever has to end it. The
consequent of `EventuallyRefreshed` is for behaviours in which requests leave the account alone at last: a request
that is refused its token leaves no trace, and can hold the lease at every tick. PaymentRefund,
Idempotency and SystemOperationLock state no liveness: the first waits for administrators, the clocks of the
others are bounded.

### What the violated runs show

1. `refund_double_deduction`: after a rollback that failed, the next attempt deducts nothing; if the
   provider leaves it pending, its record says that the deduction was given back, and the finalisation
   deducts the amount a second time.
2. `syslock_renewal`: `TryReclaim` keeps the fingerprint, `ExtendProcessingLock` compares it.
3. `idem_reexecuted`: `TryReclaim` does not compare the expiry that was read.

The quotations are in `PROJECT.json`, "findings". Other properties hold only until one of the events happens
that the code does not survive; the history variable `past` names them, and the property that makes the exception
says which:

- `refund`: `finalizeRefundFailed` writes whatever the status is ("stale"), which ends `OneRefundAtATime`
  and `RefundedIsFinal`; a deduction whose answer is lost ("effect"), an overlooked audit
  record ("record"), one that could not be written ("unwritten") and a refund left pending ("parked") each end one of the
  balance's properties. An order without a trade number becomes REFUNDED although nobody was asked to pay it out:
  `RefundedIsPaidOut` is about orders that have one. With two
  amounts at the provider the unique index on (order, action) refuses the second REFUND_PENDING record, so the second
  refund is finalised on the provider's answer about the first: `RefundedIsPaidOut` is about one amount.
- `batch`: two doors out of a hold are known (`SpentTwiceKnown`); see section 4.
- `oauth`: `TokenKept` excepts a token dropped with a process, an answer, a deadline or a failed write, and
  the write of an administrator in between; the other properties except, for platforms other than Grok, the
  unconditional store.
- `live`: `WithinLimit` excepts slots and leases that outlive their set under a living request, the clean-up of a starting
  instance, a call the service failed to store and a refresh that failed; `SettledByRight` a lost lease, and a release of it
  that failed; `CallIsSettled` a controller that dies or is gone while it is recorded, a closing that fails or comes after the record has run
  out, and a usage log that cannot be written. The last is a loss for ever, as the comment before the call says
  (`openai_live.go:833-835`): the closing has already elected this writer.
- `syslock_exclusion`: `outlived`, see above.
- `oauth` again: `EventuallyRefreshed` promises nothing to an account that an administrator paused.
- `order_liveness`: `PaidOrderIsFulfilled` fails with `SwallowedReads`: the notification is acknowledged although the order could
  not be read.

Three things the order module allows and no property forbids: a failed creation writes FAILED over a cancellation or an expiry
that came first; an order paid between the sweeper's query and
its update to EXPIRED, or whose query failed, and whose notification comes after the five-minute grace is acknowledged and stays
EXPIRED; and a worker that stalls between taking the lease and reading its version back gets the version
of the worker that took over, so that two workers hold one version. Double credit is impossible even
then, because the credit does not rest on the lease but on the unique code and the unique audit record.

## 4. What is correct, and what is proved

The theorems hold for every value of the constants that satisfies the named assumptions of the modules: any number of
workers, requests, administrators and instances, any retry limits, any number of faults, and with the exceptions that the
properties themselves name. Each proof module defines the inductive invariant `IInv` (or `LInv`) as a conjunction of named
parts; each part was a TLC invariant of the instances above before it was proved. Every invariant and every action property
that a run finds to hold is stated by a theorem; every module has its type invariant as `TypeCorrect`. Only model-checked are
the six liveness properties (`PaidOrderIsFulfilled`, `TimedOutLeavesPending`, `EventuallyFresh`, `HoldIsFreed`,
`EventuallyRefreshed`, `CallIsSettled`), whose proofs would need fairness and ENABLED, and what the violated runs refute.

A type invariant says more than types where it bounds a balance or a counter that several processes change; below it is
named where that took an argument.

**Payment orders.** Checked for the instances above and *proved for every number of deliveries,
sweepers, clients and faults, for both order types*: type correctness, `CreditedAtMostOnce`,
`CreditNeedsPayment`, `CompletedIsSettled`, `PaidStaysRecoverable` (theorems `TypeCorrect`, `Safety`), `OnlyHolderEndsFulfillment`
(`HolderEndsFulfillment`) and the refinement of `PaymentLedger` (`LedgerRefinement`). The parts of
`Safety` are also stated one by one (`PaymentPrecedesCredit`, `CompletionSettles`, `PaidIsRecoverable`). The assumption is
`OrderAssumption`, which only types the constants.

The argument: none of the safety properties is inductive, since each is a statement about the end
of a chain of steps. `IInv` adds what the program counters know. `GrantInv`: at most one credit and at
most as many rebates as credits; a balance order's code is used exactly when it is credited; a worker
takes only steps of its order's type. `ProgressInv`: a worker beyond the credit knows that it was given,
a worker at `complete` that the rebate is settled too; both facts are stable, because nothing takes a
credit or a rebate back, and this is why a takeover is harmless. `PaymentInv`: a worker in the lease, a
credit or `paid_at` implies a payment of the right amount, and a payment implies that the order reached the
provider. `StatusInv`: `CompletedIsSettled`, `PaidStaysRecoverable`, and the converse: a paid status
implies `paid_at`, FAILED implies `paid_at` or a failed creation. `NextIInv`
has a lemma per group of actions (`EnvironmentIInv`, `BeginIInv`, `WorkIInv`, `FailureIInv`) with a step per
action. `LedgerStep` uses the invariant to show that `Redeem` and `AssignSubscriptions` map to the ledger's
`Credit` or stutter, `ApplyAffiliateRebate` to `SettleRebate`, `MarkCompleted` to `Complete`, and every other
step to a stutter.

Only model-checked: the two liveness properties.

**Refunds.** At most one attempt works under the lock and the row shows it (`OneRefundAtATime`, theorem `LockExcludes`); a
refunded order stays so (`RefundedIsFinal`, `RefundedStays`); what the user loses between attempts is on record
(`NothingTakenAtRest`, `BalanceIsWhole`); once the provider has paid, the order does not read as if nothing had happened
(`NoFreeRefund`, `NothingForFree`); a refunded order that carries a trade number was paid out by the provider (`RefundedIsPaidOut`, `RefundsArePaidOut`), and
the user loses at most the amount (`TakenAtMostAmount`, `LossIsBounded`). All six are *proved* for any administrators, amounts, balances and faults, and so
is that refunds never deepen a deficit that usage left, nor raise the balance above what it was before them (`TypeCorrect`). The lock
property is inductive with the types; the balance needs `BalanceInv`: until the outcome is written, what was taken
is exactly what the plan of the one locked attempt says, or the rollback's failure is on its way into the audit
record; if it never gets there (event "unwritten") the property is given up, since nothing else remembers the deduction. `PaidOutInv` says that an attempt that asked the provider is in the hands of the lock until it writes the
outcome. `RecordInv` is about the audit records of several attempts: an order is parked, and the pending record and every plan
that was made from it written, about a refund that exists at the provider, and an attempt finishes about one that was paid out; with
one refund at the provider both mean the same one. `TakenAtMostAmount` is a conjunct of the invariant itself: a deduction
finds nothing taken, or is not made.
The balance needs an argument of its own, since nothing above holds once a status was overwritten: several attempts may then
have a deduction to undo. `PurseInv` counts. `Coins` are the units that attempts may still give back, each told
apart by its attempt; a deduction adds as many coins as it takes from the balance, a rollback spends the attempt's own
(`CoinsStep`), a lost answer only loses coins. So there are never more coins than was taken, and balance and taken together are
never more than `MaxBalance`.

**Idempotency.** `SingleFlight` and `SuccessStands` are *proved* (`OneExecution`, `StoredSuccessStands`) for any number of requests
and payloads, with renewal and without, provided that `RowOutlasts`: the row is kept for longer than an execution leaves it
alone plus the cost of every fault (a renewal that fails, a call that is delayed), and no claim takes longer than a
lease. With the defaults of `idempotency.go` this compares seconds with a day. The outcomes are written by row id without any
condition; they are safe because a claim is exclusive and its row stays the executor's. The argument is one of time, and
linear: `TimeInv` relates the clock, the number of faults so far and the row's expiry, so that an executor's row is never
found expired; `SeenInv` says that a row keeps the fingerprint that a request read in it and that a request about to
take a failed row has seen a failure; `OwnerInv` adds that whoever had found the row expired before it was claimed comes
too early for its new lock. `FailureRests` is *proved* (`FailuresRest`) under `RestsBriefly` in addition: no request is delayed for
as long as a failure rests, and the row of a failure outlives its rest. `RestInv` relates the end of the last rest to the row:
it is not over before the row's lock, nor shortly before its expiry, and a success came after it. The first half of
`RestsBriefly` is needed: a request that read an expired success, and waits until that row has been executed, failed and
executed again, takes the success, even if a failure in between still rests by its own time. `TypeCorrect` needs neither assumption.

**System operations.** `OneSystemOperation` is *proved* (`OperationsExclude`) for any number of operations of any length under
`RenewalsSuffice`: the lease outlasts the interval of its renewal and all delays together, and the row is kept for as long as
the lease. With the values of the code, which renews after each third of the lease, that is one failed renewal or delay. The invariant says
of whoever runs that it owns the row (`Owns`) and how its lease stands (`KeepsLease`): an operation that inserted its row has
been renewed within an interval and the cost of the failures so far, so its lease reaches beyond now whatever its length; one
that took over a row of another fingerprint is not renewed, and its lease has not ended *yet*. The moment it does is `outlived`,
and the property ends there: `syslock_renewal` shows that the code reaches it. `TypeCorrect` needs no assumption.

**Scheduler snapshot.** A retired bucket serves nothing although older writers are still
publishing (`RetiredServesNothing`, theorem `RetirementEmpties`: by the check at activation), and nothing loaded before a
retirement comes back after it (`NothingFromBeforeRetirement`, `EpochFences`: by the epoch in the write token; a lapsed
bucket lock does not matter). Both are *proved* for any pollers, readers, writers, changes and faults. `FenceInv` is the
argument: tokens never exceed the bucket's epoch, a token equal to it was captured after the last retirement, and
whatever its owner has loaded is at least as young as that. Locks, leases, outbox and watermark do not occur in it: the
fence alone carries both properties. `TypeCorrect` is *proved* too: no snapshot or payload is ahead of the database, and the
watermark never passes an id that was not given out. Its bound on the outbox is a counting argument (`OutboxInv`): every
id was taken by a change, by one of the finitely many transactions that are still open, by a switch of the group or
by a fault. Model-checked: the cache and the database come together (`EventuallyFresh`)
although events are lost: an id that commits below the watermark is never read, a dedup key swallows an event whose
update is newer than what the poller has read, and a strict rebuild that finds the bucket busy skips it. Only the
periodic full rebuild repairs these; the property fails without it.

**Batch images.** `HoldSpentOnce` and `CompletedIsCharged` are *proved* (`SpentOnce`, `ChargedOnCompletion`) for any workers, prices,
balances, retry limits and faults; so is `RefundedBatchIsStopped` (`NothingRunsUnpaid`); `HoldIsFreed` is model-checked. `MoneyInv` gives both balances as
functions of three facts: the reservation is claimed, the capture is claimed, the hold was given back. What remains is
that the last two exclude each other, which is a matter of who may come to them: `SubmitInv` (a submission that may
still be undone has no job that is settled), `ProviderInv` (workers fail a job only as the provider ended it, and it ends a
batch once), `SettleInv` (whoever settles found the job settling, from where it only ends), `ReturnInv` (whoever gives back found it
ended) and `OnceInv` (a job that ends while it is charged ends in one of the two known ways).
`StoppedInv` adds for the third that a batch which runs is known to the submission that started it, or recorded in the row of
a job that only a cancel has ended. `TypeCorrect` adds (`FundsTypes`) that balance and frozen amount are never negative: every
statement that lowers one compares it first (`HoldAffordable` for the reservation), and a capture refuses a cost above the hold
and gives back what the cost leaves of it. What the four
properties except, each of which TLC shows when the exception is taken out, and last what none of them forbids:

1. a cancel that read the row before the batch was recorded in it cancels and refunds the job, and the provider's batch
   runs on, with nobody to pay for it;
2. a release that is tried before the hold was reserved claims the release's request id, and the hold that is made
   after it can never be given back;
3. a settlement whose capture took effect but was not answered, repeated to the retry limit, is failed and released:
   captured and given back; the same when a worker still indexing fails a job that another one is settling;
4. a crash, or a lost answer, between the record of the provider's batch and its queueing, between the failure of a stale
   submission and its release, or of the reservation itself, leaves the hold frozen with no one to free it
   (`HoldIsFreed` is about queued jobs);
5. a worker that goes on after losing its lock finds the job settling and acknowledges it: it leaves the queue unsettled;
6. a settlement as in (3), when the user has less than the hold frozen otherwise: the release is refused for want of frozen
   money (`batch_image_settlement.go:216-232`), the failure is counted and the job queued again, for ever. It stays
   settling, charged and never completed, and `retries`, which the retry limit seems to bound, grows without end: `TypeOK`
   says only that it is a natural number. The comment at `batch_image_settlement.go:109` says that the check for exhausted
   retries comes first so that a settling job is not queued without end. The run `batch` sets `Other` to the hold, which is where (3) is found instead.

`docs/BATCH_IMAGE_MVP.md` names the settlement's request id `batch_image_settlement:{batch_id}`; the code claims
`batch_image_capture:...` and `batch_image_release:...` separately, which is what makes (3) possible.

**OAuth refresh.** The token that works is in the row or on its way there (`TokenKept`, theorem `TokenStays`), an account
that is well is not condemned (`HealthyNotCondemned`, `HealthyStays`), and what an administrator authorized is not replaced by
an older refresh (`ReauthorizationStands`, `AuthorizationStands`). All three are *proved* for any instances,
cycles, requests, tokens, writes of administrators, attempts and faults, and for both kinds of platform; that a due token is
refreshed or put aside (`EventuallyRefreshed`) is model-checked. For Grok the strict lease and the compare-and-set store carry the second and the third; for the other
platforms they rest on nobody writing in between. The parts of `IInv`:

- `IssuedInv`: nobody stores, holds or remembers a token that was not issued;
- `FamilyInv`: a rotated token stays in the family of the authorization it descends from, so a refresh that began before an
  administrator's write can be told from one that began after it;
- `LeaseInv`: a worker beyond the lease has it, unless it went on without one or outlived it, both of which are on record;
- `SameInv`: where the store compares nothing, it is the lease that keeps the row as its holder read it;
- `VerdictInv`: no worker is about to condemn a row for a token that works or that another one has just rotated;
- `TokenInv`: while nothing was lost, there is one rotation at a time, of the row's token; its successor is known to nobody
  else until it is stored, and Grok's comparison finds the document unchanged.

**Live calls and slots.** `SettledByRight` and `WithinLimit` are *proved* (`SettlesByRight`, `LimitIsKept`) for any clients, competing
requests, instances, limits and faults, as is `TypeCorrect`, by which no observer counts more failed reads than it has patience
for; `CallIsSettled` is model-checked, and promises something only to calls whose record and log were not lost. For the first, `StoredInv` says what the steps know of the stored
call, `LeaseInv` that the lease is there for as long as the call has to go on, `OnceInv` that closing it elects the one who
releases and logs. For the second, what is counted are the holders of a slot or a lease or both: every forwarded request and
the running session hold something (`HoldInv`), a trade of one for the other adds no holder although for a moment it
occupies two places, and `acquireScript` lets another one in only below the limit, because it counts both sets
(`LimitInv`, by the cardinality of the set of holders). What the three properties except, each of
which TLC shows when it is taken out:

1. an instance that starts among others removes their slots, and a request older than a slot's life loses its own;
2. one refresh that Redis does not answer ends a call for the service, while its media run on at the provider; the same when
   the store of a new call fails after the provider has started it;
3. a failed release of the controller, or a claim whose answer is lost, leaves the call to a proxy that is gone: no observer
   can claim it and nothing settles it, not even its expiry; the same after a crash of the controller's instance;
4. a call whose record ran out before its end was noticed is not closed, and a closed call whose usage log could not be
   written has none: no one tries again.

## 5. Plan

In this order; each with its MC module, runs, mutants and, where named, theorems.

1. `OrderAdmission`: limits of pending orders and of the day's amount, counted before the insert in a
   transaction of its own; abstract specification: at most `MaxPendingOrders` pending orders per user.
2. The rest of `ConcurrencySlots`: the wait counters with their time to live, the sets of users, the index of
   active accounts against concurrent clean-ups.
3. `UsageBilling`: applied once across retries and archiving, in the manner of `PaymentLedger`.
4. `AuthCache`: after an invalidation has been drained, nobody keeps a revoked key for longer than the
   cache's life.
5. `QuotaFlusher`, `RefreshRotation`, `PromptAudit`, `UserMessageQueue`, `LeaderLock`.

Each of these asks for one or two properties and a run of its own; the hazards without a property in `PROJECT.json`
are theirs.

## 6. What is not modelled

Amounts are compared, not computed: fees, currencies and rounding are outside the models. Of the
providers only what the order's code sees is modelled, and marked external. The column `total_recharged`, which every
`UpdateBalance` raises, the rollback of a refund included, and deduction of subscription
days on refunds, and the choice of a provider instance, are left out. Clocks of different instances
agree. Every other component of section 1 is listed in `PROJECT.json` with its reason.

------------------------------ MODULE BatchImage ------------------------------
(***************************************************************************)
(* One batch image job and the user's money behind it.  A submission       *)
(* creates the job's row, freezes the estimated cost, starts a batch at    *)
(* the provider and queues the job.  Workers poll the provider, index the  *)
(* output and settle: capture the actual cost out of the frozen amount.    *)
(* A job that fails or is cancelled gives the amount back, and so does a   *)
(* sweep over submissions that died on the way.  The processes share the   *)
(* row, the user's balance, the claimed billing request ids and a queue in *)
(* Redis, and every call to any of them may fail or lose its answer.       *)
(***************************************************************************)
EXTENDS Integers, FiniteSets

CONSTANTS
    Workers,      \* worker loops of all instances
    NoWorker,     \* "no one holds the job's lock"
    Balances,     \* what the user's balance may be at the start
    Other,        \* frozen for the user's other jobs
    Hold,         \* hold_amount of this job
    Costs,        \* what the output of the provider may cost
    MaxRetries,   \* batchImageSettlementMaxRetries
    MaxFaults     \* bound: failed calls, lost answers, crashes, lapsed locks

ASSUME BatchAssumption ==
    /\ NoWorker \notin Workers
    /\ Balances \subseteq Nat /\ Other \in Nat
    /\ Hold \in Nat \ {0}
    /\ Costs \subseteq Nat
    /\ MaxRetries \in Nat \ {0}
    /\ MaxFaults \in Nat

VARIABLES
    status,      \* status column of the job's row; "none": no row yet
    named,       \* is provider_job_name set
    fresh,       \* is updated_at later than the recovery's cutoff
    hidden,      \* is user_deleted_at set
    retries,     \* retry_count column
    balance,     \* balance column of the user
    initial,     \* history: that balance at the start
    frozen,      \* frozen_balance column of the user
    claims,      \* request ids of this job in usage_billing_dedup
    returned,    \* history: a release gave the held amount back
    upstream,    \* the batch at the provider
    cost,        \* price of its successful images
    ready,       \* entries of the job in the ready list
    delayed,     \* is it in the delayed set
    active,      \* is it in the active set
    inflight,    \* is its inflight key set
    lock,        \* worker whose token is in the job's lock key
    submit,      \* next step of the submission
    cancel,      \* next step of the user's cancel request
    recovery,    \* next step of the billing recovery sweep
    worker,      \* next step of each worker
    answer,      \* status the provider's answer to a worker calls for
    faults,      \* faults so far
    past         \* history: which Events happened

row   == <<status, named, fresh, hidden, retries>>
funds == <<balance, frozen, claims, returned>>
batch == <<upstream, cost, initial>>
queue == <<ready, delayed, active, inflight>>
procs == <<submit, cancel, recovery, worker, answer>>
vars  == <<row, funds, batch, queue, lock, procs, faults, past>>

Unsubmitted == {"created", "uploading"}
Terminal    == {"completed", "failed", "cancelled"}
Statuses    == {"none", "submitted", "running", "indexing", "settling"}
                   \cup Unsubmitted \cup Terminal

SubmitSteps   == {"create", "reserve", "items", "upload", "provider", "record",
                  "enqueue", "abort", "undo", "undoQuietly", "fail",
                  "failAndQueue", "queueRetry", "done", "dead"}
CancelSteps   == {"idle", "provider", "transition", "release", "enqueue"}
RecoverySteps == {"idle", "fail", "release", "enqueue"}
WorkerSteps   == {"idle", "lock", "read", "poll", "advance", "index",
                  "indexFailed", "settleNext", "release", "settle", "capture",
                  "mark", "record", "exhaust", "failSettled", "ack", "requeue"}

\* "lapse": a stalled worker lost its lock; "lateFail": a job already settling
\* was failed by a worker still indexing it; "orphan": the provider runs a
\* batch whose answer or whose abort was lost.
Events == {"lapse", "lateFail", "orphan"}

TypeOK ==
    /\ status \in Statuses /\ named \in BOOLEAN /\ fresh \in BOOLEAN
    /\ hidden \in BOOLEAN /\ retries \in Nat
    /\ balance \in Nat /\ frozen \in Nat /\ initial \in Balances
    /\ claims \subseteq {"hold", "capture", "release"} /\ returned \in BOOLEAN
    /\ upstream \in {"none", "running", "succeeded", "failed", "cancelled"}
    /\ cost \in Costs
    /\ ready \in Nat /\ delayed \in BOOLEAN /\ active \in BOOLEAN
    /\ inflight \in BOOLEAN
    /\ lock \in Workers \cup {NoWorker}
    /\ submit \in SubmitSteps /\ cancel \in CancelSteps
    /\ recovery \in RecoverySteps /\ worker \in [Workers -> WorkerSteps]
    /\ answer \in [Workers -> {"none", "running", "indexing", "failed", "cancelled"}]
    /\ faults \in 0..MaxFaults
    /\ past \subseteq Events

Init ==
    /\ status = "none" /\ named = FALSE /\ fresh = TRUE /\ hidden = FALSE
    /\ retries = 0
    /\ initial \in Balances /\ balance = initial /\ frozen = Other
    /\ claims = {} /\ returned = FALSE
    /\ upstream = "none" /\ cost \in Costs
    /\ ready = 0 /\ delayed = FALSE /\ active = FALSE /\ inflight = FALSE
    /\ lock = NoWorker
    /\ submit = "create" /\ cancel = "idle" /\ recovery = "idle"
    /\ worker = [w \in Workers |-> "idle"]
    /\ answer = [w \in Workers |-> "none"]
    /\ faults = 0 /\ past = {}

-----------------------------------------------------------------------------
(* Calls, and what they do to the row, the money and the queue.            *)

Fault == faults < MaxFaults /\ faults' = faults + 1

\* A call that may be refused.  Its caller hears "ok", "refused" or "error";
\* an error leaves open whether the call took effect.
Attempt(heard, refused, Effect, state) ==
    \/ heard = "ok" /\ ~refused /\ Effect /\ UNCHANGED faults
    \/ heard = "refused" /\ refused /\ UNCHANGED <<state, faults>>
    \/ heard = "error" /\ Fault /\ (UNCHANGED state \/ (~refused /\ Effect))

Heard == {"ok", "refused", "error"}

Allowed(from) ==
    CASE from = "created"   -> {"uploading", "submitted", "cancelled"}
      [] from = "uploading" -> {"submitted", "cancelled"}
      [] from = "submitted" -> {"running", "indexing", "cancelled"}
      [] from = "running"   -> {"running", "indexing", "cancelled"}
      [] from = "indexing"  -> {"settling"}
      [] OTHER              -> {"completed"}

CanTransition(from, to) ==
    from \notin Terminal /\ (to = "failed" \/ to \in Allowed(from))

SetStatus(to) == status' = to /\ fresh' = TRUE /\ UNCHANGED <<named, hidden, retries>>

Transition(heard, to) ==
    Attempt(heard, ~CanTransition(status, to), SetStatus(to), row)

\* Mutant of HoldAffordable: the update asks for the user, not for the balance.
HoldUnasked == TRUE

HoldAffordable == balance >= Hold

ReserveTx ==
    /\ claims' = claims \cup {"hold"}
    /\ balance' = balance - Hold /\ frozen' = frozen + Hold
    /\ UNCHANGED returned

ReserveBalance(heard) == Attempt(heard, ~HoldAffordable, ReserveTx, funds)

CaptureTx ==
    IF "capture" \in claims THEN UNCHANGED funds
    ELSE /\ claims' = claims \cup {"capture"}
         /\ balance' = balance + Hold - cost /\ frozen' = frozen - Hold
         /\ UNCHANGED returned

CaptureBalance(heard) ==
    Attempt(heard, "capture" \notin claims /\ (cost > Hold \/ frozen < Hold),
            CaptureTx, funds)

\* Mutant of HoldClaimExists: releases without asking whether the hold was ever made.
HoldAssumed == TRUE

\* Is there a held amount to give back.
HoldClaimExists == "hold" \in claims

\* The request id is claimed even when no amount was held.
ReleaseTx ==
    IF "release" \in claims THEN UNCHANGED funds
    ELSE /\ claims' = claims \cup {"release"}
         /\ IF HoldClaimExists
            THEN balance' = balance + Hold /\ frozen' = frozen - Hold /\ returned' = TRUE
            ELSE UNCHANGED <<balance, frozen, returned>>

ReleaseBalance(heard) ==
    Attempt(heard, HoldClaimExists /\ "release" \notin claims /\ frozen < Hold,
            ReleaseTx, funds)

\* A job whose inflight key is set is queued already.
EnqueueScript ==
    IF inflight THEN UNCHANGED queue
    ELSE inflight' = TRUE /\ ready' = ready + 1 /\ UNCHANGED <<delayed, active>>

Enqueue == \E heard \in Heard : Attempt(heard, FALSE, EnqueueScript, queue)

-----------------------------------------------------------------------------
(* Submit.                                                                 *)

SubmitGoto(to) ==
    submit' = to /\ UNCHANGED <<cancel, recovery, worker, answer, lock>>

CreateJob ==
    /\ submit = "create"
    /\ \E heard \in Heard :
         /\ Attempt(heard, FALSE, SetStatus("created"), row)
         /\ SubmitGoto(IF heard = "ok" THEN "reserve" ELSE "done")
    /\ UNCHANGED <<funds, batch, queue, past>>

Reserve ==
    /\ submit = "reserve"
    /\ \E heard \in Heard :
         /\ ReserveBalance(heard)
         /\ SubmitGoto(IF heard = "ok" THEN "items" ELSE "fail")
    /\ UNCHANGED <<row, batch, queue, past>>

CreatePendingItems ==
    /\ submit = "items"
    /\ \/ UNCHANGED faults /\ SubmitGoto("upload")
       \/ Fault /\ SubmitGoto("undo")
    /\ UNCHANGED <<row, funds, batch, queue, past>>

BeginUpload ==
    /\ submit = "upload"
    /\ \E heard \in Heard :
         /\ Transition(heard, "uploading")
         /\ SubmitGoto(CASE heard = "ok"      -> "provider"
                         [] heard = "refused" -> "undoQuietly"
                         [] heard = "error"   -> "undo")
    /\ UNCHANGED <<funds, batch, queue, past>>

\* Keeps updated_at fresh while the provider is slow.
TouchSubmitting ==
    /\ submit = "provider" /\ status \in Unsubmitted
    /\ fresh' = TRUE
    /\ UNCHANGED <<status, named, hidden, retries, funds, batch, queue, lock,
                   procs, faults, past>>

ProviderSubmit ==
    /\ submit = "provider"
    /\ \/ UNCHANGED <<faults, past>> /\ upstream' = "running" /\ SubmitGoto("record")
       \/ Fault /\ UNCHANGED <<upstream, past>> /\ SubmitGoto("undo")
       \/ Fault /\ upstream' = "running" /\ past' = past \cup {"orphan"}
                /\ SubmitGoto("undo")
    /\ UNCHANGED <<row, funds, cost, initial, queue>>

SetSubmitted ==
    status' = "submitted" /\ named' = TRUE /\ fresh' = TRUE /\ UNCHANGED <<hidden, retries>>

UpdateProviderSubmit ==
    /\ submit = "record"
    /\ \E heard \in Heard :
         /\ Attempt(heard, ~CanTransition(status, "submitted"), SetSubmitted, row)
         /\ SubmitGoto(IF heard = "ok" THEN "enqueue" ELSE "abort")
    /\ UNCHANGED <<funds, batch, queue, past>>

CancelUpstream == upstream' = IF upstream = "running" THEN "cancelled" ELSE upstream

AbortOrphanProviderJob ==
    /\ submit = "abort"
    /\ \/ UNCHANGED <<faults, past>> /\ CancelUpstream
       \/ Fault /\ UNCHANGED upstream /\ past' = past \cup {"orphan"}
    /\ SubmitGoto("done")
    /\ UNCHANGED <<row, funds, cost, initial, queue>>

SubmitEnqueue ==
    /\ submit \in {"enqueue", "queueRetry"}
    /\ Enqueue
    /\ SubmitGoto("done")
    /\ UNCHANGED <<row, funds, batch, past>>

ReleaseFailedSubmitHold ==
    /\ submit \in {"undo", "undoQuietly"}
    /\ \E heard \in Heard :
         /\ ReleaseBalance(heard)
         /\ SubmitGoto(IF heard # "ok" THEN "failAndQueue"
                       ELSE IF submit = "undo" THEN "fail" ELSE "done")
    /\ UNCHANGED <<row, batch, queue, past>>

\* Sets the status whatever it is; its errors are ignored.
RecordSubmitFailure ==
    /\ submit \in {"fail", "failAndQueue"}
    /\ \/ UNCHANGED faults /\ SetStatus("failed") /\ submit = "failAndQueue"
       \/ UNCHANGED faults /\ submit = "fail" /\ status' = "failed" /\ hidden' = TRUE
                           /\ fresh' = TRUE /\ UNCHANGED <<named, retries>>
       \/ Fault /\ (UNCHANGED row \/ SetStatus("failed"))
    /\ SubmitGoto(IF submit = "fail" THEN "done" ELSE "queueRetry")
    /\ UNCHANGED <<funds, batch, queue, past>>

SubmitCrashes ==
    /\ submit \notin {"create", "done", "dead"}
    /\ Fault
    /\ past' = past \cup (IF submit \in {"record", "abort"} THEN {"orphan"} ELSE {})
    /\ SubmitGoto("dead")
    /\ UNCHANGED <<row, funds, batch, queue>>

\* The client repeats the request under the same idempotency key.
Resubmit ==
    /\ status = "submitted"
    /\ Enqueue
    /\ UNCHANGED <<row, funds, batch, lock, procs, past>>

Submit ==
    \/ CreateJob \/ Reserve \/ CreatePendingItems \/ BeginUpload
    \/ TouchSubmitting \/ ProviderSubmit \/ UpdateProviderSubmit
    \/ AbortOrphanProviderJob \/ SubmitEnqueue \/ ReleaseFailedSubmitHold
    \/ RecordSubmitFailure \/ SubmitCrashes \/ Resubmit

-----------------------------------------------------------------------------
(* Cancel.                                                                 *)

CancelGoto(to) ==
    cancel' = to /\ UNCHANGED <<submit, recovery, worker, answer, lock>>

CancelRead ==
    /\ cancel = "idle"
    /\ status \notin {"none", "settling", "completed"} /\ ~hidden
    /\ CancelGoto(IF status \in {"failed", "cancelled"} THEN "release"
                  ELSE IF named THEN "provider" ELSE "transition")
    /\ UNCHANGED <<row, funds, batch, queue, faults, past>>

CancelProvider ==
    /\ cancel = "provider"
    /\ \/ UNCHANGED faults /\ CancelUpstream /\ CancelGoto("enqueue")
       \/ Fault /\ (UNCHANGED upstream \/ CancelUpstream) /\ CancelGoto("idle")
    /\ UNCHANGED <<row, funds, cost, initial, queue, past>>

CancelTransition ==
    /\ cancel = "transition"
    /\ \E heard \in Heard :
         /\ Transition(heard, "cancelled")
         /\ CancelGoto(IF heard = "ok" THEN "release" ELSE "idle")
    /\ UNCHANGED <<funds, batch, queue, past>>

CancelRelease ==
    /\ cancel = "release"
    /\ \E heard \in Heard :
         /\ ReleaseBalance(heard)
         /\ CancelGoto(IF heard = "ok" THEN "idle" ELSE "enqueue")
    /\ UNCHANGED <<row, batch, queue, past>>

CancelEnqueue ==
    /\ cancel = "enqueue"
    /\ Enqueue
    /\ CancelGoto("idle")
    /\ UNCHANGED <<row, funds, batch, past>>

CancelCrashes ==
    /\ cancel # "idle"
    /\ Fault
    /\ CancelGoto("idle")
    /\ UNCHANGED <<row, funds, batch, queue, past>>

Cancel ==
    \/ CancelRead \/ CancelProvider \/ CancelTransition \/ CancelRelease
    \/ CancelEnqueue \/ CancelCrashes

-----------------------------------------------------------------------------
(* ReleaseStaleUnsubmittedOnce.                                            *)

RecoveryGoto(to) ==
    recovery' = to /\ UNCHANGED <<submit, cancel, worker, answer, lock>>

TimePasses ==
    /\ status \in Unsubmitted /\ fresh
    /\ fresh' = FALSE
    /\ UNCHANGED <<status, named, hidden, retries, funds, batch, queue, lock,
                   procs, faults, past>>

StaleUnsubmitted == status \in Unsubmitted /\ ~named /\ ~fresh

ListStale ==
    /\ recovery = "idle" /\ StaleUnsubmitted
    /\ RecoveryGoto("fail")
    /\ UNCHANGED <<row, funds, batch, queue, faults, past>>

\* Mutant of FailStaleUnsubmitted: the sweep fails what it listed without looking again.
FailListed ==
    /\ recovery = "fail"
    /\ \E heard \in Heard :
         /\ Attempt(heard, FALSE, SetStatus("failed"), row)
         /\ RecoveryGoto(IF heard = "ok" THEN "release" ELSE "idle")
    /\ UNCHANGED <<funds, batch, queue, past>>

FailStaleUnsubmitted ==
    /\ recovery = "fail"
    /\ \E heard \in Heard :
         /\ Attempt(heard, ~StaleUnsubmitted, SetStatus("failed"), row)
         /\ RecoveryGoto(IF heard = "ok" THEN "release" ELSE "idle")
    /\ UNCHANGED <<funds, batch, queue, past>>

RecoveryRelease ==
    /\ recovery = "release"
    /\ \E heard \in Heard :
         /\ ReleaseBalance(heard)
         /\ RecoveryGoto(IF heard = "ok" THEN "idle" ELSE "enqueue")
    /\ UNCHANGED <<row, batch, queue, past>>

EnqueueReleaseRetry ==
    /\ recovery = "enqueue"
    /\ Enqueue
    /\ RecoveryGoto("idle")
    /\ UNCHANGED <<row, funds, batch, past>>

RecoveryCrashes ==
    /\ recovery # "idle"
    /\ Fault
    /\ RecoveryGoto("idle")
    /\ UNCHANGED <<row, funds, batch, queue, past>>

Recovery ==
    \/ TimePasses \/ ListStale \/ FailStaleUnsubmitted \/ RecoveryRelease
    \/ EnqueueReleaseRetry \/ RecoveryCrashes

-----------------------------------------------------------------------------
(* The queue and the workers' loop.                                        *)

At(w, step) == worker[w] = step

Goto(w, to) ==
    /\ worker' = [worker EXCEPT ![w] = to]
    /\ UNCHANGED <<submit, cancel, recovery>>

Reserved(w) ==
    /\ At(w, "idle") /\ ready > 0
    /\ ready' = ready - 1 /\ active' = TRUE /\ UNCHANGED <<delayed, inflight>>
    /\ Goto(w, "lock")
    /\ UNCHANGED <<row, funds, batch, lock, answer, faults, past>>

TryAcquireJobLock(w) ==
    /\ At(w, "lock")
    /\ \/ lock = NoWorker /\ lock' = w /\ Goto(w, "read") /\ UNCHANGED faults
       \/ lock # NoWorker /\ Goto(w, "requeue") /\ UNCHANGED <<lock, faults>>
       \/ Fault /\ Goto(w, "requeue") /\ UNCHANGED lock
    /\ UNCHANGED <<row, funds, batch, queue, answer, past>>

\* The deferred release deletes the key only if it holds the worker's token.
Unlock(w) == lock' = IF lock = w THEN NoWorker ELSE lock

RequeueAfter(w) ==
    /\ At(w, "requeue")
    /\ \/ delayed' = TRUE /\ active' = FALSE /\ UNCHANGED <<ready, inflight, faults>>
       \/ Fault /\ UNCHANGED queue
    /\ Unlock(w) /\ Goto(w, "idle")
    /\ UNCHANGED <<row, funds, batch, answer, past>>

Ack(w) ==
    /\ At(w, "ack")
    /\ \/ delayed' = FALSE /\ active' = FALSE /\ inflight' = FALSE /\ UNCHANGED <<ready, faults>>
       \/ Fault /\ UNCHANGED queue
    /\ Unlock(w) /\ Goto(w, "idle")
    /\ UNCHANGED <<row, funds, batch, answer, past>>

MoveDueDelayed ==
    /\ delayed
    /\ delayed' = FALSE /\ ready' = ready + 1
    /\ UNCHANGED <<row, funds, batch, active, inflight, lock, procs, faults, past>>

\* A worker that runs refreshes its entry of the active set and its lock.
Beating(w) == \/ worker[w] \in {"lock", "requeue", "ack"}
              \/ worker[w] # "idle" /\ lock = w

RecoverStaleActive ==
    /\ active /\ \A w \in Workers : ~Beating(w)
    /\ active' = FALSE /\ ready' = ready + 1
    /\ UNCHANGED <<row, funds, batch, delayed, inflight, lock, procs, faults, past>>

JobLockExpires ==
    /\ lock # NoWorker /\ (worker[lock] \in {"idle", "lock"})
    /\ lock' = NoWorker
    /\ UNCHANGED <<row, funds, batch, queue, procs, faults, past>>

\* A worker stalls for longer than the life of its lock.
JobLockLapses(w) ==
    /\ lock = w /\ worker[w] \notin {"idle", "lock"}
    /\ Fault
    /\ lock' = NoWorker /\ past' = past \cup {"lapse"}
    /\ UNCHANGED <<row, funds, batch, queue, procs>>

WorkerCrashes(w) ==
    /\ ~At(w, "idle")
    /\ Fault
    /\ Goto(w, "idle") /\ answer' = [answer EXCEPT ![w] = "none"]
    /\ UNCHANGED <<row, funds, batch, queue, lock, past>>

-----------------------------------------------------------------------------
(* The provider's batch, and what a worker makes of it.                    *)

ProviderEnds ==
    /\ upstream = "running"
    /\ upstream' \in {"succeeded", "failed"}
    /\ UNCHANGED <<row, funds, cost, initial, queue, lock, procs, faults, past>>

ReadJob(w) ==
    /\ At(w, "read")
    /\ Goto(w, IF status = "settling" THEN "settle" ELSE "poll")
    /\ UNCHANGED <<row, funds, batch, queue, lock, answer, faults, past>>

CallsFor == [running |-> "running", succeeded |-> "indexing",
             failed |-> "failed", cancelled |-> "cancelled"]

\* The row is read again; the provider is asked unless that settles it.  A
\* batch the provider has not begun, or runs as known, is asked about later.
Poll(w) ==
    /\ At(w, "poll")
    /\ \/ /\ status \in {"settling", "completed"}
          /\ Goto(w, "ack") /\ UNCHANGED <<answer, faults>>
       \/ /\ status \in {"failed", "cancelled"}
          /\ Goto(w, "release") /\ UNCHANGED <<answer, faults>>
       \/ /\ status \in Unsubmitted
          /\ Goto(w, "requeue") /\ UNCHANGED <<answer, faults>>
       \/ /\ status = "indexing"
          /\ Goto(w, "index") /\ UNCHANGED <<answer, faults>>
       \/ /\ status \in {"submitted", "running"}
          /\ \/ upstream = "running" /\ Goto(w, "requeue") /\ UNCHANGED answer
             \/ /\ CallsFor[upstream] # status /\ Goto(w, "advance")
                /\ answer' = [answer EXCEPT ![w] = CallsFor[upstream]]
          /\ UNCHANGED faults
       \/ /\ status \in {"submitted", "running"}
          /\ Fault /\ Goto(w, "requeue") /\ UNCHANGED answer
    /\ UNCHANGED <<row, funds, batch, queue, lock, past>>

Advance(w) ==
    /\ At(w, "advance")
    /\ \E heard \in Heard :
         /\ Transition(heard, answer[w])
         /\ Goto(w, IF heard # "ok" \/ answer[w] = "running" THEN "requeue"
                    ELSE IF answer[w] = "indexing" THEN "index" ELSE "release")
    /\ answer' = [answer EXCEPT ![w] = "none"]
    /\ UNCHANGED <<funds, batch, queue, lock, past>>

\* The items are rebuilt only while the row says indexing.
Index(w) ==
    /\ At(w, "index")
    /\ \/ Goto(w, IF status = "indexing" THEN "settleNext" ELSE "requeue") /\ UNCHANGED faults
       \/ Fault /\ (Goto(w, "requeue") \/ Goto(w, "indexFailed"))
    /\ UNCHANGED <<row, funds, batch, queue, lock, answer, past>>

IndexFailed(w) ==
    /\ At(w, "indexFailed")
    /\ \E heard \in Heard :
         /\ Attempt(heard, ~CanTransition(status, "failed"),
                    /\ SetStatus("failed")
                    /\ past' = past \cup (IF status = "settling" THEN {"lateFail"} ELSE {}),
                    <<row, past>>)
         /\ Goto(w, IF heard = "ok" THEN "release" ELSE "requeue")
    /\ UNCHANGED <<funds, batch, queue, lock, answer>>

SettleNext(w) ==
    /\ At(w, "settleNext")
    /\ \E heard \in Heard : Transition(heard, "settling")
    /\ Goto(w, "requeue")
    /\ UNCHANGED <<funds, batch, queue, lock, answer, past>>

\* Mutant of ReleaseTerminalHold: a release that failed is not tried again.
ReleaseOnce(w) ==
    /\ At(w, "release")
    /\ \E heard \in Heard : ReleaseBalance(heard)
    /\ Goto(w, "ack")
    /\ UNCHANGED <<row, batch, queue, lock, answer, past>>

ReleaseTerminalHold(w) ==
    /\ At(w, "release")
    /\ \E heard \in Heard :
         /\ ReleaseBalance(heard)
         /\ Goto(w, IF heard = "ok" THEN "ack" ELSE "requeue")
    /\ UNCHANGED <<row, batch, queue, lock, answer, past>>

-----------------------------------------------------------------------------
(* Settle.                                                                 *)

\* A cost above the hold stands for every reason not to charge that stays:
\* counts or a manifest that do not fit, a price that is missing.  Asking for
\* the price may also fail once.
Settle(w) ==
    /\ At(w, "settle")
    /\ \/ /\ Goto(w, CASE status = "completed"  -> "ack"
                       [] status # "settling" /\ status # "completed" -> "requeue"
                       [] status = "settling" /\ retries >= MaxRetries -> "exhaust"
                       [] status = "settling" /\ retries < MaxRetries /\ cost > Hold -> "record"
                       [] OTHER -> "capture")
          /\ UNCHANGED faults
       \/ status = "settling" /\ retries < MaxRetries /\ Fault /\ Goto(w, "record")
    /\ UNCHANGED <<row, funds, batch, queue, lock, answer, past>>

\* Mutant of Capture: completes the job although the capture reported an error.
CaptureIgnored(w) ==
    /\ At(w, "capture")
    /\ \E heard \in Heard : CaptureBalance(heard)
    /\ Goto(w, "mark")
    /\ UNCHANGED <<row, batch, queue, lock, answer, past>>

Capture(w) ==
    /\ At(w, "capture")
    /\ \E heard \in Heard :
         /\ CaptureBalance(heard)
         /\ Goto(w, IF heard = "ok" THEN "mark" ELSE "record")
    /\ UNCHANGED <<row, batch, queue, lock, answer, past>>

MarkSettled(w) ==
    /\ At(w, "mark")
    /\ \E heard \in Heard :
         /\ Attempt(heard, status # "settling", SetStatus("completed"), row)
         /\ Goto(w, IF heard = "ok" THEN "ack" ELSE "requeue")
    /\ UNCHANGED <<funds, batch, queue, lock, answer, past>>

CountRetry == retries' = retries + 1 /\ UNCHANGED <<status, named, fresh, hidden>>

RecordSettlementFailure(w) ==
    /\ At(w, "record")
    /\ \/ /\ CountRetry /\ UNCHANGED faults
          /\ Goto(w, IF retries + 1 >= MaxRetries THEN "exhaust" ELSE "requeue")
       \/ Fault /\ (UNCHANGED row \/ CountRetry) /\ Goto(w, "requeue")
    /\ UNCHANGED <<funds, batch, queue, lock, answer, past>>

FailExhaustedSettlement(w) ==
    /\ At(w, "exhaust")
    /\ \E heard \in Heard :
         /\ ReleaseBalance(heard)
         /\ IF heard = "ok" THEN Goto(w, "failSettled") /\ UNCHANGED row
            ELSE Goto(w, "requeue") /\ (UNCHANGED row \/ CountRetry)
    /\ UNCHANGED <<batch, queue, lock, answer, past>>

FailSettled(w) ==
    /\ At(w, "failSettled")
    /\ \E heard \in Heard :
         /\ Transition(heard, "failed")
         /\ Goto(w, IF heard = "ok" THEN "ack" ELSE "requeue")
    /\ UNCHANGED <<funds, batch, queue, lock, answer, past>>

Work(w) ==
    \/ Reserved(w) \/ TryAcquireJobLock(w) \/ ReadJob(w) \/ Poll(w)
    \/ Advance(w) \/ Index(w) \/ IndexFailed(w) \/ SettleNext(w)
    \/ ReleaseTerminalHold(w) \/ Settle(w) \/ Capture(w) \/ MarkSettled(w)
    \/ RecordSettlementFailure(w) \/ FailExhaustedSettlement(w)
    \/ FailSettled(w) \/ Ack(w) \/ RequeueAfter(w)

-----------------------------------------------------------------------------
Next ==
    \/ Submit \/ Cancel \/ Recovery
    \/ MoveDueDelayed \/ RecoverStaleActive \/ JobLockExpires \/ ProviderEnds
    \/ \E w \in Workers : Work(w) \/ JobLockLapses(w) \/ WorkerCrashes(w)

\* The worker loops, the delayed mover and the stale recovery run forever and
\* Redis expires keys; nothing is owed by clients, the provider or the sweep.
Fairness ==
    /\ \A w \in Workers : WF_vars(Work(w))
    /\ WF_vars(MoveDueDelayed) /\ WF_vars(RecoverStaleActive)
    /\ WF_vars(JobLockExpires)

Spec == Init /\ [][Next]_vars /\ Fairness

-----------------------------------------------------------------------------
(* Properties.                                                             *)

Open == "hold" \in claims /\ "capture" \notin claims /\ ~returned

\* The two ways left to spend a hold twice: the retry limit reached by calls
\* that failed, or a worker that fails a job another one is settling.
SpentTwiceKnown ==
    (retries >= MaxRetries /\ cost <= Hold) \/ "lateFail" \in past

\* Whatever fails, stalls or repeats, the job's hold is frozen exactly while it
\* is open and leaves by one door: the other jobs' frozen amounts are intact
\* and the user has paid the cost or nothing.
HoldSpentOnce ==
    SpentTwiceKnown \/
       /\ frozen = Other + (IF Open THEN Hold ELSE 0)
       /\ balance = initial - (IF Open THEN Hold ELSE 0)
                            - (IF "capture" \in claims THEN cost ELSE 0)

\* A completed job was paid for, and its price stays paid.
CompletedIsCharged ==
    status = "completed" => "capture" \in claims /\ (SpentTwiceKnown \/ ~returned)

\* Whoever gave the held amount back, no batch goes on running at the
\* provider behind it once the submission is over, unless the provider's own
\* answer was lost: the sweep and the submission settle the race between them.
\* Excepted is a Cancel that read the row before the batch was recorded in it
\* and cancelled it after.
RefundedBatchIsStopped ==
    returned /\ upstream = "running" /\ submit \in {"done", "dead"} =>
        "orphan" \in past \/ (status = "cancelled" /\ named)

Queued == ready > 0 \/ delayed \/ active

\* A queued job that is settling or has ended does not keep its hold: it is
\* captured or released, through failing calls and dying workers.  Excepted
\* are jobs whose release id was claimed before the hold was, and workers that
\* go on after losing their lock.
HoldIsFreed ==
    (Queued /\ Open /\ status \in {"settling", "failed", "cancelled"})
       ~> (~Open \/ "release" \in claims \/ "lapse" \in past)

=============================================================================

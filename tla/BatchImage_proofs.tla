--------------------------- MODULE BatchImage_proofs ---------------------------
(***************************************************************************)
(* Proofs about BatchImage, for any number of workers, any balances, costs *)
(* and limits and any number of faults: a job's hold is spent once.        *)
(***************************************************************************)
EXTENDS BatchImage, TLAPS

HasHold  == "hold" \in claims
Captured == "capture" \in claims

\* Steps of a submission that has not asked the provider, or has given up.
EarlySteps  == {"create", "reserve", "items", "upload", "provider"}
GivingUp    == {"undo", "undoQuietly", "fail", "failAndQueue"}

Given    == {"failed", "cancelled"}
Early    == {"none"} \cup Unsubmitted \cup Given
Late     == {"settling", "completed"} \cup Given
Charging == {"capture", "mark"}

JobTypes ==
    /\ status \in Statuses
    /\ upstream \in {"none", "running", "succeeded", "failed", "cancelled"}
    /\ retries \in Nat /\ cost \in Nat
    /\ balance \in Int /\ frozen \in Int /\ initial \in Int
    /\ returned \in BOOLEAN
    /\ worker \in [Workers -> WorkerSteps]
    /\ answer \in [Workers -> {"none", "running", "indexing", "failed", "cancelled"}]

\* Nothing is charged for a submission that may still be undone, and none goes
\* on without its hold.
SubmitInv ==
    /\ submit = "create" => status = "none"
    /\ submit \notin {"create", "done"} => status # "none"
    /\ \A w \in Workers : worker[w] \notin {"idle", "lock", "read", "poll", "requeue", "ack"} =>
                           status # "none"
    /\ submit \in {"create", "reserve"} => ~HasHold
    /\ submit \in EarlySteps \cup GivingUp => status \in Early
    /\ submit \in {"items", "upload", "provider", "record", "enqueue", "undo", "undoQuietly"}
         \/ status \notin {"none", "created"} \cup Given => HasHold

\* The provider ends a batch once, and the job follows: no worker fails a job
\* that another has found to be successful.
ProviderInv ==
    /\ submit \in EarlySteps => upstream = "none"
    /\ submit \in {"record", "enqueue"} \/ status \notin Early => upstream # "none"
    /\ status \in {"indexing", "settling", "completed"} => upstream = "succeeded"
    /\ \A w \in Workers :
         /\ answer[w] = "indexing" => upstream = "succeeded"
         /\ answer[w] \in Given => upstream = answer[w]

\* Who settles, or counts a failed settlement, found the job settling: from
\* there it only ends.
SettleInv ==
    /\ \A w \in Workers :
         /\ worker[w] \in Charging \cup {"record", "exhaust", "failSettled"} => status \in Late
         /\ worker[w] \in Charging => HasHold /\ cost <= Hold
         /\ worker[w] = "mark" => Captured
         /\ worker[w] \in {"exhaust", "failSettled"} => retries >= MaxRetries
    /\ retries > 0 \/ Captured => status \in Late
    /\ Captured => HasHold /\ cost <= Hold
    /\ status = "completed" => Captured

\* Who gives the hold back, and is not the submission, found the job ended.
ReturnInv ==
    /\ cancel = "release" \/ recovery = "release" => status \in Given
    /\ \A w \in Workers : worker[w] = "release" => status \in Given
    /\ returned => /\ HasHold /\ "release" \in claims
                   /\ \/ status \in Given
                      \/ status \in Unsubmitted /\ submit \notin EarlySteps \cup {"record"}
                      \/ retries >= MaxRetries

\* A job that ends while it is charged ends in one of the two known ways.
OnceInv ==
    /\ status \in Given =>
         SpentTwiceKnown \/ (~Captured /\ \A w \in Workers : worker[w] \notin Charging)
    /\ Captured /\ returned => SpentTwiceKnown

\* The money follows the claims.
MoneyInv ==
    /\ frozen = Other + (IF HasHold THEN Hold ELSE 0)
                      - (IF Captured THEN Hold ELSE 0) - (IF returned THEN Hold ELSE 0)
    /\ balance = initial - (IF HasHold THEN Hold ELSE 0)
                         + (IF Captured THEN Hold - cost ELSE 0) + (IF returned THEN Hold ELSE 0)

\* A batch that runs at the provider is known to the submission that started
\* it, or recorded in the row; and while it runs only a cancel ends its job.
StoppedInv ==
    /\ submit \in EarlySteps \cup {"record"} => ~named
    /\ \A w \in Workers : worker[w] \in {"index", "indexFailed"} => upstream = "succeeded"
    /\ upstream = "running" /\ "orphan" \notin past =>
         /\ \/ submit \in {"record", "abort"}
            \/ submit \in {"enqueue", "done", "dead"} /\ named
         /\ named => status \in {"submitted", "running", "cancelled"}

IInv == JobTypes /\ SubmitInv /\ ProviderInv /\ SettleInv /\ ReturnInv /\ OnceInv
        /\ MoneyInv /\ StoppedInv

USE DEF At, Fault, row, funds, batch, queue, procs, Unsubmitted, Terminal, Heard, Attempt,
        SetStatus, Transition, CanTransition, Allowed, CancelUpstream, CountRetry,
        SubmitGoto, CancelGoto, RecoveryGoto, Goto

-----------------------------------------------------------------------------

\* What the transactions do to the money, whether or not they are answered.
Spends(claim) ==
    \/ UNCHANGED <<balance, frozen, returned>> /\ claims' \in {claims, claims \cup {claim}}
         /\ (claim # "release" => claims' = claims)
    \/ /\ claim \notin claims /\ claims' = claims \cup {claim}
       /\ \/ claim = "capture" /\ returned' = returned
             /\ balance' = balance + Hold - cost /\ frozen' = frozen - Hold
          \/ claim = "release" /\ returned' = TRUE /\ HasHold
             /\ balance' = balance + Hold /\ frozen' = frozen - Hold

\* The capture; answered, it has been made.
LEMMA Captures ==
    ASSUME NEW heard \in Heard, CaptureBalance(heard)
    PROVE  Spends("capture") /\ (heard = "ok" => "capture" \in claims')
  BY DEF CaptureBalance, CaptureTx, Spends

\* The releases: of a submission, a cancellation, the sweep, the workers.
LEMMA Releases ==
    ASSUME NEW heard \in Heard, ReleaseBalance(heard)
    PROVE  Spends("release")
  BY DEF ReleaseBalance, ReleaseTx, HoldClaimExists, Spends, HasHold

\* The amounts stay numbers.
LEMMA SpendsTypes ==
    ASSUME JobTypes, NEW claim, Spends(claim)
    PROVE  balance' \in Int /\ frozen' \in Int /\ returned' \in BOOLEAN
  <1>1. balance' \in Int /\ frozen' \in Int
    BY BatchAssumption DEF Spends, JobTypes
  <1>2. returned' = returned \/ returned' = TRUE
    BY DEF Spends
  <1> QED BY <1>1, <1>2 DEF JobTypes

\* No step leaves the types.
LEMMA TypesStep == IInv /\ [Next]_vars => JobTypes'
  <1> SUFFICES ASSUME IInv, [Next]_vars PROVE JobTypes'
    OBVIOUS
  <1>1. JobTypes /\ ProviderInv
    BY DEF IInv
  <1> USE BatchAssumption DEF JobTypes, ProviderInv, Early, Given, Statuses, WorkerSteps
  <1>2. CASE Submit
    <2>1. CASE \/ CreatePendingItems \/ TouchSubmitting \/ AbortOrphanProviderJob
               \/ SubmitEnqueue \/ SubmitCrashes \/ Resubmit
      BY <1>1, <2>1 DEF CreatePendingItems, TouchSubmitting, AbortOrphanProviderJob,
         SubmitEnqueue, SubmitCrashes, Resubmit
    <2>2. CASE CreateJob \/ BeginUpload \/ UpdateProviderSubmit
      BY <1>1, <2>2 DEF CreateJob, BeginUpload, UpdateProviderSubmit, SetSubmitted
    <2>3. CASE Reserve \/ ProviderSubmit
      BY <1>1, <2>3 DEF Reserve, ReserveBalance, ReserveTx, ProviderSubmit
    <2>4. CASE ReleaseFailedSubmitHold
      <3>1. Spends("release")
        BY <2>4, Releases DEF ReleaseFailedSubmitHold
      <3> QED BY <1>1, <2>4, <3>1, SpendsTypes DEF ReleaseFailedSubmitHold
    <2>5. CASE RecordSubmitFailure
      BY <1>1, <2>5 DEF RecordSubmitFailure
    <2> QED BY <1>2, <2>1, <2>2, <2>3, <2>4, <2>5 DEF Submit
  <1>3. CASE Cancel
    <2>1. CASE \/ CancelRead \/ CancelEnqueue \/ CancelCrashes
               \/ CancelProvider \/ CancelTransition
      BY <1>1, <2>1 DEF CancelRead, CancelEnqueue, CancelCrashes, CancelProvider,
         CancelTransition
    <2>2. CASE CancelRelease
      <3>1. Spends("release")
        BY <2>2, Releases DEF CancelRelease
      <3> QED BY <1>1, <2>2, <3>1, SpendsTypes DEF CancelRelease
    <2> QED BY <1>3, <2>1, <2>2 DEF Cancel
  <1>4. CASE Recovery
    <2>1. CASE \/ TimePasses \/ ListStale \/ FailStaleUnsubmitted
               \/ EnqueueReleaseRetry \/ RecoveryCrashes
      BY <1>1, <2>1 DEF TimePasses, ListStale, FailStaleUnsubmitted, StaleUnsubmitted,
         EnqueueReleaseRetry, RecoveryCrashes
    <2>2. CASE RecoveryRelease
      <3>1. Spends("release")
        BY <2>2, Releases DEF RecoveryRelease
      <3> QED BY <1>1, <2>2, <3>1, SpendsTypes DEF RecoveryRelease
    <2> QED BY <1>4, <2>1, <2>2 DEF Recovery
  <1>5. ASSUME NEW w \in Workers, Work(w) PROVE JobTypes'
    <2>1. CASE \/ Reserved(w) \/ TryAcquireJobLock(w) \/ ReadJob(w)
               \/ Index(w) \/ Ack(w) \/ RequeueAfter(w)
      BY <1>1, <2>1 DEF Reserved, TryAcquireJobLock, ReadJob, Index, Ack, RequeueAfter
    <2>2. CASE Poll(w)
      BY <1>1, <2>2 DEF Poll, CallsFor
    <2>3. CASE Advance(w)
      BY <1>1, <2>3 DEF Advance
    <2>4. CASE IndexFailed(w)
      BY <1>1, <2>4 DEF IndexFailed
    <2>5. CASE SettleNext(w) \/ MarkSettled(w) \/ FailSettled(w)
      BY <1>1, <2>5 DEF SettleNext, MarkSettled, FailSettled
    <2>6. CASE ReleaseTerminalHold(w)
      <3>1. Spends("release")
        BY <2>6, Releases DEF ReleaseTerminalHold
      <3> QED BY <1>1, <2>6, <3>1, SpendsTypes DEF ReleaseTerminalHold
    <2>7. CASE Settle(w) \/ RecordSettlementFailure(w)
      BY <1>1, <2>7 DEF Settle, RecordSettlementFailure
    <2>8. CASE Capture(w)
      <3>1. Spends("capture")
        BY <2>8, Captures DEF Capture
      <3> QED BY <1>1, <2>8, <3>1, SpendsTypes, Captures DEF Capture
    <2>9. CASE FailExhaustedSettlement(w)
      <3>1. Spends("release")
        BY <2>9, Releases DEF FailExhaustedSettlement
      <3> QED BY <1>1, <2>9, <3>1, SpendsTypes DEF FailExhaustedSettlement
    <2> QED BY <1>5, <2>1, <2>2, <2>3, <2>4, <2>5, <2>6, <2>7, <2>8, <2>9 DEF Work
  <1>6. CASE MoveDueDelayed \/ RecoverStaleActive \/ JobLockExpires \/ ProviderEnds
    BY <1>1, <1>6 DEF MoveDueDelayed, RecoverStaleActive, JobLockExpires, ProviderEnds
  <1>7. ASSUME NEW w \in Workers, JobLockLapses(w) \/ WorkerCrashes(w) PROVE JobTypes'
    BY <1>1, <1>7 DEF JobLockLapses, WorkerCrashes
  <1>8. CASE UNCHANGED vars
    BY <1>1, <1>8 DEF vars
  <1> QED BY <1>2, <1>3, <1>4, <1>5, <1>6, <1>7, <1>8 DEF Next

\* A submission is at its job until it is recorded, and has its hold when it goes on.
LEMMA SubmitStep == IInv /\ [Next]_vars => SubmitInv'
  <1> SUFFICES ASSUME IInv, [Next]_vars PROVE SubmitInv'
    OBVIOUS
  <1>1. JobTypes /\ SubmitInv
    BY DEF IInv
  <1> USE BatchAssumption DEF JobTypes, SubmitInv, HasHold, EarlySteps, GivingUp, Early,
     Given, Statuses
  <1>2. CASE Submit
    <2>1. CASE \/ CreatePendingItems \/ TouchSubmitting \/ AbortOrphanProviderJob
               \/ SubmitEnqueue \/ SubmitCrashes \/ Resubmit
      BY <1>1, <2>1 DEF CreatePendingItems, TouchSubmitting, AbortOrphanProviderJob,
         SubmitEnqueue, SubmitCrashes, Resubmit
    <2>2. CASE CreateJob \/ BeginUpload \/ UpdateProviderSubmit
      BY <1>1, <2>2 DEF CreateJob, BeginUpload, UpdateProviderSubmit, SetSubmitted
    <2>3. CASE Reserve \/ ProviderSubmit
      BY <1>1, <2>3 DEF Reserve, ReserveBalance, ReserveTx, ProviderSubmit
    <2>4. CASE ReleaseFailedSubmitHold
      <3>1. Spends("release")
        BY <2>4, Releases DEF ReleaseFailedSubmitHold
      <3> QED BY <1>1, <2>4, <3>1 DEF ReleaseFailedSubmitHold, Spends
    <2>5. CASE RecordSubmitFailure
      BY <1>1, <2>5 DEF RecordSubmitFailure
    <2> QED BY <1>2, <2>1, <2>2, <2>3, <2>4, <2>5 DEF Submit
  <1>3. CASE Cancel
    <2>1. CASE \/ CancelRead \/ CancelEnqueue \/ CancelCrashes
               \/ CancelProvider \/ CancelTransition
      BY <1>1, <2>1 DEF CancelRead, CancelEnqueue, CancelCrashes, CancelProvider,
         CancelTransition
    <2>2. CASE CancelRelease
      <3>1. Spends("release")
        BY <2>2, Releases DEF CancelRelease
      <3> QED BY <1>1, <2>2, <3>1 DEF CancelRelease, Spends
    <2> QED BY <1>3, <2>1, <2>2 DEF Cancel
  <1>4. CASE Recovery
    <2>1. CASE \/ TimePasses \/ ListStale \/ FailStaleUnsubmitted
               \/ EnqueueReleaseRetry \/ RecoveryCrashes
      BY <1>1, <2>1 DEF TimePasses, ListStale, FailStaleUnsubmitted, StaleUnsubmitted,
         EnqueueReleaseRetry, RecoveryCrashes
    <2>2. CASE RecoveryRelease
      <3>1. Spends("release")
        BY <2>2, Releases DEF RecoveryRelease
      <3> QED BY <1>1, <2>2, <3>1 DEF RecoveryRelease, Spends
    <2> QED BY <1>4, <2>1, <2>2 DEF Recovery
  <1>5. ASSUME NEW w \in Workers, Work(w) PROVE SubmitInv'
    <2>1. CASE \/ Reserved(w) \/ TryAcquireJobLock(w) \/ ReadJob(w)
               \/ Index(w) \/ Ack(w) \/ RequeueAfter(w)
      BY <1>1, <2>1 DEF Reserved, TryAcquireJobLock, ReadJob, Index, Ack, RequeueAfter
    <2>2. CASE Poll(w)
      BY <1>1, <2>2 DEF Poll, CallsFor
    <2>3. CASE Advance(w)
      BY <1>1, <2>3 DEF Advance
    <2>4. CASE IndexFailed(w)
      BY <1>1, <2>4 DEF IndexFailed
    <2>5. CASE SettleNext(w) \/ MarkSettled(w) \/ FailSettled(w)
      BY <1>1, <2>5 DEF SettleNext, MarkSettled, FailSettled
    <2>6. CASE ReleaseTerminalHold(w)
      <3>1. Spends("release")
        BY <2>6, Releases DEF ReleaseTerminalHold
      <3> QED BY <1>1, <2>6, <3>1 DEF ReleaseTerminalHold, Spends
    <2>7. CASE Settle(w) \/ RecordSettlementFailure(w)
      BY <1>1, <2>7 DEF Settle, RecordSettlementFailure
    <2>8. CASE Capture(w)
      <3>1. Spends("capture")
        BY <2>8, Captures DEF Capture
      <3> QED BY <1>1, <2>8, <3>1, Captures DEF Capture, Spends
    <2>9. CASE FailExhaustedSettlement(w)
      <3>1. Spends("release")
        BY <2>9, Releases DEF FailExhaustedSettlement
      <3> QED BY <1>1, <2>9, <3>1 DEF FailExhaustedSettlement, Spends
    <2> QED BY <1>5, <2>1, <2>2, <2>3, <2>4, <2>5, <2>6, <2>7, <2>8, <2>9 DEF Work
  <1>6. CASE MoveDueDelayed \/ RecoverStaleActive \/ JobLockExpires \/ ProviderEnds
    BY <1>1, <1>6 DEF MoveDueDelayed, RecoverStaleActive, JobLockExpires, ProviderEnds
  <1>7. ASSUME NEW w \in Workers, JobLockLapses(w) \/ WorkerCrashes(w) PROVE SubmitInv'
    BY <1>1, <1>7 DEF JobLockLapses, WorkerCrashes
  <1>8. CASE UNCHANGED vars
    BY <1>1, <1>8 DEF vars
  <1> QED BY <1>2, <1>3, <1>4, <1>5, <1>6, <1>7, <1>8 DEF Next

\* The job follows the provider.
LEMMA ProviderStep == IInv /\ [Next]_vars => ProviderInv'
  <1> SUFFICES ASSUME IInv, [Next]_vars PROVE ProviderInv'
    OBVIOUS
  <1>1. JobTypes /\ SubmitInv /\ ProviderInv
    BY DEF IInv
  <1> USE BatchAssumption DEF JobTypes, SubmitInv, ProviderInv, HasHold, Captured,
     EarlySteps, GivingUp, Early, Given, Late, Charging, Statuses
  <1>2. CASE Submit
    <2>1. CASE \/ CreatePendingItems \/ TouchSubmitting \/ AbortOrphanProviderJob
               \/ SubmitEnqueue \/ SubmitCrashes \/ Resubmit
      BY <1>1, <2>1 DEF CreatePendingItems, TouchSubmitting, AbortOrphanProviderJob,
         SubmitEnqueue, SubmitCrashes, Resubmit
    <2>2. CASE CreateJob \/ BeginUpload \/ UpdateProviderSubmit
      BY <1>1, <2>2 DEF CreateJob, BeginUpload, UpdateProviderSubmit, SetSubmitted
    <2>3. CASE Reserve \/ ProviderSubmit
      BY <1>1, <2>3 DEF Reserve, ReserveBalance, ReserveTx, ProviderSubmit
    <2>4. CASE ReleaseFailedSubmitHold
      <3>1. Spends("release")
        BY <2>4, Releases DEF ReleaseFailedSubmitHold
      <3> QED BY <1>1, <2>4, <3>1 DEF ReleaseFailedSubmitHold, Spends
    <2>5. CASE RecordSubmitFailure
      BY <1>1, <2>5 DEF RecordSubmitFailure
    <2> QED BY <1>2, <2>1, <2>2, <2>3, <2>4, <2>5 DEF Submit
  <1>3. CASE Cancel
    <2>1. CASE \/ CancelRead \/ CancelEnqueue \/ CancelCrashes
               \/ CancelProvider \/ CancelTransition
      BY <1>1, <2>1 DEF CancelRead, CancelEnqueue, CancelCrashes, CancelProvider,
         CancelTransition
    <2>2. CASE CancelRelease
      <3>1. Spends("release")
        BY <2>2, Releases DEF CancelRelease
      <3> QED BY <1>1, <2>2, <3>1 DEF CancelRelease, Spends
    <2> QED BY <1>3, <2>1, <2>2 DEF Cancel
  <1>4. CASE Recovery
    <2>1. CASE \/ TimePasses \/ ListStale \/ FailStaleUnsubmitted
               \/ EnqueueReleaseRetry \/ RecoveryCrashes
      BY <1>1, <2>1 DEF TimePasses, ListStale, FailStaleUnsubmitted, StaleUnsubmitted,
         EnqueueReleaseRetry, RecoveryCrashes
    <2>2. CASE RecoveryRelease
      <3>1. Spends("release")
        BY <2>2, Releases DEF RecoveryRelease
      <3> QED BY <1>1, <2>2, <3>1 DEF RecoveryRelease, Spends
    <2> QED BY <1>4, <2>1, <2>2 DEF Recovery
  <1>5. ASSUME NEW w \in Workers, Work(w) PROVE ProviderInv'
    <2>1. CASE \/ Reserved(w) \/ TryAcquireJobLock(w) \/ ReadJob(w)
               \/ Index(w) \/ Ack(w) \/ RequeueAfter(w)
      BY <1>1, <2>1 DEF Reserved, TryAcquireJobLock, ReadJob, Index, Ack, RequeueAfter
    <2>2. CASE Poll(w)
      BY <1>1, <2>2 DEF Poll, CallsFor
    <2>3. CASE Advance(w)
      BY <1>1, <2>3 DEF Advance
    <2>4. CASE IndexFailed(w)
      BY <1>1, <2>4 DEF IndexFailed
    <2>5. CASE SettleNext(w) \/ MarkSettled(w) \/ FailSettled(w)
      BY <1>1, <2>5 DEF SettleNext, MarkSettled, FailSettled
    <2>6. CASE ReleaseTerminalHold(w)
      <3>1. Spends("release")
        BY <2>6, Releases DEF ReleaseTerminalHold
      <3> QED BY <1>1, <2>6, <3>1 DEF ReleaseTerminalHold, Spends
    <2>7. CASE Settle(w) \/ RecordSettlementFailure(w)
      BY <1>1, <2>7 DEF Settle, RecordSettlementFailure
    <2>8. CASE Capture(w)
      <3>1. Spends("capture")
        BY <2>8, Captures DEF Capture
      <3> QED BY <1>1, <2>8, <3>1, Captures DEF Capture, Spends
    <2>9. CASE FailExhaustedSettlement(w)
      <3>1. Spends("release")
        BY <2>9, Releases DEF FailExhaustedSettlement
      <3> QED BY <1>1, <2>9, <3>1 DEF FailExhaustedSettlement, Spends
    <2> QED BY <1>5, <2>1, <2>2, <2>3, <2>4, <2>5, <2>6, <2>7, <2>8, <2>9 DEF Work
  <1>6. CASE MoveDueDelayed \/ RecoverStaleActive \/ JobLockExpires \/ ProviderEnds
    BY <1>1, <1>6 DEF MoveDueDelayed, RecoverStaleActive, JobLockExpires, ProviderEnds
  <1>7. ASSUME NEW w \in Workers, JobLockLapses(w) \/ WorkerCrashes(w) PROVE ProviderInv'
    BY <1>1, <1>7 DEF JobLockLapses, WorkerCrashes
  <1>8. CASE UNCHANGED vars
    BY <1>1, <1>8 DEF vars
  <1> QED BY <1>2, <1>3, <1>4, <1>5, <1>6, <1>7, <1>8 DEF Next

\* Settling is entered and left in one direction.
LEMMA SettleStep == IInv /\ [Next]_vars => SettleInv'
  <1> SUFFICES ASSUME IInv, [Next]_vars PROVE SettleInv'
    OBVIOUS
  <1>1. JobTypes /\ SubmitInv /\ ProviderInv /\ SettleInv
    BY DEF IInv
  <1> USE BatchAssumption DEF JobTypes, SubmitInv, ProviderInv, HasHold, Captured,
     EarlySteps, GivingUp, Early, Given, Late, Charging, Statuses, SettleInv
  <1>2. CASE Submit
    <2>1. CASE \/ CreatePendingItems \/ TouchSubmitting \/ AbortOrphanProviderJob
               \/ SubmitEnqueue \/ SubmitCrashes \/ Resubmit
      BY <1>1, <2>1 DEF CreatePendingItems, TouchSubmitting, AbortOrphanProviderJob,
         SubmitEnqueue, SubmitCrashes, Resubmit
    <2>2. CASE CreateJob \/ BeginUpload \/ UpdateProviderSubmit
      BY <1>1, <2>2 DEF CreateJob, BeginUpload, UpdateProviderSubmit, SetSubmitted
    <2>3. CASE Reserve \/ ProviderSubmit
      BY <1>1, <2>3 DEF Reserve, ReserveBalance, ReserveTx, ProviderSubmit
    <2>4. CASE ReleaseFailedSubmitHold
      <3>1. Spends("release")
        BY <2>4, Releases DEF ReleaseFailedSubmitHold
      <3> QED BY <1>1, <2>4, <3>1 DEF ReleaseFailedSubmitHold, Spends
    <2>5. CASE RecordSubmitFailure
      BY <1>1, <2>5 DEF RecordSubmitFailure
    <2> QED BY <1>2, <2>1, <2>2, <2>3, <2>4, <2>5 DEF Submit
  <1>3. CASE Cancel
    <2>1. CASE \/ CancelRead \/ CancelEnqueue \/ CancelCrashes
               \/ CancelProvider \/ CancelTransition
      BY <1>1, <2>1 DEF CancelRead, CancelEnqueue, CancelCrashes, CancelProvider,
         CancelTransition
    <2>2. CASE CancelRelease
      <3>1. Spends("release")
        BY <2>2, Releases DEF CancelRelease
      <3> QED BY <1>1, <2>2, <3>1 DEF CancelRelease, Spends
    <2> QED BY <1>3, <2>1, <2>2 DEF Cancel
  <1>4. CASE Recovery
    <2>1. CASE \/ TimePasses \/ ListStale \/ FailStaleUnsubmitted
               \/ EnqueueReleaseRetry \/ RecoveryCrashes
      BY <1>1, <2>1 DEF TimePasses, ListStale, FailStaleUnsubmitted, StaleUnsubmitted,
         EnqueueReleaseRetry, RecoveryCrashes
    <2>2. CASE RecoveryRelease
      <3>1. Spends("release")
        BY <2>2, Releases DEF RecoveryRelease
      <3> QED BY <1>1, <2>2, <3>1 DEF RecoveryRelease, Spends
    <2> QED BY <1>4, <2>1, <2>2 DEF Recovery
  <1>5. ASSUME NEW w \in Workers, Work(w) PROVE SettleInv'
    <2>1. CASE \/ Reserved(w) \/ TryAcquireJobLock(w) \/ ReadJob(w)
               \/ Index(w) \/ Ack(w) \/ RequeueAfter(w)
      BY <1>1, <2>1 DEF Reserved, TryAcquireJobLock, ReadJob, Index, Ack, RequeueAfter
    <2>2. CASE Poll(w)
      BY <1>1, <2>2 DEF Poll, CallsFor
    <2>3. CASE Advance(w)
      BY <1>1, <2>3 DEF Advance
    <2>4. CASE IndexFailed(w)
      BY <1>1, <2>4 DEF IndexFailed
    <2>5. CASE SettleNext(w) \/ MarkSettled(w) \/ FailSettled(w)
      BY <1>1, <2>5 DEF SettleNext, MarkSettled, FailSettled
    <2>6. CASE ReleaseTerminalHold(w)
      <3>1. Spends("release")
        BY <2>6, Releases DEF ReleaseTerminalHold
      <3> QED BY <1>1, <2>6, <3>1 DEF ReleaseTerminalHold, Spends
    <2>7. CASE Settle(w) \/ RecordSettlementFailure(w)
      BY <1>1, <2>7 DEF Settle, RecordSettlementFailure
    <2>8. CASE Capture(w)
      <3>1. Spends("capture")
        BY <2>8, Captures DEF Capture
      <3> QED BY <1>1, <2>8, <3>1, Captures DEF Capture, Spends
    <2>9. CASE FailExhaustedSettlement(w)
      <3>1. Spends("release")
        BY <2>9, Releases DEF FailExhaustedSettlement
      <3> QED BY <1>1, <2>9, <3>1 DEF FailExhaustedSettlement, Spends
    <2> QED BY <1>5, <2>1, <2>2, <2>3, <2>4, <2>5, <2>6, <2>7, <2>8, <2>9 DEF Work
  <1>6. CASE MoveDueDelayed \/ RecoverStaleActive \/ JobLockExpires \/ ProviderEnds
    BY <1>1, <1>6 DEF MoveDueDelayed, RecoverStaleActive, JobLockExpires, ProviderEnds
  <1>7. ASSUME NEW w \in Workers, JobLockLapses(w) \/ WorkerCrashes(w) PROVE SettleInv'
    BY <1>1, <1>7 DEF JobLockLapses, WorkerCrashes
  <1>8. CASE UNCHANGED vars
    BY <1>1, <1>8 DEF vars
  <1> QED BY <1>2, <1>3, <1>4, <1>5, <1>6, <1>7, <1>8 DEF Next

\* What gives the hold back goes on finding the job ended.
LEMMA ReturnStep == IInv /\ [Next]_vars => ReturnInv'
  <1> SUFFICES ASSUME IInv, [Next]_vars PROVE ReturnInv'
    OBVIOUS
  <1>1. JobTypes /\ SubmitInv /\ ProviderInv /\ SettleInv /\ ReturnInv
    BY DEF IInv
  <1> USE BatchAssumption DEF JobTypes, SubmitInv, ProviderInv, HasHold, Captured,
     EarlySteps, GivingUp, Early, Given, Late, Charging, Statuses, SettleInv, ReturnInv
  <1>2. CASE Submit
    <2>1. CASE \/ CreatePendingItems \/ TouchSubmitting \/ AbortOrphanProviderJob
               \/ SubmitEnqueue \/ SubmitCrashes \/ Resubmit
      BY <1>1, <2>1 DEF CreatePendingItems, TouchSubmitting, AbortOrphanProviderJob,
         SubmitEnqueue, SubmitCrashes, Resubmit
    <2>2. CASE CreateJob \/ BeginUpload \/ UpdateProviderSubmit
      BY <1>1, <2>2 DEF CreateJob, BeginUpload, UpdateProviderSubmit, SetSubmitted
    <2>3. CASE Reserve \/ ProviderSubmit
      BY <1>1, <2>3 DEF Reserve, ReserveBalance, ReserveTx, ProviderSubmit
    <2>4. CASE ReleaseFailedSubmitHold
      <3>1. Spends("release")
        BY <2>4, Releases DEF ReleaseFailedSubmitHold
      <3> QED BY <1>1, <2>4, <3>1 DEF ReleaseFailedSubmitHold, Spends
    <2>5. CASE RecordSubmitFailure
      BY <1>1, <2>5 DEF RecordSubmitFailure
    <2> QED BY <1>2, <2>1, <2>2, <2>3, <2>4, <2>5 DEF Submit
  <1>3. CASE Cancel
    <2>1. CASE \/ CancelRead \/ CancelEnqueue \/ CancelCrashes
               \/ CancelProvider \/ CancelTransition
      BY <1>1, <2>1 DEF CancelRead, CancelEnqueue, CancelCrashes, CancelProvider,
         CancelTransition
    <2>2. CASE CancelRelease
      <3>1. Spends("release")
        BY <2>2, Releases DEF CancelRelease
      <3> QED BY <1>1, <2>2, <3>1 DEF CancelRelease, Spends
    <2> QED BY <1>3, <2>1, <2>2 DEF Cancel
  <1>4. CASE Recovery
    <2>1. CASE \/ TimePasses \/ ListStale \/ FailStaleUnsubmitted
               \/ EnqueueReleaseRetry \/ RecoveryCrashes
      BY <1>1, <2>1 DEF TimePasses, ListStale, FailStaleUnsubmitted, StaleUnsubmitted,
         EnqueueReleaseRetry, RecoveryCrashes
    <2>2. CASE RecoveryRelease
      <3>1. Spends("release")
        BY <2>2, Releases DEF RecoveryRelease
      <3> QED BY <1>1, <2>2, <3>1 DEF RecoveryRelease, Spends
    <2> QED BY <1>4, <2>1, <2>2 DEF Recovery
  <1>5. ASSUME NEW w \in Workers, Work(w) PROVE ReturnInv'
    <2>1. CASE \/ Reserved(w) \/ TryAcquireJobLock(w) \/ ReadJob(w)
               \/ Index(w) \/ Ack(w) \/ RequeueAfter(w)
      BY <1>1, <2>1 DEF Reserved, TryAcquireJobLock, ReadJob, Index, Ack, RequeueAfter
    <2>2. CASE Poll(w)
      BY <1>1, <2>2 DEF Poll, CallsFor
    <2>3. CASE Advance(w)
      BY <1>1, <2>3 DEF Advance
    <2>4. CASE IndexFailed(w)
      BY <1>1, <2>4 DEF IndexFailed
    <2>5. CASE SettleNext(w) \/ MarkSettled(w) \/ FailSettled(w)
      BY <1>1, <2>5 DEF SettleNext, MarkSettled, FailSettled
    <2>6. CASE ReleaseTerminalHold(w)
      <3>1. Spends("release")
        BY <2>6, Releases DEF ReleaseTerminalHold
      <3> QED BY <1>1, <2>6, <3>1 DEF ReleaseTerminalHold, Spends
    <2>7. CASE Settle(w) \/ RecordSettlementFailure(w)
      BY <1>1, <2>7 DEF Settle, RecordSettlementFailure
    <2>8. CASE Capture(w)
      <3>1. Spends("capture")
        BY <2>8, Captures DEF Capture
      <3> QED BY <1>1, <2>8, <3>1, Captures DEF Capture, Spends
    <2>9. CASE FailExhaustedSettlement(w)
      <3>1. Spends("release")
        BY <2>9, Releases DEF FailExhaustedSettlement
      <3> QED BY <1>1, <2>9, <3>1 DEF FailExhaustedSettlement, Spends
    <2> QED BY <1>5, <2>1, <2>2, <2>3, <2>4, <2>5, <2>6, <2>7, <2>8, <2>9 DEF Work
  <1>6. CASE MoveDueDelayed \/ RecoverStaleActive \/ JobLockExpires \/ ProviderEnds
    BY <1>1, <1>6 DEF MoveDueDelayed, RecoverStaleActive, JobLockExpires, ProviderEnds
  <1>7. ASSUME NEW w \in Workers, JobLockLapses(w) \/ WorkerCrashes(w) PROVE ReturnInv'
    BY <1>1, <1>7 DEF JobLockLapses, WorkerCrashes
  <1>8. CASE UNCHANGED vars
    BY <1>1, <1>8 DEF vars
  <1> QED BY <1>2, <1>3, <1>4, <1>5, <1>6, <1>7, <1>8 DEF Next

\* Charging and giving back exclude each other.
LEMMA OnceStep == IInv /\ [Next]_vars => OnceInv'
  <1> SUFFICES ASSUME IInv, [Next]_vars PROVE OnceInv'
    OBVIOUS
  <1>1. JobTypes /\ SubmitInv /\ ProviderInv /\ SettleInv /\ ReturnInv /\ OnceInv
    BY DEF IInv
  <1> USE BatchAssumption DEF JobTypes, SubmitInv, ProviderInv, HasHold, Captured,
     EarlySteps, GivingUp, Early, Given, Late, Charging, Statuses, SettleInv, ReturnInv,
     OnceInv, SpentTwiceKnown
  <1>2. CASE Submit
    <2>1. CASE \/ CreatePendingItems \/ TouchSubmitting \/ AbortOrphanProviderJob
               \/ SubmitEnqueue \/ SubmitCrashes \/ Resubmit
      BY <1>1, <2>1 DEF CreatePendingItems, TouchSubmitting, AbortOrphanProviderJob,
         SubmitEnqueue, SubmitCrashes, Resubmit
    <2>2. CASE CreateJob \/ BeginUpload \/ UpdateProviderSubmit
      BY <1>1, <2>2 DEF CreateJob, BeginUpload, UpdateProviderSubmit, SetSubmitted
    <2>3. CASE Reserve \/ ProviderSubmit
      BY <1>1, <2>3 DEF Reserve, ReserveBalance, ReserveTx, ProviderSubmit
    <2>4. CASE ReleaseFailedSubmitHold
      <3>1. Spends("release")
        BY <2>4, Releases DEF ReleaseFailedSubmitHold
      <3> QED BY <1>1, <2>4, <3>1 DEF ReleaseFailedSubmitHold, Spends
    <2>5. CASE RecordSubmitFailure
      BY <1>1, <2>5 DEF RecordSubmitFailure
    <2> QED BY <1>2, <2>1, <2>2, <2>3, <2>4, <2>5 DEF Submit
  <1>3. CASE Cancel
    <2>1. CASE \/ CancelRead \/ CancelEnqueue \/ CancelCrashes
               \/ CancelProvider \/ CancelTransition
      BY <1>1, <2>1 DEF CancelRead, CancelEnqueue, CancelCrashes, CancelProvider,
         CancelTransition
    <2>2. CASE CancelRelease
      <3>1. Spends("release")
        BY <2>2, Releases DEF CancelRelease
      <3> QED BY <1>1, <2>2, <3>1 DEF CancelRelease, Spends
    <2> QED BY <1>3, <2>1, <2>2 DEF Cancel
  <1>4. CASE Recovery
    <2>1. CASE \/ TimePasses \/ ListStale \/ FailStaleUnsubmitted
               \/ EnqueueReleaseRetry \/ RecoveryCrashes
      BY <1>1, <2>1 DEF TimePasses, ListStale, FailStaleUnsubmitted, StaleUnsubmitted,
         EnqueueReleaseRetry, RecoveryCrashes
    <2>2. CASE RecoveryRelease
      <3>1. Spends("release")
        BY <2>2, Releases DEF RecoveryRelease
      <3> QED BY <1>1, <2>2, <3>1 DEF RecoveryRelease, Spends
    <2> QED BY <1>4, <2>1, <2>2 DEF Recovery
  <1>5. ASSUME NEW w \in Workers, Work(w) PROVE OnceInv'
    <2>1. CASE \/ Reserved(w) \/ TryAcquireJobLock(w) \/ ReadJob(w)
               \/ Index(w) \/ Ack(w) \/ RequeueAfter(w)
      BY <1>1, <2>1 DEF Reserved, TryAcquireJobLock, ReadJob, Index, Ack, RequeueAfter
    <2>2. CASE Poll(w)
      BY <1>1, <2>2 DEF Poll, CallsFor
    <2>3. CASE Advance(w)
      BY <1>1, <2>3 DEF Advance
    <2>4. CASE IndexFailed(w)
      BY <1>1, <2>4 DEF IndexFailed
    <2>5. CASE SettleNext(w) \/ MarkSettled(w) \/ FailSettled(w)
      BY <1>1, <2>5 DEF SettleNext, MarkSettled, FailSettled
    <2>6. CASE ReleaseTerminalHold(w)
      <3>1. Spends("release")
        BY <2>6, Releases DEF ReleaseTerminalHold
      <3> QED BY <1>1, <2>6, <3>1 DEF ReleaseTerminalHold, Spends
    <2>7. CASE Settle(w) \/ RecordSettlementFailure(w)
      BY <1>1, <2>7 DEF Settle, RecordSettlementFailure
    <2>8. CASE Capture(w)
      <3>1. Spends("capture")
        BY <2>8, Captures DEF Capture
      <3> QED BY <1>1, <2>8, <3>1, Captures DEF Capture, Spends
    <2>9. CASE FailExhaustedSettlement(w)
      <3>1. Spends("release")
        BY <2>9, Releases DEF FailExhaustedSettlement
      <3> QED BY <1>1, <2>9, <3>1 DEF FailExhaustedSettlement, Spends
    <2> QED BY <1>5, <2>1, <2>2, <2>3, <2>4, <2>5, <2>6, <2>7, <2>8, <2>9 DEF Work
  <1>6. CASE MoveDueDelayed \/ RecoverStaleActive \/ JobLockExpires \/ ProviderEnds
    BY <1>1, <1>6 DEF MoveDueDelayed, RecoverStaleActive, JobLockExpires, ProviderEnds
  <1>7. ASSUME NEW w \in Workers, JobLockLapses(w) \/ WorkerCrashes(w) PROVE OnceInv'
    BY <1>1, <1>7 DEF JobLockLapses, WorkerCrashes
  <1>8. CASE UNCHANGED vars
    BY <1>1, <1>8 DEF vars
  <1> QED BY <1>2, <1>3, <1>4, <1>5, <1>6, <1>7, <1>8 DEF Next

\* Every transaction moves what its claim says.
LEMMA MoneyStep == IInv /\ [Next]_vars => MoneyInv'
  <1> SUFFICES ASSUME IInv, [Next]_vars PROVE MoneyInv'
    OBVIOUS
  <1>1. JobTypes /\ SubmitInv /\ ReturnInv /\ MoneyInv
    BY DEF IInv
  <1> USE BatchAssumption DEF JobTypes, SubmitInv, ReturnInv, MoneyInv, HasHold, Captured
  <1>2. CASE Submit
    <2>1. CASE \/ CreatePendingItems \/ TouchSubmitting \/ AbortOrphanProviderJob
               \/ SubmitEnqueue \/ SubmitCrashes \/ Resubmit
      BY <1>1, <2>1 DEF CreatePendingItems, TouchSubmitting, AbortOrphanProviderJob,
         SubmitEnqueue, SubmitCrashes, Resubmit
    <2>2. CASE CreateJob \/ BeginUpload \/ UpdateProviderSubmit
      BY <1>1, <2>2 DEF CreateJob, BeginUpload, UpdateProviderSubmit, SetSubmitted
    <2>3. CASE Reserve \/ ProviderSubmit
      BY <1>1, <2>3 DEF Reserve, ReserveBalance, HoldAffordable, ReserveTx, ProviderSubmit
    <2>4. CASE ReleaseFailedSubmitHold
      <3>1. Spends("release")
        BY <2>4, Releases DEF ReleaseFailedSubmitHold
      <3> QED BY <1>1, <2>4, <3>1 DEF ReleaseFailedSubmitHold, Spends
    <2>5. CASE RecordSubmitFailure
      BY <1>1, <2>5 DEF RecordSubmitFailure
    <2> QED BY <1>2, <2>1, <2>2, <2>3, <2>4, <2>5 DEF Submit
  <1>3. CASE Cancel
    <2>1. CASE \/ CancelRead \/ CancelEnqueue \/ CancelCrashes
               \/ CancelProvider \/ CancelTransition
      BY <1>1, <2>1 DEF CancelRead, CancelEnqueue, CancelCrashes, CancelProvider,
         CancelTransition
    <2>2. CASE CancelRelease
      <3>1. Spends("release")
        BY <2>2, Releases DEF CancelRelease
      <3> QED BY <1>1, <2>2, <3>1 DEF CancelRelease, Spends
    <2> QED BY <1>3, <2>1, <2>2 DEF Cancel
  <1>4. CASE Recovery
    <2>1. CASE \/ TimePasses \/ ListStale \/ FailStaleUnsubmitted
               \/ EnqueueReleaseRetry \/ RecoveryCrashes
      BY <1>1, <2>1 DEF TimePasses, ListStale, FailStaleUnsubmitted, StaleUnsubmitted,
         EnqueueReleaseRetry, RecoveryCrashes
    <2>2. CASE RecoveryRelease
      <3>1. Spends("release")
        BY <2>2, Releases DEF RecoveryRelease
      <3> QED BY <1>1, <2>2, <3>1 DEF RecoveryRelease, Spends
    <2> QED BY <1>4, <2>1, <2>2 DEF Recovery
  <1>5. ASSUME NEW w \in Workers, Work(w) PROVE MoneyInv'
    <2>1. CASE \/ Reserved(w) \/ TryAcquireJobLock(w) \/ ReadJob(w)
               \/ Index(w) \/ Ack(w) \/ RequeueAfter(w)
      BY <1>1, <2>1 DEF Reserved, TryAcquireJobLock, ReadJob, Index, Ack, RequeueAfter
    <2>2. CASE Poll(w)
      BY <1>1, <2>2 DEF Poll, CallsFor
    <2>3. CASE Advance(w)
      BY <1>1, <2>3 DEF Advance
    <2>4. CASE IndexFailed(w)
      BY <1>1, <2>4 DEF IndexFailed
    <2>5. CASE SettleNext(w) \/ MarkSettled(w) \/ FailSettled(w)
      BY <1>1, <2>5 DEF SettleNext, MarkSettled, FailSettled
    <2>6. CASE ReleaseTerminalHold(w)
      <3>1. Spends("release")
        BY <2>6, Releases DEF ReleaseTerminalHold
      <3> QED BY <1>1, <2>6, <3>1 DEF ReleaseTerminalHold, Spends
    <2>7. CASE Settle(w) \/ RecordSettlementFailure(w)
      BY <1>1, <2>7 DEF Settle, RecordSettlementFailure
    <2>8. CASE Capture(w)
      <3>1. Spends("capture")
        BY <2>8, Captures DEF Capture
      <3> QED BY <1>1, <2>8, <3>1, Captures DEF Capture, Spends
    <2>9. CASE FailExhaustedSettlement(w)
      <3>1. Spends("release")
        BY <2>9, Releases DEF FailExhaustedSettlement
      <3> QED BY <1>1, <2>9, <3>1 DEF FailExhaustedSettlement, Spends
    <2> QED BY <1>5, <2>1, <2>2, <2>3, <2>4, <2>5, <2>6, <2>7, <2>8, <2>9 DEF Work
  <1>6. CASE MoveDueDelayed \/ RecoverStaleActive \/ JobLockExpires \/ ProviderEnds
    BY <1>1, <1>6 DEF MoveDueDelayed, RecoverStaleActive, JobLockExpires, ProviderEnds
  <1>7. ASSUME NEW w \in Workers, JobLockLapses(w) \/ WorkerCrashes(w) PROVE MoneyInv'
    BY <1>1, <1>7 DEF JobLockLapses, WorkerCrashes
  <1>8. CASE UNCHANGED vars
    BY <1>1, <1>8 DEF vars
  <1> QED BY <1>2, <1>3, <1>4, <1>5, <1>6, <1>7, <1>8 DEF Next

\* A batch that runs stays on record.
LEMMA StoppedStep == IInv /\ [Next]_vars => StoppedInv'
  <1> SUFFICES ASSUME IInv, [Next]_vars PROVE StoppedInv'
    OBVIOUS
  <1>1. JobTypes /\ SubmitInv /\ ProviderInv /\ SettleInv /\ StoppedInv
    BY DEF IInv
  <1> USE BatchAssumption DEF JobTypes, SubmitInv, ProviderInv, HasHold, Captured,
     EarlySteps, GivingUp, Early, Given, Late, Charging, Statuses, SettleInv, StoppedInv
  <1>2. CASE Submit
    <2>1. CASE \/ CreatePendingItems \/ TouchSubmitting \/ AbortOrphanProviderJob
               \/ SubmitEnqueue \/ SubmitCrashes \/ Resubmit
      BY <1>1, <2>1 DEF CreatePendingItems, TouchSubmitting, AbortOrphanProviderJob,
         SubmitEnqueue, SubmitCrashes, Resubmit
    <2>2. CASE CreateJob \/ BeginUpload \/ UpdateProviderSubmit
      BY <1>1, <2>2 DEF CreateJob, BeginUpload, UpdateProviderSubmit, SetSubmitted
    <2>3. CASE Reserve \/ ProviderSubmit
      BY <1>1, <2>3 DEF Reserve, ReserveBalance, ReserveTx, ProviderSubmit
    <2>4. CASE ReleaseFailedSubmitHold
      <3>1. Spends("release")
        BY <2>4, Releases DEF ReleaseFailedSubmitHold
      <3> QED BY <1>1, <2>4, <3>1 DEF ReleaseFailedSubmitHold, Spends
    <2>5. CASE RecordSubmitFailure
      BY <1>1, <2>5 DEF RecordSubmitFailure
    <2> QED BY <1>2, <2>1, <2>2, <2>3, <2>4, <2>5 DEF Submit
  <1>3. CASE Cancel
    <2>1. CASE \/ CancelRead \/ CancelEnqueue \/ CancelCrashes
               \/ CancelProvider \/ CancelTransition
      BY <1>1, <2>1 DEF CancelRead, CancelEnqueue, CancelCrashes, CancelProvider,
         CancelTransition
    <2>2. CASE CancelRelease
      <3>1. Spends("release")
        BY <2>2, Releases DEF CancelRelease
      <3> QED BY <1>1, <2>2, <3>1 DEF CancelRelease, Spends
    <2> QED BY <1>3, <2>1, <2>2 DEF Cancel
  <1>4. CASE Recovery
    <2>1. CASE \/ TimePasses \/ ListStale \/ FailStaleUnsubmitted
               \/ EnqueueReleaseRetry \/ RecoveryCrashes
      BY <1>1, <2>1 DEF TimePasses, ListStale, FailStaleUnsubmitted, StaleUnsubmitted,
         EnqueueReleaseRetry, RecoveryCrashes
    <2>2. CASE RecoveryRelease
      <3>1. Spends("release")
        BY <2>2, Releases DEF RecoveryRelease
      <3> QED BY <1>1, <2>2, <3>1 DEF RecoveryRelease, Spends
    <2> QED BY <1>4, <2>1, <2>2 DEF Recovery
  <1>5. ASSUME NEW w \in Workers, Work(w) PROVE StoppedInv'
    <2>1. CASE \/ Reserved(w) \/ TryAcquireJobLock(w) \/ ReadJob(w)
               \/ Index(w) \/ Ack(w) \/ RequeueAfter(w)
      BY <1>1, <2>1 DEF Reserved, TryAcquireJobLock, ReadJob, Index, Ack, RequeueAfter
    <2>2. CASE Poll(w)
      BY <1>1, <2>2 DEF Poll, CallsFor
    <2>3. CASE Advance(w)
      BY <1>1, <2>3 DEF Advance
    <2>4. CASE IndexFailed(w)
      BY <1>1, <2>4 DEF IndexFailed
    <2>5. CASE SettleNext(w) \/ MarkSettled(w) \/ FailSettled(w)
      BY <1>1, <2>5 DEF SettleNext, MarkSettled, FailSettled
    <2>6. CASE ReleaseTerminalHold(w)
      <3>1. Spends("release")
        BY <2>6, Releases DEF ReleaseTerminalHold
      <3> QED BY <1>1, <2>6, <3>1 DEF ReleaseTerminalHold, Spends
    <2>7. CASE Settle(w) \/ RecordSettlementFailure(w)
      BY <1>1, <2>7 DEF Settle, RecordSettlementFailure
    <2>8. CASE Capture(w)
      <3>1. Spends("capture")
        BY <2>8, Captures DEF Capture
      <3> QED BY <1>1, <2>8, <3>1, Captures DEF Capture, Spends
    <2>9. CASE FailExhaustedSettlement(w)
      <3>1. Spends("release")
        BY <2>9, Releases DEF FailExhaustedSettlement
      <3> QED BY <1>1, <2>9, <3>1 DEF FailExhaustedSettlement, Spends
    <2> QED BY <1>5, <2>1, <2>2, <2>3, <2>4, <2>5, <2>6, <2>7, <2>8, <2>9 DEF Work
  <1>6. CASE MoveDueDelayed \/ RecoverStaleActive \/ JobLockExpires \/ ProviderEnds
    BY <1>1, <1>6 DEF MoveDueDelayed, RecoverStaleActive, JobLockExpires, ProviderEnds
  <1>7. ASSUME NEW w \in Workers, JobLockLapses(w) \/ WorkerCrashes(w) PROVE StoppedInv'
    BY <1>1, <1>7 DEF JobLockLapses, WorkerCrashes
  <1>8. CASE UNCHANGED vars
    BY <1>1, <1>8 DEF vars
  <1> QED BY <1>2, <1>3, <1>4, <1>5, <1>6, <1>7, <1>8 DEF Next

-----------------------------------------------------------------------------

\* The first state has no job.
LEMMA InitIInv == Init => IInv
  <1> SUFFICES ASSUME Init PROVE IInv
    OBVIOUS
  <1> USE BatchAssumption DEF Init
  <1>1. JobTypes
    <2>1. status \in Statuses /\ worker \in [Workers -> WorkerSteps]
          /\ answer \in [Workers -> {"none", "running", "indexing", "failed", "cancelled"}]
      BY DEF Statuses, WorkerSteps
    <2>2. balance \in Int /\ frozen \in Int /\ initial \in Int /\ cost \in Nat /\ retries \in Nat
      OBVIOUS
    <2>3. returned \in BOOLEAN /\ upstream = "none"
      OBVIOUS
    <2> QED BY <2>1, <2>2, <2>3 DEF JobTypes
  <1>2. SubmitInv /\ ProviderInv /\ SettleInv /\ ReturnInv /\ OnceInv
    BY DEF SubmitInv, ProviderInv, SettleInv, ReturnInv, OnceInv, HasHold, Captured,
       EarlySteps,
       GivingUp, Early, Given, Charging
  <1>3. MoneyInv
    BY DEF MoneyInv, HasHold, Captured
  <1>4. StoppedInv
    BY DEF StoppedInv
  <1> QED BY <1>1, <1>2, <1>3, <1>4 DEF IInv

\* The inductive invariant holds.
LEMMA Invariance == Spec => []IInv
  <1>1. IInv /\ [Next]_vars => IInv'
    BY TypesStep, SubmitStep, ProviderStep, SettleStep, ReturnStep, OnceStep,
       MoneyStep, StoppedStep DEF IInv
  <1> QED BY InitIInv, <1>1, PTL DEF Spec

\* The reservation, the capture and the releases of four actors leave the
\* user's and the frozen balance where the job's end wants them.
THEOREM SpentOnce == Spec => []HoldSpentOnce
  <1>1. IInv => HoldSpentOnce
    <2> SUFFICES ASSUME IInv, ~SpentTwiceKnown
                 PROVE  /\ frozen = Other + (IF Open THEN Hold ELSE 0)
                        /\ balance = initial - (IF Open THEN Hold ELSE 0)
                                             - (IF "capture" \in claims THEN cost ELSE 0)
      BY DEF HoldSpentOnce
    <2>1. ~(Captured /\ returned) /\ (Captured \/ returned => HasHold)
      BY DEF IInv, OnceInv, SettleInv, ReturnInv
    <2>2. /\ balance \in Int /\ frozen \in Int /\ initial \in Int /\ cost \in Nat
          /\ Hold \in Nat /\ Other \in Nat
      BY BatchAssumption DEF IInv, JobTypes
    <2> QED BY <2>1, <2>2 DEF IInv, MoneyInv, Open, HasHold, Captured
  <1> QED BY Invariance, <1>1, PTL

\* Settle writes COMPLETED only behind its capture, and nothing gives the price
\* of a completed job back.
THEOREM ChargedOnCompletion == Spec => []CompletedIsCharged
  <1>1. IInv => CompletedIsCharged
    BY DEF IInv, SettleInv, OnceInv, Captured, CompletedIsCharged
  <1> QED BY Invariance, <1>1, PTL

\* The submission, the user's cancel and the sweep settle who undoes what:
\* money is given back only behind a batch that was stopped or has ended, but
\* for a cancel that overtook the record of the batch, or an answer that was lost.
THEOREM NothingRunsUnpaid == Spec => []RefundedBatchIsStopped
  <1>1. IInv => RefundedBatchIsStopped
    <2> SUFFICES ASSUME IInv, returned, upstream = "running", submit \in {"done", "dead"},
                        "orphan" \notin past
                 PROVE  status = "cancelled" /\ named
      BY DEF RefundedBatchIsStopped
    <2>1. named /\ status \in {"submitted", "running", "cancelled"}
      BY DEF IInv, StoppedInv
    <2>2. retries >= MaxRetries => status \in Late
      BY BatchAssumption DEF IInv, JobTypes, SettleInv
    <2> QED BY <2>1, <2>2 DEF IInv, ReturnInv, Late, Given
  <1> QED BY Invariance, <1>1, PTL

-----------------------------------------------------------------------------
(* Types.                                                                  *)

\* What the arguments above did not need: neither the balance nor the frozen
\* amount ever becomes negative, and the row, the queue and the processes keep
\* their shapes.
FundsTypes ==
    /\ balance \in Nat /\ frozen \in Nat
    /\ claims \subseteq {"hold", "capture", "release"}

FlagTypes ==
    /\ named \in BOOLEAN /\ fresh \in BOOLEAN /\ hidden \in BOOLEAN
    /\ delayed \in BOOLEAN /\ active \in BOOLEAN /\ inflight \in BOOLEAN

QueueTypes ==
    /\ initial \in Balances /\ cost \in Costs
    /\ ready \in Nat
    /\ lock \in Workers \cup {NoWorker}
    /\ submit \in SubmitSteps /\ cancel \in CancelSteps /\ recovery \in RecoverySteps
    /\ faults \in 0..MaxFaults
    /\ past \subseteq Events

\* The guards of the transactions keep the amounts above zero: a hold is
\* reserved out of the balance, and taken out of what is frozen.
LEMMA ReleaseKeepsFunds ==
    ASSUME FundsTypes, NEW heard \in Heard, ReleaseBalance(heard)
    PROVE  FundsTypes'
  <1>1. CASE UNCHANGED funds
    BY <1>1 DEF FundsTypes
  <1>2. CASE ~UNCHANGED funds
    <2>1. ReleaseTx /\ ~(HoldClaimExists /\ "release" \notin claims /\ frozen < Hold)
      BY <1>2 DEF ReleaseBalance
    <2>2. claims' = claims \cup {"release"} /\ "release" \notin claims
      BY <1>2, <2>1 DEF ReleaseTx
    <2>3. \/ balance' = balance /\ frozen' = frozen
          \/ frozen >= Hold /\ balance' = balance + Hold /\ frozen' = frozen - Hold
      BY <2>1, <2>2, BatchAssumption DEF ReleaseTx, FundsTypes
    <2> QED BY <2>2, <2>3, BatchAssumption DEF FundsTypes
  <1> QED BY <1>1, <1>2

\* The same of the capture.
LEMMA CaptureKeepsFunds ==
    ASSUME FundsTypes, cost \in Nat, NEW heard \in Heard, CaptureBalance(heard)
    PROVE  FundsTypes'
  <1>1. CASE UNCHANGED funds
    BY <1>1 DEF FundsTypes
  <1>2. CASE ~UNCHANGED funds
    <2>1. CaptureTx /\ ~("capture" \notin claims /\ (cost > Hold \/ frozen < Hold))
      BY <1>2 DEF CaptureBalance
    <2>2. /\ claims' = claims \cup {"capture"} /\ frozen >= Hold /\ cost <= Hold
          /\ balance' = balance + Hold - cost /\ frozen' = frozen - Hold
      BY <1>2, <2>1, BatchAssumption DEF CaptureTx, FundsTypes
    <2> QED BY <2>2, BatchAssumption DEF FundsTypes
  <1> QED BY <1>1, <1>2

\* The money stays money: a capture takes no more than the hold.
LEMMA FundsStep == IInv /\ FundsTypes /\ [Next]_vars => FundsTypes'
  <1> SUFFICES ASSUME IInv, FundsTypes, [Next]_vars PROVE FundsTypes'
    OBVIOUS
  <1>1. CASE UNCHANGED funds
    BY <1>1 DEF FundsTypes
  <1>2. CASE Submit
    <2>1. CASE Reserve
      <3>1. CASE ReserveTx /\ balance >= Hold
        BY <3>1, BatchAssumption DEF ReserveTx, FundsTypes
      <3>2. balance < Hold \/ balance >= Hold
        BY BatchAssumption DEF FundsTypes
      <3> QED BY <1>1, <2>1, <3>1, <3>2 DEF Reserve, ReserveBalance, HoldAffordable
    <2>2. CASE ReleaseFailedSubmitHold
      BY <2>2, ReleaseKeepsFunds DEF ReleaseFailedSubmitHold
    <2> QED BY <1>1, <1>2, <2>1, <2>2 DEF Submit, CreateJob, CreatePendingItems, BeginUpload,
         TouchSubmitting, ProviderSubmit, UpdateProviderSubmit, AbortOrphanProviderJob,
         SubmitEnqueue, RecordSubmitFailure, SubmitCrashes, Resubmit
  <1>3. CASE Cancel
    <2>1. CASE CancelRelease
      BY <2>1, ReleaseKeepsFunds DEF CancelRelease
    <2> QED BY <1>1, <1>3, <2>1 DEF Cancel, CancelRead, CancelProvider, CancelTransition,
         CancelEnqueue, CancelCrashes
  <1>4. CASE Recovery
    <2>1. CASE RecoveryRelease
      BY <2>1, ReleaseKeepsFunds DEF RecoveryRelease
    <2> QED BY <1>1, <1>4, <2>1 DEF Recovery, TimePasses, ListStale, FailStaleUnsubmitted,
         EnqueueReleaseRetry, RecoveryCrashes
  <1>5. CASE MoveDueDelayed \/ RecoverStaleActive \/ JobLockExpires \/ ProviderEnds
    BY <1>1, <1>5 DEF MoveDueDelayed, RecoverStaleActive, JobLockExpires, ProviderEnds
  <1>6. ASSUME NEW w \in Workers, Work(w) \/ JobLockLapses(w) \/ WorkerCrashes(w)
        PROVE FundsTypes'
    <2>1. CASE ReleaseTerminalHold(w)
      BY <2>1, ReleaseKeepsFunds DEF ReleaseTerminalHold
    <2>2. CASE FailExhaustedSettlement(w)
      BY <2>2, ReleaseKeepsFunds DEF FailExhaustedSettlement
    <2>3. CASE Capture(w)
      <3>1. cost \in Nat
        BY DEF IInv, JobTypes
      <3> QED BY <2>3, <3>1, CaptureKeepsFunds DEF Capture
    <2> QED BY <1>1, <1>6, <2>1, <2>2, <2>3 DEF Work, JobLockLapses, WorkerCrashes, Reserved,
         TryAcquireJobLock, ReadJob, Poll, Advance, Index, IndexFailed, SettleNext, Settle,
         MarkSettled, RecordSettlementFailure, FailSettled, Ack, RequeueAfter
  <1>7. CASE UNCHANGED vars
    BY <1>1, <1>7 DEF vars
  <1> QED BY <1>2, <1>3, <1>4, <1>5, <1>6, <1>7 DEF Next

\* A transaction on the money touches nothing else; like every call it counts
\* a fault within the bound, or none.
LEMMA FaultCounts ==
    faults \in 0..MaxFaults /\ (Fault \/ UNCHANGED faults) => faults' \in 0..MaxFaults
  BY BatchAssumption

LEMMA FundsCallsCount ==
    ASSUME NEW heard \in Heard,
           ReserveBalance(heard) \/ CaptureBalance(heard) \/ ReleaseBalance(heard)
    PROVE  Fault \/ UNCHANGED faults
  BY DEF ReserveBalance, CaptureBalance, ReleaseBalance

\* An entry of the queue is counted.
LEMMA EnqueueTypes ==
    ASSUME QueueTypes, Enqueue
    PROVE  ready' \in Nat /\ faults' \in 0..MaxFaults
  <1>1. ready' = ready \/ ready' = ready + 1
    BY DEF Enqueue, EnqueueScript
  <1>2. Fault \/ UNCHANGED faults
    BY DEF Enqueue
  <1> QED BY <1>1, <1>2, FaultCounts DEF QueueTypes

\* No step leaves these types.
LEMMA QueueTypesStep == QueueTypes /\ [Next]_vars => QueueTypes'
  <1> SUFFICES ASSUME QueueTypes, [Next]_vars PROVE QueueTypes'
    OBVIOUS
  <1> USE FaultCounts, FundsCallsCount DEF QueueTypes, batch, SubmitSteps, CancelSteps, RecoverySteps, Events
  <1> HIDE DEF Fault
  <1>1. CASE Submit
    <2>1. CASE CreateJob \/ BeginUpload \/ UpdateProviderSubmit
      BY <2>1 DEF CreateJob, BeginUpload, UpdateProviderSubmit, SetSubmitted
    <2>2. CASE Reserve \/ ReleaseFailedSubmitHold
      BY <2>2 DEF Reserve, ReleaseFailedSubmitHold
    <2>3. CASE CreatePendingItems \/ TouchSubmitting \/ ProviderSubmit
      BY <2>3 DEF CreatePendingItems, TouchSubmitting, ProviderSubmit
    <2>4. CASE AbortOrphanProviderJob \/ SubmitCrashes
      BY <2>4 DEF AbortOrphanProviderJob, SubmitCrashes
    <2>5. CASE SubmitEnqueue \/ Resubmit
      BY <2>5, EnqueueTypes DEF SubmitEnqueue, Resubmit
    <2>6. CASE RecordSubmitFailure
      BY <2>6 DEF RecordSubmitFailure
    <2> QED BY <1>1, <2>1, <2>2, <2>3, <2>4, <2>5, <2>6 DEF Submit
  <1>2. CASE Cancel
    <2>1. CASE CancelEnqueue
      BY <2>1, EnqueueTypes DEF CancelEnqueue
    <2>2. CASE CancelRead \/ CancelProvider \/ CancelTransition \/ CancelRelease \/ CancelCrashes
      BY <2>2 DEF CancelRead, CancelProvider, CancelTransition, CancelRelease, CancelCrashes
    <2> QED BY <1>2, <2>1, <2>2 DEF Cancel
  <1>3. CASE Recovery
    <2>1. CASE EnqueueReleaseRetry
      BY <2>1, EnqueueTypes DEF EnqueueReleaseRetry
    <2>2. CASE TimePasses \/ ListStale \/ FailStaleUnsubmitted \/ RecoveryRelease \/ RecoveryCrashes
      BY <2>2 DEF TimePasses, ListStale, FailStaleUnsubmitted, RecoveryRelease, RecoveryCrashes
    <2> QED BY <1>3, <2>1, <2>2 DEF Recovery
  <1>4. CASE MoveDueDelayed \/ RecoverStaleActive \/ JobLockExpires \/ ProviderEnds
    <2>1. ready' \in {ready, ready + 1} /\ lock' \in {lock, NoWorker}
      BY <1>4 DEF MoveDueDelayed, RecoverStaleActive, JobLockExpires, ProviderEnds
    <2>2. UNCHANGED <<initial, cost, submit, cancel, recovery, faults, past>>
      BY <1>4 DEF MoveDueDelayed, RecoverStaleActive, JobLockExpires, ProviderEnds
    <2> QED BY <2>1, <2>2
  <1>5. ASSUME NEW w \in Workers, Work(w) \/ JobLockLapses(w) \/ WorkerCrashes(w)
        PROVE QueueTypes'
    <2>1. CASE Reserved(w) \/ TryAcquireJobLock(w) \/ Ack(w) \/ RequeueAfter(w)
      <3>1. ready' \in {ready, ready - 1} /\ (ready' # ready => ready > 0)
        BY <2>1 DEF Reserved, TryAcquireJobLock, Ack, RequeueAfter
      <3>2. lock' \in {lock, w, NoWorker}
        BY <2>1 DEF Reserved, TryAcquireJobLock, Ack, RequeueAfter, Unlock
      <3>3. Fault \/ UNCHANGED faults
        BY <2>1 DEF Reserved, TryAcquireJobLock, Ack, RequeueAfter
      <3>4. UNCHANGED <<initial, cost, submit, cancel, recovery, past>>
        BY <2>1 DEF Reserved, TryAcquireJobLock, Ack, RequeueAfter
      <3> QED BY <3>1, <3>2, <3>3, <3>4
    <2>2. CASE JobLockLapses(w) \/ WorkerCrashes(w)
      <3>1. /\ Fault \/ UNCHANGED faults
            /\ lock' \in {lock, NoWorker} /\ past' \subseteq past \cup Events
        BY <2>2 DEF JobLockLapses, WorkerCrashes
      <3>2. UNCHANGED <<initial, cost, ready, submit, cancel, recovery>>
        BY <2>2 DEF JobLockLapses, WorkerCrashes
      <3> QED BY <3>1, <3>2
    <2>3. CASE ReadJob(w) \/ Poll(w) \/ Index(w) \/ Settle(w)
      BY <2>3 DEF ReadJob, Poll, Index, Settle
    <2>4. CASE Advance(w) \/ IndexFailed(w) \/ SettleNext(w) \/ MarkSettled(w) \/ FailSettled(w)
      BY <2>4 DEF Advance, IndexFailed, SettleNext, MarkSettled, FailSettled
    <2>5. CASE ReleaseTerminalHold(w) \/ Capture(w) \/ FailExhaustedSettlement(w)
      <3>1. Fault \/ UNCHANGED faults
        BY <2>5 DEF ReleaseTerminalHold, Capture, FailExhaustedSettlement
      <3>2. UNCHANGED <<batch, queue, lock, submit, cancel, recovery, past>>
        BY <2>5 DEF ReleaseTerminalHold, Capture, FailExhaustedSettlement
      <3> QED BY <3>1, <3>2
    <2>6. CASE RecordSettlementFailure(w)
      BY <2>6 DEF RecordSettlementFailure
    <2> QED BY <1>5, <2>1, <2>2, <2>3, <2>4, <2>5, <2>6 DEF Work
  <1>6. CASE UNCHANGED vars
    BY <1>6 DEF vars
  <1> QED BY <1>1, <1>2, <1>3, <1>4, <1>5, <1>6 DEF Next

\* A flag is kept, or set to a truth value.
LEMMA FlagTypesStep == FlagTypes /\ [Next]_vars => FlagTypes'
  <1> DEFINE Flag(old, new) == new = old \/ new = TRUE \/ new = FALSE
             Flags == /\ Flag(named, named') /\ Flag(fresh, fresh') /\ Flag(hidden, hidden')
                      /\ Flag(delayed, delayed') /\ Flag(active, active')
                      /\ Flag(inflight, inflight')
  <1> SUFFICES ASSUME [Next]_vars PROVE Flags
    BY Zenon DEF FlagTypes
  <1>1. Enqueue => Flag(delayed, delayed') /\ Flag(active, active') /\ Flag(inflight, inflight')
    BY Zenon DEF Enqueue, EnqueueScript
  <1>2. CASE Submit
    <2>1. CASE CreateJob \/ BeginUpload \/ UpdateProviderSubmit
      BY <2>1, Zenon DEF CreateJob, BeginUpload, UpdateProviderSubmit, SetSubmitted
    <2>2. CASE Reserve \/ ReleaseFailedSubmitHold \/ CreatePendingItems
      BY <2>2, Zenon DEF Reserve, ReleaseFailedSubmitHold, CreatePendingItems
    <2>3. CASE TouchSubmitting \/ ProviderSubmit \/ AbortOrphanProviderJob \/ SubmitCrashes
      BY <2>3, Zenon DEF TouchSubmitting, ProviderSubmit, AbortOrphanProviderJob, SubmitCrashes
    <2>4. CASE SubmitEnqueue \/ Resubmit
      BY <1>1, <2>4, Zenon DEF SubmitEnqueue, Resubmit
    <2>5. CASE RecordSubmitFailure
      BY <2>5, Zenon DEF RecordSubmitFailure
    <2> QED BY <1>2, <2>1, <2>2, <2>3, <2>4, <2>5 DEF Submit
  <1>3. CASE Cancel
    <2>1. CASE CancelEnqueue
      BY <1>1, <2>1, Zenon DEF CancelEnqueue
    <2>2. CASE CancelRead \/ CancelProvider \/ CancelTransition \/ CancelRelease \/ CancelCrashes
      BY <2>2, Zenon DEF CancelRead, CancelProvider, CancelTransition, CancelRelease, CancelCrashes
    <2> QED BY <1>3, <2>1, <2>2 DEF Cancel
  <1>4. CASE Recovery
    <2>1. CASE EnqueueReleaseRetry
      BY <1>1, <2>1, Zenon DEF EnqueueReleaseRetry
    <2>2. CASE TimePasses \/ ListStale \/ FailStaleUnsubmitted \/ RecoveryRelease \/ RecoveryCrashes
      BY <2>2, Zenon DEF TimePasses, ListStale, FailStaleUnsubmitted, RecoveryRelease, RecoveryCrashes
    <2> QED BY <1>4, <2>1, <2>2 DEF Recovery
  <1>5. CASE MoveDueDelayed \/ RecoverStaleActive \/ JobLockExpires \/ ProviderEnds
    BY <1>5, Zenon DEF MoveDueDelayed, RecoverStaleActive, JobLockExpires, ProviderEnds
  <1>6. ASSUME NEW w \in Workers, Work(w) \/ JobLockLapses(w) \/ WorkerCrashes(w)
        PROVE Flags
    <2>1. CASE Reserved(w) \/ TryAcquireJobLock(w) \/ Ack(w) \/ RequeueAfter(w)
      BY <2>1, Zenon DEF Reserved, TryAcquireJobLock, Ack, RequeueAfter
    <2>2. CASE JobLockLapses(w) \/ WorkerCrashes(w) \/ ReadJob(w) \/ Settle(w)
      BY <2>2, Zenon DEF JobLockLapses, WorkerCrashes, ReadJob, Settle
    <2>3. CASE Poll(w)
      BY <2>3, Zenon DEF Poll
    <2>4. CASE Index(w) \/ Advance(w) \/ SettleNext(w)
      BY <2>4, Zenon DEF Index, Advance, SettleNext
    <2>5. CASE IndexFailed(w) \/ MarkSettled(w) \/ FailSettled(w)
      BY <2>5, Zenon DEF IndexFailed, MarkSettled, FailSettled
    <2>6. CASE ReleaseTerminalHold(w) \/ Capture(w) \/ FailExhaustedSettlement(w)
      BY <2>6, Zenon DEF ReleaseTerminalHold, Capture, FailExhaustedSettlement
    <2>7. CASE RecordSettlementFailure(w)
      BY <2>7, Zenon DEF RecordSettlementFailure
    <2> QED BY <1>6, <2>1, <2>2, <2>3, <2>4, <2>5, <2>6, <2>7 DEF Work
  <1>7. CASE UNCHANGED vars
    BY <1>7, Zenon DEF vars
  <1> QED BY <1>2, <1>3, <1>4, <1>5, <1>6, <1>7 DEF Next

\* Every variable keeps its type, for any workers, balances and costs: the
\* user's balance and the frozen amount are never negative, although they are
\* charged and given back by processes that know nothing of each other.
THEOREM TypeCorrect == Spec => []TypeOK
  <1> DEFINE TypeInv == IInv /\ FundsTypes /\ FlagTypes /\ QueueTypes
  <1>1. Init => TypeInv
    <2> SUFFICES ASSUME Init PROVE FundsTypes /\ FlagTypes /\ QueueTypes
      BY InitIInv
    <2>1. FlagTypes
      BY DEF Init, FlagTypes
    <2> QED BY <2>1, BatchAssumption DEF Init, FundsTypes, QueueTypes, SubmitSteps, CancelSteps,
            RecoverySteps
  <1>2. TypeInv /\ [Next]_vars => TypeInv'
    BY TypesStep, SubmitStep, ProviderStep, SettleStep, ReturnStep, OnceStep, MoneyStep,
       StoppedStep, FundsStep, FlagTypesStep, QueueTypesStep DEF IInv
  <1>3. TypeInv => TypeOK
    BY Zenon DEF IInv, JobTypes, FundsTypes, FlagTypes, QueueTypes, TypeOK
  <1> QED BY <1>1, <1>2, <1>3, PTL DEF Spec
=============================================================================

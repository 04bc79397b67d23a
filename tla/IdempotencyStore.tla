-------------------------- MODULE IdempotencyStore --------------------------
(***************************************************************************)
(* One row of idempotency_records, the statements of idempotency_repo.go   *)
(* on it, and the lease of the worker that claimed it, over a clock.  The  *)
(* coordinator of mutating requests (Idempotency) and the lock of system   *)
(* operations (SystemOperationLock) are both built on it.                  *)
(***************************************************************************)
EXTENDS Naturals

CONSTANTS
    Workers,        \* who works with the row
    Fingerprints,   \* what a claim is marked with
    Lease,          \* ProcessingTimeout
    RenewInterval,  \* a third of the lease
    TTL,            \* how long the row is kept
    MaxTime,        \* bound: the clock's last reading
    MaxRun,         \* bound: how long a claimed execution takes
    MaxFaults       \* bound: crashes, failed calls and delays

ASSUME StoreAssumption ==
    /\ {Lease, RenewInterval, TTL} \subseteq Nat \ {0}
    /\ MaxTime \in Nat \ {0}
    /\ {MaxRun, MaxFaults} \subseteq Nat

VARIABLES
    now,        \* the clock
    row,        \* the row of the key, or Absent
    lastId,     \* the last id the table's sequence gave out
    held,       \* the row id each worker believes to own, 0 for none
    began,      \* when its execution began
    renewing,   \* is its renewal goroutine running
    renewedAt,  \* the goroutine's last tick
    faults      \* faults so far

store == <<now, row, lastId>>
lease == <<held, began, renewing, renewedAt>>

\* lockedUntil = 0 is NULL.
Rows == [id : Nat \ {0}, fingerprint : Fingerprints,
         status : {"processing", "succeeded", "failed_retryable"},
         lockedUntil : Nat, expiresAt : Nat]

Absent == [id |-> 0]

StoreTypeOK ==
    /\ now \in 0..MaxTime
    /\ row \in Rows \cup {Absent}
    /\ lastId \in Nat
    /\ held \in [Workers -> Nat]
    /\ began \in [Workers -> 0..MaxTime]
    /\ renewing \in [Workers -> BOOLEAN]
    /\ renewedAt \in [Workers -> 0..MaxTime]
    /\ faults \in 0..MaxFaults

StoreInit ==
    /\ now = 1
    /\ row = Absent
    /\ lastId = 0
    /\ held = [w \in Workers |-> 0]
    /\ began = [w \in Workers |-> 0]
    /\ renewing = [w \in Workers |-> FALSE]
    /\ renewedAt = [w \in Workers |-> 0]
    /\ faults = 0

Fault ==
    /\ faults < MaxFaults
    /\ faults' = faults + 1

-----------------------------------------------------------------------------
(* The statements.  Those that only match some rows have a predicate that  *)
(* says whether the row is matched, and an effect when it is.  An operator *)
(* before a statement and named after it is a plausible bug in it, for the *)
(* properties to reveal.                                                   *)

IsAbsent == row = Absent

\* INSERT ... ON CONFLICT DO NOTHING.
CreateProcessing(fingerprint, until, expires) ==
    /\ row' = [id |-> lastId + 1, fingerprint |-> fingerprint,
               status |-> "processing", lockedUntil |-> until, expiresAt |-> expires]
    /\ lastId' = lastId + 1

ReclaimableByStatus(id, from, at) == row.id = id /\ ~IsAbsent /\ row.status = from

Reclaimable(id, from, at) ==
    row.id = id /\ ~IsAbsent /\ row.status = from /\ row.lockedUntil <= at

\* TryReclaim keeps the fingerprint of the claim before.
Reclaim(until, expires) ==
    row' = [row EXCEPT !.status = "processing", !.lockedUntil = until,
                       !.expiresAt = expires]

Extendable(id, fingerprint) ==
    row.id = id /\ ~IsAbsent /\ row.status = "processing" /\ row.fingerprint = fingerprint

ExtendLockOnly(until, expires) ==
    row' = [row EXCEPT !.lockedUntil = until]

ExtendProcessingLock(until, expires) ==
    row' = [row EXCEPT !.lockedUntil = until, !.expiresAt = expires]

\* The two outcomes are written by id alone.
MarkSucceeded(id, expires) ==
    row' = IF row.id # id \/ IsAbsent THEN row
           ELSE [row EXCEPT !.status = "succeeded", !.lockedUntil = 0,
                            !.expiresAt = expires]

MarkFailedUnnamed(id, until, expires) ==
    row' = IF row.id # id \/ IsAbsent THEN row
           ELSE [row EXCEPT !.status = "failed", !.lockedUntil = until,
                            !.expiresAt = expires]

MarkFailedRetryable(id, until, expires) ==
    row' = IF row.id # id \/ IsAbsent THEN row
           ELSE [row EXCEPT !.status = "failed_retryable", !.lockedUntil = until,
                            !.expiresAt = expires]

\* The clean-up service; it looks at the expiry only.
DeleteExpired ==
    /\ ~IsAbsent /\ row.expiresAt <= now
    /\ row' = Absent
    /\ UNCHANGED <<now, lastId, lease, faults>>

-----------------------------------------------------------------------------
(* The lease of a worker.                                                  *)

\* A claim is held and the execution begins; with renews its renewal
\* goroutine is started.
Begin(w, id, renews) ==
    /\ held' = [held EXCEPT ![w] = id]
    /\ began' = [began EXCEPT ![w] = now]
    /\ renewing' = [renewing EXCEPT ![w] = renews]
    /\ renewedAt' = [renewedAt EXCEPT ![w] = IF renews THEN now ELSE 0]

\* A mutant: a call that fails ends the goroutine.
RenewGivesUp(w, fingerprint) ==
    /\ renewing[w] /\ renewedAt[w] < now
    /\ \/ /\ Extendable(held[w], fingerprint)
          /\ ExtendProcessingLock(now + Lease, now + TTL)
          /\ UNCHANGED <<renewing, faults>>
       \/ /\ renewing' = [renewing EXCEPT ![w] = FALSE]
          /\ Fault
          /\ UNCHANGED row
    /\ renewedAt' = [renewedAt EXCEPT ![w] = now]
    /\ UNCHANGED <<now, lastId, held, began>>

\* A tick of the renewal goroutine; it ends when the row is not matched, and
\* goes on when the call fails.
Renew(w, fingerprint) ==
    /\ renewing[w] /\ renewedAt[w] < now
    /\ \/ /\ Extendable(held[w], fingerprint)
          /\ ExtendProcessingLock(now + Lease, now + TTL)
          /\ UNCHANGED <<renewing, faults>>
       \/ /\ ~Extendable(held[w], fingerprint)
          /\ renewing' = [renewing EXCEPT ![w] = FALSE]
          /\ UNCHANGED <<row, faults>>
       \/ /\ Fault
          /\ UNCHANGED <<row, renewing>>
    /\ renewedAt' = [renewedAt EXCEPT ![w] = now]
    /\ UNCHANGED <<now, lastId, held, began>>

StopRenewing(w) ==
    /\ renewing' = [renewing EXCEPT ![w] = FALSE]
    /\ UNCHANGED <<store, held, began, renewedAt, faults>>

\* Nothing of a finished execution is remembered.
LetGo(w) ==
    /\ held' = [held EXCEPT ![w] = 0]
    /\ began' = [began EXCEPT ![w] = 0]
    /\ renewing' = [renewing EXCEPT ![w] = FALSE]
    /\ renewedAt' = [renewedAt EXCEPT ![w] = 0]

\* Renewals come on time and executions end within MaxRun; a statement takes
\* no time to follow the one before it, unless it is delayed.
OnTime(w, executing) ==
    /\ renewing[w] => now - renewedAt[w] < RenewInterval
    /\ executing => now - began[w] < MaxRun

Advance(delays) ==
    /\ now < MaxTime
    /\ now' = now + 1
    /\ IF delays THEN Fault ELSE UNCHANGED faults
    /\ UNCHANGED <<row, lastId, lease>>
=============================================================================

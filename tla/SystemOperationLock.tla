------------------------ MODULE SystemOperationLock ------------------------
(***************************************************************************)
(* The lock of system operations (update, rollback, restart) of            *)
(* system_operation_lock_service.go: one row of idempotency_records whose  *)
(* fingerprint is the operation's id, leased while it is processing and    *)
(* renewed by a goroutine of the holder.  A worker stands for one          *)
(* operation id (buildSystemOperationID): an attempt that failed may be    *)
(* repeated under the same id, the attempts of one id follow each other.   *)
(***************************************************************************)
EXTENDS IdempotencyStore

ASSUME LockAssumption == Fingerprints = Workers

VARIABLES
    pc,         \* the step each worker is about to take
    start,      \* the time Acquire read when it began
    seen,       \* the row Acquire read
    outlived    \* history: has an operation outlived the lease of a row that
                \* is marked with another operation's id

request == <<start, seen>>
vars    == <<store, lease, faults, pc, request, outlived>>

Steps == {"idle", "create", "read", "reclaim", "run", "release"}

TypeOK ==
    /\ StoreTypeOK
    /\ pc \in [Workers -> Steps]
    /\ start \in [Workers -> 0..MaxTime]
    /\ seen \in [Workers -> Rows \cup {Absent}]
    /\ outlived \in BOOLEAN

Init ==
    /\ StoreInit
    /\ pc = [w \in Workers |-> "idle"]
    /\ start = [w \in Workers |-> 0]
    /\ seen = [w \in Workers |-> Absent]
    /\ outlived = FALSE

At(w, l)   == pc[w] = l
Goto(w, l) == pc' = [pc EXCEPT ![w] = l]

\* The operation has begun and has not given the lock back.
Running(w) == pc[w] \in {"run", "release"}

\* What a worker remembered of its request is of no further use.
Forget(w) ==
    /\ start' = [start EXCEPT ![w] = 0]
    /\ seen' = [seen EXCEPT ![w] = Absent]

-----------------------------------------------------------------------------
(* Acquire.                                                                *)

Request(w) ==
    /\ At(w, "idle")
    /\ start' = [start EXCEPT ![w] = now]
    /\ Goto(w, "create")
    /\ UNCHANGED <<store, lease, faults, seen>>

\* The lock is taken: the operation begins and its renewal goroutine with it.
Acquired(w, id) ==
    /\ Begin(w, id, TRUE)
    /\ Goto(w, "run")
    /\ Forget(w)

CreateLock(w) ==
    /\ At(w, "create")
    /\ IF IsAbsent
       THEN /\ CreateProcessing(w, start[w] + Lease, start[w] + TTL)
            /\ Acquired(w, lastId + 1)
       ELSE /\ Goto(w, "read")
            /\ UNCHANGED <<row, lastId, lease, request>>
    /\ UNCHANGED <<now, faults>>

Busy(w) == row.status = "processing" /\ row.lockedUntil > start[w]

ReadLock(w) ==
    /\ At(w, "read")
    /\ IF IsAbsent \/ Busy(w)
       THEN Goto(w, "idle") /\ Forget(w)
       ELSE Goto(w, "reclaim") /\ seen' = [seen EXCEPT ![w] = row] /\ UNCHANGED start
    /\ UNCHANGED <<store, lease, faults>>

ReclaimLock(w) ==
    /\ At(w, "reclaim")
    /\ IF Reclaimable(seen[w].id, seen[w].status, start[w])
       THEN /\ Reclaim(start[w] + Lease, start[w] + TTL)
            /\ Acquired(w, seen[w].id)
       ELSE /\ Goto(w, "idle")
            /\ Forget(w)
            /\ UNCHANGED <<row, lease>>
    /\ UNCHANGED <<now, lastId, faults>>

-----------------------------------------------------------------------------
(* The operation, renewLoop and Release.                                   *)

RenewLoop(w) == Renew(w, w) /\ UNCHANGED <<pc, request>>

FinishOperation(w) ==
    /\ At(w, "run")
    /\ StopRenewing(w)
    /\ Goto(w, "release")
    /\ UNCHANGED request

Release(w) ==
    /\ At(w, "release")
    /\ \/ MarkSucceeded(held[w], now + TTL)
       \/ MarkFailedRetryable(held[w], now, now + TTL)
    /\ LetGo(w)
    /\ Goto(w, "idle")
    /\ UNCHANGED <<now, lastId, faults, request>>

\* The instance dies, or a call fails and the request is given up.
Crash(w) ==
    /\ ~At(w, "idle")
    /\ Fault
    /\ LetGo(w)
    /\ Forget(w)
    /\ Goto(w, "idle")
    /\ UNCHANGED store

-----------------------------------------------------------------------------

\* The lease ends with this tick, and no renewal of w matches the row.
Outlives(w) ==
    Running(w) /\ ~IsAbsent /\ row.fingerprint # w /\ row.lockedUntil <= now + 1

Tick ==
    /\ \A w \in Workers : OnTime(w, At(w, "run"))
    /\ Advance(\E w \in Workers : pc[w] \notin {"idle", "run"})
    /\ outlived' = (outlived \/ \E w \in Workers : Outlives(w))
    /\ UNCHANGED <<pc, request>>

CleanUp == DeleteExpired /\ UNCHANGED <<pc, request, outlived>>

Next ==
    \/ /\ \E w \in Workers :
             \/ Request(w) \/ CreateLock(w) \/ ReadLock(w) \/ ReclaimLock(w)
             \/ RenewLoop(w) \/ FinishOperation(w) \/ Release(w) \/ Crash(w)
       /\ UNCHANGED outlived
    \/ Tick \/ CleanUp

Spec == Init /\ [][Next]_vars

-----------------------------------------------------------------------------
(* Properties.                                                             *)

\* Two system operations never run at the same time, however long they take:
\* Acquire answers ErrSystemOperationBusy, whatever crashed or was released
\* before, and renewLoop keeps the lease of the operation that inserted the row.
\* Until, that is, an operation outlives the lease of a row it took over, which
\* its renewal does not match (HeldLockIsRenewed).
OneSystemOperation ==
    ~outlived => \A v, w \in Workers : Running(v) /\ Running(w) => v = w

\* While an operation runs the row is processing under a lease that has not
\* lapsed: "locked_until should be renewed while lock is held".
HeldLockIsRenewed ==
    \A w \in Workers :
        At(w, "run") => ~IsAbsent /\ row.status = "processing" /\ row.lockedUntil > now
=============================================================================

--------------------- MODULE SystemOperationLock_proofs ---------------------
(***************************************************************************)
(* Proofs about SystemOperationLock, for any number of operations of any   *)
(* length: if the lease outlasts the interval of its renewal and all the   *)
(* delays there are, and the row is kept for as long as the lease, no two  *)
(* operations run until one has outlived the lease of a row it took over.  *)
(***************************************************************************)
EXTENDS SystemOperationLock, TLAPS

\* What a number of faults may cost the lease: a renewal that fails is made up
\* for by the next one, and another delay lasts one tick.
Cost(n) == n * RenewInterval

\* A lease that is renewed does not lapse.  How long an operation takes
\* (MaxRun) is not restricted.
RenewalsSuffice == RenewInterval + Cost(MaxFaults) < Lease /\ Lease <= TTL

Trying == {"create", "read", "reclaim"}

LockTypes ==
    /\ now \in Nat /\ lastId \in Nat /\ faults \in 0..MaxFaults
    /\ row \in Rows \cup {Absent}
    /\ held \in [Workers -> Nat] /\ outlived \in BOOLEAN
    /\ renewing \in [Workers -> BOOLEAN] /\ renewedAt \in [Workers -> Nat]
    /\ pc \in [Workers -> Steps] /\ start \in [Workers -> Nat]

\* Every tick in the middle of Acquire is a delay; the renewal goroutine lives
\* no longer than its operation.
AttemptInv ==
    \A w \in Workers :
        /\ pc[w] \in Trying => start[w] <= now /\ now <= start[w] + faults
        /\ renewing[w] => pc[w] = "run"

\* Who runs owns the row.
Owns(w) ==
    /\ \A v \in Workers : Running(v) => v = w
    /\ row \in Rows /\ row.id = held[w] /\ row.status = "processing"
    /\ row.lockedUntil <= row.expiresAt

\* The lease of a row that w inserted was renewed at the goroutine's last tick,
\* but for the calls that failed; that of a row it took over has not ended yet.
KeepsLease(w) ==
    /\ pc[w] = "run" /\ row.fingerprint = w =>
           /\ renewing[w] /\ renewedAt[w] <= now /\ now <= renewedAt[w] + RenewInterval
           /\ renewedAt[w] + Lease <= row.lockedUntil + Cost(faults)
    /\ row.fingerprint = w => now + Lease <= row.lockedUntil + RenewInterval + Cost(faults)
    /\ row.fingerprint # w => now < row.lockedUntil

OwnerInv == ~outlived => \A w \in Workers : Running(w) => Owns(w) /\ KeepsLease(w)

IInv == LockTypes /\ AttemptInv /\ OwnerInv

USE StoreAssumption DEF At, Goto, store, lease, request, IsAbsent, IInv

-----------------------------------------------------------------------------

\* What the statements make of a row: all but its id and fingerprint is set.
Becomes(status, until, expires) ==
    /\ row' \in Rows
    /\ row'.id = row.id /\ row'.fingerprint = row.fingerprint /\ row'.status = status
    /\ row'.lockedUntil = until /\ row'.expiresAt = expires

\* A row that exists has an id.
LEMMA RowPresent ==
    ASSUME row \in Rows \cup {Absent}
    PROVE  ~IsAbsent <=> row \in Rows
  BY DEF Rows, Absent

\* CreateProcessing inserts a row of its own.
LEMMA Created ==
    ASSUME lastId \in Nat, NEW f \in Fingerprints, NEW until \in Nat, NEW expires \in Nat,
           CreateProcessing(f, until, expires)
    PROVE  /\ row' \in Rows /\ row'.id = lastId + 1 /\ row'.fingerprint = f
           /\ row'.status = "processing"
           /\ row'.lockedUntil = until /\ row'.expiresAt = expires
           /\ lastId' = lastId + 1
  BY DEF CreateProcessing, Rows

\* The other statements update it.
LEMMA Updated ==
    ASSUME row \in Rows, NEW until \in Nat, NEW expires \in Nat
    PROVE  /\ Reclaim(until, expires) => Becomes("processing", until, expires)
           /\ ExtendProcessingLock(until, expires) => Becomes(row.status, until, expires)
           /\ MarkSucceeded(row.id, expires) => Becomes("succeeded", 0, expires)
           /\ MarkFailedRetryable(row.id, until, expires) =>
                  Becomes("failed_retryable", until, expires)
  <1>1. row \in Rows /\ ~IsAbsent
    BY RowPresent
  <1>2. ASSUME NEW status \in {"processing", "succeeded", "failed_retryable"}, NEW u \in Nat,
               row' = [row EXCEPT !.status = status, !.lockedUntil = u, !.expiresAt = expires]
        PROVE  Becomes(status, u, expires)
    BY <1>1, <1>2 DEF Becomes, Rows
  <1>3. ExtendProcessingLock(until, expires) => Becomes(row.status, until, expires)
    BY <1>1 DEF Becomes, Rows, ExtendProcessingLock
  <1>4. MarkSucceeded(row.id, expires) => Becomes("succeeded", 0, expires)
    <2>1. 0 \in Nat
      OBVIOUS
    <2> QED
      BY <1>1, <1>2, <2>1 DEF MarkSucceeded
  <1>5. /\ Reclaim(until, expires) => Becomes("processing", until, expires)
        /\ MarkFailedRetryable(row.id, until, expires) =>
               Becomes("failed_retryable", until, expires)
    BY <1>1, <1>2 DEF Reclaim, MarkFailedRetryable
  <1> QED
    BY <1>3, <1>4, <1>5

\* A fault costs at least a tick.
LEMMA Costs ==
    ASSUME NEW n \in Nat
    PROVE  /\ Cost(n) \in Nat /\ n <= Cost(n)
           /\ Cost(n + 1) \in Nat /\ Cost(n + 1) = Cost(n) + RenewInterval
  BY DEF Cost

\* More of them cost more.
LEMMA CostGrows ==
    ASSUME NEW n \in Nat, NEW m \in 0..n
    PROVE  Cost(m) <= Cost(n)
  BY DEF Cost

-----------------------------------------------------------------------------
(* Types, for any lengths of the lease and of the operations.              *)

\* The clock stays below its bound, and with it whatever was read from it.
LEMMA ClockTypes == ASSUME TypeOK PROVE now \in Nat /\ now \in 0..MaxTime /\ 0 \in 0..MaxTime
  BY DEF TypeOK, StoreTypeOK

\* A worker that forgets or lets go leaves nothing of another type behind.
LEMMA IdleTypes ==
    ASSUME TypeOK, NEW w \in Workers
    PROVE  /\ Forget(w) => start' \in [Workers -> 0..MaxTime]
                           /\ seen' \in [Workers -> Rows \cup {Absent}]
           /\ LetGo(w) => /\ held' \in [Workers -> Nat] /\ began' \in [Workers -> 0..MaxTime]
                          /\ renewing' \in [Workers -> BOOLEAN]
                          /\ renewedAt' \in [Workers -> 0..MaxTime]
  <1>1. ASSUME Forget(w)
        PROVE  start' \in [Workers -> 0..MaxTime] /\ seen' \in [Workers -> Rows \cup {Absent}]
    BY <1>1, ClockTypes DEF TypeOK, Forget
  <1>2. ASSUME LetGo(w)
        PROVE  /\ held' \in [Workers -> Nat] /\ began' \in [Workers -> 0..MaxTime]
               /\ renewing' \in [Workers -> BOOLEAN] /\ renewedAt' \in [Workers -> 0..MaxTime]
    BY <1>2, ClockTypes DEF TypeOK, StoreTypeOK, LetGo
  <1> QED
    BY <1>1, <1>2

\* Acquire, from its first read of the clock to the lock in hand.
LEMMA AcquireTypes ==
    ASSUME TypeOK, NEW w \in Workers,
           Request(w) \/ CreateLock(w) \/ ReadLock(w) \/ ReclaimLock(w), UNCHANGED outlived
    PROVE  TypeOK'
  <1>1. /\ start[w] \in Nat /\ start[w] + Lease \in Nat /\ start[w] + TTL \in Nat
        /\ lastId \in Nat /\ row \in Rows \cup {Absent}
    BY DEF TypeOK, StoreTypeOK
  <1>2. ASSUME NEW id \in Nat, Acquired(w, id), row' \in Rows, lastId' \in Nat,
               UNCHANGED <<now, faults>>
        PROVE  TypeOK'
    <2>1. /\ held' = [held EXCEPT ![w] = id] /\ began' = [began EXCEPT ![w] = now]
          /\ renewing' = [renewing EXCEPT ![w] = TRUE]
          /\ renewedAt' = [renewedAt EXCEPT ![w] = now]
          /\ pc' = [pc EXCEPT ![w] = "run"] /\ Forget(w)
      BY <1>2 DEF Acquired, Begin
    <2> QED
      BY <1>2, <2>1, ClockTypes, IdleTypes DEF TypeOK, StoreTypeOK, Steps
  <1>3. CASE Request(w)
    BY <1>3, ClockTypes DEF TypeOK, StoreTypeOK, Steps, Request
  <1>4. CASE CreateLock(w) /\ IsAbsent
    <2>1. CreateProcessing(w, start[w] + Lease, start[w] + TTL) /\ Acquired(w, lastId + 1)
      BY <1>4 DEF CreateLock
    <2>2. row' \in Rows /\ lastId' = lastId + 1
      BY <1>1, <2>1, Created, LockAssumption
    <2> QED
      BY <1>1, <1>2, <1>4, <2>1, <2>2 DEF CreateLock
  <1>5. CASE CreateLock(w) /\ ~IsAbsent
    BY <1>5 DEF TypeOK, StoreTypeOK, Steps, CreateLock
  <1>6. CASE ReadLock(w)
    <2>1. /\ UNCHANGED <<store, lease, faults>> /\ pc' \in [Workers -> Steps]
          /\ \/ Forget(w)
             \/ seen' = [seen EXCEPT ![w] = row] /\ UNCHANGED start
      BY <1>6 DEF TypeOK, Steps, ReadLock
    <2>2. start' \in [Workers -> 0..MaxTime] /\ seen' \in [Workers -> Rows \cup {Absent}]
      BY <1>1, <2>1, IdleTypes DEF TypeOK
    <2> QED
      BY <2>1, <2>2 DEF TypeOK, StoreTypeOK
  <1>7. CASE ReclaimLock(w) /\ Reclaimable(seen[w].id, seen[w].status, start[w])
    <2>1. /\ Reclaim(start[w] + Lease, start[w] + TTL) /\ Acquired(w, seen[w].id)
          /\ UNCHANGED <<now, lastId, faults>>
      BY <1>7 DEF ReclaimLock
    <2>2. row \in Rows /\ row.id = seen[w].id
      BY <1>1, <1>7, RowPresent DEF Reclaimable
    <2>3. row' \in Rows /\ seen[w].id \in Nat
      BY <1>1, <2>1, <2>2, Updated DEF Becomes, Rows
    <2> QED
      BY <1>1, <1>2, <2>1, <2>3
  <1>8. CASE ReclaimLock(w) /\ ~Reclaimable(seen[w].id, seen[w].status, start[w])
    <2>1. /\ UNCHANGED <<now, lastId, faults, row, lease>> /\ Forget(w)
          /\ pc' = [pc EXCEPT ![w] = "idle"]
      BY <1>8 DEF ReclaimLock
    <2> QED
      BY <2>1, IdleTypes DEF TypeOK, StoreTypeOK, Steps
  <1> QED
    BY <1>3, <1>4, <1>5, <1>6, <1>7, <1>8

\* The operation and what becomes of it.
LEMMA OperationTypes ==
    ASSUME TypeOK, NEW w \in Workers,
           RenewLoop(w) \/ FinishOperation(w) \/ Release(w) \/ Crash(w), UNCHANGED outlived
    PROVE  TypeOK'
  <1>1. now + Lease \in Nat /\ now + TTL \in Nat /\ row \in Rows \cup {Absent}
    BY ClockTypes DEF TypeOK, StoreTypeOK
  <1>2. faults' \in 0..MaxFaults
    BY DEF TypeOK, StoreTypeOK, RenewLoop, Renew, FinishOperation, StopRenewing, Release,
           Crash, Fault
  <1>3. CASE RenewLoop(w)
    <2>1. row' \in Rows \cup {Absent}
      <3>1. CASE row' = row
        BY <1>1, <3>1
      <3>2. CASE Extendable(held[w], w) /\ ExtendProcessingLock(now + Lease, now + TTL)
        BY <1>1, <3>2, RowPresent, Updated DEF Extendable, Becomes
      <3> QED
        BY <1>3, <3>1, <3>2 DEF RenewLoop, Renew
    <2>2. /\ UNCHANGED <<pc, request, now, lastId, held, began>>
          /\ renewing' \in {renewing, [renewing EXCEPT ![w] = FALSE]}
          /\ renewedAt' = [renewedAt EXCEPT ![w] = now]
      BY <1>3 DEF RenewLoop, Renew
    <2> QED
      BY <1>2, <2>1, <2>2, ClockTypes DEF TypeOK, StoreTypeOK
  <1>4. CASE FinishOperation(w)
    BY <1>4 DEF TypeOK, StoreTypeOK, Steps, FinishOperation, StopRenewing
  <1>5. CASE Release(w)
    <2>1. row' \in Rows \cup {Absent}
      <3>1. CASE row' = row
        BY <1>1, <3>1
      <3>2. CASE row.id = held[w] /\ ~IsAbsent
        BY <1>1, <1>5, <3>2, ClockTypes, RowPresent, Updated DEF Release, Becomes
      <3> QED
        BY <1>5, <3>1, <3>2 DEF Release, MarkSucceeded, MarkFailedRetryable
    <2>2. UNCHANGED <<now, lastId, request>> /\ LetGo(w) /\ pc' = [pc EXCEPT ![w] = "idle"]
      BY <1>5 DEF Release
    <2> QED
      BY <1>2, <2>1, <2>2, IdleTypes DEF TypeOK, StoreTypeOK, Steps
  <1>6. CASE Crash(w)
    <2>1. UNCHANGED store /\ LetGo(w) /\ Forget(w) /\ pc' = [pc EXCEPT ![w] = "idle"]
      BY <1>6 DEF Crash
    <2> QED
      BY <1>2, <2>1, IdleTypes DEF TypeOK, StoreTypeOK, Steps
  <1> QED
    BY <1>3, <1>4, <1>5, <1>6

\* TypeOK: every variable of the row, of the leases and of the workers keeps to
\* its type, whatever the lease and the operations take.
THEOREM TypeCorrect == Spec => []TypeOK
  <1>1. Init => TypeOK
    <2>1. Init => outlived \in BOOLEAN
      BY DEF Init
    <2> QED
      BY <2>1 DEF Init, StoreInit, TypeOK, StoreTypeOK, Steps
  <1>2. TypeOK /\ [Next]_vars => TypeOK'
    <2> SUFFICES ASSUME TypeOK, [Next]_vars PROVE TypeOK'
      OBVIOUS
    <2>1. CASE UNCHANGED vars
      BY <2>1 DEF vars, TypeOK, StoreTypeOK
    <2>2. CASE Tick
      BY <2>2 DEF TypeOK, StoreTypeOK, Tick, Advance, Fault
    <2>3. CASE CleanUp
      BY <2>3 DEF TypeOK, StoreTypeOK, CleanUp, DeleteExpired
    <2> QED
      BY <2>1, <2>2, <2>3, AcquireTypes, OperationTypes DEF Next
  <1> QED
    BY <1>1, <1>2, PTL DEF Spec

-----------------------------------------------------------------------------
(* One operation at a time.                                                *)

\* While an operation runs its lease has not lapsed, nor is its row expired.
LEMMA LeaseOutlasts ==
    ASSUME IInv, RenewalsSuffice, ~outlived, NEW v \in Workers, Running(v)
    PROVE  row.lockedUntil > now /\ row.expiresAt > now
  <1>1. Owns(v) /\ KeepsLease(v) /\ row.lockedUntil \in Nat /\ row.expiresAt \in Nat
    BY DEF OwnerInv, Owns, Rows
  <1>2. now \in Nat /\ faults \in Nat /\ faults \in 0..MaxFaults
    BY DEF LockTypes
  <1>3. Cost(faults) <= Cost(MaxFaults) /\ Cost(faults) \in Nat /\ Cost(MaxFaults) \in Nat
    BY <1>2, Costs, CostGrows
  <1>4. row.lockedUntil > now
    BY <1>1, <1>2, <1>3 DEF KeepsLease, RenewalsSuffice
  <1> QED
    BY <1>1, <1>2, <1>4 DEF Owns

\* A step that leaves the row, the clock, the faults and the leases alone
\* disturbs nobody, if it starts no operation.
LEMMA Undisturbed ==
    ASSUME OwnerInv, UNCHANGED <<row, now, faults, held, renewing, renewedAt, outlived>>,
           \A v \in Workers : Running(v)' => pc'[v] = pc[v]
    PROVE  OwnerInv'
  <1> SUFFICES ASSUME ~outlived, NEW v \in Workers, Running(v)' PROVE Owns(v)' /\ KeepsLease(v)'
    BY DEF OwnerInv
  <1>1. \A u \in Workers : Running(u)' => Running(u)
    BY DEF Running
  <1>2. Owns(v) /\ KeepsLease(v)
    BY <1>1 DEF OwnerInv
  <1>3. Owns(v)'
    BY <1>1, <1>2 DEF Owns
  <1>4. KeepsLease(v)'
    BY <1>2 DEF KeepsLease
  <1> QED
    BY <1>3, <1>4

\* Acquire begins.
LEMMA RequestIInv == ASSUME IInv, NEW w \in Workers, Request(w), UNCHANGED outlived PROVE IInv'
  <1>1. LockTypes'
    BY DEF LockTypes, Steps, Request
  <1>2. AttemptInv'
    BY DEF LockTypes, AttemptInv, Trying, Request
  <1>3. \A v \in Workers : Running(v)' => pc'[v] = pc[v]
    BY DEF LockTypes, Running, Request
  <1>4. OwnerInv'
    BY <1>3, Undisturbed DEF Request
  <1> QED
    BY <1>1, <1>2, <1>4

\* A read changes nothing but what the worker knows.
LEMMA ReadLockIInv == ASSUME IInv, NEW w \in Workers, ReadLock(w), UNCHANGED outlived PROVE IInv'
  <1>1. LockTypes'
    BY DEF LockTypes, Steps, ReadLock, Busy, Forget
  <1>2. AttemptInv'
    BY DEF LockTypes, AttemptInv, Trying, ReadLock, Busy, Forget
  <1>3. \A v \in Workers : Running(v)' => pc'[v] = pc[v]
    BY DEF LockTypes, Running, ReadLock, Busy, Forget
  <1>4. OwnerInv'
    BY <1>3, Undisturbed DEF ReadLock
  <1> QED
    BY <1>1, <1>2, <1>4

\* From here on time passes only by delays.
LEMMA FinishOperationIInv ==
    ASSUME IInv, NEW w \in Workers, FinishOperation(w), UNCHANGED outlived PROVE IInv'
  <1>1. /\ pc[w] = "run" /\ pc' = [pc EXCEPT ![w] = "release"]
        /\ renewing' = [renewing EXCEPT ![w] = FALSE]
        /\ UNCHANGED <<row, now, lastId, faults, held, renewedAt, start>>
    BY DEF FinishOperation, StopRenewing
  <1>2. LockTypes'
    BY <1>1 DEF LockTypes, Steps
  <1>3. AttemptInv'
    BY <1>1 DEF LockTypes, AttemptInv, Trying
  <1>4. \A v \in Workers : Running(v)' <=> Running(v)
    BY <1>1 DEF LockTypes, Running
  <1>5. ASSUME ~outlived, NEW v \in Workers, Running(v)'
        PROVE  Owns(v)' /\ KeepsLease(v)'
    <2>1. Owns(v) /\ KeepsLease(v)
      BY <1>4, <1>5 DEF OwnerInv
    <2>2. v = w
      BY <1>1, <2>1 DEF Owns, Running
    <2>3. pc'[v] = "release"
      BY <1>1, <2>2 DEF LockTypes
    <2> QED
      BY <1>1, <1>4, <2>1, <2>3 DEF Owns, KeepsLease
  <1> QED
    BY <1>2, <1>3, <1>5 DEF OwnerInv

\* Who dies runs no more.
LEMMA CrashIInv == ASSUME IInv, NEW w \in Workers, Crash(w), UNCHANGED outlived PROVE IInv'
  <1>1. /\ pc' = [pc EXCEPT ![w] = "idle"] /\ faults' = faults + 1 /\ faults < MaxFaults
        /\ UNCHANGED <<row, now, lastId>>
        /\ start' = [start EXCEPT ![w] = 0] /\ held' = [held EXCEPT ![w] = 0]
        /\ renewing' = [renewing EXCEPT ![w] = FALSE]
        /\ renewedAt' = [renewedAt EXCEPT ![w] = 0]
    BY DEF Crash, LetGo, Forget, Fault
  <1>2. LockTypes'
    BY <1>1 DEF LockTypes, Steps
  <1>3. AttemptInv'
    BY <1>1 DEF LockTypes, AttemptInv, Trying
  <1>4. ASSUME ~outlived, NEW v \in Workers, Running(v)'
        PROVE  Owns(v)' /\ KeepsLease(v)'
    <2>1. /\ v # w /\ Running(v) /\ pc'[v] = pc[v] /\ held'[v] = held[v]
          /\ renewing'[v] = renewing[v] /\ renewedAt'[v] = renewedAt[v]
      BY <1>1, <1>4 DEF LockTypes, Running
    <2>2. Owns(v) /\ KeepsLease(v)
      BY <1>4, <2>1 DEF OwnerInv
    <2>3. Owns(v)'
      BY <1>1, <2>1, <2>2 DEF LockTypes, Owns, Running
    <2>4. /\ now \in Nat /\ renewedAt[v] \in Nat /\ row.lockedUntil \in Nat
          /\ Cost(faults) \in Nat /\ Cost(faults + 1) = Cost(faults) + RenewInterval
      BY <2>2, Costs DEF LockTypes, Owns, Rows
    <2>5. KeepsLease(v)'
      BY <1>1, <2>1, <2>2, <2>4 DEF KeepsLease
    <2> QED
      BY <2>3, <2>5
  <1> QED
    BY <1>2, <1>3, <1>4 DEF OwnerInv

\* Whoever takes the lock finds nobody running, and holds it from when his
\* attempt began; the delays since then are counted.
LEMMA AcquiredIInv ==
    ASSUME IInv, RenewalsSuffice, NEW w \in Workers, NEW id \in Nat,
           pc[w] \in Trying, ~outlived => \A v \in Workers : ~Running(v),
           row' \in Rows, row'.id = id, row'.status = "processing",
           row'.lockedUntil = start[w] + Lease, row'.expiresAt = start[w] + TTL,
           Acquired(w, id), lastId' \in Nat, UNCHANGED <<now, faults, outlived>>
    PROVE  IInv'
  <1>1. /\ held' = [held EXCEPT ![w] = id] /\ renewing' = [renewing EXCEPT ![w] = TRUE]
        /\ renewedAt' = [renewedAt EXCEPT ![w] = now]
        /\ pc' = [pc EXCEPT ![w] = "run"] /\ start' = [start EXCEPT ![w] = 0]
    BY DEF Acquired, Begin, Forget
  <1>2. LockTypes'
    BY <1>1 DEF LockTypes, Steps
  <1>3. AttemptInv'
    BY <1>1 DEF LockTypes, AttemptInv, Trying
  <1>4. /\ start[w] \in Nat /\ start[w] <= now /\ now <= start[w] + faults
        /\ now \in Nat /\ faults \in Nat /\ faults <= MaxFaults
    BY DEF LockTypes, AttemptInv
  <1>5. /\ faults <= Cost(faults) /\ Cost(faults) \in Nat
        /\ MaxFaults <= Cost(MaxFaults) /\ Cost(MaxFaults) \in Nat
    BY <1>4, Costs
  <1>6. ASSUME ~outlived, NEW v \in Workers, Running(v)'
        PROVE  Owns(v)' /\ KeepsLease(v)'
    <2>1. \A u \in Workers : Running(u)' => u = w
      BY <1>1, <1>6 DEF LockTypes, Running
    <2>2. /\ v = w /\ pc'[v] = "run" /\ held'[v] = id /\ renewing'[v] /\ renewedAt'[v] = now
      BY <1>1, <1>6, <2>1 DEF LockTypes
    <2>3. Owns(v)'
      BY <1>4, <2>1, <2>2 DEF Owns, RenewalsSuffice
    <2>4. KeepsLease(v)'
      BY <1>4, <1>5, <2>2 DEF KeepsLease, RenewalsSuffice
    <2> QED
      BY <2>3, <2>4
  <1> QED
    BY <1>2, <1>3, <1>6 DEF OwnerInv

\* The row is only inserted where there is none.
LEMMA CreateLockIInv ==
    ASSUME IInv, RenewalsSuffice, NEW w \in Workers, CreateLock(w), UNCHANGED outlived
    PROVE  IInv'
  <1>1. CASE IsAbsent
    <2>1. ~outlived => \A v \in Workers : ~Running(v)
      BY <1>1, RowPresent DEF LockTypes, OwnerInv, Owns
    <2>2. start[w] + Lease \in Nat /\ start[w] + TTL \in Nat /\ lastId \in Nat
      BY DEF LockTypes
    <2>3. CreateProcessing(w, start[w] + Lease, start[w] + TTL) /\ Acquired(w, lastId + 1)
      BY <1>1 DEF CreateLock
    <2>4. /\ row' \in Rows /\ row'.id = lastId + 1 /\ row'.status = "processing"
          /\ row'.lockedUntil = start[w] + Lease /\ row'.expiresAt = start[w] + TTL
          /\ lastId' = lastId + 1
      BY <2>2, <2>3, Created, LockAssumption
    <2> QED
      BY <2>1, <2>2, <2>3, <2>4, AcquiredIInv DEF CreateLock, Trying
  <1>2. CASE ~IsAbsent
    <2>1. /\ pc' = [pc EXCEPT ![w] = "read"] /\ pc[w] = "create"
          /\ UNCHANGED <<now, faults, row, lastId, lease, request>>
      BY <1>2 DEF CreateLock
    <2>2. LockTypes'
      BY <2>1 DEF LockTypes, Steps
    <2>3. AttemptInv'
      BY <2>1 DEF LockTypes, AttemptInv, Trying
    <2>4. \A v \in Workers : Running(v)' => pc'[v] = pc[v]
      BY <2>1 DEF LockTypes, Running
    <2>5. OwnerInv'
      BY <2>1, <2>4, Undisturbed
    <2> QED
      BY <2>2, <2>3, <2>5
  <1> QED
    BY <1>1, <1>2

\* A row is only reclaimed after its lease: nobody runs under it.
LEMMA ReclaimLockIInv ==
    ASSUME IInv, RenewalsSuffice, NEW w \in Workers, ReclaimLock(w), UNCHANGED outlived
    PROVE  IInv'
  <1>1. CASE Reclaimable(seen[w].id, seen[w].status, start[w])
    <2>1. row \in Rows /\ row.id = seen[w].id /\ row.lockedUntil <= start[w]
      BY <1>1, RowPresent DEF LockTypes, Reclaimable
    <2>2. start[w] <= now /\ start[w] \in Nat /\ now \in Nat /\ pc[w] \in Trying
          /\ row.lockedUntil \in Nat
      BY <2>1 DEF LockTypes, AttemptInv, Trying, ReclaimLock, Rows
    <2>3. ASSUME ~outlived, NEW v \in Workers, Running(v) PROVE FALSE
      <3>1. row.lockedUntil > now
        BY <2>3, LeaseOutlasts
      <3> QED
        BY <2>1, <2>2, <3>1
    <2>4. Reclaim(start[w] + Lease, start[w] + TTL) /\ Acquired(w, seen[w].id)
      BY <1>1 DEF ReclaimLock
    <2>5. start[w] + Lease \in Nat /\ start[w] + TTL \in Nat
      BY <2>2
    <2>6. /\ row' \in Rows /\ row'.id = seen[w].id /\ row'.status = "processing"
          /\ row'.lockedUntil = start[w] + Lease /\ row'.expiresAt = start[w] + TTL
      BY <2>1, <2>4, <2>5, Updated DEF Becomes
    <2>7. seen[w].id \in Nat /\ lastId' \in Nat
      BY <2>1 DEF Rows, LockTypes, ReclaimLock
    <2> QED
      BY <2>2, <2>3, <2>4, <2>6, <2>7, AcquiredIInv DEF ReclaimLock
  <1>2. CASE ~Reclaimable(seen[w].id, seen[w].status, start[w])
    <2>1. /\ pc' = [pc EXCEPT ![w] = "idle"] /\ start' = [start EXCEPT ![w] = 0]
          /\ UNCHANGED <<now, faults, row, lastId, lease>>
          /\ pc[w] = "reclaim"
      BY <1>2 DEF ReclaimLock, Forget
    <2>2. LockTypes'
      BY <2>1 DEF LockTypes, Steps
    <2>3. AttemptInv'
      BY <2>1 DEF LockTypes, AttemptInv, Trying
    <2>4. \A v \in Workers : Running(v)' => pc'[v] = pc[v]
      BY <2>1 DEF LockTypes, Running
    <2>5. OwnerInv'
      BY <2>1, <2>4, Undisturbed
    <2> QED
      BY <2>2, <2>3, <2>5
  <1> QED
    BY <1>1, <1>2

\* The renewal of the operation that inserted the row matches it and moves the
\* end of the lease away, or fails and is made up for in time.
LEMMA RenewLoopIInv ==
    ASSUME IInv, NEW w \in Workers, RenewLoop(w), UNCHANGED outlived,
           Lease <= TTL
    PROVE  IInv'
  <1>1. /\ pc[w] = "run" /\ Running(w) /\ now \in Nat /\ faults \in Nat
        /\ now + Lease \in Nat /\ now + TTL \in Nat
    BY DEF RenewLoop, Renew, AttemptInv, Running, LockTypes
  <1>2. /\ UNCHANGED <<pc, start, now, lastId, held>>
        /\ renewedAt' = [renewedAt EXCEPT ![w] = now]
        /\ renewing' \in {renewing, [renewing EXCEPT ![w] = FALSE]}
        /\ faults' \in {faults, faults + 1} /\ (faults' # faults => faults < MaxFaults)
    BY DEF RenewLoop, Renew, Fault, LockTypes
  <1>3. ASSUME Extendable(held[w], w) PROVE row \in Rows
    BY <1>3, RowPresent DEF Extendable, LockTypes
  <1>4. row' = row \/ (Extendable(held[w], w) /\ Becomes(row.status, now + Lease, now + TTL))
    <2>1. \/ row' = row
          \/ Extendable(held[w], w) /\ ExtendProcessingLock(now + Lease, now + TTL)
      BY DEF RenewLoop, Renew
    <2> QED
      BY <1>1, <1>3, <2>1, Updated
  <1>5. LockTypes'
    <2>1. row' \in Rows \cup {Absent} /\ faults' \in 0..MaxFaults
      BY <1>1, <1>2, <1>4 DEF LockTypes, Becomes
    <2>2. renewing' \in [Workers -> BOOLEAN] /\ renewedAt' \in [Workers -> Nat]
      BY <1>1, <1>2 DEF LockTypes
    <2> QED
      BY <1>2, <2>1, <2>2 DEF LockTypes
  <1>6. AttemptInv'
    BY <1>1, <1>2 DEF AttemptInv, LockTypes
  <1>7. ASSUME ~outlived, NEW v \in Workers, Running(v)'
        PROVE  Owns(v)' /\ KeepsLease(v)'
    <2>1. Owns(v) /\ KeepsLease(v) /\ v = w
      BY <1>1, <1>2, <1>7 DEF OwnerInv, Owns, Running
    <2>2. /\ row \in Rows /\ row.lockedUntil \in Nat /\ renewedAt[w] \in Nat
          /\ Cost(faults) \in Nat /\ Cost(faults + 1) = Cost(faults) + RenewInterval
      BY <1>1, <2>1, Costs DEF Owns, LockTypes, Rows
    <2>3. renewedAt'[w] = now
      BY <1>2 DEF LockTypes
    <2>4. CASE Extendable(held[w], w) /\ ExtendProcessingLock(now + Lease, now + TTL)
               /\ UNCHANGED <<renewing, faults>>
      <3>1. Becomes(row.status, now + Lease, now + TTL) /\ row.fingerprint = w
        BY <1>1, <2>2, <2>4, Updated DEF Extendable
      <3>2. Owns(w)'
        BY <1>1, <1>2, <2>1, <3>1 DEF Owns, Becomes, Running
      <3>3. KeepsLease(w)'
        BY <1>1, <1>2, <2>1, <2>2, <2>3, <2>4, <3>1 DEF KeepsLease, Becomes
      <3> QED
        BY <2>1, <3>2, <3>3
    <2>5. CASE ~Extendable(held[w], w) /\ UNCHANGED <<row, faults>>
      <3>1. row.fingerprint # w
        BY <2>1, <2>2, <2>5, RowPresent DEF Extendable, Owns, LockTypes
      <3> QED
        BY <1>2, <2>1, <2>5, <3>1 DEF Owns, KeepsLease, Running
    <2>6. CASE faults' = faults + 1 /\ UNCHANGED <<row, renewing>>
      BY <1>1, <1>2, <2>1, <2>2, <2>3, <2>6 DEF Owns, KeepsLease, Running
    <2> QED
      BY <2>4, <2>5, <2>6 DEF RenewLoop, Renew, Fault
  <1> QED
    BY <1>5, <1>6, <1>7 DEF OwnerInv

\* The outcome is written into the owner's row; nobody runs any more.
LEMMA ReleaseIInv == ASSUME IInv, NEW w \in Workers, Release(w), UNCHANGED outlived PROVE IInv'
  <1>1. now \in Nat /\ now + TTL \in Nat /\ Running(w)
    BY DEF LockTypes, Release, Running
  <1>2. /\ pc' = [pc EXCEPT ![w] = "idle"]
        /\ UNCHANGED <<now, lastId, faults, start>>
        /\ held' = [held EXCEPT ![w] = 0] /\ renewing' = [renewing EXCEPT ![w] = FALSE]
        /\ renewedAt' = [renewedAt EXCEPT ![w] = 0]
    BY DEF Release, LetGo
  <1>3. row' \in Rows \cup {Absent}
    <2>1. CASE row' = row
      BY <2>1 DEF LockTypes
    <2>2. CASE row.id = held[w] /\ ~IsAbsent
      BY <1>1, <2>2, RowPresent, Updated DEF LockTypes, Release, Becomes
    <2> QED
      BY <2>1, <2>2 DEF Release, MarkSucceeded, MarkFailedRetryable
  <1>4. LockTypes'
    BY <1>2, <1>3 DEF LockTypes, Steps
  <1>5. AttemptInv'
    BY <1>2 DEF AttemptInv, Trying, LockTypes
  <1>6. ASSUME ~outlived, NEW v \in Workers, Running(v)' PROVE FALSE
    <2>1. v # w /\ Running(v)
      BY <1>2, <1>6 DEF Running, LockTypes
    <2> QED
      BY <1>1, <1>6, <2>1 DEF OwnerInv, Owns
  <1> QED
    BY <1>4, <1>5, <1>6 DEF OwnerInv

\* Time passes for a running operation that is renewed on time, or does not
\* outlive the lease; for anyone else it is a delay.
LEMMA TickIInv == ASSUME IInv, Tick PROVE IInv'
  <1>1. /\ now' = now + 1 /\ UNCHANGED <<row, lastId, held, renewing, renewedAt, pc, start>>
        /\ faults' \in {faults, faults + 1} /\ (faults' # faults => faults < MaxFaults)
        /\ (\E w \in Workers : pc[w] \notin {"idle", "run"}) => faults' = faults + 1
        /\ \A w \in Workers : renewing[w] => now - renewedAt[w] < RenewInterval
        /\ outlived' = (outlived \/ \E w \in Workers : Outlives(w))
    BY DEF Tick, Advance, OnTime, Fault, LockTypes
  <1>2. now \in Nat /\ faults \in Nat
    BY DEF LockTypes
  <1>3. LockTypes'
    BY <1>1 DEF LockTypes
  <1>4. AttemptInv'
    <2> SUFFICES ASSUME NEW w \in Workers, pc[w] \in Trying
                 PROVE  start[w] <= now + 1 /\ now + 1 <= start[w] + faults'
      BY <1>1 DEF AttemptInv
    <2>1. faults' = faults + 1 /\ start[w] \in Nat
      BY <1>1 DEF Trying, LockTypes
    <2> QED
      BY <1>2, <2>1 DEF AttemptInv
  <1>5. ASSUME ~outlived', NEW v \in Workers, Running(v)'
        PROVE  Owns(v)' /\ KeepsLease(v)'
    <2>1. ~outlived /\ ~Outlives(v) /\ Running(v)
      BY <1>1, <1>5 DEF Running
    <2>2. Owns(v) /\ KeepsLease(v)
      BY <2>1 DEF OwnerInv
    <2>3. Owns(v)'
      BY <1>1, <2>2 DEF Owns, Running
    <2>4. /\ row \in Rows /\ ~IsAbsent /\ row.lockedUntil \in Nat /\ renewedAt[v] \in Nat
      BY <2>2, RowPresent DEF Owns, LockTypes, Rows
    <2>5. /\ Cost(faults) \in Nat /\ Cost(faults + 1) = Cost(faults) + RenewInterval
          /\ Cost(faults') \in Nat /\ Cost(faults) <= Cost(faults')
      BY <1>1, <1>2, Costs
    <2>6. CASE row.fingerprint # v
      <3>1. ~(row.lockedUntil <= now + 1)
        BY <2>1, <2>4, <2>6 DEF Outlives
      <3>2. now + 1 < row.lockedUntil
        BY <1>2, <2>4, <3>1
      <3>3. KeepsLease(v)'
        BY <1>1, <2>6, <3>2 DEF KeepsLease
      <3> QED
        BY <2>3, <3>3
    <2>7. CASE row.fingerprint = v /\ pc[v] = "run"
      <3>1. /\ renewing[v] /\ renewedAt[v] <= now /\ now + 1 <= renewedAt[v] + RenewInterval
            /\ renewedAt[v] + Lease <= row.lockedUntil + Cost(faults')
        BY <1>1, <1>2, <2>2, <2>4, <2>5, <2>7 DEF KeepsLease
      <3>2. now + 1 + Lease <= row.lockedUntil + RenewInterval + Cost(faults')
        BY <1>2, <2>4, <2>5, <3>1
      <3> QED
        BY <1>1, <1>2, <2>3, <2>4, <2>7, <3>1, <3>2 DEF KeepsLease
    <2>8. CASE row.fingerprint = v /\ pc[v] = "release"
      <3>1. faults' = faults + 1
        BY <1>1, <2>8
      <3> QED
        BY <1>1, <1>2, <2>2, <2>3, <2>4, <2>5, <2>8, <3>1 DEF KeepsLease
    <2> QED
      BY <2>1, <2>3, <2>6, <2>7, <2>8 DEF Running
  <1> QED
    BY <1>3, <1>4, <1>5 DEF OwnerInv

\* The clean-up finds no row of a running operation expired.
LEMMA CleanUpIInv == ASSUME IInv, RenewalsSuffice, CleanUp PROVE IInv'
  <1>1. /\ row \in Rows /\ row.expiresAt <= now /\ row' = Absent
        /\ UNCHANGED <<now, lastId, lease, faults, pc, request, outlived>>
    BY RowPresent DEF CleanUp, DeleteExpired, LockTypes
  <1>2. row.expiresAt \in Nat /\ now \in Nat
    BY <1>1 DEF Rows, LockTypes
  <1>3. LockTypes'
    BY <1>1 DEF LockTypes
  <1>4. AttemptInv'
    BY <1>1 DEF AttemptInv
  <1>5. ASSUME ~outlived, NEW v \in Workers, Running(v)' PROVE FALSE
    <2>1. row.expiresAt > now
      BY <1>1, <1>5, LeaseOutlasts DEF Running
    <2> QED
      BY <1>1, <1>2, <2>1
  <1> QED
    BY <1>1, <1>3, <1>4, <1>5 DEF OwnerInv

-----------------------------------------------------------------------------

\* The invariant holds at first and is kept by every step.
LEMMA InitIInv == Init => IInv
  <1> SUFFICES ASSUME Init PROVE IInv
    OBVIOUS
  <1>1. outlived \in BOOLEAN
    BY DEF Init
  <1>2. LockTypes
    BY <1>1 DEF Init, StoreInit, LockTypes, Steps
  <1>3. AttemptInv
    BY DEF Init, StoreInit, AttemptInv, Trying
  <1>4. OwnerInv
    BY DEF Init, OwnerInv, Running
  <1> QED
    BY <1>2, <1>3, <1>4

\* The invariant is kept by every step: one step per action.
LEMMA NextIInv == ASSUME IInv, RenewalsSuffice, [Next]_vars PROVE IInv'
  <1>1. CASE UNCHANGED vars
    <2>1. LockTypes' /\ AttemptInv'
      BY <1>1 DEF vars, LockTypes, AttemptInv
    <2>2. OwnerInv'
      BY <1>1, Undisturbed DEF vars
    <2> QED
      BY <2>1, <2>2
  <1>2. CASE Next
    <2>1. Lease <= TTL
      BY DEF RenewalsSuffice
    <2> QED
      BY <1>2, <2>1, RequestIInv, CreateLockIInv, ReadLockIInv, ReclaimLockIInv,
         RenewLoopIInv, FinishOperationIInv, ReleaseIInv, CrashIInv, TickIInv,
         CleanUpIInv DEF Next
  <1> QED
    BY <1>1, <1>2

\* No two system operations run at a time, however many there are and however
\* long they take, whatever crashes, is delayed or is released, if the lease
\* outlasts the renewal's interval and the delays: until an operation outlives
\* the lease of a row it took over.
THEOREM OperationsExclude ==
    ASSUME RenewalsSuffice
    PROVE  Spec => []OneSystemOperation
  <1>1. IInv => OneSystemOperation
    BY DEF OwnerInv, Owns, OneSystemOperation
  <1>2. IInv /\ [Next]_vars => IInv'
    BY NextIInv
  <1> QED
    BY <1>1, <1>2, InitIInv, PTL DEF Spec
=============================================================================

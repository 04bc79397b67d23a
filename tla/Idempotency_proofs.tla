------------------------- MODULE Idempotency_proofs -------------------------
(***************************************************************************)
(* Proofs about Idempotency, for any number of requests and payloads: one  *)
(* execution at a time, on its own row, and a success that stands, if the  *)
(* row is kept for longer than an execution goes unrenewed.                *)
(***************************************************************************)
EXTENDS Idempotency, TLAPS

\* How long an execution may leave its row alone, and what a fault adds: a
\* renewal that fails is a whole interval, a delayed call one tick.
Span      == IF Renews THEN RenewInterval ELSE MaxRun
FaultCost == IF Renews THEN RenewInterval ELSE 1
Cost(n)   == n * FaultCost

\* The default row is kept for a day, the default lease is half a minute.
RowOutlasts == Span + Cost(MaxFaults) < TTL /\ MaxFaults < Lease

Claiming == {"create", "read", "takeExpired", "reread", "takeFailed"}
Taking   == {"takeExpired", "takeFailed"}

\* When its row was last prolonged.
Prolonged(w) == IF Renews THEN renewedAt[w] ELSE began[w]

RequestTypes ==
    /\ now \in Nat /\ lastId \in Nat /\ faults \in 0..MaxFaults
    /\ row \in Rows \cup {Absent}
    /\ held \in [Workers -> Nat] /\ began \in [Workers -> Nat]
    /\ renewing \in [Workers -> BOOLEAN] /\ renewedAt \in [Workers -> Nat]
    /\ pc \in [Workers -> Steps] /\ start \in [Workers -> Nat]
    /\ payload \in [Workers -> Fingerprints \cup {NoPayload}]
    /\ seen \in [Workers -> Rows \cup {Absent}]
    /\ \A w \in Workers : pc[w] # "idle" => payload[w] \in Fingerprints

\* Ids are given out once, so that a row that was read keeps its fingerprint;
\* whoever is about to take a row as failed has seen a failure.
SeenInv ==
    /\ row \in Rows => row.id <= lastId
    /\ \A w \in Workers : pc[w] \in Taking =>
         /\ seen[w] \in Rows /\ seen[w].id <= lastId
         /\ row \in Rows /\ row.id = seen[w].id => row.fingerprint = payload[w]
         /\ pc[w] = "takeFailed" => seen[w].status = "failed_retryable"

\* A claim is as old as the delays it met, and an execution's row is kept for
\* longer than it may be left alone.
TimeInv ==
    \A w \in Workers :
        /\ pc[w] \in Claiming => start[w] <= now /\ now <= start[w] + faults
        /\ pc[w] = "run" => /\ Prolonged(w) <= now /\ now <= Prolonged(w) + Span
                            /\ Prolonged(w) + TTL <= row.expiresAt + Cost(faults)
        /\ Executing(w) => now + TTL <= row.expiresAt + Span + Cost(faults)
        /\ renewing[w] <=> pc[w] = "run" /\ Renews

\* Who executes owns the row, and whoever found it expired before came too
\* early for the lock it has now.
OwnerInv ==
    \A w \in Workers : Executing(w) =>
        /\ \A v \in Workers : Executing(v) => v = w
        /\ row \in Rows /\ row.id = held[w]
        /\ row.status = "processing" /\ row.fingerprint = payload[w]
        /\ \A v \in Workers : pc[v] = "takeExpired" => start[v] < row.lockedUntil

IInv == RequestTypes /\ SeenInv /\ TimeInv /\ OwnerInv

USE StoreAssumption, CoordinatorAssumption
    DEF At, Goto, store, lease, request, history, IsAbsent, IInv

-----------------------------------------------------------------------------

\* Every fault costs at least a tick.
LEMMA Durations == FaultCost \in Nat \ {0} /\ Span \in Nat
  BY DEF FaultCost, Span

\* The costs of the steps are naturals, which is all the clock arithmetic needs.
LEMMA Costs ==
    ASSUME NEW n \in Nat
    PROVE  /\ Cost(n) \in Nat /\ n <= Cost(n)
           /\ Cost(n + 1) \in Nat /\ Cost(n + 1) = Cost(n) + FaultCost
  BY Durations DEF Cost

\* More faults never cost less.
LEMMA CostGrows ==
    ASSUME NEW m \in Nat, NEW n \in Nat, m <= n
    PROVE  Cost(m) <= Cost(n)
  BY Durations DEF Cost

\* What the statements make of a row: all but its id and fingerprint is set.
Becomes(status, until, expires) ==
    /\ row' \in Rows
    /\ row'.id = row.id /\ row'.fingerprint = row.fingerprint /\ row'.status = status
    /\ row'.lockedUntil = until /\ row'.expiresAt = expires

\* A row that exists has an id.
LEMMA RowPresent ==
    ASSUME row \in Rows \cup {Absent}
    PROVE  ~IsAbsent <=> row \in Rows
  BY DEF Rows, Absent

\* CreateProcessing inserts a row of its own.
LEMMA Created ==
    ASSUME lastId \in Nat, NEW f \in Fingerprints, NEW until \in Nat, NEW expires \in Nat,
           CreateProcessing(f, until, expires)
    PROVE  /\ row' \in Rows /\ row'.id = lastId + 1 /\ row'.status = "processing"
           /\ row'.fingerprint = f
           /\ row'.lockedUntil = until /\ row'.expiresAt = expires
           /\ lastId' = lastId + 1
  BY DEF CreateProcessing, Rows

\* The other statements update it.
LEMMA Updated ==
    ASSUME row \in Rows, NEW until \in Nat, NEW expires \in Nat
    PROVE  /\ Reclaim(until, expires) => Becomes("processing", until, expires)
           /\ ExtendProcessingLock(until, expires) => Becomes(row.status, until, expires)
           /\ MarkSucceeded(row.id, expires) => Becomes("succeeded", 0, expires)
           /\ MarkFailedRetryable(row.id, until, expires) =>
                  Becomes("failed_retryable", until, expires)
  <1>1. row \in Rows /\ ~IsAbsent
    BY RowPresent
  <1>2. ASSUME NEW status \in {"processing", "succeeded", "failed_retryable"}, NEW u \in Nat,
               row' = [row EXCEPT !.status = status, !.lockedUntil = u, !.expiresAt = expires]
        PROVE  Becomes(status, u, expires)
    BY <1>1, <1>2 DEF Becomes, Rows
  <1>3. ExtendProcessingLock(until, expires) => Becomes(row.status, until, expires)
    BY <1>1 DEF Becomes, Rows, ExtendProcessingLock
  <1>4. MarkSucceeded(row.id, expires) => Becomes("succeeded", 0, expires)
    <2>1. 0 \in Nat
      OBVIOUS
    <2> QED
      BY <1>1, <1>2, <2>1 DEF MarkSucceeded
  <1>5. /\ Reclaim(until, expires) => Becomes("processing", until, expires)
        /\ MarkFailedRetryable(row.id, until, expires) =>
               Becomes("failed_retryable", until, expires)
    BY <1>1, <1>2 DEF Reclaim, MarkFailedRetryable
  <1> QED
    BY <1>3, <1>4, <1>5

-----------------------------------------------------------------------------
(* Types, for any lengths of the lease, the row's life and the executions. *)

\* A request under way has a payload: TypeOK alone lets Create insert a row
\* that is marked with none.
TypeInv ==
    /\ TypeOK
    /\ \A w \in Workers : pc[w] # "idle" => payload[w] \in Fingerprints

\* The clock stays below its bound, and with it whatever was read from it.
LEMMA ClockTypes ==
    ASSUME TypeOK
    PROVE  /\ now \in Nat /\ now \in 0..MaxTime /\ 0 \in 0..MaxTime
           /\ row \in Rows \cup {Absent} /\ lastId \in Nat
  BY DEF TypeOK, StoreTypeOK

\* A request that is answered leaves nothing of another type behind.
LEMMA AnswerTypes ==
    ASSUME TypeInv, NEW w \in Workers, Answer(w)
    PROVE  /\ pc' \in [Workers -> Steps] /\ start' \in [Workers -> 0..MaxTime]
           /\ payload' \in [Workers -> Fingerprints \cup {NoPayload}]
           /\ seen' \in [Workers -> Rows \cup {Absent}]
           /\ \A v \in Workers : pc'[v] # "idle" => payload'[v] \in Fingerprints
  BY ClockTypes DEF TypeInv, TypeOK, Steps, Answer

\* Nor does an execution that is over.
LEMMA LetGoTypes ==
    ASSUME TypeOK, NEW w \in Workers, LetGo(w)
    PROVE  /\ held' \in [Workers -> Nat] /\ began' \in [Workers -> 0..MaxTime]
           /\ renewing' \in [Workers -> BOOLEAN] /\ renewedAt' \in [Workers -> 0..MaxTime]
  BY ClockTypes DEF TypeOK, StoreTypeOK, LetGo

\* A claim is held under the id of a row.
LEMMA ClaimedTypes ==
    ASSUME TypeInv, NEW w \in Workers, NEW id \in Nat, Claimed(w, id), pc[w] # "idle",
           row' \in Rows, lastId' \in Nat, UNCHANGED <<now, faults, history>>
    PROVE  TypeInv'
  <1>1. /\ held' = [held EXCEPT ![w] = id] /\ began' = [began EXCEPT ![w] = now]
        /\ renewing' = [renewing EXCEPT ![w] = Renews]
        /\ renewedAt' = [renewedAt EXCEPT ![w] = IF Renews THEN now ELSE 0]
        /\ pc' = [pc EXCEPT ![w] = "run"] /\ seen' = [seen EXCEPT ![w] = Absent]
        /\ UNCHANGED <<payload, start>>
    BY DEF Claimed, Begin
  <1>2. /\ held' \in [Workers -> Nat] /\ began' \in [Workers -> 0..MaxTime]
        /\ renewing' \in [Workers -> BOOLEAN] /\ renewedAt' \in [Workers -> 0..MaxTime]
    BY <1>1, ClockTypes DEF TypeInv, TypeOK, StoreTypeOK
  <1> QED
    BY <1>1, <1>2 DEF TypeInv, TypeOK, StoreTypeOK, Steps

\* What a row that was read calls for.
LEMMA DispatchTypes ==
    ASSUME TypeInv, NEW w \in Workers, pc[w] # "idle",
           \/ Answer(w)
           \/ \E step \in Taking : TryTake(w, step)
           \/ Goto(w, "reread") /\ UNCHANGED request,
           UNCHANGED <<store, lease, faults, history>>
    PROVE  TypeInv'
  <1>1. CASE Answer(w)
    BY <1>1, AnswerTypes DEF TypeInv, TypeOK, StoreTypeOK
  <1>2. CASE \E step \in Taking : TryTake(w, step)
    <2>1. PICK step \in Taking :
            /\ pc' = [pc EXCEPT ![w] = step] /\ seen' = [seen EXCEPT ![w] = row]
            /\ UNCHANGED <<payload, start>>
      BY <1>2 DEF TryTake
    <2> QED
      BY <2>1, ClockTypes DEF TypeInv, TypeOK, StoreTypeOK, Steps, Taking
  <1>3. CASE Goto(w, "reread") /\ UNCHANGED request
    BY <1>3 DEF TypeInv, TypeOK, StoreTypeOK, Steps
  <1> QED
    BY <1>1, <1>2, <1>3

\* The claim, from the first read of the clock to the lease in hand.
LEMMA ClaimTypes ==
    ASSUME TypeInv, NEW w \in Workers,
           \/ \E f \in Fingerprints : Request(w, f)
           \/ Create(w) \/ ReadExisting(w) \/ TakeExpired(w) \/ ReadLatest(w) \/ TakeFailed(w)
    PROVE  TypeInv'
  <1>1. start[w] + Lease \in Nat /\ start[w] + TTL \in Nat /\ pc \in [Workers -> Steps]
    BY DEF TypeInv, TypeOK
  <1>2. TypeOK /\ (pc[w] # "idle" => payload[w] \in Fingerprints)
    BY DEF TypeInv
  <1>3. ASSUME Taken(w), pc[w] # "idle", UNCHANGED <<now, lastId, faults, history>>
        PROVE  TypeInv'
    <2>1. /\ Reclaim(start[w] + Lease, start[w] + TTL) /\ Claimed(w, seen[w].id)
          /\ row \in Rows /\ row.id = seen[w].id
      BY <1>2, <1>3, ClockTypes, RowPresent DEF Taken, Take, Reclaimable
    <2>2. row' \in Rows /\ seen[w].id \in Nat /\ lastId' \in Nat
      BY <1>1, <1>2, <1>3, <2>1, ClockTypes, Updated DEF Becomes, Rows
    <2> QED
      BY <1>3, <2>1, <2>2, ClaimedTypes
  <1>4. ASSUME NEW f \in Fingerprints, Request(w, f) PROVE TypeInv'
    <2>1. /\ pc' = [pc EXCEPT ![w] = "create"] /\ payload' = [payload EXCEPT ![w] = f]
          /\ start' = [start EXCEPT ![w] = now]
          /\ UNCHANGED <<store, lease, faults, seen, history>>
      BY <1>4 DEF Request
    <2> QED
      BY <1>2, <2>1, ClockTypes DEF TypeInv, TypeOK, StoreTypeOK, Steps
  <1>5. CASE Create(w) /\ IsAbsent
    <2>1. /\ CreateProcessing(payload[w], start[w] + Lease, start[w] + TTL)
          /\ Claimed(w, lastId + 1) /\ pc[w] # "idle"
          /\ UNCHANGED <<now, faults, history>>
      BY <1>5 DEF Create
    <2>2. row' \in Rows /\ lastId' = lastId + 1 /\ lastId \in Nat
      BY <1>1, <1>2, <2>1, ClockTypes, Created
    <2>3. lastId + 1 \in Nat
      BY <2>2
    <2> QED
      BY <2>1, <2>2, <2>3, ClaimedTypes
  <1>6. CASE Create(w) /\ ~IsAbsent
    <2>1. /\ pc' = [pc EXCEPT ![w] = "read"] /\ pc[w] # "idle"
          /\ UNCHANGED <<store, lease, faults, request, history>>
      BY <1>6 DEF Create
    <2> QED
      BY <2>1 DEF TypeInv, TypeOK, StoreTypeOK, Steps
  <1>7. CASE ReadExisting(w) \/ ReadLatest(w)
    BY <1>7, DispatchTypes DEF ReadExisting, ReadLatest, Dispatch, Taking
  <1>8. CASE TakeExpired(w) \/ TakeFailed(w)
    <2>1. pc[w] # "idle" /\ UNCHANGED <<now, lastId, faults, history>>
      BY <1>8 DEF TakeExpired, TakeFailed
    <2> QED
      BY <1>3, <1>8, <2>1, DispatchTypes DEF TakeExpired, TakeFailed
  <1> QED
    BY <1>4, <1>5, <1>6, <1>7, <1>8

\* The execution, its renewals and its outcome.
LEMMA ExecutionTypes ==
    ASSUME TypeInv, NEW w \in Workers,
           \/ RenewProcessingLease(w) \/ FinishExecution(w)
           \/ StoreSuccess(w) \/ StoreFailure(w) \/ Crash(w)
    PROVE  TypeInv'
  <1> TypeOK
    BY DEF TypeInv
  <1>1. /\ now + Lease \in Nat /\ now + TTL \in Nat /\ now + Backoff \in Nat
        /\ ExpiresAt(w) \in Nat /\ row \in Rows \cup {Absent}
    BY ClockTypes DEF ExpiresAt, TypeOK
  <1>2. faults' \in 0..MaxFaults
    BY DEF TypeOK, StoreTypeOK, RenewProcessingLease, Renew, FinishExecution, StopRenewing,
           StoreSuccess, StoreFailure, Crash, Fault
  <1>3. CASE RenewProcessingLease(w)
    <2>1. row' \in Rows \cup {Absent}
      <3>1. CASE row' = row
        BY <1>1, <3>1
      <3>2. CASE Extendable(held[w], payload[w]) /\ ExtendProcessingLock(now + Lease, now + TTL)
        BY <1>1, <3>2, RowPresent, Updated DEF Extendable, Becomes
      <3> QED
        BY <1>3, <3>1, <3>2 DEF RenewProcessingLease, Renew
    <2>2. /\ UNCHANGED <<pc, request, history, now, lastId, held, began>>
          /\ renewing' \in {renewing, [renewing EXCEPT ![w] = FALSE]}
          /\ renewedAt' = [renewedAt EXCEPT ![w] = now]
      BY <1>3 DEF RenewProcessingLease, Renew
    <2> QED
      BY <1>2, <2>1, <2>2, ClockTypes DEF TypeInv, TypeOK, StoreTypeOK
  <1>4. CASE FinishExecution(w)
    BY <1>4 DEF TypeInv, TypeOK, StoreTypeOK, Steps, FinishExecution, StopRenewing
  <1>5. CASE StoreSuccess(w) \/ StoreFailure(w)
    <2>1. /\ UNCHANGED <<now, lastId>> /\ LetGo(w) /\ Answer(w)
          /\ keptUntil' \in {keptUntil, ExpiresAt(w)} /\ restUntil' \in {restUntil, now + Backoff}
          /\ \/ MarkSucceeded(held[w], ExpiresAt(w))
             \/ MarkFailedRetryable(held[w], now + Backoff, ExpiresAt(w))
      BY <1>5 DEF StoreSuccess, StoreFailure
    <2>2. row' \in Rows \cup {Absent}
      <3>1. CASE row' = row
        BY <1>1, <3>1
      <3>2. CASE row.id = held[w] /\ ~IsAbsent
        BY <1>1, <2>1, <3>2, RowPresent, Updated DEF Becomes
      <3> QED
        BY <2>1, <3>1, <3>2 DEF MarkSucceeded, MarkFailedRetryable
    <2>3. keptUntil' \in Nat /\ restUntil' \in Nat
      BY <1>1, <2>1 DEF TypeOK
    <2> QED
      BY <1>2, <2>1, <2>2, <2>3, AnswerTypes, LetGoTypes DEF TypeInv, TypeOK, StoreTypeOK
  <1>6. CASE Crash(w)
    <2>1. UNCHANGED <<store, history>> /\ LetGo(w) /\ Answer(w)
      BY <1>6 DEF Crash
    <2> QED
      BY <1>2, <2>1, AnswerTypes, LetGoTypes DEF TypeInv, TypeOK, StoreTypeOK
  <1> QED
    BY <1>3, <1>4, <1>5, <1>6

\* TypeOK: every variable of the row, of the leases and of the requests keeps
\* to its type, whatever the lease, the row's life and the executions take.
THEOREM TypeCorrect == Spec => []TypeOK
  <1>1. Init => TypeInv
    BY DEF Init, StoreInit, TypeInv, TypeOK, StoreTypeOK, Steps
  <1>2. TypeInv /\ [Next]_vars => TypeInv'
    <2> SUFFICES ASSUME TypeInv, [Next]_vars PROVE TypeInv'
      OBVIOUS
    <2>1. CASE UNCHANGED vars
      BY <2>1 DEF vars, TypeInv, TypeOK, StoreTypeOK
    <2>2. CASE Tick
      BY <2>2 DEF TypeInv, TypeOK, StoreTypeOK, Tick, Advance, Fault
    <2>3. CASE CleanUp
      BY <2>3 DEF TypeInv, TypeOK, StoreTypeOK, CleanUp, DeleteExpired
    <2> QED
      BY <2>1, <2>2, <2>3, ClaimTypes, ExecutionTypes DEF Next
  <1>3. TypeInv => TypeOK
    BY DEF TypeInv
  <1> QED
    BY <1>1, <1>2, <1>3, PTL DEF Spec

-----------------------------------------------------------------------------
(* One execution at a time.                                                *)

\* The row of an execution is not expired.
LEMMA RowKept ==
    ASSUME IInv, RowOutlasts, NEW v \in Workers, Executing(v)
    PROVE  row.expiresAt > now
  <1>1. now + TTL <= row.expiresAt + Span + Cost(faults) /\ row \in Rows
    BY DEF TimeInv, OwnerInv
  <1>2. faults <= MaxFaults /\ now \in Nat /\ faults \in Nat /\ row.expiresAt \in Nat
    BY <1>1 DEF RequestTypes, Rows
  <1>3. Cost(faults) <= Cost(MaxFaults) /\ Cost(faults) \in Nat /\ Cost(MaxFaults) \in Nat
    BY <1>2, Costs, CostGrows
  <1> QED
    BY <1>1, <1>2, <1>3, Durations DEF RowOutlasts

\* A request that goes on, or ends, without a claim.
LEMMA PassingIInv ==
    ASSUME IInv, RowOutlasts, NEW w \in Workers, ~Executing(w),
           NEW step \in {"idle"} \cup Claiming,
           Goto(w, step), UNCHANGED <<store, lease, faults>>,
           RequestTypes',
           \A v \in Workers \ {w} : payload'[v] = payload[v] /\ start'[v] = start[v]
                                    /\ seen'[v] = seen[v],
           step # "idle" => start'[w] <= now /\ now <= start'[w] + faults,
           step \in Taking => seen'[w] = row /\ row \in Rows /\ row.fingerprint = payload'[w],
           step = "takeFailed" => row.status = "failed_retryable",
           step = "takeExpired" => row.expiresAt <= start'[w] /\ start'[w] <= now
    PROVE  IInv'
  <1>1. /\ pc' = [pc EXCEPT ![w] = step] /\ pc \in [Workers -> Steps]
        /\ \A v \in Workers : Executing(v)' <=> Executing(v)
        /\ \A v \in Workers : Executing(v) => v # w
    BY DEF RequestTypes, Executing, Claiming
  <1>2. SeenInv'
    BY <1>1 DEF SeenInv, Taking
  <1>3. TimeInv'
    BY <1>1 DEF TimeInv, Claiming, Executing, Prolonged
  <1>4. OwnerInv'
    <2> SUFFICES ASSUME NEW v \in Workers, Executing(v), NEW u \in Workers,
                        pc'[u] = "takeExpired"
                 PROVE  start'[u] < row.lockedUntil
      BY <1>1 DEF OwnerInv
    <2>1. CASE u = w
      <3>1. row.expiresAt > now /\ row.expiresAt <= start'[w] /\ start'[w] <= now
        BY <1>1, <2>1, RowKept
      <3>2. row.expiresAt \in Nat /\ now \in Nat /\ start'[w] \in Nat
        BY DEF OwnerInv, RequestTypes, Rows
      <3> QED
        BY <3>1, <3>2
    <2>2. CASE u # w
      BY <1>1, <2>2 DEF OwnerInv
    <2> QED
      BY <2>1, <2>2
  <1> QED
    BY <1>2, <1>3, <1>4

\* A request that is answered: by an execution that has ended and left its
\* outcome in its row, or by the loss of its instance.
LEMMA LeavingIInv ==
    ASSUME IInv, NEW w \in Workers, LetGo(w), Answer(w), UNCHANGED <<now, lastId>>,
           faults' \in 0..MaxFaults, faults <= faults',
           \/ UNCHANGED row
           \/ /\ Executing(w) /\ row' \in Rows
              /\ row'.id = row.id /\ row'.fingerprint = row.fingerprint
    PROVE  IInv'
  <1>1. /\ pc' = [pc EXCEPT ![w] = "idle"] /\ pc \in [Workers -> Steps]
        /\ \A v \in Workers : Executing(v)' => Executing(v) /\ v # w
        /\ faults \in Nat /\ faults' \in Nat /\ Cost(faults) <= Cost(faults')
        /\ Cost(faults) \in Nat /\ Cost(faults') \in Nat
    <2>1. faults \in Nat /\ faults' \in Nat
      BY DEF RequestTypes
    <2>2. Cost(faults) <= Cost(faults') /\ Cost(faults) \in Nat /\ Cost(faults') \in Nat
      BY <2>1, Costs, CostGrows
    <2> QED
      BY <2>1, <2>2 DEF RequestTypes, Executing, Answer
  <1>2. \/ UNCHANGED row
        \/ /\ \A v \in Workers : ~Executing(v)'
           /\ row \in Rows /\ row' \in Rows
           /\ row'.id = row.id /\ row'.fingerprint = row.fingerprint
    BY <1>1 DEF OwnerInv
  <1>3. RequestTypes'
    BY <1>2 DEF RequestTypes, Steps, LetGo, Answer
  <1>4. SeenInv'
    BY <1>1, <1>2 DEF SeenInv, Taking, Answer
  <1>5. TimeInv'
    <2>1. \A v \in Workers : Executing(v)' => UNCHANGED row /\ row.expiresAt \in Nat
      BY <1>1, <1>2 DEF OwnerInv, Rows
    <2>2. Span \in Nat
      BY Durations
    <2> SUFFICES ASSUME NEW v \in Workers
                 PROVE  /\ pc'[v] \in Claiming => start'[v] <= now' /\ now' <= start'[v] + faults'
                        /\ pc'[v] = "run" => /\ Prolonged(v)' <= now'
                                             /\ now' <= Prolonged(v)' + Span
                                             /\ Prolonged(v)' + TTL <= row'.expiresAt + Cost(faults')
                        /\ Executing(v)' => now' + TTL <= row'.expiresAt + Span + Cost(faults')
                        /\ renewing'[v] <=> pc'[v] = "run" /\ Renews
      BY DEF TimeInv
    <2>3. CASE v = w
      BY <1>1, <2>3 DEF RequestTypes, LetGo, Claiming, Executing
    <2>4. CASE v # w
      <3>1. /\ pc'[v] = pc[v] /\ start'[v] = start[v] /\ renewing'[v] = renewing[v]
            /\ renewedAt'[v] = renewedAt[v] /\ began'[v] = began[v]
        BY <2>4 DEF RequestTypes, LetGo, Answer
      <3>2. Prolonged(v)' = Prolonged(v) /\ Prolonged(v) \in Nat
        BY <3>1 DEF Prolonged, RequestTypes
      <3>3. now \in Nat /\ start[v] \in Nat
        BY DEF RequestTypes
      <3> QED
        BY <1>1, <2>1, <2>2, <3>1, <3>2, <3>3 DEF TimeInv, Executing
    <2> QED
      BY <2>3, <2>4
  <1>6. OwnerInv'
    BY <1>1, <1>2 DEF OwnerInv, Executing, LetGo, Answer, RequestTypes
  <1> QED
    BY <1>3, <1>4, <1>5, <1>6

\* Whoever claims the row finds nobody executing, and his lock is younger than
\* every request under way.
LEMMA ClaimedIInv ==
    ASSUME IInv, RowOutlasts, NEW w \in Workers, NEW id \in Nat,
           pc[w] \in Claiming, \A v \in Workers : ~Executing(v),
           row' \in Rows, row'.id = id, row'.status = "processing",
           row'.fingerprint = payload[w], id <= lastId',
           \/ row \in Rows /\ row.id = id /\ row.fingerprint = payload[w] /\ UNCHANGED lastId
           \/ id = lastId + 1 /\ lastId' = lastId + 1,
           row'.lockedUntil = start[w] + Lease, row'.expiresAt = start[w] + TTL,
           Claimed(w, id), UNCHANGED <<now, faults>>
    PROVE  IInv'
  <1>1. lastId' \in Nat /\ lastId \in Nat /\ lastId <= lastId'
    BY DEF RequestTypes
  <1>2. RequestTypes'
    BY <1>1 DEF RequestTypes, Steps, Claimed, Begin, Claiming
  <1>3. /\ start[w] \in Nat /\ now \in Nat /\ faults \in Nat
        /\ start[w] <= now /\ now <= start[w] + faults /\ faults <= MaxFaults
    BY DEF RequestTypes, TimeInv
  <1>4. /\ pc' = [pc EXCEPT ![w] = "run"] /\ UNCHANGED <<start, payload>>
        /\ began' = [began EXCEPT ![w] = now] /\ renewing' = [renewing EXCEPT ![w] = Renews]
        /\ renewedAt' = [renewedAt EXCEPT ![w] = IF Renews THEN now ELSE 0]
        /\ \A v \in Workers : Executing(v)' => v = w
    BY DEF RequestTypes, Claimed, Begin, Executing
  <1>5. SeenInv'
    BY <1>1, <1>4 DEF SeenInv, Taking, Claimed, RequestTypes, Rows
  <1>6. TimeInv'
    <2>1. Prolonged(w)' = now
      BY <1>4 DEF Prolonged, RequestTypes
    <2>2. faults <= Cost(faults) /\ Cost(faults) \in Nat /\ Span \in Nat
      BY <1>3, Costs, Durations
    <2>3. \A v \in Workers : v # w => pc'[v] = pc[v] /\ renewing'[v] = renewing[v]
      BY <1>4 DEF RequestTypes
    <2>4. pc'[w] = "run" /\ renewing'[w] = Renews
      BY <1>4 DEF RequestTypes
    <2>5. /\ Prolonged(w)' + TTL <= row'.expiresAt + Cost(faults)
          /\ now + TTL <= row'.expiresAt + Span + Cost(faults)
      BY <1>3, <2>1, <2>2
    <2> SUFFICES ASSUME NEW v \in Workers
                 PROVE  /\ pc'[v] \in Claiming => start[v] <= now /\ now <= start[v] + faults
                        /\ pc'[v] = "run" => /\ Prolonged(v)' <= now /\ now <= Prolonged(v)' + Span
                                             /\ Prolonged(v)' + TTL <= row'.expiresAt + Cost(faults)
                        /\ Executing(v)' => now + TTL <= row'.expiresAt + Span + Cost(faults)
                        /\ renewing'[v] <=> pc'[v] = "run" /\ Renews
      BY <1>4 DEF TimeInv
    <2>6. CASE v = w
      BY <1>3, <2>1, <2>2, <2>4, <2>5, <2>6 DEF Claiming
    <2>7. CASE v # w
      BY <1>4, <2>3, <2>7 DEF TimeInv, Executing
    <2> QED
      BY <2>6, <2>7
  <1>7. OwnerInv'
    <2>1. \A v \in Workers : pc[v] = "takeExpired" => start[v] < start[w] + Lease
      BY <1>3 DEF TimeInv, RequestTypes, Claiming, RowOutlasts
    <2>2. held'[w] = id
      BY DEF RequestTypes, Claimed, Begin
    <2>3. \A v \in Workers : pc'[v] = "takeExpired" => start'[v] < row'.lockedUntil
      BY <1>4, <2>1 DEF RequestTypes
    <2> QED
      BY <1>4, <2>2, <2>3 DEF OwnerInv, RequestTypes
  <1> QED
    BY <1>2, <1>5, <1>6, <1>7

-----------------------------------------------------------------------------

\* A request comes.
LEMMA RequestIInv ==
    ASSUME IInv, RowOutlasts, NEW w \in Workers, NEW f \in Fingerprints, Request(w, f)
    PROVE  IInv'
  <1>1. RequestTypes'
    BY DEF RequestTypes, Request, Steps
  <1>2. now \in Nat /\ faults \in Nat /\ start'[w] = now
    BY DEF RequestTypes, Request
  <1>3. ~Executing(w) /\ Goto(w, "create") /\ UNCHANGED <<store, lease, faults>>
    BY DEF Request, Executing
  <1>4. \A v \in Workers \ {w} : payload'[v] = payload[v] /\ start'[v] = start[v]
                                 /\ seen'[v] = seen[v]
    BY DEF RequestTypes, Request
  <1>5. "create" \in {"idle"} \cup Claiming /\ "create" \notin Taking
    BY DEF Claiming, Taking
  <1>6. start'[w] <= now /\ now <= start'[w] + faults
    BY <1>2
  <1> QED
    BY <1>1, <1>3, <1>4, <1>5, <1>6, PassingIInv DEF Taking

\* What a worker in its claim knows of the time.
LEMMA ClaimAge ==
    ASSUME IInv, NEW w \in Workers, pc[w] \in Claiming
    PROVE  /\ ~Executing(w) /\ payload[w] \in Fingerprints
           /\ start[w] \in Nat /\ now \in Nat /\ faults \in Nat
           /\ start[w] <= now /\ now <= start[w] + faults
  BY DEF RequestTypes, TimeInv, Claiming, Executing

\* The steps with which a claim ends or goes on.
LEMMA AnswerIInv ==
    ASSUME IInv, RowOutlasts, NEW w \in Workers, pc[w] \in Claiming,
           Answer(w), UNCHANGED <<store, lease, faults>>
    PROVE  IInv'
  <1>1. RequestTypes'
    BY DEF RequestTypes, Answer, Steps
  <1>2. \A v \in Workers \ {w} : payload'[v] = payload[v] /\ start'[v] = start[v]
                                 /\ seen'[v] = seen[v]
    BY DEF RequestTypes, Answer
  <1> QED
    BY <1>1, <1>2, ClaimAge, PassingIInv DEF Answer, Claiming, Taking

\* A process that goes on with its own request touches no row.
LEMMA GoOnIInv ==
    ASSUME IInv, RowOutlasts, NEW w \in Workers, pc[w] \in Claiming,
           NEW step \in {"read", "reread"}, Goto(w, step),
           UNCHANGED <<store, lease, faults, request>>
    PROVE  IInv'
  <1>1. RequestTypes'
    BY DEF RequestTypes, Steps, Claiming
  <1> QED
    BY <1>1, ClaimAge, PassingIInv DEF Claiming, Taking

\* A request goes to reclaim the row it has just read: what it saw is what is there.
LEMMA TryTakeIInv ==
    ASSUME IInv, RowOutlasts, NEW w \in Workers, pc[w] \in Claiming, Matches(w),
           NEW step \in Taking, TryTake(w, step), UNCHANGED <<store, lease, faults>>,
           step = "takeFailed" => row.status = "failed_retryable",
           step = "takeExpired" => row.expiresAt <= start[w]
    PROVE  IInv'
  <1>1. row \in Rows /\ row.fingerprint = payload[w]
    BY RowPresent DEF Matches, RequestTypes
  <1>2. RequestTypes'
    BY <1>1 DEF RequestTypes, TryTake, Steps, Claiming, Taking
  <1>3. /\ seen'[w] = row /\ UNCHANGED <<payload, start>>
        /\ \A v \in Workers \ {w} : seen'[v] = seen[v]
    BY DEF TryTake, RequestTypes
  <1>4. step \in {"idle"} \cup Claiming /\ Goto(w, step) /\ step # "idle"
    BY DEF TryTake, Claiming, Taking
  <1> QED
    BY <1>1, <1>2, <1>3, <1>4, ClaimAge, PassingIInv

\* What a process decides from the row it has read.
LEMMA DispatchIInv ==
    ASSUME IInv, RowOutlasts, NEW w \in Workers, pc[w] \in Claiming, Matches(w),
           Dispatch(w), UNCHANGED <<store, lease, faults>>
    PROVE  IInv'
  <1>1. CASE row.status = "failed_retryable" /\ ~BackedOff(w)
    BY <1>1, TryTakeIInv DEF Dispatch, Taking
  <1>2. CASE ~(row.status = "failed_retryable" /\ ~BackedOff(w))
    BY <1>2, AnswerIInv DEF Dispatch
  <1> QED
    BY <1>1, <1>2

\* The read after a lost insert.
LEMMA ReadExistingIInv ==
    ASSUME IInv, RowOutlasts, NEW w \in Workers, ReadExisting(w) PROVE IInv'
  <1>1. pc[w] \in Claiming /\ UNCHANGED <<store, lease, faults>>
    BY DEF ReadExisting, Claiming
  <1>2. CASE ~Matches(w) /\ Answer(w)
    BY <1>1, <1>2, AnswerIInv
  <1>3. CASE Matches(w) /\ Expired(w) /\ TryTake(w, "takeExpired")
    BY <1>1, <1>3, TryTakeIInv DEF Taking, Expired
  <1>4. CASE Matches(w) /\ ~Expired(w) /\ Dispatch(w)
    BY <1>1, <1>4, DispatchIInv
  <1> QED
    BY <1>2, <1>3, <1>4 DEF ReadExisting

\* The read after a lost reclaim.
LEMMA ReadLatestIInv ==
    ASSUME IInv, RowOutlasts, NEW w \in Workers, ReadLatest(w) PROVE IInv'
  <1>1. pc[w] \in Claiming /\ UNCHANGED <<store, lease, faults>>
    BY DEF ReadLatest, Claiming
  <1>2. CASE Matches(w)
    BY <1>1, <1>2, DispatchIInv DEF ReadLatest
  <1>3. CASE ~Matches(w)
    BY <1>1, <1>3, AnswerIInv DEF ReadLatest
  <1> QED
    BY <1>2, <1>3

\* The row is only inserted where there is none.
LEMMA CreateIInv ==
    ASSUME IInv, RowOutlasts, NEW w \in Workers, Create(w) PROVE IInv'
  <1>1. pc[w] \in Claiming /\ UNCHANGED <<now, faults>>
    BY DEF Create, Claiming
  <1>2. CASE IsAbsent
    <2>1. \A v \in Workers : ~Executing(v)
      BY <1>2, RowPresent DEF RequestTypes, OwnerInv
    <2>2. start[w] + Lease \in Nat /\ start[w] + TTL \in Nat /\ lastId \in Nat
          /\ payload[w] \in Fingerprints
      BY <1>1, ClaimAge DEF RequestTypes
    <2>3. CreateProcessing(payload[w], start[w] + Lease, start[w] + TTL) /\ Claimed(w, lastId + 1)
      BY <1>2 DEF Create
    <2>4. /\ row' \in Rows /\ row'.id = lastId + 1 /\ row'.status = "processing"
          /\ row'.fingerprint = payload[w]
          /\ row'.lockedUntil = start[w] + Lease /\ row'.expiresAt = start[w] + TTL
          /\ lastId' = lastId + 1
      BY <2>2, <2>3, Created
    <2> QED
      BY <1>1, <2>1, <2>2, <2>3, <2>4, ClaimedIInv
  <1>3. CASE ~IsAbsent
    BY <1>1, <1>3, GoOnIInv DEF Create
  <1> QED
    BY <1>2, <1>3

\* A row is reclaimed only if nobody executes: not by its expiry, for the lock
\* is younger than whoever saw it expire; not as failed, for it is processing.
LEMMA TakenFree ==
    ASSUME IInv, NEW w \in Workers, pc[w] \in Taking, Take(w)
    PROVE  /\ \A v \in Workers : ~Executing(v)
           /\ row \in Rows /\ row.id = seen[w].id /\ row.status = seen[w].status
  <1>1. row \in Rows /\ row.id = seen[w].id /\ row.status = seen[w].status
        /\ row.lockedUntil <= start[w]
    BY RowPresent DEF Take, Reclaimable, RequestTypes
  <1>2. row.lockedUntil \in Nat /\ start[w] \in Nat
    BY <1>1 DEF Rows, RequestTypes
  <1>3. ASSUME NEW v \in Workers, Executing(v) PROVE FALSE
    <2>1. row.status = "processing" /\ (pc[w] = "takeExpired" => start[w] < row.lockedUntil)
      BY <1>3 DEF OwnerInv
    <2>2. pc[w] = "takeExpired"
      BY <1>1, <2>1 DEF SeenInv, Taking
    <2> QED
      BY <1>1, <1>2, <2>1, <2>2
  <1> QED
    BY <1>1, <1>3

\* A reclaim of a row that nobody runs any more makes its process the one runner.
LEMMA TakenIInv ==
    ASSUME IInv, RowOutlasts, NEW w \in Workers, pc[w] \in Taking, Taken(w),
           UNCHANGED <<now, lastId, faults>>
    PROVE  IInv'
  <1>1. /\ \A v \in Workers : ~Executing(v)
        /\ row \in Rows /\ row.id = seen[w].id
    BY TakenFree DEF Taken
  <1>2. pc[w] \in Claiming
    BY DEF Claiming, Taking
  <1>3. row.fingerprint = payload[w] /\ row.id <= lastId
    BY <1>1 DEF SeenInv
  <1>4. start[w] + Lease \in Nat /\ start[w] + TTL \in Nat
    BY <1>2, ClaimAge
  <1>5. Reclaim(start[w] + Lease, start[w] + TTL) /\ Claimed(w, seen[w].id)
    BY DEF Taken
  <1>6. Becomes("processing", start[w] + Lease, start[w] + TTL)
    BY <1>1, <1>4, <1>5, Updated
  <1>7. row.id \in Nat
    BY <1>1 DEF Rows
  <1> QED
    BY <1>1, <1>2, <1>3, <1>5, <1>6, <1>7, ClaimedIInv DEF Becomes

\* The reclaim of a row whose life or lease is over.
LEMMA TakeExpiredIInv ==
    ASSUME IInv, RowOutlasts, NEW w \in Workers, TakeExpired(w) PROVE IInv'
  <1>1. CASE Taken(w)
    BY <1>1, TakenIInv DEF TakeExpired, Taking
  <1>2. CASE ~Take(w) /\ Goto(w, "reread") /\ UNCHANGED <<row, lease, request>>
    BY <1>2, GoOnIInv DEF TakeExpired, Claiming
  <1> QED
    BY <1>1, <1>2 DEF TakeExpired

\* The reclaim of a row whose execution failed.
LEMMA TakeFailedIInv ==
    ASSUME IInv, RowOutlasts, NEW w \in Workers, TakeFailed(w) PROVE IInv'
  <1>1. CASE Taken(w)
    BY <1>1, TakenIInv DEF TakeFailed, Taking
  <1>2. CASE ~Take(w) /\ Answer(w) /\ UNCHANGED <<row, lease>>
    BY <1>2, AnswerIInv DEF TakeFailed, Claiming
  <1> QED
    BY <1>1, <1>2 DEF TakeFailed

-----------------------------------------------------------------------------

\* The owner's renewal always matches its row; one that fails costs a fault.
LEMMA RenewIInv ==
    ASSUME IInv, NEW w \in Workers, RenewProcessingLease(w) PROVE IInv'
  <1>1. /\ pc[w] = "run" /\ Executing(w) /\ Renews
        /\ \A v \in Workers : Executing(v) => v = w
        /\ row \in Rows /\ row.id = held[w] /\ row.status = "processing"
        /\ row.fingerprint = payload[w]
    BY DEF RenewProcessingLease, Renew, TimeInv, OwnerInv, Executing
  <1>2. Extendable(held[w], payload[w])
    BY <1>1, RowPresent DEF Extendable
  <1>3. /\ UNCHANGED <<pc, request, now, lastId, held, began, renewing>>
        /\ renewedAt' = [renewedAt EXCEPT ![w] = now]
        /\ \/ ExtendProcessingLock(now + Lease, now + TTL) /\ UNCHANGED faults
           \/ UNCHANGED row /\ faults < MaxFaults /\ faults' = faults + 1
    BY <1>2 DEF RenewProcessingLease, Renew, Fault
  <1>4. now \in Nat /\ faults \in Nat /\ now + Lease \in Nat /\ now + TTL \in Nat
    BY DEF RequestTypes
  <1>5. \/ Becomes("processing", now + Lease, now + TTL) /\ UNCHANGED faults
        \/ UNCHANGED row /\ faults < MaxFaults /\ faults' = faults + 1
    BY <1>1, <1>3, <1>4, Updated
  <1>6. /\ row' \in Rows /\ row'.id = row.id /\ row'.status = "processing"
        /\ row'.fingerprint = row.fingerprint
    BY <1>1, <1>5 DEF Becomes
  <1>7. RequestTypes'
    BY <1>3, <1>4, <1>5, <1>6 DEF RequestTypes
  <1>8. SeenInv'
    BY <1>1, <1>3, <1>6 DEF SeenInv
  <1>9. TimeInv'
    <2>1. Prolonged(w)' = now /\ Prolonged(w) = renewedAt[w] /\ renewedAt[w] \in Nat
          /\ Span = FaultCost
      BY <1>1, <1>3 DEF Prolonged, RequestTypes, Span, FaultCost
    <2>2. /\ now <= renewedAt[w] + Span
          /\ renewedAt[w] + TTL <= row.expiresAt + Cost(faults)
          /\ row.expiresAt \in Nat
      BY <1>1, <2>1 DEF TimeInv, Rows
    <2>3. /\ Cost(faults) \in Nat /\ Cost(faults + 1) = Cost(faults) + Span
          /\ Cost(faults + 1) \in Nat /\ Span \in Nat
      BY <1>4, <2>1, Costs, Durations
    <2>4. now + TTL <= row'.expiresAt + Cost(faults')
      <3>1. CASE Becomes("processing", now + Lease, now + TTL) /\ UNCHANGED faults
        BY <1>4, <2>3, <3>1 DEF Becomes
      <3>2. CASE UNCHANGED row /\ faults' = faults + 1
        BY <1>4, <2>1, <2>2, <2>3, <3>2
      <3> QED
        BY <1>5, <3>1, <3>2
    <2>5. faults' \in {faults, faults + 1} /\ Cost(faults') \in Nat /\ row'.expiresAt \in Nat
      BY <1>5, <1>6, <2>3 DEF Rows
    <2> SUFFICES ASSUME NEW v \in Workers
                 PROVE  /\ pc[v] \in Claiming => start[v] <= now /\ now <= start[v] + faults'
                        /\ pc[v] = "run" => /\ Prolonged(v)' <= now /\ now <= Prolonged(v)' + Span
                                            /\ Prolonged(v)' + TTL <= row'.expiresAt + Cost(faults')
                        /\ Executing(v) => now + TTL <= row'.expiresAt + Span + Cost(faults')
                        /\ renewing[v] <=> pc[v] = "run" /\ Renews
      BY <1>3 DEF TimeInv, Executing
    <2>6. CASE v = w
      BY <1>1, <1>4, <2>1, <2>3, <2>4, <2>5, <2>6 DEF TimeInv, Claiming
    <2>7. CASE v # w
      <3>1. ~Executing(v) /\ start[v] \in Nat
        BY <1>1, <2>7 DEF RequestTypes
      <3> QED
        BY <1>4, <2>5, <3>1 DEF TimeInv, Executing
    <2> QED
      BY <2>6, <2>7
  <1>10. OwnerInv'
    <2>1. \A v \in Workers : pc[v] = "takeExpired" => start[v] < row'.lockedUntil
      <3>1. \A v \in Workers : pc[v] = "takeExpired" =>
                start[v] < row.lockedUntil /\ start[v] <= now /\ start[v] \in Nat
        BY <1>1 DEF OwnerInv, TimeInv, Claiming, RequestTypes
      <3> QED
        BY <1>4, <1>5, <3>1 DEF Becomes
    <2> QED
      BY <1>1, <1>3, <1>6, <2>1 DEF OwnerInv, Executing
  <1> QED
    BY <1>7, <1>8, <1>9, <1>10

\* Renewal stops with the execution; from here on only delays take time.
LEMMA FinishExecutionIInv ==
    ASSUME IInv, NEW w \in Workers, FinishExecution(w) PROVE IInv'
  <1>1. /\ pc' = [pc EXCEPT ![w] = "mark"] /\ pc[w] = "run"
        /\ renewing' = [renewing EXCEPT ![w] = FALSE]
        /\ UNCHANGED <<store, held, began, renewedAt, faults, request>>
    BY DEF FinishExecution, StopRenewing
  <1>2. RequestTypes'
    BY <1>1 DEF RequestTypes, Steps
  <1>3. SeenInv'
    BY <1>1 DEF SeenInv, Taking, RequestTypes
  <1>4. TimeInv'
    BY <1>1 DEF TimeInv, RequestTypes, Claiming, Executing, Prolonged
  <1>5. OwnerInv'
    BY <1>1 DEF OwnerInv, RequestTypes, Executing
  <1> QED
    BY <1>2, <1>3, <1>4, <1>5

\* The outcome is stored in the executor's own row.
LEMMA StoreIInv ==
    ASSUME IInv, NEW w \in Workers, StoreSuccess(w) \/ StoreFailure(w) PROVE IInv'
  <1>1. Executing(w) /\ row \in Rows /\ row.id = held[w]
    BY DEF StoreSuccess, StoreFailure, Executing, OwnerInv
  <1>2. ExpiresAt(w) \in Nat /\ now + Backoff \in Nat
    BY DEF ExpiresAt, RequestTypes
  <1>3. /\ row' \in Rows /\ row'.id = row.id /\ row'.fingerprint = row.fingerprint
    BY <1>1, <1>2, Updated DEF StoreSuccess, StoreFailure, Becomes
  <1>4. faults' \in 0..MaxFaults /\ faults <= faults'
    BY DEF StoreSuccess, StoreFailure, RequestTypes
  <1> QED
    BY <1>1, <1>3, <1>4, LeavingIInv DEF StoreSuccess, StoreFailure

\* A crash drops the process and leaves the row behind.
LEMMA CrashIInv == ASSUME IInv, NEW w \in Workers, Crash(w) PROVE IInv'
  <1>1. faults' \in 0..MaxFaults /\ faults <= faults'
    BY DEF Crash, Fault, RequestTypes
  <1> QED
    BY <1>1, LeavingIInv DEF Crash

\* Time passes for an execution within its Span, for anyone else by a delay.
LEMMA TickIInv == ASSUME IInv, Tick PROVE IInv'
  <1>1. /\ now' = now + 1 /\ UNCHANGED <<row, lastId, lease, pc, request>>
        /\ faults' \in {faults, faults + 1} /\ (faults' # faults => faults < MaxFaults)
        /\ (\E w \in Workers : pc[w] \notin {"idle", "run"}) => faults' = faults + 1
        /\ \A w \in Workers : OnTime(w, pc[w] = "run")
    BY DEF Tick, Advance, Fault, RequestTypes
  <1>2. RequestTypes'
    BY <1>1 DEF RequestTypes
  <1>3. SeenInv'
    BY <1>1 DEF SeenInv
  <1>4. now \in Nat /\ faults \in Nat /\ faults' \in Nat
    BY <1>1 DEF RequestTypes
  <1>5. /\ Cost(faults) \in Nat /\ Cost(faults') \in Nat /\ Cost(faults) <= Cost(faults')
        /\ (faults' = faults + 1 => Cost(faults') >= Cost(faults) + 1) /\ Span \in Nat
    <2>1. Cost(faults) \in Nat /\ Cost(faults + 1) \in Nat /\ Span \in Nat
          /\ Cost(faults + 1) >= Cost(faults) + 1
      BY <1>4, Costs, Durations
    <2> QED
      BY <1>1, <2>1
  <1>6. TimeInv'
    <2> SUFFICES ASSUME NEW w \in Workers
                 PROVE  /\ pc[w] \in Claiming => start[w] <= now' /\ now' <= start[w] + faults'
                        /\ pc[w] = "run" => /\ Prolonged(w) <= now' /\ now' <= Prolonged(w) + Span
                                            /\ Prolonged(w) + TTL <= row.expiresAt + Cost(faults')
                        /\ Executing(w) => now' + TTL <= row.expiresAt + Span + Cost(faults')
                        /\ renewing[w] <=> pc[w] = "run" /\ Renews
      BY <1>1 DEF TimeInv, Executing, Prolonged
    <2>1. start[w] \in Nat /\ Prolonged(w) \in Nat
      BY DEF RequestTypes, Prolonged
    <2>2. CASE pc[w] \in Claiming
      BY <1>1, <1>4, <2>1, <2>2 DEF TimeInv, Claiming, Executing
    <2>3. CASE pc[w] = "run"
      <3>1. now < Prolonged(w) + Span
        BY <1>1, <2>3, <1>4, <2>1 DEF OnTime, TimeInv, Prolonged, Span, RequestTypes
      <3>2. Prolonged(w) <= now /\ Prolonged(w) + TTL <= row.expiresAt + Cost(faults)
            /\ row.expiresAt \in Nat
        BY <2>3 DEF TimeInv, OwnerInv, Executing, Rows
      <3>3. now' <= Prolonged(w) + Span /\ Prolonged(w) <= now'
        BY <1>1, <1>4, <1>5, <2>1, <3>1, <3>2
      <3>4. Prolonged(w) + TTL <= row.expiresAt + Cost(faults')
        BY <1>5, <2>1, <3>2
      <3>5. now' + TTL <= row.expiresAt + Span + Cost(faults')
        BY <1>1, <1>4, <1>5, <2>1, <3>2, <3>3, <3>4
      <3> QED
        BY <2>3, <3>3, <3>4, <3>5 DEF TimeInv, Claiming
    <2>4. CASE pc[w] = "mark"
      <3>1. now + TTL <= row.expiresAt + Span + Cost(faults) /\ row.expiresAt \in Nat
        BY <2>4 DEF TimeInv, OwnerInv, Executing, Rows
      <3>2. now' = now + 1 /\ Cost(faults') >= Cost(faults) + 1
        BY <1>1, <1>5, <2>4
      <3> QED
        BY <1>4, <1>5, <2>4, <3>1, <3>2 DEF TimeInv, Claiming
    <2> QED
      BY <2>2, <2>3, <2>4 DEF TimeInv, Executing
  <1>7. OwnerInv'
    BY <1>1 DEF OwnerInv, Executing
  <1> QED
    BY <1>2, <1>3, <1>6, <1>7

\* The clean-up finds no row of an execution expired.
LEMMA CleanUpIInv == ASSUME IInv, RowOutlasts, CleanUp PROVE IInv'
  <1>1. /\ row \in Rows /\ row.expiresAt <= now /\ row' = Absent
        /\ UNCHANGED <<now, lastId, lease, faults, pc, request>>
    BY RowPresent DEF CleanUp, DeleteExpired, RequestTypes
  <1>2. row.expiresAt \in Nat /\ now \in Nat
    BY <1>1 DEF Rows, RequestTypes
  <1>3. ASSUME NEW w \in Workers, Executing(w) PROVE FALSE
    <2>1. row.expiresAt > now
      BY <1>3, RowKept
    <2> QED
      BY <1>1, <1>2, <2>1
  <1>4. RequestTypes'
    BY <1>1 DEF RequestTypes
  <1>5. row' \notin Rows
    BY <1>1 DEF Rows, Absent
  <1>6. SeenInv'
    BY <1>1, <1>5 DEF SeenInv
  <1>7. TimeInv' /\ OwnerInv'
    BY <1>1, <1>3 DEF TimeInv, OwnerInv, Executing, Prolonged
  <1> QED
    BY <1>4, <1>6, <1>7

-----------------------------------------------------------------------------

\* The invariant holds at first and is kept by every step.
LEMMA InitIInv == Init => IInv
  <1> SUFFICES ASSUME Init PROVE IInv
    OBVIOUS
  <1>1. RequestTypes
    BY DEF Init, StoreInit, RequestTypes, Steps
  <1>2. row \notin Rows
    BY DEF Init, StoreInit, Rows, Absent
  <1> QED
    BY <1>1, <1>2 DEF Init, StoreInit, SeenInv, TimeInv, OwnerInv, Taking, Claiming, Executing

\* The invariant is kept by every step: one step per action.
LEMMA NextIInv == ASSUME IInv, RowOutlasts, [Next]_vars PROVE IInv'
  <1>1. CASE UNCHANGED vars
    BY <1>1 DEF vars, RequestTypes, SeenInv, TimeInv, OwnerInv, Executing, Prolonged
  <1>2. CASE Next
    BY <1>2, RequestIInv, CreateIInv, ReadExistingIInv, TakeExpiredIInv, ReadLatestIInv,
       TakeFailedIInv, RenewIInv, FinishExecutionIInv, StoreIInv, CrashIInv, TickIInv,
       CleanUpIInv DEF Next
  <1> QED
    BY <1>1, <1>2

\* The invariant holds in every reachable state of a run whose rows outlast their executions.
LEMMA Invariance == ASSUME RowOutlasts PROVE Spec => []IInv
  <1>1. IInv /\ [Next]_vars => IInv'
    BY NextIInv
  <1> QED
    BY <1>1, InitIInv, PTL DEF Spec

\* The requests of one key execute one at a time, each on a row that is its
\* own from the claim to the outcome: neither an expiry, nor a failure that
\* may be retried, nor the clean-up lets another one in meanwhile.
THEOREM OneExecution ==
    ASSUME RowOutlasts
    PROVE  Spec => []SingleFlight
  <1>1. IInv => SingleFlight
    BY RowPresent DEF RequestTypes, OwnerInv, SingleFlight
  <1> QED
    BY <1>1, Invariance, PTL

\* A success is replaced before it expires by no claim and no late outcome:
\* outcomes are written by id alone, but only into a row that is processing.
THEOREM StoredSuccessStands ==
    ASSUME RowOutlasts
    PROVE  Spec => SuccessStands
  <1>1. ASSUME IInv, [Next]_vars, ~IsAbsent, row.status = "succeeded", row.expiresAt > now,
               row' # row
        PROVE  \E w \in Workers : At(w, "takeExpired") /\ held'[w] = row.id
    <2>1. row \in Rows /\ \A w \in Workers : ~Executing(w)
      BY <1>1, RowPresent DEF RequestTypes, OwnerInv
    <2>2. Next
      BY <1>1 DEF vars
    <2>3. PICK w \in Workers : Create(w) \/ TakeExpired(w) \/ TakeFailed(w)
                               \/ RenewProcessingLease(w) \/ StoreSuccess(w) \/ StoreFailure(w)
                               \/ CleanUp
      <3>1. ~CleanUp
        BY <1>1, <2>1 DEF CleanUp, DeleteExpired, Rows, RequestTypes
      <3> QED
        BY <1>1, <2>2, <3>1 DEF Next, Request, ReadExisting, ReadLatest, FinishExecution,
           StopRenewing, Crash, Tick, Advance
    <2>4. CASE TakeExpired(w) /\ Taken(w)
      <3>1. row.id = seen[w].id /\ held \in [Workers -> Nat]
        BY <1>1, <2>4 DEF Taken, Take, Reclaimable, RequestTypes
      <3> QED
        BY <2>4, <3>1 DEF TakeExpired, Taken, Claimed, Begin
    <2>5. ~(TakeFailed(w) /\ Taken(w))
      BY <1>1 DEF TakeFailed, Taken, Take, Reclaimable, SeenInv, Taking
    <2>6. ~RenewProcessingLease(w) /\ ~StoreSuccess(w) /\ ~StoreFailure(w)
      BY <1>1, <2>1 DEF RenewProcessingLease, Renew, StoreSuccess, StoreFailure, Executing, TimeInv
    <2>7. ~Create(w) /\ ~CleanUp
      BY <1>1, <2>1 DEF Create, CleanUp, DeleteExpired, Rows, RequestTypes
    <2> QED
      BY <1>1, <2>3, <2>4, <2>5, <2>6, <2>7 DEF TakeExpired, TakeFailed
  <1>2. IInv /\ [Next]_vars =>
        [ ~IsAbsent /\ row.status = "succeeded" /\ row.expiresAt > now /\ row' # row
          => \E w \in Workers : At(w, "takeExpired") /\ held'[w] = row.id ]_vars
    BY <1>1
  <1> QED
    BY <1>2, Invariance, PTL DEF Spec, SuccessStands

-----------------------------------------------------------------------------
(* A failure rests.  Beyond what holds the row together this asks that no  *)
(* request is delayed for as long as a failure rests, and that the row of  *)
(* a failure outlives its rest and such a delay.                           *)

RestsBriefly ==
    /\ MaxFaults < Backoff
    /\ Backoff + MaxFaults + (IF Renews THEN 0 ELSE MaxRun + MaxFaults) <= TTL

\* What the row says of the last rest: it is not over before the lock, nor
\* shortly before the expiry, and a success came after it.
RestedRow ==
    /\ restUntil \in Nat
    /\ row \notin Rows => restUntil = 0 \/ restUntil + MaxFaults <= now
    /\ row \in Rows => /\ restUntil + MaxFaults <= row.expiresAt
                       /\ row.status = "succeeded" => restUntil <= now
                       /\ row.status # "succeeded" => restUntil <= row.lockedUntil

\* Who executes came after it; who saw the row expired came after it, or too
\* early to be still here when it is over.
RestedBy(w) ==
    /\ Executing(w) => /\ restUntil <= start[w] /\ start[w] <= now
                       /\ ~Renews => now <= start[w] + MaxRun + faults
    /\ pc[w] = "run" /\ ~Renews => began[w] <= start[w] + faults
    /\ pc[w] = "takeExpired" => restUntil <= start[w] \/ start[w] + MaxFaults < restUntil

RestInv == RestedRow /\ \A w \in Workers : RestedBy(w)

\* What the types say of the numbers.
LEMMA RestTypes ==
    ASSUME IInv
    PROVE  /\ now \in Nat /\ faults \in Nat /\ faults <= MaxFaults
           /\ row \in Rows => row.expiresAt \in Nat /\ row.lockedUntil \in Nat
           /\ \A w \in Workers : start[w] \in Nat /\ began[w] \in Nat
  BY DEF RequestTypes, Rows

\* A claim succeeds only after the rest.
LEMMA RestedAtStart ==
    ASSUME IInv, RestInv, RestsBriefly, NEW w \in Workers,
           \/ Create(w) /\ IsAbsent
           \/ pc[w] \in Taking /\ Taken(w)
    PROVE  restUntil <= start[w] /\ start[w] <= now /\ now <= start[w] + faults
  <1>1. pc[w] \in Claiming
    BY DEF Create, Claiming, Taking
  <1>2. start[w] <= now /\ now <= start[w] + faults /\ restUntil \in Nat
    BY <1>1, ClaimAge DEF RestInv, RestedRow
  <1>3. CASE Create(w) /\ IsAbsent
    <2>1. restUntil = 0 \/ restUntil + MaxFaults <= now
      BY <1>3 DEF RestInv, RestedRow, Rows, Absent
    <2> QED
      BY <1>2, <2>1, RestTypes
  <1>4. CASE pc[w] \in Taking /\ Taken(w)
    <2>1. row \in Rows /\ row.status = seen[w].status /\ row.lockedUntil <= start[w]
      BY <1>4, TakenFree DEF Taken, Take, Reclaimable
    <2>2. CASE row.status # "succeeded"
      BY <1>2, <2>1, <2>2, RestTypes DEF RestInv, RestedRow
    <2>3. CASE row.status = "succeeded"
      <3>1. pc[w] = "takeExpired"
        BY <1>4, <2>1, <2>3 DEF SeenInv, Taking
      <3>2. restUntil <= now /\ (restUntil <= start[w] \/ start[w] + MaxFaults < restUntil)
        BY <2>1, <2>3, <3>1 DEF RestInv, RestedRow, RestedBy
      <3> QED
        BY <1>2, <3>2, RestTypes
    <2> QED
      BY <2>2, <2>3
  <1> QED
    BY <1>2, <1>3, <1>4

\* Whoever claims came after the rest, and his lock and row last longer.
LEMMA ClaimRests ==
    ASSUME IInv, RestInv, RestsBriefly, NEW w \in Workers, pc[w] \in Claiming,
           restUntil <= start[w], start[w] <= now, now <= start[w] + faults,
           row' \in Rows, row'.status = "processing",
           row'.lockedUntil = start[w] + Lease, row'.expiresAt = start[w] + TTL,
           NEW id, Claimed(w, id), UNCHANGED <<now, faults, restUntil>>
    PROVE  RestInv'
  <1>1. RestedRow'
    BY RestTypes DEF RestInv, RestedRow, RestsBriefly
  <1>2. /\ pc' = [pc EXCEPT ![w] = "run"] /\ UNCHANGED start
        /\ began' = [began EXCEPT ![w] = now]
        /\ pc \in [Workers -> Steps] /\ began \in [Workers -> Nat]
    BY DEF Claimed, Begin, RequestTypes
  <1>3. RestedBy(w)'
    BY <1>2, RestTypes DEF RestedBy, Executing
  <1>4. ASSUME NEW v \in Workers, v # w PROVE RestedBy(v)'
    BY <1>2, <1>4 DEF RestInv, RestedBy, Executing
  <1> QED
    BY <1>1, <1>3, <1>4 DEF RestInv

\* Whoever goes on or ends without a claim found the row expired after the
\* rest, if he found it expired.
LEMMA PassingRests ==
    ASSUME IInv, RestInv, NEW w \in Workers, NEW step \in {"idle"} \cup Claiming, Goto(w, step),
           \A v \in Workers : v # w => start'[v] = start[v] /\ began'[v] = began[v],
           UNCHANGED <<row, now, restUntil>>, faults' \in Nat, faults <= faults',
           step = "takeExpired" => /\ row \in Rows /\ row.expiresAt <= start[w]
                                   /\ start'[w] = start[w]
    PROVE  RestInv'
  <1>1. pc' = [pc EXCEPT ![w] = step] /\ pc \in [Workers -> Steps]
    BY DEF RequestTypes
  <1>2. RestedRow'
    BY DEF RestInv, RestedRow
  <1>3. ~Executing(w)' /\ pc'[w] = step
    BY <1>1 DEF Executing, Claiming
  <1>4. step = "takeExpired" => restUntil <= start[w]
    BY RestTypes DEF RestInv, RestedRow
  <1>5. RestedBy(w)'
    BY <1>3, <1>4 DEF RestedBy, Executing
  <1>6. ASSUME NEW v \in Workers, v # w PROVE RestedBy(v)'
    <2>1. pc'[v] = pc[v] /\ start'[v] = start[v] /\ began'[v] = began[v]
      BY <1>1, <1>6
    <2> QED
      BY <2>1, RestTypes DEF RestInv, RestedBy, Executing
  <1> QED
    BY <1>2, <1>5, <1>6 DEF RestInv

\* A step of a claim.
LEMMA ClaimingRests ==
    ASSUME IInv, RestInv, RowOutlasts, RestsBriefly, NEW w \in Workers,
           Create(w) \/ ReadExisting(w) \/ TakeExpired(w) \/ ReadLatest(w) \/ TakeFailed(w)
    PROVE  RestInv'
  <1>1. /\ pc[w] \in Claiming
        /\ UNCHANGED <<now, faults, restUntil>>
    BY DEF Create, ReadExisting, TakeExpired, ReadLatest, TakeFailed, Claiming, Taking
  <1>2. start[w] + Lease \in Nat /\ start[w] + TTL \in Nat /\ payload[w] \in Fingerprints
    BY <1>1, ClaimAge
  <1>3. CASE Create(w) /\ IsAbsent
    <2>1. /\ restUntil <= start[w] /\ start[w] <= now /\ now <= start[w] + faults
      BY <1>3, RestedAtStart
    <2>2. /\ row' \in Rows /\ row'.status = "processing"
          /\ row'.lockedUntil = start[w] + Lease /\ row'.expiresAt = start[w] + TTL
      BY <1>2, <1>3, Created DEF Create, RequestTypes
    <2>3. Claimed(w, lastId + 1)
      BY <1>3 DEF Create
    <2> QED
      BY <1>1, <2>1, <2>2, <2>3, ClaimRests
  <1>4. CASE pc[w] \in Taking /\ Taken(w)
    <2>1. /\ restUntil <= start[w] /\ start[w] <= now /\ now <= start[w] + faults
      BY <1>4, RestedAtStart
    <2>2. row \in Rows
      BY <1>4, TakenFree DEF Taken
    <2>3. Becomes("processing", start[w] + Lease, start[w] + TTL) /\ Claimed(w, seen[w].id)
      BY <1>2, <1>4, <2>2, Updated DEF Taken
    <2> QED
      BY <1>1, <2>1, <2>3, ClaimRests DEF Becomes
  <1>5. CASE ~(Create(w) /\ IsAbsent) /\ ~(pc[w] \in Taking /\ Taken(w))
    <2>1. UNCHANGED <<row, began>>
      BY <1>5 DEF Create, ReadExisting, TakeExpired, ReadLatest, TakeFailed, Taking
    <2> DEFINE Moves(step) ==
                 /\ Goto(w, step)
                 /\ UNCHANGED start \/ (step = "idle" /\ start' = [start EXCEPT ![w] = 0])
                 /\ step = "takeExpired" => Matches(w) /\ Expired(w) /\ UNCHANGED start
    <2>2. PICK step \in {"idle"} \cup Claiming : Moves(step)
      <3>1. Answer(w) => Moves("idle")
        BY DEF Answer
      <3>2. Dispatch(w) => Moves("idle") \/ Moves("takeFailed")
        BY <3>1 DEF Dispatch, TryTake
      <3>3. Create(w) => Moves("read")
        BY <1>5 DEF Create
      <3>4. ReadExisting(w) => Moves("idle") \/ Moves("takeFailed") \/ Moves("takeExpired")
        BY <3>1, <3>2 DEF ReadExisting, TryTake
      <3>5. ReadLatest(w) => Moves("idle") \/ Moves("takeFailed")
        BY <3>1, <3>2 DEF ReadLatest
      <3>6. TakeExpired(w) => Moves("reread")
        BY <1>5 DEF TakeExpired, Taking
      <3>7. TakeFailed(w) => Moves("idle")
        BY <1>5, <3>1 DEF TakeFailed, Taking
      <3> HIDE DEF Moves
      <3> QED
        BY <3>3, <3>4, <3>5, <3>6, <3>7 DEF Claiming
    <2>3. \A v \in Workers : v # w => start'[v] = start[v] /\ began'[v] = began[v]
      BY <2>1, <2>2 DEF RequestTypes
    <2>4. step = "takeExpired" => row \in Rows /\ row.expiresAt <= start[w] /\ start'[w] = start[w]
      BY <2>2, RowPresent DEF Matches, Expired, RequestTypes
    <2>5. Goto(w, step) /\ UNCHANGED <<row, now, restUntil>> /\ faults' \in Nat /\ faults <= faults'
      BY <1>1, <2>1, <2>2, RestTypes
    <2> HIDE DEF Moves
    <2> QED
      BY <2>3, <2>4, <2>5, PassingRests
  <1> QED
    BY <1>3, <1>4, <1>5

\* An outcome ends the only execution there is.
LEMMA OutcomeRests ==
    ASSUME IInv, RestInv, RestsBriefly, NEW w \in Workers, StoreSuccess(w) \/ StoreFailure(w)
    PROVE  RestInv'
  <1>1. /\ Executing(w) /\ row \in Rows /\ row.id = held[w] /\ pc \in [Workers -> Steps]
        /\ \A v \in Workers : Executing(v) => v = w
    BY DEF StoreSuccess, StoreFailure, Executing, OwnerInv, RequestTypes
  <1>2. /\ restUntil \in Nat /\ restUntil <= start[w] /\ start[w] <= now
        /\ ~Renews => now <= start[w] + MaxRun + faults
    BY <1>1 DEF RestInv, RestedRow, RestedBy
  <1>3. ExpiresAt(w) \in Nat /\ now + Backoff \in Nat
    BY RestTypes DEF ExpiresAt
  <1>4. /\ pc' = [pc EXCEPT ![w] = "idle"] /\ start' = [start EXCEPT ![w] = 0]
        /\ UNCHANGED <<now, faults>> /\ start \in [Workers -> Nat]
    BY DEF StoreSuccess, StoreFailure, Answer, RequestTypes
  <1>5. CASE StoreSuccess(w)
    <2>1. Becomes("succeeded", 0, ExpiresAt(w)) /\ UNCHANGED restUntil
      BY <1>1, <1>3, <1>5, Updated DEF StoreSuccess
    <2>2. restUntil + MaxFaults <= ExpiresAt(w)
      BY <1>2, RestTypes DEF ExpiresAt, RestsBriefly
    <2>3. RestedRow'
      BY <1>2, <1>4, <2>1, <2>2, RestTypes DEF RestedRow, Becomes
    <2>4. ASSUME NEW v \in Workers PROVE RestedBy(v)'
      BY <1>1, <1>4, <2>1 DEF RestInv, RestedBy, Executing
    <2> QED
      BY <2>3, <2>4 DEF RestInv
  <1>6. CASE StoreFailure(w)
    <2>1. Becomes("failed_retryable", now + Backoff, ExpiresAt(w)) /\ restUntil' = now + Backoff
      BY <1>1, <1>3, <1>6, Updated DEF StoreFailure
    <2>2. now + Backoff + MaxFaults <= ExpiresAt(w)
      BY <1>2, RestTypes DEF ExpiresAt, RestsBriefly
    <2>3. RestedRow'
      BY <1>3, <1>4, <2>1, <2>2, RestTypes DEF RestedRow, Becomes
    <2>4. ASSUME NEW v \in Workers PROVE RestedBy(v)'
      <3>1. ~Executing(v)'
        BY <1>1, <1>4 DEF Executing
      <3>2. pc'[v] = "takeExpired" => start'[v] = start[v] /\ start[v] <= now
        BY <1>1, <1>4 DEF TimeInv, Claiming
      <3> QED
        BY <2>1, <3>1, <3>2, RestTypes DEF RestedBy, Executing, RestsBriefly
    <2> QED
      BY <2>3, <2>4 DEF RestInv
  <1> QED
    BY <1>5, <1>6

\* Every step keeps what is known of the rest.
LEMMA NextRests ==
    ASSUME IInv, RestInv, RowOutlasts, RestsBriefly, [Next]_vars PROVE RestInv'
  <1>1. CASE UNCHANGED vars
    BY <1>1 DEF vars, RestInv, RestedRow, RestedBy, Executing
  <1>2. ASSUME NEW w \in Workers, NEW f \in Fingerprints, Request(w, f) PROVE RestInv'
    <2>1. \A v \in Workers : v # w => start'[v] = start[v] /\ began'[v] = began[v]
      BY <1>2 DEF Request, RequestTypes
    <2>2. "create" \in {"idle"} \cup Claiming /\ "create" # "takeExpired"
      BY DEF Claiming
    <2>3. /\ Goto(w, "create") /\ UNCHANGED <<row, now, restUntil>>
          /\ faults' \in Nat /\ faults <= faults'
      BY <1>2, RestTypes DEF Request
    <2> QED
      BY <2>1, <2>2, <2>3, PassingRests
  <1>3. ASSUME NEW w \in Workers, RenewProcessingLease(w) PROVE RestInv'
    <2>1. /\ Executing(w) /\ row \in Rows /\ row.status = "processing" /\ Renews
      BY <1>3 DEF RenewProcessingLease, Renew, TimeInv, OwnerInv, Executing
    <2>2. now + Lease \in Nat /\ now + TTL \in Nat
      BY RestTypes
    <2>3. /\ UNCHANGED row \/ Becomes("processing", now + Lease, now + TTL)
          /\ UNCHANGED <<pc, start, began, now, restUntil>>
      BY <1>3, <2>1, <2>2, Updated DEF RenewProcessingLease, Renew
    <2>4. restUntil <= now
      BY <2>1, RestTypes DEF RestInv, RestedRow, RestedBy
    <2>5. RestedRow'
      BY <2>1, <2>3, <2>4, RestTypes DEF RestInv, RestedRow, Becomes, RestsBriefly
    <2>6. ASSUME NEW v \in Workers PROVE RestedBy(v)'
      BY <2>1, <2>3 DEF RestInv, RestedBy, Executing
    <2> QED
      BY <2>5, <2>6 DEF RestInv
  <1>4. ASSUME NEW w \in Workers, FinishExecution(w) PROVE RestInv'
    BY <1>4 DEF FinishExecution, StopRenewing, RestInv, RestedRow, RestedBy, Executing, RequestTypes
  <1>5. ASSUME NEW w \in Workers, Crash(w) PROVE RestInv'
    <2>1. \A v \in Workers : v # w => start'[v] = start[v] /\ began'[v] = began[v]
      BY <1>5 DEF Crash, LetGo, Answer, RequestTypes
    <2>2. faults' \in Nat /\ faults <= faults'
      BY <1>5, RestTypes DEF Crash, Fault
    <2> QED
      BY <1>5, <2>1, <2>2, PassingRests DEF Crash, Answer, Claiming
  <1>6. CASE Tick
    <2>1. /\ now' = now + 1 /\ UNCHANGED <<row, began, pc, start, restUntil>>
          /\ faults' \in {faults, faults + 1}
          /\ (\E w \in Workers : pc[w] \notin {"idle", "run"}) => faults' = faults + 1
          /\ \A w \in Workers : OnTime(w, pc[w] = "run")
      BY <1>6 DEF Tick, Advance, Fault
    <2>2. RestedRow'
      BY <2>1, RestTypes DEF RestInv, RestedRow
    <2>3. ASSUME NEW w \in Workers PROVE RestedBy(w)'
      <3>1. RestedBy(w) /\ restUntil \in Nat
        BY DEF RestInv, RestedRow
      <3>2. CASE pc[w] = "run"
        <4>1. now < began[w] + MaxRun
          BY <2>1, <3>2, RestTypes DEF OnTime
        <4> QED
          BY <2>1, <3>1, <3>2, <4>1, RestTypes DEF RestedBy, Executing
      <3>3. CASE pc[w] # "run"
        <4>1. pc[w] = "mark" => faults' = faults + 1
          BY <2>1
        <4> QED
          BY <2>1, <3>1, <3>3, <4>1, RestTypes DEF RestedBy, Executing
      <3> QED
        BY <3>2, <3>3
    <2> QED
      BY <2>2, <2>3 DEF RestInv
  <1>7. CASE CleanUp
    <2>1. /\ row \in Rows /\ row.expiresAt <= now /\ row' = Absent
          /\ UNCHANGED <<now, faults, pc, start, began, restUntil>>
      BY <1>7, RowPresent DEF CleanUp, DeleteExpired, RequestTypes
    <2>2. row' \notin Rows
      BY <2>1 DEF Rows, Absent
    <2>3. RestedRow'
      BY <2>1, <2>2, RestTypes DEF RestInv, RestedRow
    <2>4. ASSUME NEW v \in Workers PROVE RestedBy(v)'
      BY <2>1 DEF RestInv, RestedBy, Executing
    <2> QED
      BY <2>3, <2>4 DEF RestInv
  <1> QED
    BY <1>1, <1>2, <1>3, <1>4, <1>5, <1>6, <1>7, ClaimingRests, OutcomeRests DEF Next

\* A failure is answered for as long as it rests: no request that came before
\* its end is executed, whether it meets the failed row, has found it expired
\* before it failed, or finds no row at all.
THEOREM FailuresRest ==
    ASSUME RowOutlasts, RestsBriefly
    PROVE  Spec => FailureRests
  <1>1. Init => RestInv
    <2> SUFFICES ASSUME Init PROVE RestInv
      OBVIOUS
    <2>1. row \notin Rows
      BY DEF Init, StoreInit, Rows, Absent
    <2> QED
      BY <2>1 DEF Init, StoreInit, RestInv, RestedRow, RestedBy, Executing
  <1>2. IInv /\ RestInv /\ [Next]_vars => RestInv'
    BY NextRests
  <1>3. IInv /\ RestInv /\ [Next]_vars
          => [\A w \in Workers : Starts(w) => start[w] >= restUntil]_vars
    <2> SUFFICES ASSUME IInv, RestInv, Next, NEW w \in Workers, Starts(w)
                 PROVE  restUntil <= start[w]
      BY RestTypes DEF vars, Starts, RestInv, RestedRow
    <2>1. \/ Create(w) /\ IsAbsent
          \/ pc[w] \in Taking /\ Taken(w)
      <3>1. pc \in [Workers -> Steps] /\ pc[w] # "run" /\ pc'[w] = "run"
        BY DEF Starts, RequestTypes
      <3>2. ~Tick /\ ~CleanUp
        BY <3>1 DEF Tick, CleanUp
      <3>3. PICK v \in Workers :
              \/ \E f \in Fingerprints : Request(v, f)
              \/ Create(v) \/ ReadExisting(v) \/ TakeExpired(v) \/ ReadLatest(v)
              \/ TakeFailed(v) \/ RenewProcessingLease(v) \/ FinishExecution(v)
              \/ StoreSuccess(v) \/ StoreFailure(v) \/ Crash(v)
        BY <3>2 DEF Next
      <3>4. ASSUME NEW step, step # "run", Goto(v, step) PROVE FALSE
        BY <3>1, <3>4
      <3>5. ~Answer(v) /\ \A step \in Taking : ~TryTake(v, step)
        BY <3>4 DEF Answer, TryTake, Taking
      <3>6. ~ReadExisting(v) /\ ~ReadLatest(v) /\ ~StoreSuccess(v) /\ ~StoreFailure(v) /\ ~Crash(v)
        BY <3>5 DEF ReadExisting, ReadLatest, Dispatch, StoreSuccess, StoreFailure, Crash, Taking
      <3>7. /\ ~(\E f \in Fingerprints : Request(v, f)) /\ ~FinishExecution(v)
            /\ ~RenewProcessingLease(v)
        BY <3>1, <3>4 DEF Request, FinishExecution, RenewProcessingLease
      <3>8. \/ Create(v) /\ IsAbsent
            \/ pc[v] \in Taking /\ Taken(v)
        BY <3>3, <3>4, <3>5, <3>6, <3>7 DEF Create, TakeExpired, TakeFailed, Taking
      <3>9. pc' = [pc EXCEPT ![v] = "run"]
        BY <3>8 DEF Create, Taken, Claimed
      <3>10. v = w
        BY <3>1, <3>9
      <3> QED
        BY <3>8, <3>10
    <2> QED
      BY <2>1, RestedAtStart
  <1> QED
    BY <1>1, <1>2, <1>3, Invariance, PTL DEF Spec, FailureRests
=============================================================================

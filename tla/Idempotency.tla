----------------------------- MODULE Idempotency -----------------------------
(***************************************************************************)
(* IdempotencyCoordinator.Execute (idempotency.go): the requests that send *)
(* one Idempotency-Key run the business operation once, replay its result  *)
(* or are told to come back.  A worker handles one request after another;  *)
(* fingerprints are the payloads the key is sent with.                     *)
(***************************************************************************)
EXTENDS IdempotencyStore

CONSTANTS
    Backoff,    \* FailedRetryBackoff
    Renews      \* is ExecutionTimeout set, so that the lease is renewed

ASSUME CoordinatorAssumption ==
    /\ Backoff \in Nat
    /\ Renews \in BOOLEAN

VARIABLES
    pc,         \* the step each worker is about to take
    payload,    \* the fingerprint of its request
    start,      \* the time Execute read when it began
    seen,       \* the row it read last
    keptUntil,  \* history: until when the last stored success is promised
    restUntil   \* history: until when the last stored failure is to rest

request == <<payload, start, seen>>
history == <<keptUntil, restUntil>>
vars    == <<store, lease, faults, pc, request, history>>

Steps == {"idle", "create", "read", "takeExpired", "reread", "takeFailed", "run", "mark"}

NoPayload == "none"

TypeOK ==
    /\ StoreTypeOK
    /\ pc \in [Workers -> Steps]
    /\ payload \in [Workers -> Fingerprints \cup {NoPayload}]
    /\ start \in [Workers -> 0..MaxTime]
    /\ seen \in [Workers -> Rows \cup {Absent}]
    /\ {keptUntil, restUntil} \subseteq Nat

Init ==
    /\ StoreInit
    /\ pc = [w \in Workers |-> "idle"]
    /\ payload = [w \in Workers |-> NoPayload]
    /\ start = [w \in Workers |-> 0]
    /\ seen = [w \in Workers |-> Absent]
    /\ keptUntil = 0
    /\ restUntil = 0

At(w, l)   == pc[w] = l
Goto(w, l) == pc' = [pc EXCEPT ![w] = l]

\* The request is answered: replayed, refused or given up.
Answer(w) ==
    /\ Goto(w, "idle")
    /\ payload' = [payload EXCEPT ![w] = NoPayload]
    /\ start' = [start EXCEPT ![w] = 0]
    /\ seen' = [seen EXCEPT ![w] = Absent]

-----------------------------------------------------------------------------
(* The claim.                                                              *)

Request(w, f) ==
    /\ At(w, "idle")
    /\ payload' = [payload EXCEPT ![w] = f]
    /\ start' = [start EXCEPT ![w] = now]
    /\ Goto(w, "create")
    /\ UNCHANGED <<store, lease, faults, seen, history>>

\* The claim is held: the operation is executed, its lease renewed if so set.
Claimed(w, id) ==
    /\ Begin(w, id, Renews)
    /\ Goto(w, "run")
    /\ seen' = [seen EXCEPT ![w] = Absent]
    /\ UNCHANGED <<payload, start>>

Create(w) ==
    /\ At(w, "create")
    /\ IF IsAbsent
       THEN /\ CreateProcessing(payload[w], start[w] + Lease, start[w] + TTL)
            /\ Claimed(w, lastId + 1)
       ELSE /\ Goto(w, "read")
            /\ UNCHANGED <<row, lastId, lease, request>>
    /\ UNCHANGED <<now, faults, history>>

Matches(w) == ~IsAbsent /\ row.fingerprint = payload[w]

Expired(w) == row.expiresAt <= start[w]

BackedOff(w) == row.lockedUntil > start[w]

TryTake(w, step) ==
    /\ Goto(w, step)
    /\ seen' = [seen EXCEPT ![w] = row]
    /\ UNCHANGED <<payload, start>>

DispatchTakesLapsed(w) ==
    IF row.status # "succeeded" /\ ~BackedOff(w) THEN TryTake(w, "takeFailed")
    ELSE Answer(w)

\* The switch on the status of the row that was read: a success is replayed,
\* an execution under way refused, a failure retried after its backoff.
Dispatch(w) ==
    IF row.status = "failed_retryable" /\ ~BackedOff(w) THEN TryTake(w, "takeFailed")
    ELSE Answer(w)

ReadExisting(w) ==
    /\ At(w, "read")
    /\ \/ ~Matches(w) /\ Answer(w)
       \/ Matches(w) /\ Expired(w) /\ TryTake(w, "takeExpired")
       \/ Matches(w) /\ ~Expired(w) /\ Dispatch(w)
    /\ UNCHANGED <<store, lease, faults, history>>

\* TryReclaim from the status that was read.
Take(w) == Reclaimable(seen[w].id, seen[w].status, start[w])

Taken(w) ==
    /\ Take(w)
    /\ Reclaim(start[w] + Lease, start[w] + TTL)
    /\ Claimed(w, seen[w].id)

TakeExpired(w) ==
    /\ At(w, "takeExpired")
    /\ \/ Taken(w)
       \/ ~Take(w) /\ Goto(w, "reread") /\ UNCHANGED <<row, lease, request>>
    /\ UNCHANGED <<now, lastId, faults, history>>

ReadLatest(w) ==
    /\ At(w, "reread")
    /\ IF Matches(w) THEN Dispatch(w) ELSE Answer(w)
    /\ UNCHANGED <<store, lease, faults, history>>

TakeFailed(w) ==
    /\ At(w, "takeFailed")
    /\ \/ Taken(w)
       \/ ~Take(w) /\ Answer(w) /\ UNCHANGED <<row, lease>>
    /\ UNCHANGED <<now, lastId, faults, history>>

-----------------------------------------------------------------------------
(* The execution and its outcome.                                          *)

RenewProcessingLease(w) == Renew(w, payload[w]) /\ UNCHANGED <<pc, request, history>>

FinishExecution(w) ==
    /\ At(w, "run")
    /\ StopRenewing(w)
    /\ Goto(w, "mark")
    /\ UNCHANGED <<request, history>>

\* With a renewed lease the outcome is kept from now on, otherwise from when
\* the request came.
ExpiresAt(w) == TTL + (IF Renews THEN now ELSE start[w])

StoreSuccess(w) ==
    /\ At(w, "mark")
    /\ MarkSucceeded(held[w], ExpiresAt(w))
    /\ keptUntil' = ExpiresAt(w)
    /\ LetGo(w)
    /\ Answer(w)
    /\ UNCHANGED <<now, lastId, faults, restUntil>>

StoreFailure(w) ==
    /\ At(w, "mark")
    /\ MarkFailedRetryable(held[w], now + Backoff, ExpiresAt(w))
    /\ restUntil' = now + Backoff
    /\ LetGo(w)
    /\ Answer(w)
    /\ UNCHANGED <<now, lastId, faults, keptUntil>>

\* The instance dies, or a call fails and the request is given up.
Crash(w) ==
    /\ ~At(w, "idle")
    /\ Fault
    /\ LetGo(w)
    /\ Answer(w)
    /\ UNCHANGED <<store, history>>

-----------------------------------------------------------------------------

Tick ==
    /\ \A w \in Workers : OnTime(w, At(w, "run"))
    /\ Advance(\E w \in Workers : pc[w] \notin {"idle", "run"})
    /\ UNCHANGED <<pc, request, history>>

CleanUp == DeleteExpired /\ UNCHANGED <<pc, request, history>>

Next ==
    \/ \E w \in Workers :
           \/ \E f \in Fingerprints : Request(w, f)
           \/ Create(w) \/ ReadExisting(w) \/ TakeExpired(w) \/ ReadLatest(w)
           \/ TakeFailed(w) \/ RenewProcessingLease(w) \/ FinishExecution(w)
           \/ StoreSuccess(w) \/ StoreFailure(w) \/ Crash(w)
    \/ Tick \/ CleanUp

Spec == Init /\ [][Next]_vars

-----------------------------------------------------------------------------
(* Properties.                                                             *)

Executing(w) == pc[w] \in {"run", "mark"}

\* The operation of a key is executed by one request at a time, and on a row
\* of its own: the one it claimed, still processing and marked with its
\* payload, although outcomes are written by id without looking at the row.
SingleFlight ==
    \A w \in Workers : Executing(w) =>
        /\ \A v \in Workers : Executing(v) => v = w
        /\ ~IsAbsent
        /\ row.id = held[w]
        /\ row.status = "processing"
        /\ row.fingerprint = payload[w]

\* A stored success is not replaced before it expires: not by a claim, not by
\* the late outcome of another request, not by the clean-up.  The only
\* exception is a request that read a row already expired, which TryReclaim
\* lets have the row's next success (ExecutedOnce).
SuccessStands ==
    [][ ~IsAbsent /\ row.status = "succeeded" /\ row.expiresAt > now /\ row' # row
        => \E w \in Workers : At(w, "takeExpired") /\ held'[w] = row.id ]_vars

\* A request that came while a failure rests does not execute, nor does one
\* that came before the failure was stored.  Delays are taken to be shorter
\* than the rest: a request that read an expired success and waits longer may
\* take the row's next success while a failure in between still rests.
Starts(w) == pc[w] # "run" /\ pc'[w] = "run"

FailureRests == [][\A w \in Workers : Starts(w) => start[w] >= restUntil]_vars

\* A success is executed once for as long as it is promised: "concurrent
\* same-key requests should execute business side-effect once".
ExecutedOnce == [][\A w \in Workers : Starts(w) => now >= keptUntil]_vars
=============================================================================

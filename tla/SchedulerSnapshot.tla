--------------------------- MODULE SchedulerSnapshot ---------------------------
(***************************************************************************)
(* The scheduler's snapshot of one group's accounts: one bucket in Redis,  *)
(* kept up to date from an outbox table (scheduler_snapshot_service.go,    *)
(* scheduler_cache.go, scheduler_outbox_repo.go).  Writers change accounts *)
(* or switch the group on and off and leave an event; every instance polls *)
(* the outbox from a shared watermark; a periodic worker rebuilds          *)
(* everything; a reader that finds no snapshot publishes one itself.       *)
(* Retirement raises the bucket's epoch, which fences older writers.       *)
(***************************************************************************)
EXTENDS Integers, FiniteSets, Sequences, SequencesExt, FiniteSetsExt

CONSTANTS
    AccountWriters,  \* requests that change accounts of the group
    GroupWriters,    \* requests that switch the group on or off
    Pollers,     \* instances, by their outbox workers
    Rebuilder,   \* the full-rebuild worker
    Readers,     \* processes that may serve a request for the snapshot
    MaxChanges,  \* bound: changes of the accounts
    MaxMoves         \* bound: switches of the group plus faults (crashes, failed
                     \* calls, locks that lapse under a slow holder)

ASSUME SnapshotAssumption ==
    /\ IsFiniteSet(AccountWriters \cup GroupWriters)
    /\ {MaxChanges, MaxMoves} \subseteq Nat
    /\ Pollers \cap (Readers \cup {Rebuilder}) = {}

VARIABLES
    data,        \* version of the group's accounts in the database
    active,      \* is the group active
    nextId,      \* next id of the outbox sequence
    outbox,      \* committed events
    open,        \* what each writer's request has not done yet
    watermark,   \* sched:outbox:watermark
    epoch,       \* sched:epoch of the bucket
    retired,     \* sched:retired
    snapshot,    \* version of the accounts under sched:active, or Nothing
    payload,     \* version of the accounts' own keys, which snapshots share
    newer,       \* processes with a snapshot version above the active one, in
                 \* the order in which they got it from sched:ver
    bucketLock,  \* sched:lock, or Nobody
    lease,       \* the group's lifecycle lease, or Nobody
    pc, task,    \* of each process
    moves,
    retiredAt    \* history: version of the accounts at the last retirement

Nobody  == "nobody"
Nothing == -1

database == <<data, active, nextId, outbox, open>>
bucket   == <<epoch, retired, snapshot, newer, retiredAt>>
locks    == <<bucketLock, lease>>
vars     == <<database, watermark, bucket, payload, locks, pc, task, moves>>

Writers == AccountWriters \cup GroupWriters
Procs == Pollers \cup {Rebuilder} \cup Readers
Kinds == {"account", "group"}

\* dedup: is dedup_key still set.
Events == [id : 1..(MaxChanges + MaxMoves), kind : Kinds, dedup : BOOLEAN]

\* A writer's request: the event of its transaction (id 0: none, the key was
\* taken), the step it is about to take, the accounts' version it read.
Doing(id, kind, step, version) == [id |-> id, kind |-> kind, step |-> step, data |-> version]

Closed == Doing(0, "none", "idle", 0)

Leased  == {"authority", "reopen", "retire", "release"}
Guarded == {"load", "allocate", "write", "activate", "unlock"}
Steps   == Leased \cup Guarded \cup
           {"idle", "handle", "setAccount", "lease", "capture", "lock", "mark", "clean"}

\* events: rest of the batch; last: its last id; seen: rebuilt in this batch;
\* token: epoch of the write token; strict: busy and fenced are errors; data:
\* version of the accounts read; reader: publishes for a request, without the
\* bucket's lock.
NoTask == [events |-> <<>>, last |-> 0, seen |-> {}, token |-> 0,
           strict |-> FALSE, data |-> 0, reader |-> FALSE]

TypeOK ==
    /\ data \in 0..MaxChanges
    /\ active \in BOOLEAN
    /\ outbox \subseteq Events
    /\ watermark \in 0..(nextId - 1)
    /\ epoch \in Nat \ {0}
    /\ retired \in BOOLEAN
    /\ snapshot \in {Nothing} \cup (0..data)
    /\ payload \in 0..data
    /\ newer \in Seq(Procs)
    /\ {bucketLock, lease} \subseteq Procs \cup {Nobody}
    /\ pc \in [Procs -> Steps]
    /\ \A p \in Procs : task[p].data \in 0..data /\ task[p].token \in 0..epoch

Init ==
    /\ data = 0 /\ active = TRUE
    /\ nextId = 1 /\ outbox = {} /\ open = [w \in Writers |-> Closed]
    /\ watermark = 0
    /\ epoch = 1 /\ retired = FALSE
    /\ snapshot = 0 /\ payload = 0 /\ newer = <<>>
    /\ bucketLock = Nobody /\ lease = Nobody
    /\ pc = [p \in Procs |-> "idle"]
    /\ task = [p \in Procs |-> NoTask]
    /\ moves = 0
    /\ retiredAt = 0

-----------------------------------------------------------------------------

At(p, l)   == pc[p] = l
Goto(p, l) == pc' = [pc EXCEPT ![p] = l]

Stop(p) ==
    /\ Goto(p, "idle")
    /\ task' = [task EXCEPT ![p] = NoTask]

Fault ==
    /\ moves < MaxMoves
    /\ moves' = moves + 1

\* Where the rest of a batch begins.
After(events) ==
    CASE events = <<>>                                -> "mark"
      [] events # <<>> /\ Head(events) = "account" -> "handle"
      [] OTHER                                       -> "lease"

\* The event is handled: the next one, or the watermark.
Handled(p, seen) ==
    IF p \in Pollers
    THEN /\ Goto(p, After(Tail(task[p].events)))
         /\ task' = [task EXCEPT ![p] = [NoTask EXCEPT !.events = Tail(task[p].events),
                                                       !.last = task[p].last,
                                                       !.seen = seen]]
    ELSE Stop(p)

NextEvent(p) == Handled(p, task[p].seen)

\* markGroupLifecycleSeen, when the group is reconciled.
LifecycleSeen(p) == task[p].seen \cup {"bucket", "lifecycle"}

\* The rebuild could not be done: an error under the strict policy.
Skip(p) == IF task[p].strict THEN Stop(p) ELSE NextEvent(p)

Place(p) == CHOOSE i \in DOMAIN newer : newer[i] = p

\* The versions above that of p.
Above(p) == SubSeq(newer, Place(p) + 1, Len(newer))

\* All versions but that of p.
Without(p) == IF p \in ToSet(newer) THEN RemoveAt(newer, Place(p)) ELSE newer

Publish(p) == snapshot' = task[p].data /\ newer' = Above(p)

-----------------------------------------------------------------------------
(* Mutants: plausible bugs that the properties below must reveal.          *)

SetOutboxWatermarkPast(p) ==
    /\ At(p, "mark")
    /\ watermark' = task[p].last + 1
    /\ Goto(p, "clean")
    /\ UNCHANGED <<database, bucket, payload, locks, task, moves>>

RetireUnfenced ==
    /\ retired' = TRUE
    /\ snapshot' = Nothing
    /\ UNCHANGED epoch

MayActivateByVersion(p) == p \in ToSet(newer)

StaleGroup(registered) == FALSE

-----------------------------------------------------------------------------
(* The database.                                                           *)

Key(kind) == \E e \in outbox : e.kind = kind /\ e.dedup

\* An insert whose key is taken by a row does nothing; it waits for an open
\* transaction that holds the key.
Inserting(kind) == \A w \in Writers : open[w].kind = kind => open[w].id = 0

\* Ids are taken when the event is inserted, not when it is committed.
BeginChange(w, kind) ==
    /\ open[w] = Closed
    /\ Inserting(kind)
    /\ open' = [open EXCEPT ![w] =
                    Doing(IF Key(kind) THEN 0 ELSE nextId, kind, "commit", 0)]
    /\ nextId' = nextId + (IF Key(kind) THEN 0 ELSE 1)

ChangesLeft ==
    data + Cardinality({w \in Writers : open[w].kind = "account" /\ open[w].step = "commit"}) < MaxChanges

UpdateAccount(w) ==
    /\ ChangesLeft
    /\ BeginChange(w, "account")
    /\ UNCHANGED <<data, active, outbox, moves>>

UpdateGroup(w) ==
    /\ moves < MaxMoves
    /\ BeginChange(w, "group")
    /\ moves' = moves + 1
    /\ UNCHANGED <<data, active, outbox>>

\* syncSchedulerAccountSnapshot comes next; it reads the accounts as they are
\* after the change.
Sync(version) == Doing(0, "account", "set", version)

Event(w) == [id |-> open[w].id, kind |-> open[w].kind, dedup |-> TRUE]

Commit(w) ==
    /\ open[w].step = "commit"
    /\ IF open[w].kind = "account" THEN data' = data + 1 /\ UNCHANGED active
                                   ELSE active' = ~active /\ UNCHANGED data
    /\ outbox' = outbox \cup (IF open[w].id = 0 THEN {} ELSE {Event(w)})
    /\ open' = [open EXCEPT ![w] = IF open[w].kind = "account" THEN Sync(data + 1) ELSE Closed]
    /\ UNCHANGED <<nextId, moves>>

\* Several updates of an account leave their event in a statement of its own.
UpdateThenEnqueue(w) ==
    /\ open[w] = Closed
    /\ ChangesLeft
    /\ data' = data + 1
    /\ open' = [open EXCEPT ![w] = Doing(0, "account", "enqueue", 0)]
    /\ UNCHANGED <<active, nextId, outbox, moves>>

Enqueue(w) ==
    /\ open[w].step = "enqueue"
    /\ Inserting("account")
    /\ IF Key("account")
       THEN UNCHANGED <<outbox, nextId>>
       ELSE /\ outbox' = outbox \cup {[id |-> nextId, kind |-> "account", dedup |-> TRUE]}
            /\ nextId' = nextId + 1
    /\ open' = [open EXCEPT ![w] = Sync(data)]
    /\ UNCHANGED <<data, active, moves>>

Database ==
    /\ \/ \E w \in AccountWriters : UpdateAccount(w) \/ UpdateThenEnqueue(w)
       \/ \E w \in GroupWriters : UpdateGroup(w)
       \/ \E w \in Writers : Commit(w) \/ Enqueue(w)
    /\ UNCHANGED <<watermark, bucket, payload, locks, pc, task>>

\* The account's own key is overwritten with what was read.
SyncSet(w) ==
    /\ open[w].step = "set"
    /\ payload' = open[w].data
    /\ open' = [open EXCEPT ![w] = Closed]
    /\ UNCHANGED <<data, active, nextId, outbox, watermark, bucket, locks,
                   pc, task, moves>>

\* The process dies: its transaction is rolled back, or an update it has made
\* leaves no event.
WriterFails(w) ==
    /\ open[w] # Closed
    /\ Fault
    /\ open' = [open EXCEPT ![w] = Closed]
    /\ UNCHANGED <<data, active, nextId, outbox, watermark, bucket, payload,
                   locks, pc, task>>

-----------------------------------------------------------------------------
(* pollOutbox.                                                             *)

\* ORDER BY id: the ids, not the commits, give the order.
Batch(rows) == SetToSortSeq(rows, LAMBDA d, e : d.id < e.id)

\* What the poller keeps of the rows, with nothing seen yet.
Kept(batch, last) == [NoTask EXCEPT !.events = [i \in DOMAIN batch |-> batch[i].kind],
                                    !.last = last]

PollOutbox(p) ==
    /\ At(p, "idle")
    /\ LET rows == {e \in outbox : e.id > watermark} IN
       \E newest \in rows :
          /\ \A e \in rows : e.id <= newest.id
          /\ outbox' = (outbox \ rows) \cup {[e EXCEPT !.dedup = FALSE] : e \in rows}
          /\ task' = [task EXCEPT ![p] = Kept(Batch(rows), newest.id)]
          /\ Goto(p, After(task'[p].events))
    /\ UNCHANGED <<data, active, nextId, open, watermark, bucket,
                   payload, locks, moves>>

\* handleAccountEvent: the account is read here and written to the cache in
\* the next step.
HandleAccountEvent(p) ==
    /\ At(p, "handle")
    /\ task' = [task EXCEPT ![p].data = data]
    /\ Goto(p, "setAccount")
    /\ UNCHANGED <<database, watermark, bucket, payload, locks, moves>>

SetAccount(p) ==
    /\ At(p, "setAccount")
    /\ payload' = task[p].data
    /\ IF "bucket" \in task[p].seen
       THEN NextEvent(p)
       ELSE /\ Goto(p, "capture")
            /\ task' = [task EXCEPT ![p].seen = @ \cup {"bucket"}, ![p].data = 0]
    /\ UNCHANGED <<database, watermark, bucket, locks, moves>>

\* A slower instance may write a lower one.
SetOutboxWatermark(p) ==
    /\ At(p, "mark")
    /\ watermark' = task[p].last
    /\ Goto(p, "clean")
    /\ UNCHANGED <<database, bucket, payload, locks, task, moves>>

\* Consumed rows of a certain age, oldest first, or none of that age yet.
CleanupConsumedOutbox(p) ==
    /\ At(p, "clean")
    /\ \E k \in {0, task[p].last} : outbox' = {e \in outbox : e.id > k}
    /\ Stop(p)
    /\ UNCHANGED <<data, active, nextId, open, watermark, bucket,
                   payload, locks, moves>>

-----------------------------------------------------------------------------
(* prepareGroupLifecycle.                                                  *)

TryAcquireLease(p) ==
    /\ At(p, "lease")
    /\ IF "lifecycle" \in task[p].seen THEN NextEvent(p) /\ UNCHANGED lease
       ELSE IF lease = Nobody
       THEN lease' = p /\ Goto(p, "authority") /\ UNCHANGED task
       ELSE Stop(p) /\ UNCHANGED lease
    /\ UNCHANGED <<database, watermark, bucket, payload, bucketLock, moves>>

ReadGroup(p) ==
    /\ At(p, "authority")
    /\ Goto(p, IF active THEN "reopen" ELSE "retire")
    /\ UNCHANGED <<database, watermark, bucket, payload, locks, task, moves>>

ReopenBucket(p) ==
    /\ At(p, "reopen")
    /\ retired' = FALSE
    /\ task' = [task EXCEPT ![p].token = epoch, ![p].strict = TRUE]
    /\ Goto(p, "release")
    /\ snapshot' = IF retired THEN Nothing ELSE snapshot
    /\ UNCHANGED <<database, watermark, epoch, newer, retiredAt, payload, locks, moves>>

\* Only the first retirement raises the epoch.
Retire ==
    /\ retired' = TRUE
    /\ epoch' = IF retired THEN epoch ELSE epoch + 1
    /\ snapshot' = Nothing

RetireBucket(p) ==
    /\ At(p, "retire")
    /\ Retire
    /\ retiredAt' = data
    /\ task' = [task EXCEPT ![p].token = 0]
    /\ Goto(p, "release")
    /\ UNCHANGED <<database, watermark, newer, payload, locks, moves>>

\* A lease that was lost is an error; a group that is not active is done with.
ReleaseLease(p) ==
    /\ At(p, "release")
    /\ IF lease # p
       THEN Stop(p) /\ UNCHANGED lease
       ELSE /\ lease' = Nobody
            /\ IF task[p].token # 0 THEN Goto(p, "lock") /\ UNCHANGED task
                                    ELSE Handled(p, LifecycleSeen(p))
    /\ UNCHANGED <<database, watermark, bucket, payload, bucketLock, moves>>

Lifecycle(p) ==
    \/ TryAcquireLease(p) \/ ReadGroup(p) \/ ReopenBucket(p)
    \/ RetireBucket(p) \/ ReleaseLease(p)

-----------------------------------------------------------------------------
(* rebuildBuckets and SetSnapshot.                                         *)

Fenced(p) == retired \/ epoch # task[p].token

CaptureBucketWriteToken(p) ==
    /\ At(p, "capture")
    /\ IF ~retired
       THEN /\ task' = [task EXCEPT ![p].token = epoch]
            /\ Goto(p, IF task[p].reader THEN "load" ELSE "lock")
       ELSE IF p = Rebuilder /\ ~task[p].reader THEN Goto(p, "lease") /\ UNCHANGED task
                             ELSE NextEvent(p)
    /\ UNCHANGED <<database, watermark, bucket, payload, locks, moves>>

TryLockBucket(p) ==
    /\ At(p, "lock")
    /\ IF bucketLock = Nobody
       THEN bucketLock' = p /\ Goto(p, "load") /\ UNCHANGED task
       ELSE Skip(p) /\ UNCHANGED bucketLock
    /\ UNCHANGED <<database, watermark, bucket, payload, lease, moves>>

LoadAccounts(p) ==
    /\ At(p, "load")
    /\ task' = [task EXCEPT ![p].data = data]
    /\ Goto(p, "allocate")
    /\ UNCHANGED <<database, watermark, bucket, payload, locks, moves>>

Refused(p) == IF task[p].reader THEN Stop(p) ELSE Goto(p, "unlock") /\ UNCHANGED task

AllocateSnapshotVersion(p) ==
    /\ At(p, "allocate")
    /\ IF Fenced(p)
       THEN Refused(p) /\ UNCHANGED newer
       ELSE newer' = Append(newer, p) /\ Goto(p, "write") /\ UNCHANGED task
    /\ UNCHANGED <<database, watermark, epoch, retired, snapshot, retiredAt,
                   payload, locks, moves>>

\* The accounts' keys are overwritten before the version is known to count.
WriteSnapshotVersion(p) ==
    /\ At(p, "write")
    /\ payload' = task[p].data
    /\ Goto(p, "activate")
    /\ UNCHANGED <<database, watermark, bucket, locks, task, moves>>

\* A version below the active one is dropped.
MayActivate(p) == ~Fenced(p) /\ p \in ToSet(newer)

ActivateSnapshotVersion(p) ==
    /\ At(p, "activate")
    /\ IF MayActivate(p)
       THEN Publish(p)
       ELSE UNCHANGED snapshot /\ newer' = Without(p)
    /\ IF task[p].reader THEN Stop(p)
       ELSE /\ Goto(p, "unlock")
            /\ task' = [task EXCEPT ![p].data = 0, ![p].seen =
                   IF task[p].strict /\ ~Fenced(p) THEN LifecycleSeen(p) ELSE @]
    /\ UNCHANGED <<database, watermark, epoch, retired, retiredAt, payload, locks, moves>>

\* DEL without looking at the owner.
UnlockBucket(p) ==
    /\ At(p, "unlock")
    /\ bucketLock' = Nobody
    /\ IF task[p].strict /\ "lifecycle" \notin task[p].seen THEN Stop(p) ELSE NextEvent(p)
    /\ UNCHANGED <<database, watermark, bucket, payload, lease, moves>>

Rebuild(p) ==
    \/ CaptureBucketWriteToken(p) \/ TryLockBucket(p) \/ LoadAccounts(p)
    \/ AllocateSnapshotVersion(p) \/ WriteSnapshotVersion(p)
    \/ ActivateSnapshotVersion(p) \/ UnlockBucket(p)

-----------------------------------------------------------------------------
(* The full rebuild, and readers.                                          *)

Registered == snapshot # Nothing

\* A group that is not active but has a registered bucket.
Stale(registered) == registered

RebuildFullSnapshot ==
    /\ At(Rebuilder, "idle")
    /\ active \/ Stale(Registered)
    /\ Goto(Rebuilder, IF active THEN "capture" ELSE "lease")
    /\ UNCHANGED <<database, watermark, bucket, payload, locks, task, moves>>

ListSchedulableAccounts(r) ==
    /\ At(r, "idle")
    /\ snapshot = Nothing
    /\ Goto(r, "capture")
    /\ task' = [task EXCEPT ![r].reader = TRUE]
    /\ UNCHANGED <<database, watermark, bucket, payload, locks, moves>>

-----------------------------------------------------------------------------
(* Faults.                                                                 *)

\* The process dies, or a call fails and the rest is left: locks stay.
Crash(p) ==
    /\ pc[p] # "idle"
    /\ Fault
    /\ Stop(p)
    /\ newer' = Without(p)
    /\ UNCHANGED <<database, watermark, epoch, retired, snapshot, retiredAt,
                   payload, locks>>

\* A lock outlives its dead holder by its time to live; a slow holder may lose
\* it as well.
BucketLockExpires ==
    /\ bucketLock # Nobody
    /\ IF pc[bucketLock] \in Guarded THEN Fault ELSE UNCHANGED moves
    /\ bucketLock' = Nobody
    /\ UNCHANGED <<database, watermark, bucket, payload, lease, pc, task>>

LeaseExpires ==
    /\ lease # Nobody
    /\ IF pc[lease] \in Leased THEN Fault ELSE UNCHANGED moves
    /\ lease' = Nobody
    /\ UNCHANGED <<database, watermark, bucket, payload, bucketLock, pc, task>>

-----------------------------------------------------------------------------

Poll(p) ==
    \/ PollOutbox(p) \/ HandleAccountEvent(p) \/ SetAccount(p)
    \/ SetOutboxWatermark(p) \/ CleanupConsumedOutbox(p)

Run(p) ==
    \/ p \in Pollers /\ Poll(p)
    \/ p = Rebuilder /\ RebuildFullSnapshot
    \/ Lifecycle(p) \/ Rebuild(p)

Next ==
    \/ Database
    \/ \E w \in Writers : SyncSet(w) \/ WriterFails(w)
    \/ \E p \in Procs : Run(p) \/ Crash(p)
    \/ \E r \in Readers : ListSchedulableAccounts(r)
    \/ BucketLockExpires \/ LeaseExpires

\* A request that changed the database goes on.
Finish ==
    \/ Database /\ \E w \in Writers : Commit(w) \/ Enqueue(w)
    \/ \E w \in Writers : SyncSet(w)

Fairness ==
    /\ WF_vars(Finish)
    /\ \A p \in Pollers \cup {Rebuilder} : WF_vars(Run(p))
    /\ WF_vars(BucketLockExpires /\ UNCHANGED moves)
    /\ WF_vars(LeaseExpires /\ UNCHANGED moves)

Spec == Init /\ [][Next]_vars /\ Fairness

-----------------------------------------------------------------------------
(* Properties.                                                             *)

\* A retired bucket serves nothing, although writers that began before the
\* retirement are still publishing (the check at activation).
RetiredServesNothing == retired => snapshot = Nothing

\* A bucket reopened after a retirement serves accounts read after it: what a
\* writer loaded before the group was switched off never comes back (the epoch
\* of the write token).
NothingFromBeforeRetirement == snapshot # Nothing => snapshot >= retiredAt

\* What the scheduler sees is the database, or nothing (and it asks the
\* database); a switched-off group is not served.
Fresh ==
    IF active THEN snapshot # Nothing => snapshot = data /\ payload = data
              ELSE snapshot = Nothing

\* However events are lost (committed below the watermark, never inserted,
\* skipped because of a busy bucket) or stale snapshots published, the
\* periodic rebuild brings the cache and the database together.
EventuallyFresh == <>[]Fresh
=============================================================================

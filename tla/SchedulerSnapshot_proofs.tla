------------------------ MODULE SchedulerSnapshot_proofs ------------------------
(***************************************************************************)
(* Proofs about SchedulerSnapshot, for any writers, instances and readers  *)
(* and any number of changes and faults: a retired bucket serves nothing,  *)
(* and a reopened one nothing from before its retirement.                  *)
(***************************************************************************)
EXTENDS SchedulerSnapshot, FiniteSetTheorems, TLAPS

\* The fields of a task that the argument is about.
Fields == DOMAIN NoTask

FenceTypes ==
    /\ DOMAIN pc = Procs /\ DOMAIN task = Procs
    /\ \A p \in Procs : /\ DOMAIN task[p] = Fields
                        /\ task[p].token \in Nat /\ task[p].data \in Nat
    /\ data \in Nat /\ retiredAt \in Nat /\ epoch \in Nat \ {0}
    /\ snapshot \in Nat \cup {Nothing}
    /\ retired \in BOOLEAN

\* Only a writer whose token is the bucket's epoch may publish: a retirement
\* raises the epoch above every token given out before, and what is read under
\* a token given out after it is younger.
FenceInv ==
    /\ retired => snapshot = Nothing
    /\ snapshot # Nothing => snapshot >= retiredAt
    /\ retiredAt <= data
    /\ \A p \in Procs :
         /\ task[p].token <= epoch
         /\ task[p].token = epoch => ~retired
         /\ task[p].token = epoch /\ pc[p] \in {"allocate", "write", "activate"} =>
              task[p].data >= retiredAt

IInv == FenceTypes /\ FenceInv

USE DEF At, Goto, Fault, database, bucket, locks, Nothing

-----------------------------------------------------------------------------

\* What each process remembers of its task: a step of p concerns p alone.
Others(p) == \A q \in Procs \ {p} : task'[q] = task[q] /\ pc'[q] = pc[q]

Shaped == /\ DOMAIN pc' = Procs /\ DOMAIN task' = Procs
          /\ \A p \in Procs : DOMAIN task'[p] = Fields

\* A task that is given up or left for the next event has no token.
Dropped(p) == task'[p].token = 0 /\ task'[p].data = 0

\* The ways in which a step of p ends one task.
LEMMA Endings ==
    ASSUME FenceTypes, NEW p \in Procs,
           Stop(p) \/ Handled(p, LifecycleSeen(p)) \/ NextEvent(p) \/ Skip(p)
    PROVE  Others(p) /\ Dropped(p) /\ Shaped
  <1>1. CASE Stop(p)
    BY <1>1 DEF FenceTypes, Stop, Others, Dropped, Shaped, Fields, NoTask
  <1>2. ASSUME NEW seen, Handled(p, seen) PROVE Others(p) /\ Dropped(p) /\ Shaped
    <2> DEFINE t == [NoTask EXCEPT !.events = Tail(task[p].events),
                                   !.last = task[p].last,
                                   !.seen = seen]
    <2>1. DOMAIN t = Fields /\ t.token = 0 /\ t.data = 0
      BY DEF Fields, NoTask
    <2>2. Stop(p) \/ (Goto(p, After(Tail(task[p].events))) /\ task' = [task EXCEPT ![p] = t])
      BY <1>2 DEF Handled
    <2> HIDE DEF t
    <2> QED BY <1>1, <2>1, <2>2 DEF FenceTypes, Others, Dropped, Shaped
  <1> QED BY <1>1, <1>2 DEF Skip, NextEvent

\* The fence holds in every step.
LEMMA FenceStep == IInv /\ [Next]_vars => IInv'
  <1> SUFFICES ASSUME IInv, [Next]_vars PROVE IInv'
    OBVIOUS
  <1> USE DEF IInv, FenceTypes, FenceInv
  <1>1. CASE Database
    BY <1>1 DEF Database, UpdateAccount, UpdateThenEnqueue, UpdateGroup, Commit, Enqueue,
       BeginChange
  <1>2. ASSUME NEW w \in Writers, SyncSet(w) \/ WriterFails(w) PROVE IInv'
    BY <1>2 DEF SyncSet, WriterFails
  <1>3. ASSUME NEW p \in Procs, Run(p) PROVE IInv'
    <2>1. CASE PollOutbox(p)
      <3>0. PICK newest \in outbox :
              /\ task' = [task EXCEPT ![p] =
                             Kept(Batch({e \in outbox : e.id > watermark}), newest.id)]
              /\ pc' = [pc EXCEPT ![p] = After(task'[p].events)]
        BY <2>1 DEF PollOutbox
      <3>1. PICK t \in {Kept(Batch({e \in outbox : e.id > watermark}), newest.id)} :
              task' = [task EXCEPT ![p] = t] /\ \E l \in {After(task'[p].events)} : pc' = [pc EXCEPT ![p] = l]
        BY <3>0
      <3>2. DOMAIN t = Fields /\ t.token = 0 /\ t.data = 0
        BY <3>1 DEF Kept, Fields, NoTask
      <3>3. UNCHANGED <<data, epoch, retired, snapshot, retiredAt>>
        BY <2>1 DEF PollOutbox
      <3>4. /\ DOMAIN task' = Procs /\ DOMAIN pc' = Procs
            /\ \A q \in Procs \ {p} : task'[q] = task[q] /\ pc'[q] = pc[q]
            /\ task'[p] = t
        BY <3>1
      <3>5. FenceTypes'
        BY <3>2, <3>3, <3>4
      <3>6. FenceInv'
        BY <3>2, <3>3, <3>4
      <3> QED BY <3>5, <3>6
    <2>2. CASE HandleAccountEvent(p)
      BY <2>2, Endings DEF HandleAccountEvent, Others, Dropped, Shaped, Fields, NoTask
    <2>3. CASE SetAccount(p)
      BY <2>3, Endings DEF SetAccount, Others, Dropped, Shaped, Fields, NoTask
    <2>4. CASE SetOutboxWatermark(p)
      BY <2>4, Endings DEF SetOutboxWatermark, Others, Dropped, Shaped, Fields, NoTask
    <2>5. CASE CleanupConsumedOutbox(p)
      BY <2>5, Endings DEF CleanupConsumedOutbox, Others, Dropped, Shaped, Fields, NoTask
    <2>6. CASE p = Rebuilder /\ RebuildFullSnapshot
      BY <2>6, Endings DEF RebuildFullSnapshot, Others, Dropped, Shaped, Fields, NoTask
    <2>7. CASE TryAcquireLease(p)
      BY <2>7, Endings DEF TryAcquireLease, Others, Dropped, Shaped, Fields, NoTask
    <2>8. CASE ReadGroup(p)
      BY <2>8, Endings DEF ReadGroup, Others, Dropped, Shaped, Fields, NoTask
    <2>9. CASE ReopenBucket(p)
      <3>1. /\ DOMAIN task' = Procs /\ \A q \in Procs : DOMAIN task'[q] = Fields
            /\ \A q \in Procs \ {p} : task'[q] = task[q]
            /\ task'[p].token = epoch /\ task'[p].data = task[p].data
        BY <2>9 DEF ReopenBucket, Fields, NoTask
      <3>2. FenceTypes'
        BY <2>9, <3>1 DEF ReopenBucket
      <3>3. FenceInv'
        <4>1. \A q \in Procs : task'[q].token <= epoch /\ pc'[q] \in {pc[q], "release"}
          BY <2>9, <3>1 DEF ReopenBucket
        <4> QED BY <2>9, <3>1, <4>1 DEF ReopenBucket
      <3> QED BY <3>2, <3>3
    <2>10. CASE RetireBucket(p)
      BY <2>10, Endings DEF RetireBucket, Retire, Others, Dropped, Shaped, Fields, NoTask
    <2>11. CASE ReleaseLease(p)
      BY <2>11, Endings DEF ReleaseLease, Others, Dropped, Shaped, Fields, NoTask
    <2>12. CASE CaptureBucketWriteToken(p)
      BY <2>12, Endings DEF CaptureBucketWriteToken, Others, Dropped, Shaped, Fields, NoTask
    <2>13. CASE TryLockBucket(p)
      BY <2>13, Endings DEF TryLockBucket, Others, Dropped, Shaped, Fields, NoTask
    <2>14. CASE LoadAccounts(p)
      BY <2>14, Endings DEF LoadAccounts, Others, Dropped, Shaped, Fields, NoTask
    <2>15. CASE AllocateSnapshotVersion(p)
      BY <2>15, Endings DEF AllocateSnapshotVersion, Fenced, Refused, Others, Dropped,
         Shaped, Fields, NoTask
    <2>16. CASE WriteSnapshotVersion(p)
      BY <2>16, Endings DEF WriteSnapshotVersion, Others, Dropped, Shaped, Fields, NoTask
    <2>17. CASE ActivateSnapshotVersion(p)
      BY <2>17, Endings DEF ActivateSnapshotVersion, Fenced, MayActivate, Publish, Others,
         Dropped, Shaped, Fields, NoTask
    <2>18. CASE UnlockBucket(p)
      BY <2>18, Endings DEF UnlockBucket, Others, Dropped, Shaped, Fields, NoTask
    <2> QED BY <1>3, <2>1, <2>2, <2>3, <2>4, <2>5, <2>6, <2>7, <2>8, <2>9,
         <2>10, <2>11, <2>12, <2>13, <2>14, <2>15, <2>16, <2>17, <2>18 DEF Run, Poll, Lifecycle, Rebuild
  <1>4. ASSUME NEW p \in Procs, Crash(p) PROVE IInv'
    BY <1>4, Endings DEF Crash, Others, Dropped, Shaped
  <1>5. ASSUME NEW r \in Readers, ListSchedulableAccounts(r) PROVE IInv'
    BY <1>5 DEF ListSchedulableAccounts, Procs, Fields, NoTask
  <1>6. CASE BucketLockExpires \/ LeaseExpires
    BY <1>6 DEF BucketLockExpires, LeaseExpires
  <1>7. CASE UNCHANGED vars
    BY <1>7 DEF vars
  <1> QED BY <1>1, <1>2, <1>3, <1>4, <1>5, <1>6, <1>7 DEF Next

\* The inductive invariant holds.
LEMMA Invariance == Spec => []IInv
  <1>1. ASSUME Init PROVE IInv
    <2>1. NoTask.token = 0 /\ NoTask.data = 0 /\ \A p \in Procs : task[p] = NoTask /\ pc[p] = "idle"
      BY <1>1 DEF Init, NoTask
    <2>2. DOMAIN pc = Procs /\ DOMAIN task = Procs /\ \A p \in Procs : DOMAIN task[p] = Fields
      BY <1>1, <2>1 DEF Init, Fields
    <2>3. data = 0 /\ retiredAt = 0 /\ epoch = 1 /\ snapshot = 0 /\ retired = FALSE
        /\ retired \in BOOLEAN /\ snapshot \in Nat \cup {Nothing}
      BY <1>1 DEF Init
    <2>4. FenceTypes
      BY <2>1, <2>2, <2>3 DEF FenceTypes
    <2>5. FenceInv
      BY <2>1, <2>3 DEF FenceInv
    <2> QED BY <2>4, <2>5 DEF IInv
  <1> QED BY <1>1, FenceStep, PTL DEF Spec

\* While a bucket is retired no writer publishes into it, whoever began before
\* and however long it took: activate compares the token with the epoch.
THEOREM RetirementEmpties == Spec => []RetiredServesNothing
  <1>1. IInv => RetiredServesNothing
    BY DEF IInv, FenceInv, RetiredServesNothing
  <1> QED BY Invariance, <1>1, PTL

\* A bucket that is open again never serves accounts that were read before it
\* was last retired.
THEOREM EpochFences == Spec => []NothingFromBeforeRetirement
  <1>1. IInv => NothingFromBeforeRetirement
    BY DEF IInv, FenceInv, NothingFromBeforeRetirement
  <1> QED BY Invariance, <1>1, PTL
-----------------------------------------------------------------------------
(* Types.  An event's id is in its range because there is a change or a    *)
(* fault for every id given out, so the rows are counted.                  *)

Pending == {w \in Writers : open[w].kind = "account" /\ open[w].step = "commit"}
Late    == {w \in Writers : open[w].step = "enqueue"}

Requests == [id : 0..(nextId - 1), kind : Kinds \cup {"none"},
             step : {"idle", "commit", "enqueue", "set"}, data : 0..data]

\* What the requests and the batches hold has come from the database; every
\* id is paid for by a change, one that is pending, a switch or a fault.
OutboxInv ==
    /\ nextId \in Nat \ {0} /\ moves \in 0..MaxMoves
    /\ open \in [Writers -> Requests]
    /\ \A w \in Writers : open[w].step = "commit" => open[w].kind \in Kinds
    /\ \A e \in outbox : e.id < nextId
    /\ \A p \in Procs : task[p].last \in 0..(nextId - 1)
    /\ data + Cardinality(Pending) <= MaxChanges
    /\ (nextId - 1) + Cardinality(Late) <= data + Cardinality(Pending) + moves

TypeInv == TypeOK /\ OutboxInv

\* The versions above one's own, and all but one's own, are versions.
LEMMA Versions ==
    ASSUME newer \in Seq(Procs), NEW p \in Procs
    PROVE  /\ p \in ToSet(newer) => Above(p) \in Seq(Procs)
           /\ Without(p) \in Seq(Procs)
  <1>1. CASE p \in ToSet(newer)
    <2>1. Place(p) \in 1..Len(newer)
      BY <1>1 DEF ToSet, Place
    <2>2. Above(p) \in Seq(Procs)
      BY <2>1 DEF Above
    <2>3. RemoveAt(newer, Place(p)) \in Seq(Procs)
      <3>1. SubSeq(newer, 1, Place(p) - 1) \in Seq(Procs)
        BY <2>1
      <3>2. SubSeq(newer, Place(p) + 1, Len(newer)) \in Seq(Procs)
        BY <2>1
      <3> QED
        BY <3>1, <3>2 DEF RemoveAt
    <2> QED
      BY <1>1, <2>2, <2>3 DEF Without
  <1>2. CASE p \notin ToSet(newer)
    BY <1>2 DEF Without
  <1> QED
    BY <1>1, <1>2

\* The requests are counted; one request more or less counts one.
LEMMA Counting ==
    /\ Cardinality(Pending) \in Nat /\ Cardinality(Late) \in Nat
    /\ \A w \in Writers :
         /\ Cardinality(Pending \cup {w}) =
                Cardinality(Pending) + (IF w \in Pending THEN 0 ELSE 1)
         /\ Cardinality(Pending \ {w}) =
                Cardinality(Pending) - (IF w \in Pending THEN 1 ELSE 0)
         /\ Cardinality(Late \cup {w}) = Cardinality(Late) + (IF w \in Late THEN 0 ELSE 1)
         /\ Cardinality(Late \ {w}) = Cardinality(Late) - (IF w \in Late THEN 1 ELSE 0)
  <1>1. IsFiniteSet(Pending) /\ IsFiniteSet(Late)
    BY SnapshotAssumption, FS_Subset DEF Pending, Late, Writers
  <1>2. ASSUME NEW S, IsFiniteSet(S), NEW w
        PROVE  /\ Cardinality(S) \in Nat
               /\ Cardinality(S \cup {w}) = Cardinality(S) + (IF w \in S THEN 0 ELSE 1)
               /\ Cardinality(S \ {w}) = Cardinality(S) - (IF w \in S THEN 1 ELSE 0)
    BY <1>2, FS_CardinalityType, FS_AddElement, FS_RemoveElement
  <1> QED
    BY <1>1, <1>2

\* What a process holds stays what it was, is nothing, or comes from the database.
Holds(p) ==
    /\ pc' \in [Procs -> Steps]
    /\ DOMAIN task' = Procs
    /\ \A q \in Procs \ {p} : task'[q] = task[q]
    /\ task'[p].data \in {0, task[p].data, data}
    /\ task'[p].last \in {0, task[p].last}

\* The ways in which a step ends one task hold nothing new.
LEMMA EndingsHold ==
    ASSUME IInv, TypeOK, NEW p \in Procs,
           Stop(p) \/ Handled(p, LifecycleSeen(p)) \/ NextEvent(p) \/ Skip(p)
    PROVE  Holds(p)
  <1>1. CASE Stop(p)
    BY <1>1 DEF IInv, FenceTypes, TypeOK, Stop, Holds, NoTask, Steps
  <1>2. ASSUME NEW seen, Handled(p, seen), ~Stop(p) PROVE Holds(p)
    <2> DEFINE t == [NoTask EXCEPT !.events = Tail(task[p].events),
                                   !.last = task[p].last, !.seen = seen]
    <2>1. /\ pc' = [pc EXCEPT ![p] = After(Tail(task[p].events))]
          /\ task' = [task EXCEPT ![p] = t]
      BY <1>2 DEF Handled
    <2>2. t.data = 0 /\ t.last = task[p].last
      BY DEF NoTask
    <2>3. After(Tail(task[p].events)) \in Steps
      BY DEF After, Steps, Leased, Guarded
    <2> HIDE DEF t
    <2> QED
      BY <2>1, <2>2, <2>3 DEF IInv, FenceTypes, TypeOK, Holds
  <1> QED
    BY <1>1, <1>2 DEF Skip, NextEvent

\* A step of a process that holds nothing new keeps the types, if the bucket
\* and the locks do.
LEMMA HeldTypes ==
    ASSUME TypeInv, IInv', NEW p \in Procs, Holds(p),
           UNCHANGED <<data, active, nextId, open, moves>>,
           outbox' \subseteq outbox, watermark' \in 0..(nextId - 1),
           epoch \in 0..epoch', epoch' \in Nat \ {0}, retired' \in BOOLEAN,
           snapshot' \in {Nothing} \cup 0..data, payload' \in 0..data,
           newer' \in Seq(Procs), {bucketLock', lease'} \subseteq Procs \cup {Nobody}
    PROVE  TypeInv'
  <1>1. data \in Nat /\ nextId \in Nat \ {0} /\ epoch \in Nat
    BY SnapshotAssumption DEF TypeInv, TypeOK, OutboxInv
  <1>2. \A q \in Procs : task'[q].data \in 0..data /\ task'[q].last \in 0..(nextId - 1)
    <2>1. \A q \in Procs : task[q].data \in 0..data /\ task[q].last \in 0..(nextId - 1)
      BY DEF TypeInv, TypeOK, OutboxInv
    <2>2. 0 \in 0..data /\ data \in 0..data /\ 0 \in 0..(nextId - 1)
      BY <1>1
    <2>3. task'[p].data \in 0..data /\ task'[p].last \in 0..(nextId - 1)
      BY <2>1, <2>2 DEF Holds
    <2> QED
      BY <2>1, <2>3 DEF Holds
  <1>3. \A q \in Procs : task'[q].token \in 0..epoch'
    BY DEF IInv, FenceTypes, FenceInv
  <1>4. Pending' = Pending /\ Late' = Late /\ Requests' = Requests
    BY DEF Pending, Late, Requests
  <1>5. TypeOK'
    BY <1>1, <1>2, <1>3 DEF Holds, TypeInv, TypeOK
  <1>6. OutboxInv'
    BY <1>1, <1>2, <1>4 DEF TypeInv, OutboxInv
  <1> QED
    BY <1>5, <1>6 DEF TypeInv

\* More ids are given out, none taken back.
LEMMA Longer == \A m, n \in Nat : m <= n => \A i \in 0..(m - 1) : i \in 0..(n - 1)
  OBVIOUS

\* A request is typed by what has come from the database.
LEMMA Typed ==
    ASSUME nextId \in Nat \ {0}, data \in Nat, nextId' \in Nat, data' \in Nat,
           nextId <= nextId', data <= data'
    PROVE  /\ \A i \in 0..(nextId' - 1), k \in Kinds \cup {"none"},
                  l \in {"idle", "commit", "enqueue", "set"}, v \in 0..data' :
                  Doing(i, k, l, v) \in Requests'
           /\ Requests \subseteq Requests'
  <1>1. ASSUME NEW i \in 0..(nextId - 1) PROVE i \in 0..(nextId' - 1)
    BY Longer
  <1>2. ASSUME NEW v \in 0..data PROVE v \in 0..data'
    OBVIOUS
  <1>3. Requests \subseteq Requests'
    BY <1>1, <1>2 DEF Requests
  <1> QED
    BY <1>3 DEF Requests, Doing

\* A request takes an id that a change or a switch pays for.
LEMMA BeginChangeTypes ==
    ASSUME TypeInv, IInv, NEW w \in Writers, NEW kind \in Kinds, BeginChange(w, kind),
           kind = "account" => ChangesLeft /\ moves' = moves,
           kind = "group" => moves < MaxMoves /\ moves' = moves + 1,
           UNCHANGED <<data, active, outbox, watermark, bucket, payload, locks, pc, task>>
    PROVE  TypeInv'
  <1> DEFINE id == IF Key(kind) THEN 0 ELSE nextId
             r  == Doing(id, kind, "commit", 0)
  <1>1. /\ open' = [open EXCEPT ![w] = r] /\ open[w] = Closed
        /\ nextId' = nextId + (IF Key(kind) THEN 0 ELSE 1)
    BY DEF BeginChange
  <1>2. /\ nextId \in Nat \ {0} /\ data \in Nat /\ moves \in 0..MaxMoves
        /\ open \in [Writers -> Requests] /\ nextId' \in Nat /\ nextId <= nextId'
    BY <1>1, SnapshotAssumption DEF TypeInv, TypeOK, OutboxInv
  <1>3. r.step = "commit" /\ r.kind = kind /\ id \in 0..(nextId' - 1)
    BY <1>1, <1>2 DEF Doing
  <1>4. open[w].step = "idle"
    BY <1>1 DEF Closed, Doing
  <1> HIDE DEF id
  <1>5. open' \in [Writers -> Requests']
    <2>1. data' \in Nat /\ data <= data' /\ 0 \in 0..data'
      BY <1>2
    <2>2. r \in Requests' /\ Requests \subseteq Requests'
      BY <1>2, <1>3, <2>1, Typed
    <2> HIDE DEF r
    <2> QED
      BY <1>1, <1>2, <2>2
  <1> HIDE DEF r
  <1>6. Late' = Late /\ Pending' = IF kind = "account" THEN Pending \cup {w} ELSE Pending
    BY <1>1, <1>2, <1>3, <1>4 DEF Pending, Late
  <1>7. w \notin Pending /\ Cardinality(Pending) \in Nat /\ Cardinality(Late) \in Nat
        /\ Cardinality(Pending') =
               Cardinality(Pending) + (IF kind = "account" THEN 1 ELSE 0)
    <2>1. w \notin Pending
      BY <1>4 DEF Pending
    <2>2. Cardinality(Pending) + 0 = Cardinality(Pending)
      BY Counting
    <2> QED
      BY <1>6, <2>1, <2>2, Counting
  <1>8. kind = "account" => data + Cardinality(Pending) < MaxChanges
    BY DEF ChangesLeft, Pending
  <1>9. /\ data' + Cardinality(Pending') <= MaxChanges
        /\ (nextId' - 1) + Cardinality(Late') <= data' + Cardinality(Pending') + moves'
        /\ moves' \in 0..MaxMoves /\ nextId' \in Nat \ {0}
    BY <1>1, <1>2, <1>6, <1>7, <1>8, SnapshotAssumption DEF TypeInv, OutboxInv, Kinds
  <1>10. TypeOK'
    <2>1. watermark' \in 0..(nextId' - 1)
      <3>1. \A i, j \in Int : \A k \in 0..(i - 1) : i <= j => k \in 0..(j - 1)
        OBVIOUS
      <3>2. watermark' = watermark /\ watermark \in 0..(nextId - 1)
        BY DEF TypeInv, TypeOK
      <3>3. nextId \in Int /\ nextId' \in Int /\ nextId <= nextId'
        BY <1>2
      <3> QED
        BY <3>1, <3>2, <3>3
    <2>2. /\ TypeOK
          /\ UNCHANGED <<data, active, outbox, epoch, retired, snapshot, payload, newer,
                         bucketLock, lease, pc, task>>
      BY DEF TypeInv
    <2> QED
      BY ONLY <2>1, <2>2 DEF TypeOK
  <1>11. OutboxInv'
    <2>1. \A v \in Writers : open'[v].step = "commit" => open'[v].kind \in Kinds
      BY <1>1, <1>2, <1>3 DEF TypeInv, OutboxInv
    <2>2. \A e \in outbox' : e.id < nextId'
      BY <1>2 DEF TypeInv, TypeOK, OutboxInv, Events
    <2>3. \A q \in Procs : task'[q].last \in 0..(nextId' - 1)
      BY <1>2 DEF TypeInv, OutboxInv
    <2> QED
      BY <1>5, <1>9, <2>1, <2>2, <2>3 DEF OutboxInv
  <1> QED
    BY <1>10, <1>11 DEF TypeInv

\* The ids given out are those of the events.
LEMMA IdsGivenOut ==
    ASSUME TypeInv
    PROVE  /\ nextId \in Nat \ {0} /\ nextId - 1 <= MaxChanges + MaxMoves
           /\ Cardinality(Late) > 0 => nextId <= MaxChanges + MaxMoves
  <1>1. Cardinality(Pending) \in Nat /\ Cardinality(Late) \in Nat
    BY Counting
  <1>2. /\ nextId \in Nat \ {0} /\ data \in Nat /\ moves \in 0..MaxMoves
        /\ (nextId - 1) + Cardinality(Late) <= data + Cardinality(Pending) + moves
        /\ data + Cardinality(Pending) <= MaxChanges
    BY SnapshotAssumption DEF TypeInv, TypeOK, OutboxInv
  <1> QED
    BY <1>1, <1>2, SnapshotAssumption

\* A committed change counts where it was pending.
LEMMA CommitTypes ==
    ASSUME TypeInv, NEW w \in Writers, Commit(w),
           UNCHANGED <<watermark, bucket, payload, locks, pc, task>>
    PROVE  TypeInv'
  <1> DEFINE account == open[w].kind = "account"
             r == IF account THEN Sync(data + 1) ELSE Closed
  <1>1. /\ open[w].step = "commit" /\ open' = [open EXCEPT ![w] = r]
        /\ data' = data + (IF account THEN 1 ELSE 0) /\ active' \in BOOLEAN
        /\ outbox' = outbox \cup (IF open[w].id = 0 THEN {} ELSE {Event(w)})
        /\ UNCHANGED <<nextId, moves>>
    <2>1. data \in Nat /\ active \in BOOLEAN
      BY SnapshotAssumption DEF TypeInv, TypeOK
    <2>2. (~active) \in BOOLEAN
      OBVIOUS
    <2>3. account => data' = data + 1 /\ UNCHANGED active
      BY DEF Commit
    <2>4. ~account => active' = ~active /\ UNCHANGED data
      BY DEF Commit
    <2>5. active' \in BOOLEAN
      BY <2>1, <2>2, <2>3, <2>4
    <2>6. data' = data + (IF account THEN 1 ELSE 0)
      BY <2>1, <2>3, <2>4
    <2> QED
      BY <2>5, <2>6 DEF Commit
  <1>2. /\ nextId \in Nat \ {0} /\ data \in Nat /\ data' \in data..(data + 1)
        /\ open \in [Writers -> Requests] /\ open[w].kind \in Kinds
        /\ open[w].id \in 0..(nextId - 1)
    BY <1>1, SnapshotAssumption DEF TypeInv, TypeOK, OutboxInv, Requests
  <1>3. r \in Requests' /\ r.step \in {"idle", "set"}
    <2>1. /\ nextId' \in Nat /\ data' \in Nat /\ nextId <= nextId' /\ data <= data'
          /\ 0 \in 0..(nextId' - 1) /\ 0 \in 0..data' /\ (account => data + 1 \in 0..data')
      BY <1>1, <1>2
    <2> QED
      BY <1>1, <1>2, <2>1, Typed DEF Kinds, Sync, Closed, Doing
  <1> HIDE DEF r
  <1>4. open' \in [Writers -> Requests']
    <2>1. Requests \subseteq Requests'
      BY <1>1, <1>2, Typed
    <2> QED
      BY <1>1, <1>2, <1>3, <2>1
  <1>5. Late' = Late /\ Pending' = Pending \ {w} /\ (w \in Pending <=> account)
    BY <1>1, <1>2, <1>3 DEF Pending, Late
  <1>6. /\ Cardinality(Pending) \in Nat /\ Cardinality(Late) \in Nat
        /\ Cardinality(Pending') = Cardinality(Pending) - (IF account THEN 1 ELSE 0)
    BY <1>5, Counting
  <1>7. /\ data' + Cardinality(Pending') <= MaxChanges
        /\ (nextId' - 1) + Cardinality(Late') <= data' + Cardinality(Pending') + moves'
        /\ Cardinality(Pending') \in Nat
    <2>1. Cardinality(Pending') \in Nat
      <3>1. IsFiniteSet(Pending \ {w})
        BY SnapshotAssumption, FS_Subset DEF Pending, Writers
      <3> QED
        BY <1>5, <3>1, FS_CardinalityType
    <2>2. data' + Cardinality(Pending') = data + Cardinality(Pending)
      BY <1>1, <1>2, <1>6
    <2> QED
      BY <1>1, <1>2, <1>5, <1>6, <2>1, <2>2, SnapshotAssumption DEF TypeInv, OutboxInv
  <1>8. outbox' \subseteq Events /\ \A e \in outbox' : e.id < nextId
    <2>1. open[w].id # 0 => Event(w) \in Events /\ Event(w).id < nextId
      BY <1>2, IdsGivenOut, SnapshotAssumption DEF Event, Events
    <2> QED
      BY <1>1, <2>1 DEF TypeInv, TypeOK, OutboxInv
  <1>9. data' \in 0..MaxChanges
    BY <1>2, <1>7, SnapshotAssumption
  <1>10. TypeOK'
    <2>1. /\ snapshot \in {Nothing} \cup 0..data' /\ payload \in 0..data'
          /\ \A q \in Procs : task[q].data \in 0..data'
      BY <1>2 DEF TypeInv, TypeOK
    <2> QED
      BY <1>1, <1>8, <1>9, <2>1 DEF TypeInv, TypeOK
  <1>11. OutboxInv'
    <2>1. \A v \in Writers : open'[v].step = "commit" => open'[v].kind \in Kinds
      BY <1>1, <1>2, <1>3 DEF TypeInv, OutboxInv
    <2> QED
      BY <1>1, <1>4, <1>7, <1>8, <2>1 DEF TypeInv, OutboxInv
  <1> QED
    BY <1>10, <1>11 DEF TypeInv

\* An update without its event counts as a change whose id is still to come.
LEMMA UpdateThenEnqueueTypes ==
    ASSUME TypeInv, NEW w \in Writers, UpdateThenEnqueue(w),
           UNCHANGED <<watermark, bucket, payload, locks, pc, task>>
    PROVE  TypeInv'
  <1> DEFINE r == Doing(0, "account", "enqueue", 0)
  <1>1. /\ open[w].step = "idle" /\ open' = [open EXCEPT ![w] = r] /\ data' = data + 1
        /\ UNCHANGED <<active, nextId, outbox, moves>>
        /\ data + Cardinality(Pending) < MaxChanges
    BY DEF UpdateThenEnqueue, ChangesLeft, Pending, Closed, Doing
  <1>2. nextId \in Nat \ {0} /\ data \in Nat /\ open \in [Writers -> Requests]
    BY SnapshotAssumption DEF TypeInv, TypeOK, OutboxInv
  <1>3. r \in Requests' /\ r.step = "enqueue"
    <2>1. /\ nextId' \in Nat /\ data' \in Nat /\ nextId <= nextId' /\ data <= data'
          /\ 0 \in 0..(nextId' - 1) /\ 0 \in 0..data'
      BY <1>1, <1>2
    <2> QED
      BY <1>2, <2>1, Typed DEF Kinds, Doing
  <1> HIDE DEF r
  <1>4. open' \in [Writers -> Requests']
    <2>1. Requests \subseteq Requests'
      BY <1>1, <1>2, Typed
    <2> QED
      BY <1>1, <1>2, <1>3, <2>1
  <1>5. Late' = Late \cup {w} /\ Pending' = Pending /\ w \notin Late
    BY <1>1, <1>2, <1>3 DEF Pending, Late
  <1>6. /\ Cardinality(Pending) \in Nat /\ Cardinality(Late) \in Nat
        /\ Cardinality(Late') = Cardinality(Late) + 1
    BY <1>5, Counting
  <1>7. /\ data' + Cardinality(Pending') <= MaxChanges
        /\ (nextId' - 1) + Cardinality(Late') <= data' + Cardinality(Pending') + moves'
        /\ data' \in 0..MaxChanges
    BY <1>1, <1>2, <1>5, <1>6, SnapshotAssumption DEF TypeInv, OutboxInv
  <1>8. TypeOK'
    <2>1. /\ snapshot \in {Nothing} \cup 0..data' /\ payload \in 0..data'
          /\ \A q \in Procs : task[q].data \in 0..data'
      BY <1>1, <1>2 DEF TypeInv, TypeOK
    <2> QED
      BY <1>1, <1>7, <2>1 DEF TypeInv, TypeOK
  <1>9. OutboxInv'
    <2>1. \A v \in Writers : open'[v].step = "commit" => open'[v].kind \in Kinds
      BY <1>1, <1>2, <1>3 DEF TypeInv, OutboxInv
    <2> QED
      BY <1>1, <1>4, <1>7, <2>1 DEF TypeInv, OutboxInv
  <1> QED
    BY <1>8, <1>9 DEF TypeInv

\* Its event takes that id.
LEMMA EnqueueTypes ==
    ASSUME TypeInv, NEW w \in Writers, Enqueue(w),
           UNCHANGED <<watermark, bucket, payload, locks, pc, task>>
    PROVE  TypeInv'
  <1> DEFINE e1 == [id |-> nextId, kind |-> "account", dedup |-> TRUE]
  <1>1. /\ open[w].step = "enqueue" /\ open' = [open EXCEPT ![w] = Sync(data)]
        /\ UNCHANGED <<data, active, moves>>
        /\ \/ UNCHANGED <<outbox, nextId>>
           \/ outbox' = outbox \cup {e1} /\ nextId' = nextId + 1
    BY DEF Enqueue
  <1>2. /\ nextId \in Nat \ {0} /\ data \in Nat /\ open \in [Writers -> Requests]
        /\ nextId' \in {nextId, nextId + 1} /\ nextId' \in Nat /\ nextId <= nextId'
    BY <1>1, SnapshotAssumption DEF TypeInv, TypeOK, OutboxInv
  <1>3. Sync(data) \in Requests' /\ Sync(data).step = "set"
    <2>1. /\ nextId' \in Nat /\ data' \in Nat /\ nextId <= nextId' /\ data <= data'
          /\ 0 \in 0..(nextId' - 1) /\ data \in 0..data'
      <3>1. data' = data /\ nextId' \in Nat /\ nextId <= nextId' /\ 0 \in 0..(nextId - 1)
        BY <1>1, <1>2
      <3>2. 0 \in 0..(nextId' - 1)
        BY <1>2, <3>1, Longer
      <3>3. data \in 0..data' /\ data <= data' /\ data' \in Nat
        BY <1>2, <3>1
      <3> QED
        BY <3>1, <3>2, <3>3, Zenon
    <2> QED
      BY <1>2, <2>1, Typed DEF Kinds, Sync, Doing
  <1>4. open' \in [Writers -> Requests']
    <2>1. Requests \subseteq Requests'
      BY <1>1, <1>2, Typed
    <2> QED
      BY <1>1, <1>2, <1>3, <2>1
  <1>5. Late' = Late \ {w} /\ Pending' = Pending /\ w \in Late
    BY <1>1, <1>2, <1>3 DEF Pending, Late
  <1>6. /\ Cardinality(Pending) \in Nat /\ Cardinality(Late) \in Nat
        /\ Cardinality(Late') = Cardinality(Late) - 1 /\ Cardinality(Late') \in Nat
    BY <1>5, Counting, FS_RemoveElement, FS_CardinalityType, SnapshotAssumption, FS_Subset
       DEF Late, Writers
  <1>7. /\ data' + Cardinality(Pending') <= MaxChanges
        /\ (nextId' - 1) + Cardinality(Late') <= data' + Cardinality(Pending') + moves'
    BY <1>1, <1>2, <1>5, <1>6, SnapshotAssumption DEF TypeInv, OutboxInv
  <1>8. outbox' \subseteq Events /\ \A e \in outbox' : e.id < nextId'
    <2>1. e1 \in Events
      BY <1>2, <1>6, IdsGivenOut, SnapshotAssumption DEF Events, Kinds
    <2>2. outbox \subseteq Events /\ \A e \in outbox : e.id \in Nat /\ e.id < nextId
      BY SnapshotAssumption DEF TypeInv, TypeOK, OutboxInv, Events
    <2>3. CASE UNCHANGED <<outbox, nextId>>
      BY <2>2, <2>3
    <2>4. CASE outbox' = outbox \cup {e1} /\ nextId' = nextId + 1
      <3>1. e1.id < nextId' /\ \A e \in outbox : e.id < nextId'
        BY <1>2, <2>2, <2>4
      <3> QED
        BY <2>1, <2>2, <2>4, <3>1
    <2> QED
      BY <1>1, <2>3, <2>4
  <1>9. TypeOK'
    <2>1. watermark \in 0..(nextId - 1)
      BY DEF TypeInv, TypeOK
    <2>2. watermark \in 0..(nextId' - 1)
      BY <1>2, <2>1, Longer
    <2> QED
      BY <1>1, <1>8, <2>2 DEF TypeInv, TypeOK
  <1>10. OutboxInv'
    <2>1. \A v \in Writers : open'[v].step = "commit" => open'[v].kind \in Kinds
      BY <1>1, <1>2, <1>3 DEF TypeInv, OutboxInv
    <2>2. \A q \in Procs : task'[q].last \in 0..(nextId' - 1)
      BY <1>2 DEF TypeInv, OutboxInv
    <2> QED
      BY <1>1, <1>2, <1>4, <1>7, <1>8, <2>1, <2>2 DEF TypeInv, OutboxInv
  <1> QED
    BY <1>9, <1>10 DEF TypeInv

\* A request that ends, or dies, leaves no pending change.
LEMMA WriterTypes ==
    ASSUME TypeInv, NEW w \in Writers, SyncSet(w) \/ WriterFails(w)
    PROVE  TypeInv'
  <1>1. /\ open' = [open EXCEPT ![w] = Closed] /\ payload' \in {payload, open[w].data}
        /\ moves' \in {moves, moves + 1} /\ moves' \in 0..MaxMoves
        /\ open[w].step = "set" \/ moves' = moves + 1
        /\ UNCHANGED <<data, active, nextId, outbox, watermark, bucket, locks, pc, task>>
    <2>1. MaxMoves \in Nat /\ moves \in 0..MaxMoves
      BY SnapshotAssumption DEF TypeInv, OutboxInv
    <2>2. CASE SyncSet(w)
      BY <2>1, <2>2 DEF SyncSet
    <2>3. CASE WriterFails(w)
      <3>1. moves < MaxMoves /\ moves' = moves + 1
        BY <2>3 DEF WriterFails
      <3>2. moves' \in 0..MaxMoves
        BY <2>1, <3>1
      <3> QED
        BY <2>3, <3>1, <3>2 DEF WriterFails
    <2> QED
      BY <2>2, <2>3
  <1>2. /\ nextId \in Nat \ {0} /\ data \in Nat /\ open \in [Writers -> Requests]
        /\ moves \in Nat
    BY SnapshotAssumption DEF TypeInv, TypeOK, OutboxInv
  <1>3. Closed \in Requests /\ Closed.step = "idle" /\ open[w].data \in 0..data
    BY <1>2 DEF Requests, Closed, Doing
  <1>4. open' \in [Writers -> Requests'] /\ Requests' = Requests
    BY <1>1, <1>2, <1>3 DEF Requests
  <1>5. Late' = Late \ {w} /\ Pending' = Pending \ {w} /\ (open[w].step = "set" => w \notin Pending)
    BY <1>1, <1>2, <1>3 DEF Pending, Late
  <1>6. ~(w \in Pending /\ w \in Late)
    BY DEF Pending, Late
  <1>7. /\ data' + Cardinality(Pending') <= MaxChanges
        /\ (nextId' - 1) + Cardinality(Late') <= data' + Cardinality(Pending') + moves'
    <2>1. /\ Cardinality(Pending') = Cardinality(Pending) - (IF w \in Pending THEN 1 ELSE 0)
          /\ Cardinality(Late') = Cardinality(Late) - (IF w \in Late THEN 1 ELSE 0)
          /\ Cardinality(Pending) \in Nat /\ Cardinality(Late) \in Nat
      BY <1>5, Counting
    <2>2. w \in Pending => moves' = moves + 1
      BY <1>1, <1>5
    <2> QED
      BY <1>1, <1>2, <1>6, <2>1, <2>2, SnapshotAssumption DEF TypeInv, OutboxInv
  <1>8. TypeOK'
    BY <1>1, <1>3 DEF TypeInv, TypeOK
  <1>9. OutboxInv'
    <2>1. \A v \in Writers : open'[v].step = "commit" => open'[v].kind \in Kinds
      BY <1>1, <1>2, <1>3 DEF TypeInv, OutboxInv
    <2> QED
      BY <1>1, <1>4, <1>7, <2>1 DEF TypeInv, OutboxInv
  <1> QED
    BY <1>8, <1>9 DEF TypeInv

\* The outbox's worker: a batch holds ids that were given out.
LEMMA PollTypes ==
    ASSUME TypeInv, IInv, IInv', NEW p \in Procs, p \in Pollers, Poll(p)
    PROVE  TypeInv'
  <1>1. /\ newer \in Seq(Procs) /\ {bucketLock, lease} \subseteq Procs \cup {Nobody}
        /\ epoch \in Nat \ {0} /\ epoch \in 0..epoch /\ retired \in BOOLEAN
        /\ snapshot \in {Nothing} \cup 0..data /\ payload \in 0..data
        /\ watermark \in 0..(nextId - 1) /\ data \in Nat /\ nextId \in Nat \ {0}
        /\ task[p].data \in 0..data /\ task[p].last \in 0..(nextId - 1)
    BY SnapshotAssumption DEF TypeInv, TypeOK, OutboxInv
  <1>2. TypeOK /\ DOMAIN pc = Procs /\ DOMAIN task = Procs /\ DOMAIN task[p] = Fields
    BY DEF TypeInv, IInv, FenceTypes
  <1>3. CASE PollOutbox(p)
    <2> DEFINE rows == {e \in outbox : e.id > watermark}
    <2>1. PICK newest \in rows :
            /\ outbox' = (outbox \ rows) \cup {[e EXCEPT !.dedup = FALSE] : e \in rows}
            /\ task' = [task EXCEPT ![p] = Kept(Batch(rows), newest.id)]
            /\ pc' = [pc EXCEPT ![p] = After(task'[p].events)]
      BY <1>3 DEF PollOutbox
    <2> DEFINE t == Kept(Batch(rows), newest.id)
    <2>2. /\ UNCHANGED <<data, active, nextId, open, watermark, bucket, payload, locks, moves>>
          /\ outbox \subseteq Events /\ \A e \in outbox : e.id < nextId
      BY <1>3 DEF PollOutbox, TypeInv, TypeOK, OutboxInv
    <2>3. outbox' \subseteq Events /\ \A e \in outbox' : e.id < nextId
      <3>1. \A e \in rows : /\ [e EXCEPT !.dedup = FALSE] \in Events
                            /\ [e EXCEPT !.dedup = FALSE].id < nextId
        BY <2>2 DEF Events
      <3> QED
        BY <2>1, <2>2, <3>1
    <2>4. t.data = 0 /\ t.last = newest.id /\ t.last \in 0..(nextId - 1)
      <3>1. t.data = 0 /\ t.last = newest.id
        BY DEF Kept, NoTask
      <3>2. newest \in Events /\ newest.id < nextId
        BY <2>2
      <3> QED
        BY <1>1, <3>1, <3>2 DEF Events
    <2>5. After(task'[p].events) \in Steps
      BY DEF After, Steps, Leased, Guarded
    <2> HIDE DEF t, rows
    <2>6. \A q \in Procs : task'[q].data \in 0..data /\ task'[q].last \in 0..(nextId - 1)
      <3>1. task' = [task EXCEPT ![p] = t]
        BY <2>1 DEF t
      <3>2. \A q \in Procs : task[q].data \in 0..data /\ task[q].last \in 0..(nextId - 1)
        BY DEF TypeInv, TypeOK, OutboxInv
      <3>3. t.data \in 0..data
        BY <1>1, <2>4, SMTT(30)
      <3> QED
        BY <1>2, <2>4, <3>1, <3>2, <3>3
    <2>7. \A q \in Procs : task'[q].token \in 0..epoch'
      BY DEF IInv, FenceTypes, FenceInv
    <2>8. Pending' = Pending /\ Late' = Late /\ Requests' = Requests
      BY <2>2 DEF Pending, Late, Requests
    <2>9. TypeOK'
      BY <1>2, <2>1, <2>2, <2>3, <2>5, <2>6, <2>7 DEF TypeOK
    <2>10. OutboxInv'
      BY <2>2, <2>3, <2>6, <2>8 DEF TypeInv, OutboxInv
    <2> QED
      BY <2>9, <2>10 DEF TypeInv
  <1>4. CASE HandleAccountEvent(p)
    BY <1>1, <1>2, <1>4, HeldTypes DEF HandleAccountEvent, Holds, TypeOK, Fields, NoTask, Steps
  <1>5. CASE SetAccount(p)
    <2>1. Holds(p)
      BY <1>2, <1>5, EndingsHold DEF SetAccount, Holds, TypeOK, Fields, NoTask, Steps, Guarded, Leased
    <2> QED
      BY <1>1, <1>5, <2>1, HeldTypes DEF SetAccount
  <1>6. CASE SetOutboxWatermark(p)
    BY <1>1, <1>2, <1>6, HeldTypes DEF SetOutboxWatermark, Holds, TypeOK, Steps
  <1>7. CASE CleanupConsumedOutbox(p)
    <2>1. Holds(p) /\ outbox' \subseteq outbox
      BY <1>2, <1>7, EndingsHold DEF CleanupConsumedOutbox
    <2> QED
      BY <1>1, <1>7, <2>1, HeldTypes DEF CleanupConsumedOutbox
  <1> QED
    BY <1>3, <1>4, <1>5, <1>6, <1>7 DEF Poll

\* The group's lifecycle: only a retirement raises the epoch.
LEMMA LifecycleTypes ==
    ASSUME TypeInv, IInv, IInv', NEW p \in Procs, Lifecycle(p)
    PROVE  TypeInv'
  <1>1. /\ newer \in Seq(Procs) /\ {bucketLock, lease} \subseteq Procs \cup {Nobody}
        /\ epoch \in Nat \ {0} /\ epoch \in 0..epoch /\ retired \in BOOLEAN
        /\ snapshot \in {Nothing} \cup 0..data /\ payload \in 0..data
        /\ watermark \in 0..(nextId - 1) /\ outbox \subseteq outbox
    BY SnapshotAssumption DEF TypeInv, TypeOK, OutboxInv
  <1>2. TypeOK /\ DOMAIN pc = Procs /\ DOMAIN task = Procs /\ DOMAIN task[p] = Fields
    BY DEF TypeInv, IInv, FenceTypes
  <1>3. /\ Holds(p) /\ UNCHANGED <<data, active, nextId, open, moves, outbox, watermark,
                                   payload, newer, bucketLock>>
        /\ lease' \in Procs \cup {Nobody}
    <2>1. CASE TryAcquireLease(p)
      BY <1>1, <1>2, <2>1, EndingsHold DEF TryAcquireLease, Holds, TypeOK, Steps, Leased
    <2>2. CASE ReadGroup(p)
      BY <1>1, <1>2, <2>2 DEF ReadGroup, Holds, TypeOK, Steps, Leased
    <2>3. CASE ReopenBucket(p)
      BY <1>1, <1>2, <2>3 DEF ReopenBucket, Holds, TypeOK, Fields, NoTask, Steps, Leased
    <2>4. CASE RetireBucket(p)
      BY <1>1, <1>2, <2>4 DEF RetireBucket, Holds, TypeOK, Fields, NoTask, Steps, Leased
    <2>5. CASE ReleaseLease(p)
      BY <1>1, <1>2, <2>5, EndingsHold DEF ReleaseLease, Holds, TypeOK, Steps
    <2> QED
      BY <2>1, <2>2, <2>3, <2>4, <2>5 DEF Lifecycle
  <1>4. /\ epoch \in 0..epoch' /\ epoch' \in Nat \ {0} /\ retired' \in BOOLEAN
        /\ snapshot' \in {Nothing, snapshot}
    <2>1. CASE RetireBucket(p)
      <3>1. /\ epoch' \in {epoch, epoch + 1}
            /\ retired' = TRUE /\ snapshot' = Nothing
        BY <2>1 DEF RetireBucket, Retire
      <3>2. epoch \in 0..epoch' /\ epoch' \in Nat \ {0}
        BY <1>1, <3>1
      <3> QED
        BY <3>1, <3>2, Z3
    <2>2. CASE ~RetireBucket(p)
      <3>1. UNCHANGED epoch /\ retired' \in {retired, FALSE} /\ snapshot' \in {Nothing, snapshot}
        BY <2>2 DEF Lifecycle, TryAcquireLease, ReadGroup, ReopenBucket, ReleaseLease
      <3> QED
        BY <1>1, <3>1
    <2> QED
      BY <2>1, <2>2
  <1> QED
    BY <1>1, <1>3, <1>4, HeldTypes

\* A rebuild: what is published has been loaded.
LEMMA RebuildTypes ==
    ASSUME TypeInv, IInv, IInv', NEW p \in Procs, Rebuild(p)
    PROVE  TypeInv'
  <1>1. /\ newer \in Seq(Procs) /\ {bucketLock, lease} \subseteq Procs \cup {Nobody}
        /\ epoch \in Nat \ {0} /\ epoch \in 0..epoch /\ retired \in BOOLEAN
        /\ snapshot \in {Nothing} \cup 0..data /\ payload \in 0..data
        /\ watermark \in 0..(nextId - 1) /\ outbox \subseteq outbox
        /\ task[p].data \in 0..data
    BY SnapshotAssumption DEF TypeInv, TypeOK, OutboxInv
  <1>2. TypeOK /\ DOMAIN pc = Procs /\ DOMAIN task = Procs /\ DOMAIN task[p] = Fields
    BY DEF TypeInv, IInv, FenceTypes
  <1>3. /\ UNCHANGED <<data, active, nextId, open, moves, outbox, watermark, epoch, retired,
                       lease>>
        /\ bucketLock' \in Procs \cup {Nobody} /\ payload' \in 0..data
        /\ snapshot' \in {snapshot, task[p].data}
        /\ \/ newer' \in {newer, Append(newer, p), Without(p)}
           \/ p \in ToSet(newer) /\ newer' = Above(p)
    <2>1. CASE ActivateSnapshotVersion(p)
      BY <1>1, <2>1 DEF ActivateSnapshotVersion, MayActivate, Publish
    <2>2. CASE AllocateSnapshotVersion(p)
      BY <1>1, <2>2 DEF AllocateSnapshotVersion
    <2>3. CASE /\ ~ActivateSnapshotVersion(p) /\ ~AllocateSnapshotVersion(p)
      <3>1. UNCHANGED <<newer, snapshot>>
        BY <2>3 DEF Rebuild, CaptureBucketWriteToken, TryLockBucket, LoadAccounts,
           WriteSnapshotVersion, UnlockBucket
      <3>2. bucketLock' \in {bucketLock, p, Nobody} /\ payload' \in {payload, task[p].data}
        BY <2>3 DEF Rebuild, CaptureBucketWriteToken, TryLockBucket, LoadAccounts,
           WriteSnapshotVersion, UnlockBucket
      <3>3. UNCHANGED <<data, active, nextId, open, moves, outbox, watermark, epoch, retired,
                        lease>>
        BY <2>3 DEF Rebuild, CaptureBucketWriteToken, TryLockBucket, LoadAccounts,
           WriteSnapshotVersion, UnlockBucket
      <3> QED
        BY <1>1, <3>1, <3>2, <3>3
    <2> QED
      BY <2>1, <2>2, <2>3
  <1>4. Holds(p)
    <2> USE DEF Steps, Guarded, Leased
    <2>1. CASE CaptureBucketWriteToken(p)
      <3>1. CASE retired
        <4>1. CASE NextEvent(p)
          BY <1>2, <4>1, EndingsHold
        <4>2. CASE Goto(p, "lease") /\ UNCHANGED task
          BY <1>2, <4>2 DEF Holds, TypeOK
        <4> QED
          BY <2>1, <3>1, <4>1, <4>2 DEF CaptureBucketWriteToken
      <3>2. CASE ~retired
        BY <1>2, <2>1, <3>2 DEF CaptureBucketWriteToken, Holds, TypeOK, Fields, NoTask
      <3> QED
        BY <3>1, <3>2
    <2>2. CASE TryLockBucket(p)
      BY <1>2, <2>2, EndingsHold DEF TryLockBucket, Holds, TypeOK
    <2>3. CASE LoadAccounts(p)
      BY <1>2, <2>3 DEF LoadAccounts, Holds, TypeOK, Fields, NoTask
    <2>4. CASE AllocateSnapshotVersion(p)
      BY <1>2, <2>4, EndingsHold DEF AllocateSnapshotVersion, Refused, Holds, TypeOK
    <2>5. CASE WriteSnapshotVersion(p)
      BY <1>2, <2>5 DEF WriteSnapshotVersion, Holds, TypeOK
    <2>6. CASE ActivateSnapshotVersion(p)
      BY <1>2, <2>6, EndingsHold DEF ActivateSnapshotVersion, Holds, TypeOK, Fields, NoTask
    <2>7. CASE UnlockBucket(p)
      BY <1>2, <2>7, EndingsHold DEF UnlockBucket
    <2> QED
      BY <2>1, <2>2, <2>3, <2>4, <2>5, <2>6, <2>7 DEF Rebuild
  <1>5. newer' \in Seq(Procs)
    <2>1. Append(newer, p) \in Seq(Procs)
      BY <1>1
    <2> QED
      BY <1>1, <1>3, <2>1, Versions
  <1> QED
    BY <1>1, <1>3, <1>4, <1>5, HeldTypes

\* The types hold in every step.
LEMMA TypeStep == TypeInv /\ IInv /\ IInv' /\ [Next]_vars => TypeInv'
  <1> SUFFICES ASSUME TypeInv, IInv, IInv', [Next]_vars PROVE TypeInv'
    OBVIOUS
  <1>1. CASE Database
    <2>1. UNCHANGED <<watermark, bucket, payload, locks, pc, task>>
      BY <1>1 DEF Database
    <2>2. ASSUME NEW w \in AccountWriters, UpdateAccount(w) PROVE TypeInv'
      BY <2>1, <2>2, BeginChangeTypes DEF UpdateAccount, Writers, Kinds
    <2>3. ASSUME NEW w \in GroupWriters, UpdateGroup(w) PROVE TypeInv'
      BY <2>1, <2>3, BeginChangeTypes DEF UpdateGroup, Writers, Kinds
    <2> QED
      BY <1>1, <2>1, <2>2, <2>3, CommitTypes, UpdateThenEnqueueTypes, EnqueueTypes
         DEF Database, Writers
  <1>2. ASSUME NEW p \in Procs, Run(p) PROVE TypeInv'
    <2>1. CASE p = Rebuilder /\ RebuildFullSnapshot
      <3>1. /\ Holds(p) /\ newer \in Seq(Procs)
            /\ {bucketLock, lease} \subseteq Procs \cup {Nobody}
            /\ epoch \in Nat \ {0} /\ epoch \in 0..epoch /\ retired \in BOOLEAN
            /\ snapshot \in {Nothing} \cup 0..data /\ payload \in 0..data
            /\ watermark \in 0..(nextId - 1) /\ outbox \subseteq outbox
        BY <2>1, SnapshotAssumption DEF RebuildFullSnapshot, Holds, TypeInv, TypeOK, IInv,
           FenceTypes, Steps, Guarded
      <3> QED
        BY <2>1, <3>1, HeldTypes DEF RebuildFullSnapshot
    <2> QED
      BY <1>2, <2>1, PollTypes, LifecycleTypes, RebuildTypes DEF Run
  <1>3. CASE UNCHANGED vars
    BY <1>3 DEF vars, TypeInv, TypeOK, OutboxInv, Pending, Late, Requests
  <1>4. ASSUME NEW p \in Procs, Crash(p) PROVE TypeInv'
    <2>1. /\ Holds(p) /\ moves' \in 0..MaxMoves /\ moves' = moves + 1 /\ newer' \in Seq(Procs)
          /\ UNCHANGED <<database, watermark, epoch, retired, snapshot, payload, locks>>
      <3>1. moves < MaxMoves /\ moves' = moves + 1 /\ Stop(p) /\ newer' = Without(p)
        BY <1>4 DEF Crash
      <3>2. moves' \in 0..MaxMoves
        BY <3>1, SnapshotAssumption DEF TypeInv, OutboxInv
      <3>3. Holds(p) /\ newer' \in Seq(Procs)
        BY <3>1, EndingsHold, Versions DEF TypeInv, TypeOK
      <3> QED
        BY <1>4, <3>1, <3>2, <3>3 DEF Crash
    <2>2. \A q \in Procs : /\ task'[q].data \in 0..data /\ task'[q].last \in 0..(nextId - 1)
                           /\ task'[q].token \in 0..epoch'
      <3>1. \A q \in Procs : task[q].data \in 0..data /\ task[q].last \in 0..(nextId - 1)
        BY DEF TypeInv, TypeOK, OutboxInv
      <3>2. 0 \in 0..data /\ data \in 0..data /\ 0 \in 0..(nextId - 1)
        BY SnapshotAssumption DEF TypeInv, TypeOK, OutboxInv
      <3>3. task'[p].data \in 0..data /\ task'[p].last \in 0..(nextId - 1)
        BY <2>1, <3>1, <3>2 DEF Holds
      <3>4. \A q \in Procs : task'[q].token \in 0..epoch'
        BY DEF IInv, FenceTypes, FenceInv
      <3> QED
        BY <2>1, <3>1, <3>3, <3>4 DEF Holds
    <2>3. TypeOK'
      BY <2>1, <2>2 DEF TypeInv, TypeOK, Holds
    <2>4. OutboxInv'
      BY <2>1, <2>2, Counting DEF TypeInv, TypeOK, OutboxInv, Pending, Late, Requests
    <2> QED
      BY <2>3, <2>4 DEF TypeInv
  <1>5. ASSUME NEW r \in Readers, ListSchedulableAccounts(r) PROVE TypeInv'
    <2>1. r \in Procs /\ Holds(r)
      BY <1>5 DEF ListSchedulableAccounts, Procs, Holds, TypeInv, TypeOK,
         IInv, FenceTypes, Steps, Guarded, Fields, NoTask
    <2>2. /\ newer \in Seq(Procs) /\ {bucketLock, lease} \subseteq Procs \cup {Nobody}
          /\ epoch \in Nat \ {0} /\ epoch \in 0..epoch /\ retired \in BOOLEAN
          /\ snapshot \in {Nothing} \cup 0..data /\ payload \in 0..data
          /\ watermark \in 0..(nextId - 1) /\ outbox \subseteq outbox
      BY SnapshotAssumption DEF TypeInv, TypeOK, OutboxInv
    <2> QED
      BY <1>5, <2>1, <2>2, HeldTypes DEF ListSchedulableAccounts
  <1>6. CASE BucketLockExpires \/ LeaseExpires
    <2>1. /\ UNCHANGED <<database, watermark, bucket, payload, pc, task>>
          /\ bucketLock' \in {bucketLock, Nobody} /\ lease' \in {lease, Nobody}
          /\ moves' \in {moves, moves + 1} /\ moves' \in 0..MaxMoves
      <3>1. moves' = moves \/ (moves < MaxMoves /\ moves' = moves + 1)
        BY <1>6 DEF BucketLockExpires, LeaseExpires
      <3>2. moves' \in {moves, moves + 1} /\ moves' \in 0..MaxMoves
        BY <3>1, SnapshotAssumption DEF TypeInv, OutboxInv
      <3>3. /\ UNCHANGED <<database, watermark, bucket, payload, pc, task>>
            /\ bucketLock' \in {bucketLock, Nobody} /\ lease' \in {lease, Nobody}
        BY <1>6 DEF BucketLockExpires, LeaseExpires
      <3> QED
        BY <3>2, <3>3
    <2>2. TypeOK'
      BY <2>1 DEF TypeInv, TypeOK
    <2>3. OutboxInv'
      BY <2>1, Counting DEF TypeInv, TypeOK, OutboxInv, Pending, Late, Requests
    <2> QED
      BY <2>2, <2>3 DEF TypeInv
  <1> QED
    BY <1>1, <1>2, <1>3, <1>4, <1>5, <1>6, WriterTypes DEF Next

\* TypeOK: no event without an id that was given out, no watermark beyond
\* them, no snapshot or payload ahead of the database, no token ahead of the
\* bucket's epoch, and no lock or version of an unknown process.
THEOREM TypeCorrect == Spec => []TypeOK
  <1>1. Init => TypeInv
    <2> SUFFICES ASSUME Init PROVE TypeInv
      OBVIOUS
    <2>1. Pending = {} /\ Late = {} /\ Cardinality({}) = 0
      BY FS_EmptySet DEF Init, Pending, Late, Closed, Doing
    <2>2. TypeOK
      <3>1. NoTask.data = 0 /\ NoTask.token = 0
        BY DEF NoTask
      <3>2. /\ data = 0 /\ epoch = 1 /\ nextId = 1 /\ watermark = 0 /\ snapshot = 0
            /\ payload = 0 /\ outbox = {} /\ newer = <<>> /\ active = TRUE /\ retired = FALSE
            /\ bucketLock = Nobody /\ lease = Nobody /\ pc \in [Procs -> Steps]
            /\ \A p \in Procs : task[p].data = 0 /\ task[p].token = 0
        BY <3>1 DEF Init, Steps
      <3>3. /\ data \in 0..MaxChanges /\ epoch \in Nat \ {0} /\ newer \in Seq(Procs)
            /\ watermark \in 0..(nextId - 1) /\ payload \in 0..data
            /\ snapshot \in {Nothing} \cup 0..data
        BY <3>2, SnapshotAssumption
      <3>4. \A p \in Procs : task[p].data \in 0..data /\ task[p].token \in 0..epoch
        BY <3>2
      <3>5. outbox \subseteq Events /\ active \in BOOLEAN /\ retired \in BOOLEAN
            /\ {bucketLock, lease} \subseteq Procs \cup {Nobody}
        BY <3>2
      <3> QED
        BY <3>2, <3>3, <3>4, <3>5 DEF TypeOK
    <2>3. OutboxInv
      BY <2>1, SnapshotAssumption DEF Init, OutboxInv, Requests, Closed, Doing, NoTask
    <2> QED
      BY <2>2, <2>3 DEF TypeInv
  <1>2. TypeInv => TypeOK
    BY DEF TypeInv
  <1> QED
    BY <1>1, <1>2, Invariance, TypeStep, PTL DEF Spec

=============================================================================

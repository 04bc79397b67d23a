------------------------- MODULE OAuthRefresh_proofs -------------------------
(***************************************************************************)
(* Proofs about OAuthRefresh, for any number of instances, cycles and      *)
(* requests, and any number of tokens, writes and faults.                  *)
(***************************************************************************)
EXTENDS OAuthRefresh, TLAPS

Crossed  == ~Grok /\ "crossed" \in past
Degraded == ~Grok /\ past \cap {"degraded", "overrun"} # {}

\* What may make the verdict on an account wrong.
Excepted == Crossed \/ Degraded \/ "halfway" \in past

\* The attempt goes on, and no deadline has ended it.
Driving(w) == worker[w].step \in Section \ {"release"} /\ ~worker[w].late

\* Its token was refused, by the provider.
Refused(w) ==
    \/ worker[w].step = "recover"
    \/ worker[w].step \in {"release", "after"} /\ worker[w].out = "refused"

\* Tokens are in use only once they are issued.
IssuedInv ==
    /\ row.rt <= issued
    /\ \A t \in accepted : t <= issued
    /\ \A w \in Workers : worker[w].seen.rt <= issued /\ worker[w].got <= issued
    /\ admin.token <= issued /\ admin.seen.rt <= issued

\* A token that was rotated stays in its family; what an administrator is
\* going to write descends from what was in the row, or is the newest.
FamilyInv ==
    /\ granted <= writes
    /\ \A t \in Tokens : family[t] <= writes
    /\ ReauthorizationStands
    /\ admin.step = "write" /\ admin.kind = "edit" =>
         admin.token = admin.seen.rt /\ (family[admin.token] >= granted \/ Crossed)
    /\ \A w \in Workers :
         /\ worker[w].step = "persist" => family[worker[w].got] = family[worker[w].seen.rt]
         /\ worker[w].step \in {"sent", "persist"} =>
               Grok \/ family[worker[w].seen.rt] >= granted \/ Crossed

\* Who goes on has the lease.
LeaseInv ==
    /\ \A w \in Workers : worker[w].late => worker[w].step \in {"sent", "persist", "release"}
    /\ ~Degraded =>
         \A w \in Workers : Driving(w) => lease = w /\ worker[w].own

\* Without the comparison of Grok's store nothing but the lease keeps the row
\* as it was read.
SameInv ==
    ~Grok /\ ~Excepted =>
        \A w \in Workers :
            \/ Driving(w) /\ worker[w].step # "reread"
            \/ Refused(w)
            => row.rt = worker[w].seen.rt

\* The token that a verdict is about: on the row, in a copy of it that an
\* administrator is going to write, or in the hands of a worker.
Condemned(t) ==
    \/ t = row.rt /\ (row.failed \/ (row.status = "error" /\ admin.step # "clear"))
    \/ /\ admin.step = "write" /\ admin.kind = "edit"
       /\ t = admin.seen.rt /\ (admin.seen.failed \/ admin.seen.status = "error")
    \/ \E w \in Workers : Refused(w) /\ t = worker[w].seen.rt

\* Who rotated the token and is about to store what came of it.
Storing(w) == worker[w].step = "persist" /\ ~worker[w].late

\* No verdict is about a token that works, or that was rotated just now.
VerdictInv ==
    ~Excepted => \A t \in Tokens : Condemned(t) =>
        t \notin accepted /\ \A w \in Workers : Storing(w) => t # worker[w].seen.rt

\* No token was lost.
Lossless == past \cap Losses = {}

Sent(w)     == worker[w].step = "sent"
Rotated(w)  == worker[w].step = "persist"
Granting    == admin.step = "write" /\ admin.kind # "edit"

\* Where the token that the provider accepts is.
KeptInv ==
    \/ row.rt \in accepted
    \/ \E w \in Workers : Holds(w)
    \/ admin.step = "write" /\ admin.token \in accepted

\* A request is made with the token of the row, or with a dead one.
SentInv ==
    \A w \in Workers : Sent(w) =>
        \/ worker[w].seen.rt \notin accepted
        \/ row.rt = worker[w].seen.rt /\ (Grok => Unchanged(w))

\* There is one rotation at a time, and the token of the row is dead until what
\* came of it is stored.
RotatedInv ==
    \A w \in Workers : Rotated(w) =>
        /\ row.rt \notin accepted
        /\ \A v \in Workers : Rotated(v) => v = w
        /\ Holds(w) \/ Granting
        /\ Storing(w) /\ Grok => Unchanged(w)
        /\ worker[w].got # row.rt
        /\ \A v \in Workers : Sent(v) => worker[v].seen.rt # worker[w].got

\* Nobody else knows yet what an administrator was granted.
GrantInv ==
    Granting =>
        /\ admin.token \in accepted /\ admin.token # row.rt
        /\ \A w \in Workers : /\ Sent(w) => worker[w].seen.rt # admin.token
                              /\ Rotated(w) => worker[w].got # admin.token

TokenInv == Lossless => KeptInv /\ SentInv /\ RotatedInv /\ GrantInv

\* The inductive invariant.
IInv ==
    /\ TypeOK /\ IssuedInv /\ FamilyInv
    /\ LeaseInv /\ SameInv /\ VerdictInv
    /\ TokenInv

USE DEF NoFault, Record, Grok, provider, history

-----------------------------------------------------------------------------
(* Types.                                                                  *)

StepNames == {"idle", "lock", "after"} \cup Section
Outcomes  == {"none", "skip", "contained", "retry", "refused", "done"}

WorkerStates ==
    [step : StepNames, seen : Rows, got : Tokens, late : BOOLEAN, forced : BOOLEAN,
     tries : 0..(MaxRetries - 1), own : BOOLEAN, out : Outcomes]

AdminStates ==
    [step : {"idle", "write", "clear"}, seen : Rows, token : Tokens,
     kind : {"edit", "apply", "device"}]

WorkerTypes == worker \in [Workers -> WorkerStates]
AdminTypes  == admin \in AdminStates
PlainTypes  ==
    /\ platform \in {"grok", "other"}
    /\ row \in Rows
    /\ age \in [Tokens -> {"fresh", "due", "expired"}]
    /\ accepted \subseteq Tokens /\ issued \in Tokens
    /\ family \in [Tokens -> 0..MaxWrites] /\ granted \in 0..MaxWrites
    /\ lease \in Workers \cup {NoWorker}
    /\ writes \in 0..MaxWrites /\ faults \in 0..MaxFaults
    /\ past \subseteq Events

\* TypeOK, by who keeps what.
LEMMA TypeParts == TypeOK <=> WorkerTypes /\ AdminTypes /\ PlainTypes
  BY DEF TypeOK, WorkerTypes, AdminTypes, PlainTypes, WorkerStates, AdminStates, StepNames,
     Outcomes

\* The constants of the model are of their types.
LEMMA FirstTypes ==
    /\ 0 \in Tokens /\ FirstRow \in Rows /\ Resting \in WorkerStates
    /\ NoRequest \in AdminStates
  <1>1. 0 \in Tokens /\ FirstRow \in Rows
    BY RefreshAssumption DEF Tokens, FirstRow, Rows
  <1> QED
    BY <1>1, RefreshAssumption DEF Resting, NoRequest, WorkerStates, AdminStates, Section,
       StepNames, Outcomes

\* What a worker's state is.
LEMMA WorkerFields ==
    ASSUME WorkerTypes, NEW w \in Workers
    PROVE  /\ worker[w].step \in StepNames /\ worker[w].seen \in Rows
           /\ worker[w].got \in Tokens /\ worker[w].late \in BOOLEAN
           /\ worker[w].tries \in 0..(MaxRetries - 1)
           /\ worker[w].own \in BOOLEAN /\ worker[w].out \in Outcomes
  BY DEF WorkerTypes, WorkerStates

\* A worker comes to step s, with the account x and the token t in hand; the
\* others stay what they are.
Comes(w, s, x, t, late, own, out) ==
    /\ WorkerTypes'
    /\ worker'[w].step = s /\ worker'[w].seen = x /\ worker'[w].got = t
    /\ worker'[w].late = late /\ worker'[w].own = own /\ worker'[w].out = out
    /\ \A v \in Workers \ {w} : worker'[v] = worker[v]

\* To the next step.
LEMMA Going ==
    ASSUME WorkerTypes, NEW w \in Workers, NEW s \in StepNames, Goto(w, s)
    PROVE  Comes(w, s, worker[w].seen, worker[w].got, worker[w].late, worker[w].own, worker[w].out)
  BY DEF Goto, Becomes, Comes, WorkerTypes, WorkerStates

\* Out of the critical section.
LEMMA Leaving ==
    ASSUME WorkerTypes, NEW w \in Workers, NEW o \in Outcomes, NEW x \in Rows, Leave(w, o, x)
    PROVE  Comes(w, "release", x, 0, worker[w].late, worker[w].own, o)
  <1> DEFINE r == [worker[w] EXCEPT !.step = "release", !.out = o, !.got = 0, !.seen = x]
  <1>1. worker[w] \in WorkerStates /\ 0 \in Tokens
    BY FirstTypes DEF WorkerTypes
  <1>2. /\ r \in WorkerStates
        /\ r.step = "release" /\ r.seen = x /\ r.got = 0
        /\ r.late = worker[w].late /\ r.own = worker[w].own /\ r.out = o
    BY <1>1 DEF WorkerStates, StepNames, Section
  <1>3. worker' = [worker EXCEPT ![w] = r]
    BY DEF Leave, Becomes
  <1> HIDE DEF r
  <1> QED BY <1>2, <1>3 DEF Comes, WorkerTypes

\* To rest.
LEMMA Sleeping ==
    ASSUME WorkerTypes, NEW w \in Workers, Rest(w)
    PROVE  Comes(w, "idle", FirstRow, 0, FALSE, FALSE, "none")
  <1>1. /\ Resting.step = "idle" /\ Resting.seen = FirstRow /\ Resting.got = 0
        /\ ~Resting.late /\ ~Resting.own /\ Resting.out = "none"
    BY DEF Resting
  <1> QED BY <1>1, FirstTypes DEF Rest, Becomes, Comes, WorkerTypes

\* Back to the caller.
LEMMA Returning ==
    ASSUME WorkerTypes, NEW w \in Workers, NEW o \in Outcomes, Return(w, o)
    PROVE  \/ Comes(w, "idle", FirstRow, 0, FALSE, FALSE, "none")
           \/ Comes(w, "after", worker[w].seen, 0, FALSE, FALSE, o)
  <1> DEFINE r == [Resting EXCEPT !.step = "after", !.out = o, !.seen = worker[w].seen,
                                  !.tries = worker[w].tries]
  <1>1. CASE Rest(w)
    BY <1>1, Sleeping
  <1>2. CASE Becomes(w, r)
    <2>1. /\ r \in WorkerStates
          /\ r.step = "after" /\ r.seen = worker[w].seen /\ r.got = 0
          /\ r.late = FALSE /\ r.own = FALSE /\ r.out = o
      BY FirstTypes, WorkerFields DEF Resting, WorkerStates, StepNames, Outcomes, Section
    <2>2. worker' = [worker EXCEPT ![w] = r]
      BY <1>2 DEF Becomes
    <2> HIDE DEF r
    <2> QED BY <2>1, <2>2 DEF Comes, WorkerTypes
  <1> QED
    BY <1>1, <1>2 DEF Return

-----------------------------------------------------------------------------
(* What each step does.                                                    *)

World == <<platform, row, age, accepted, issued, family, granted, past, lease, admin, writes>>

FaultTypes == faults \in 0..MaxFaults

\* The result is with the caller.
Ended(w, o) ==
    \/ Comes(w, "idle", FirstRow, 0, FALSE, FALSE, "none")
    \/ Comes(w, "after", worker[w].seen, 0, FALSE, FALSE, o)

\* The critical section is over, with one of the outcomes O.
Left(w, O) ==
    \E o \in O, x \in Rows :
        /\ x.rt \in {row.rt, worker[w].seen.rt}
        /\ Comes(w, "release", x, 0, worker[w].late, worker[w].own, o)

\* An attempt begins; nothing else changes.
LEMMA BeginEffect ==
    ASSUME TypeOK, NEW w \in Workers, Begin(w)
    PROVE  /\ worker[w].step = "idle" /\ UNCHANGED World /\ FaultTypes'
           /\ \E x \in {row, FirstRow} :
                 Comes(w, "lock", x, worker[w].got, worker[w].late, worker[w].own, worker[w].out)
  <1>1. WorkerTypes /\ row \in Rows /\ FirstRow \in Rows /\ FaultTypes
    BY TypeParts, FirstTypes DEF PlainTypes, FaultTypes
  <1>2. PICK x \in {row, FirstRow}, forced \in BOOLEAN :
           worker' = [worker EXCEPT ![w] = [worker[w] EXCEPT !.step = "lock", !.forced = forced,
                                                             !.seen = x]]
    BY DEF Begin, Becomes
  <1>3. Comes(w, "lock", x, worker[w].got, worker[w].late, worker[w].own, worker[w].out)
    BY <1>1, <1>2 DEF Comes, WorkerTypes, WorkerStates, StepNames
  <1> QED BY <1>1, <1>3 DEF Begin, World, FaultTypes

\* It ends there, or goes on with the lease or, but for Grok, without.
LEMMA LockEffect ==
    ASSUME TypeOK, NEW w \in Workers, Lock(w)
    PROVE  /\ worker[w].step = "lock" /\ FaultTypes'
           /\ UNCHANGED <<platform, row, age, accepted, issued, family, granted, admin, writes>>
           /\ \/ /\ \E o \in {"skip", "retry"} : Ended(w, o)
                 /\ lease' = lease \/ (lease = NoWorker /\ lease' = w)
                 /\ past' = past
              \/ /\ Comes(w, "reread", worker[w].seen, worker[w].got, worker[w].late, TRUE,
                          worker[w].out)
                 /\ lease = NoWorker /\ lease' = w /\ past' = past
              \/ /\ Comes(w, "reread", worker[w].seen, worker[w].got, worker[w].late,
                          worker[w].own, worker[w].out)
                 /\ ~Grok /\ past' = past \cup {"degraded"}
                 /\ lease' = lease \/ (lease = NoWorker /\ lease' = w)
  <1>1. WorkerTypes /\ FaultTypes
    BY TypeParts DEF PlainTypes, FaultTypes
  <1>2. \A o \in {"skip", "retry"} : Return(w, o) => Ended(w, o)
    BY <1>1, Returning DEF Ended, Outcomes
  <1> DEFINE r == [worker[w] EXCEPT !.step = "reread", !.own = TRUE]
  <1>3. Becomes(w, r)
          => Comes(w, "reread", worker[w].seen, worker[w].got, worker[w].late, TRUE, worker[w].out)
    <2>1. /\ r \in WorkerStates
          /\ r.step = "reread" /\ r.seen = worker[w].seen /\ r.got = worker[w].got
          /\ r.late = worker[w].late /\ r.own = TRUE /\ r.out = worker[w].out
      BY <1>1 DEF WorkerTypes, WorkerStates, StepNames, Section
    <2>2. Becomes(w, r) => worker' = [worker EXCEPT ![w] = r]
      BY DEF Becomes
    <2> HIDE DEF r
    <2> QED BY <1>1, <2>1, <2>2 DEF Comes, WorkerTypes
  <1>4. Goto(w, "reread")
          => Comes(w, "reread", worker[w].seen, worker[w].got, worker[w].late, worker[w].own,
                   worker[w].out)
    BY <1>1, Going DEF StepNames, Section
  <1>5. (Fault \/ NoFault) => FaultTypes'
    BY <1>1, RefreshAssumption DEF Fault, FaultTypes
  <1> QED BY <1>2, <1>3, <1>4, <1>5 DEF Lock

\* It goes on with the account as it is now, or ends.
LEMMA RereadEffect ==
    ASSUME TypeOK, NEW w \in Workers, Reread(w)
    PROVE  /\ worker[w].step = "reread" /\ UNCHANGED World /\ FaultTypes'
           /\ \/ Left(w, {"skip", "contained", "retry"})
              \/ /\ row.status = "active"
                 /\ Comes(w, "sent", row, worker[w].got, worker[w].late, worker[w].own,
                          worker[w].out)
  <1>1. WorkerTypes /\ FaultTypes /\ row \in Rows /\ worker[w].seen \in Rows
    BY TypeParts, WorkerFields DEF PlainTypes, FaultTypes
  <1>2. \A o \in {"contained", "retry"} :
          Leave(w, o, worker[w].seen) => Left(w, {"skip", "contained", "retry"})
    BY <1>1, Leaving DEF Left, Outcomes
  <1>3. Leave(w, "skip", row) => Left(w, {"skip", "contained", "retry"})
    BY <1>1, Leaving DEF Left, Outcomes
  <1> DEFINE r == [worker[w] EXCEPT !.step = "sent", !.seen = row]
  <1>4. Becomes(w, r)
          => Comes(w, "sent", row, worker[w].got, worker[w].late, worker[w].own, worker[w].out)
    <2>1. /\ r \in WorkerStates
          /\ r.step = "sent" /\ r.seen = row /\ r.got = worker[w].got
          /\ r.late = worker[w].late /\ r.own = worker[w].own /\ r.out = worker[w].out
      BY <1>1 DEF WorkerTypes, WorkerStates, StepNames, Section
    <2>2. Becomes(w, r) => worker' = [worker EXCEPT ![w] = r]
      BY DEF Becomes
    <2> HIDE DEF r
    <2> QED BY <1>1, <2>1, <2>2 DEF Comes, WorkerTypes
  <1>5. (Fault \/ NoFault) => FaultTypes'
    BY <1>1, RefreshAssumption DEF Fault, FaultTypes
  <1> QED BY <1>2, <1>3, <1>4, <1>5 DEF Reread, Eligible, Usable, World

\* The token is rotated and in hand, refused, or not heard of again.
LEMMA AnswerEffect ==
    ASSUME TypeOK, NEW w \in Workers, Answer(w) \/ GiveUp(w)
    PROVE  /\ worker[w].step = "sent" /\ FaultTypes'
           /\ UNCHANGED <<platform, row, age, granted, lease, admin, writes>>
           /\ \/ /\ ~worker[w].late /\ Rotate(worker[w].seen.rt) /\ past' = past
                 /\ Comes(w, "persist", worker[w].seen, issued + 1, worker[w].late,
                          worker[w].own, worker[w].out)
              \/ /\ ~worker[w].late /\ worker[w].seen.rt \notin accepted
                 /\ UNCHANGED <<accepted, issued, family, past>>
                 /\ Comes(w, "recover", worker[w].seen, worker[w].got, worker[w].late,
                          worker[w].own, worker[w].out)
              \/ /\ Left(w, {"contained", "retry"})
                 /\ \/ UNCHANGED <<accepted, issued, family, past>>
                    \/ /\ Rotate(worker[w].seen.rt)
                       /\ past' = past \cup {"lost"} \/ past' = past \cup {"late"}
  <1>1. WorkerTypes /\ FaultTypes /\ worker[w].seen \in Rows /\ issued \in Tokens
    BY TypeParts, WorkerFields DEF PlainTypes, FaultTypes
  <1>2. \A o \in {"contained", "retry"} :
          Leave(w, o, worker[w].seen) => Left(w, {"contained", "retry"})
    BY <1>1, Leaving DEF Left, Outcomes
  <1> DEFINE r == [worker[w] EXCEPT !.step = "persist", !.got = issued + 1]
  <1>3. /\ Becomes(w, r)
        /\ Rotate(worker[w].seen.rt)
        => Comes(w, "persist", worker[w].seen, issued + 1, worker[w].late, worker[w].own,
                 worker[w].out)
    <2>1. Rotate(worker[w].seen.rt) => issued + 1 \in Tokens
      BY <1>1, RefreshAssumption DEF Rotate, Issue, Tokens
    <2>2. issued + 1 \in Tokens =>
             /\ r \in WorkerStates
             /\ r.step = "persist" /\ r.seen = worker[w].seen /\ r.got = issued + 1
             /\ r.late = worker[w].late /\ r.own = worker[w].own /\ r.out = worker[w].out
      BY <1>1 DEF WorkerTypes, WorkerStates, StepNames, Section
    <2>3. Becomes(w, r) => worker' = [worker EXCEPT ![w] = r]
      BY DEF Becomes
    <2> HIDE DEF r
    <2> QED BY <1>1, <2>1, <2>2, <2>3 DEF Comes, WorkerTypes
  <1>4. Goto(w, "recover")
          => Comes(w, "recover", worker[w].seen, worker[w].got, worker[w].late,
                   worker[w].own, worker[w].out)
    BY <1>1, Going DEF StepNames, Section
  <1>5. (Fault \/ NoFault) => FaultTypes'
    BY <1>1, RefreshAssumption DEF Fault, FaultTypes
  <1>6. CASE Answer(w)
    BY <1>2, <1>3, <1>4, <1>5, <1>6 DEF Answer
  <1>7. CASE GiveUp(w)
    BY <1>2, <1>5, <1>7 DEF GiveUp
  <1> QED BY <1>6, <1>7

\* The refusal stands, or someone else spent the token.
LEMMA RecoverEffect ==
    ASSUME TypeOK, NEW w \in Workers, Recover(w)
    PROVE  /\ worker[w].step = "recover" /\ UNCHANGED World /\ FaultTypes'
           /\ \/ Left(w, {"skip", "retry"})
              \/ Comes(w, "release", worker[w].seen, 0, worker[w].late, worker[w].own, "refused")
  <1>1. WorkerTypes /\ FaultTypes /\ row \in Rows /\ worker[w].seen \in Rows
    BY TypeParts, WorkerFields DEF PlainTypes, FaultTypes
  <1>2. /\ Leave(w, "skip", row) => Left(w, {"skip", "retry"})
        /\ Leave(w, "retry", worker[w].seen) => Left(w, {"skip", "retry"})
    BY <1>1, Leaving DEF Left, Outcomes
  <1>3. Leave(w, "refused", worker[w].seen)
          => Comes(w, "release", worker[w].seen, 0, worker[w].late, worker[w].own, "refused")
    BY <1>1, Leaving DEF Outcomes
  <1>4. (Fault \/ NoFault) => FaultTypes'
    BY <1>1, RefreshAssumption DEF Fault, FaultTypes
  <1> QED BY <1>2, <1>3, <1>4 DEF Recover, World

\* Something is stored only over what Matches.
LEMMA PersistEffect ==
    ASSUME TypeOK, NEW w \in Workers, Persist(w)
    PROVE  /\ worker[w].step = "persist" /\ FaultTypes'
           /\ UNCHANGED <<platform, age, accepted, issued, family, granted, lease, admin, writes>>
           /\ Left(w, {"done", "skip", "contained", "retry"})
           /\ \/ /\ ~worker[w].late /\ Matches(w) /\ past' = past
                 /\ row' = Stored(w)
              \/ /\ row' = row
                 /\ \/ ~worker[w].late /\ ~Matches(w) /\ past' = past
                    \/ ~Holds(w) /\ past' = past
                    \/ Holds(w) /\ past' = past \cup {"unsaved"}
                    \/ Holds(w) /\ past' = past \cup {"late"}
  <1>1. WorkerTypes /\ FaultTypes /\ row \in Rows /\ worker[w].seen \in Rows
    BY TypeParts, WorkerFields DEF PlainTypes, FaultTypes
  <1> DEFINE kept  == [worker[w].seen EXCEPT !.cooldown = IF Grok THEN row.cooldown ELSE @]
             ends  == Left(w, {"done", "skip", "contained", "retry"})
  <1>2. kept \in Rows /\ kept.rt = worker[w].seen.rt
    BY <1>1 DEF Rows
  <1>3. Leave(w, "done", kept) => ends
    <2> HIDE DEF kept
    <2> QED BY <1>1, <1>2, Leaving DEF Left, Outcomes
  <1>4. /\ Leave(w, "skip", row) => ends
        /\ \A o \in {"contained", "retry"} : Leave(w, o, worker[w].seen) => ends
    BY <1>1, Leaving DEF Left, Outcomes
  <1>5. (Fault \/ NoFault) => FaultTypes'
    BY <1>1, RefreshAssumption DEF Fault, FaultTypes
  <1> HIDE DEF ends
  <1>6. ends
    BY <1>3, <1>4 DEF Persist
  <1>7. FaultTypes' /\ UNCHANGED <<platform, age, accepted, issued, family, granted, lease, admin, writes>>
    BY <1>5 DEF Persist
  <1>8. \/ /\ ~worker[w].late /\ Matches(w) /\ past' = past
           /\ row' = Stored(w)
        \/ /\ row' = row
           /\ \/ ~worker[w].late /\ ~Matches(w) /\ past' = past
              \/ ~Holds(w) /\ past' = past
              \/ Holds(w) /\ past' = past \cup {"unsaved"}
              \/ Holds(w) /\ past' = past \cup {"late"}
    BY DEF Persist
  <1>9. worker[w].step = "persist"
    BY DEF Persist
  <1> QED BY <1>6, <1>7, <1>8, <1>9 DEF ends

\* The lease is let go, if it is still the own one.
LEMMA ReleaseEffect ==
    ASSUME TypeOK, NEW w \in Workers, Release(w)
    PROVE  /\ worker[w].step = "release" /\ FaultTypes'
           /\ UNCHANGED <<platform, row, age, accepted, issued, family, granted, past, admin, writes>>
           /\ Ended(w, worker[w].out)
           /\ lease' = lease \/ (lease = w /\ lease' = NoWorker)
  <1>1. WorkerTypes /\ FaultTypes /\ worker[w].out \in Outcomes
    BY TypeParts, WorkerFields DEF PlainTypes, FaultTypes
  <1>2. Return(w, worker[w].out) => Ended(w, worker[w].out)
    BY <1>1, Returning DEF Ended
  <1>3. (Fault \/ NoFault) => FaultTypes'
    BY <1>1, RefreshAssumption DEF Fault, FaultTypes
  <1> QED BY <1>2, <1>3 DEF Release

\* What follows a refresh.
LEMMA AfterEffect ==
    ASSUME TypeOK, NEW w \in Workers, PostRefresh(w) \/ Retry(w) \/ Condemn(w)
    PROVE  /\ worker[w].step = "after" /\ FaultTypes'
           /\ UNCHANGED <<platform, age, accepted, issued, family, granted, past, lease, admin, writes>>
           /\ \/ Comes(w, "idle", FirstRow, 0, FALSE, FALSE, "none")
              \/ Comes(w, "lock", worker[w].seen, 0, FALSE, FALSE, "none")
           /\ \/ row' = row
              \/ \E b \in BOOLEAN : row' = [row EXCEPT !.cooldown = b]
              \/ /\ worker[w].out = "refused" /\ Mine(w)
                 /\ row' \in {[row EXCEPT !.failed = TRUE],
                             [row EXCEPT !.status = "error", !.schedulable = FALSE]}
  <1>1. WorkerTypes /\ FaultTypes
    BY TypeParts DEF PlainTypes, FaultTypes
  <1>2. Rest(w) => Comes(w, "idle", FirstRow, 0, FALSE, FALSE, "none")
    BY <1>1, Sleeping
  <1>3. (Fault \/ NoFault) => FaultTypes'
    BY <1>1, RefreshAssumption DEF Fault, FaultTypes
  <1>4. CASE PostRefresh(w)
    BY <1>2, <1>3, <1>4 DEF PostRefresh
  <1>5. CASE Condemn(w)
    BY <1>2, <1>3, <1>5 DEF Condemn
  <1>6. CASE Retry(w)
    <2> DEFINE r == [Resting EXCEPT !.step = "lock", !.seen = worker[w].seen,
                                    !.tries = worker[w].tries + 1]
    <2>1. MoreTries(w) =>
             /\ r \in WorkerStates
             /\ r.step = "lock" /\ r.seen = worker[w].seen /\ r.got = 0
             /\ r.late = FALSE /\ r.own = FALSE /\ r.out = "none"
      <3>1. MoreTries(w) => worker[w].tries + 1 \in 0..(MaxRetries - 1)
        BY <1>1, WorkerFields, RefreshAssumption DEF MoreTries
      <3>2. worker[w].seen \in Rows
        BY <1>1, WorkerFields
      <3>3. \A n \in 0..(MaxRetries - 1), x \in Rows :
               LET q == [Resting EXCEPT !.step = "lock", !.seen = x, !.tries = n]
               IN  /\ q \in WorkerStates /\ q.step = "lock" /\ q.seen = x /\ q.got = 0
                   /\ q.late = FALSE /\ q.own = FALSE /\ q.out = "none"
        BY FirstTypes DEF Resting, WorkerStates, StepNames, Outcomes, Section
      <3> QED BY <3>1, <3>2, <3>3, ZenonT(30)
    <2>2. Becomes(w, r) => worker' = [worker EXCEPT ![w] = r]
      BY DEF Becomes
    <2>3. MoreTries(w) /\ Becomes(w, r) => Comes(w, "lock", worker[w].seen, 0, FALSE, FALSE, "none")
      <3> HIDE DEF r
      <3> QED BY <1>1, <2>1, <2>2 DEF Comes, WorkerTypes
    <2>4. worker[w].step = "after" /\ ((MoreTries(w) /\ Becomes(w, r)) \/ Rest(w)) /\ FaultTypes'
      BY <1>3, <1>6 DEF Retry
    <2>5. row' = row \/ row' = [row EXCEPT !.cooldown = TRUE]
      BY <1>6 DEF Retry
    <2> HIDE DEF r
    <2> QED BY <1>2, <1>6, <2>3, <2>4, <2>5 DEF Retry
  <1> QED BY <1>4, <1>5, <1>6

\* A deadline only marks the attempt.
LEMMA DeadlineEffect ==
    ASSUME TypeOK, NEW w \in Workers, AttemptExpires(w) \/ Deadline(w)
    PROVE  /\ UNCHANGED World /\ FaultTypes'
           /\ \/ /\ worker[w].step = "release"
                 /\ Comes(w, "release", worker[w].seen, worker[w].got, worker[w].late,
                          worker[w].own, "retry")
              \/ /\ worker[w].step \in {"sent", "persist"} /\ ~worker[w].late
                 /\ Comes(w, worker[w].step, worker[w].seen, worker[w].got, TRUE,
                          worker[w].own, worker[w].out)
  <1>1. WorkerTypes /\ FaultTypes
    BY TypeParts DEF PlainTypes, FaultTypes
  <1>2. Becomes(w, [worker[w] EXCEPT !.out = "retry"])
          => Comes(w, worker[w].step, worker[w].seen, worker[w].got, worker[w].late,
                   worker[w].own, "retry")
    BY <1>1 DEF Becomes, Comes, WorkerTypes, WorkerStates, Outcomes
  <1>3. Becomes(w, [worker[w] EXCEPT !.late = TRUE])
          => Comes(w, worker[w].step, worker[w].seen, worker[w].got, TRUE,
                   worker[w].own, worker[w].out)
    BY <1>1, ZenonT(30) DEF Becomes, Comes, WorkerTypes, WorkerStates
  <1>4. Fault => FaultTypes'
    BY <1>1, RefreshAssumption DEF Fault, FaultTypes
  <1> QED BY <1>2, <1>3, <1>4 DEF AttemptExpires, Deadline, World

-----------------------------------------------------------------------------
(* The invariants.                                                         *)

\* The steps of a worker.
WorkerStep(w) == Begin(w) \/ Refresh(w) \/ AttemptExpires(w) \/ Deadline(w)

\* A worker keeps the types.
LEMMA WorkerTypesStep ==
    ASSUME TypeOK, NEW w \in Workers, WorkerStep(w)
    PROVE  TypeOK'
  <1>1. WorkerTypes /\ AdminTypes /\ PlainTypes /\ worker[w].got \in Tokens /\ worker[w].seen \in Rows
    BY TypeParts, WorkerFields
  <1>2. WorkerTypes' /\ AdminTypes' /\ PlainTypes' => TypeOK'
    BY TypeParts, PTL
  <1>3. AdminTypes'
    BY <1>1, BeginEffect, LockEffect, RereadEffect, AnswerEffect, RecoverEffect, PersistEffect,
       ReleaseEffect, AfterEffect, DeadlineEffect
       DEF AdminTypes, WorkerStep, Refresh, World
  <1>4. WorkerTypes'
    BY BeginEffect, LockEffect, RereadEffect, AnswerEffect, RecoverEffect, PersistEffect,
       ReleaseEffect, AfterEffect, DeadlineEffect
       DEF WorkerStep, Refresh, Ended, Left, Comes
  <1>5. FaultTypes' /\ UNCHANGED <<platform, writes>>
    BY BeginEffect, LockEffect, RereadEffect, AnswerEffect, RecoverEffect, PersistEffect,
       ReleaseEffect, AfterEffect, DeadlineEffect DEF WorkerStep, Refresh, World
  <1> USE <1>1, <1>5 DEF PlainTypes, FaultTypes
  <1>6. CASE Begin(w) \/ Reread(w) \/ Recover(w) \/ AttemptExpires(w) \/ Deadline(w)
    <2>1. UNCHANGED World
      BY <1>6, BeginEffect, RereadEffect, RecoverEffect, DeadlineEffect
    <2> QED BY <1>2, <1>3, <1>4, <2>1 DEF World
  <1>7. CASE Lock(w)
    <2>1. past' \subseteq Events /\ lease' \in Workers \cup {NoWorker}
      BY <1>7, LockEffect DEF Events
    <2> QED BY <1>2, <1>3, <1>4, <1>7, <2>1, LockEffect
  <1>8. CASE Answer(w) \/ GiveUp(w)
    <2>1. past' \subseteq Events
      BY <1>8, AnswerEffect DEF Events
    <2>2. accepted' \subseteq Tokens /\ issued' \in Tokens /\ family' \in [Tokens -> 0..MaxWrites]
      <3>1. CASE UNCHANGED <<accepted, issued, family>>
        BY <3>1
      <3>2. CASE Rotate(worker[w].seen.rt)
        <4>1. accepted \subseteq Tokens /\ issued \in Tokens /\ family \in [Tokens -> 0..MaxWrites]
          OBVIOUS
        <4>2. issued' = issued + 1 /\ issued' \in Tokens
          BY <3>2, <4>1, RefreshAssumption DEF Rotate, Issue, Tokens
        <4>3. accepted' \subseteq Tokens
          BY <3>2, <4>1, <4>2 DEF Rotate
        <4>4. worker[w].seen.rt \in Tokens
          BY <3>2, <4>1 DEF Rotate
        <4>5. family' \in [Tokens -> 0..MaxWrites]
          BY <3>2, <4>1, <4>4 DEF Rotate, Issue
        <4> QED BY <4>2, <4>3, <4>5
      <3> QED BY <1>8, <3>1, <3>2, AnswerEffect
    <2> QED BY <1>2, <1>3, <1>4, <1>8, <2>1, <2>2, AnswerEffect
  <1>9. CASE Persist(w)
    <2>1. row' \in Rows
      <3>1. Stored(w) \in Rows
        BY DEF Stored, Rows
      <3> QED BY <1>9, <3>1, PersistEffect
    <2>2. past' \subseteq Events
      BY <1>9, PersistEffect DEF Events
    <2> QED BY <1>2, <1>3, <1>4, <1>9, <2>1, <2>2, PersistEffect
  <1>10. CASE Release(w)
    BY <1>2, <1>3, <1>4, <1>10, ReleaseEffect
  <1>11. CASE PostRefresh(w) \/ Retry(w) \/ Condemn(w)
    <2>1. row' \in Rows
      BY <1>11, AfterEffect DEF Rows
    <2> QED BY <1>2, <1>3, <1>4, <1>11, <2>1, AfterEffect
  <1> QED
    BY <1>6, <1>7, <1>8, <1>9, <1>10, <1>11 DEF WorkerStep, Refresh

\* No step leaves the types.
LEMMA TypesStep == TypeOK /\ [Next]_vars => TypeOK'
  <1> SUFFICES ASSUME TypeOK, [Next]_vars PROVE TypeOK'
    OBVIOUS
  <1>1. WorkerTypes /\ AdminTypes /\ PlainTypes
    BY TypeParts
  <1>0. WorkerTypes' /\ AdminTypes' /\ PlainTypes' => TypeOK'
    BY TypeParts, PTL
  <1> USE RefreshAssumption, FirstTypes DEF Fault
  <1>2. ASSUME NEW w \in Workers, WorkerStep(w) PROVE TypeOK'
    BY <1>2, WorkerTypesStep
  <1>3. ASSUME NEW kind \in {"edit", "apply", "device"}, AdminReads(kind) PROVE TypeOK'
    <2>1. WorkerTypes'
      BY <1>1, <1>3 DEF WorkerTypes, AdminReads
    <2>2. issued' \in Tokens /\ accepted' \subseteq Tokens /\ family' \in [Tokens -> 0..MaxWrites]
          /\ writes' \in 0..MaxWrites
      <3>1. /\ writes \in 0..MaxWrites /\ issued \in Tokens /\ accepted \subseteq Tokens
            /\ family \in [Tokens -> 0..MaxWrites]
        BY <1>1 DEF PlainTypes
      <3>2. writes' = writes + 1 /\ writes' \in 0..MaxWrites
        BY <1>3, <3>1 DEF AdminReads
      <3>3. CASE UNCHANGED <<accepted, issued, family>>
        BY <3>1, <3>2, <3>3
      <3>4. CASE Issue(writes + 1) /\ \E kept \in {accepted, {}} : accepted' = kept \cup {issued + 1}
        <4>1. issued' = issued + 1 /\ issued' \in Tokens
          BY <3>1, <3>4 DEF Issue, Tokens
        <4>2. accepted' \subseteq Tokens
          BY <3>1, <3>4, <4>1
        <4>3. family' \in [Tokens -> 0..MaxWrites]
          BY <3>1, <3>2, <3>4 DEF Issue
        <4> QED BY <3>2, <4>1, <4>2, <4>3
      <3> QED BY <1>3, <3>3, <3>4 DEF AdminReads
    <2>3. PlainTypes'
      BY <1>1, <1>3, <2>2 DEF PlainTypes, AdminReads
    <2>4. row.rt \in Tokens /\ (kind # "edit" => issued + 1 \in Tokens)
      BY <1>1, <1>3 DEF PlainTypes, AdminReads, Rows, Issue, Tokens
    <2>5. AdminTypes'
      BY <1>1, <1>3, <2>4 DEF PlainTypes, AdminTypes, AdminStates, AdminReads
    <2> QED BY <1>0, <2>1, <2>3, <2>5
  <1>4. CASE AdminWrites
    <2>1. WorkerTypes'
      BY <1>1, <1>4 DEF WorkerTypes, AdminWrites
    <2>2. AdminTypes'
      BY <1>1, <1>4 DEF AdminTypes, AdminStates, AdminWrites
    <2>3. /\ admin.token \in Tokens /\ admin.seen.doc \in 0..MaxWrites /\ admin.seen.failed \in BOOLEAN
          /\ admin.seen.status \in {"active", "error"} /\ row.cooldown \in BOOLEAN
          /\ admin.seen.schedulable \in BOOLEAN
          /\ family[admin.token] \in 0..MaxWrites
      BY <1>1 DEF AdminTypes, AdminStates, PlainTypes, Rows
    <2>4. row' \in Rows /\ granted' \in 0..MaxWrites
      <3>1. CASE admin.kind = "device" /\ Document(row) # Document(admin.seen)
        BY <1>1, <1>4, <3>1 DEF PlainTypes, AdminWrites
      <3>2. CASE ~(admin.kind = "device" /\ Document(row) # Document(admin.seen))
        <4>1. PICK doc \in {admin.seen.doc, writes} :
                 row' = [rt |-> admin.token,
                         doc |-> doc,
                         failed |-> admin.kind = "edit" /\ admin.seen.failed,
                         status |-> IF admin.kind = "device" THEN "active" ELSE admin.seen.status,
                         schedulable |-> \/ admin.kind = "device"
                                         \/ admin.seen.schedulable /\ admin.seen.status # "error",
                         cooldown |-> admin.kind # "device" /\ row.cooldown]
          BY <1>4, <3>2 DEF AdminWrites
        <4>2. doc \in 0..MaxWrites
          BY <1>1, <2>3 DEF PlainTypes
        <4>3. granted' = granted \/ granted' = family[admin.token]
          BY <1>4, <3>2 DEF AdminWrites
        <4> QED BY <1>1, <2>3, <4>1, <4>2, <4>3 DEF Rows, PlainTypes
      <3> QED BY <3>1, <3>2
    <2>5. past' \subseteq Events
      BY <1>1, <1>4 DEF PlainTypes, AdminWrites, Events
    <2>6. UNCHANGED <<platform, age, provider, lease, worker, writes, faults>>
      BY <1>4 DEF AdminWrites
    <2> QED BY <1>0, <1>1, <2>1, <2>2, <2>4, <2>5, <2>6 DEF PlainTypes
  <1>5. CASE AdminClears \/ AdminFails
    <2>1. WorkerTypes' /\ AdminTypes'
      BY <1>1, <1>5 DEF WorkerTypes, AdminTypes, AdminClears, AdminFails
    <2>2. row' \in Rows /\ past' \subseteq Events
      BY <1>1, <1>5, ZenonT(30) DEF PlainTypes, AdminClears, AdminFails, Rows, Events
    <2>3. faults' \in 0..MaxFaults
      <3>1. faults \in 0..MaxFaults
        BY <1>1 DEF PlainTypes
      <3> QED BY <1>5, <3>1 DEF AdminClears, AdminFails
    <2>4. UNCHANGED <<platform, age, provider, granted, lease, writes>>
      BY <1>5 DEF AdminClears, AdminFails
    <2> QED BY <1>0, <1>1, <2>1, <2>2, <2>3, <2>4 DEF PlainTypes
  <1>6. CASE AdminSwitches \/ Ages \/ CooldownEnds \/ LeaseLapses \/ LeaseOverrun
    <2>1. WorkerTypes' /\ AdminTypes'
      BY <1>1, <1>6 DEF WorkerTypes, AdminTypes, AdminSwitches, Ages, CooldownEnds, LeaseLapses, LeaseOverrun
    <2>2. row' \in Rows /\ past' \subseteq Events
      <3>1. row \in Rows /\ past \subseteq Events
        BY <1>1 DEF PlainTypes
      <3>2. CASE AdminSwitches
        BY <3>1, <3>2 DEF AdminSwitches, Rows
      <3>3. CASE CooldownEnds
        BY <3>1, <3>3 DEF CooldownEnds, Rows
      <3>4. CASE Ages \/ LeaseLapses
        BY <3>1, <3>4 DEF Ages, LeaseLapses
      <3>5. CASE LeaseOverrun
        BY <3>1, <3>5 DEF LeaseOverrun, Events
      <3> QED BY <1>6, <3>2, <3>3, <3>4, <3>5
    <2>5. faults' \in 0..MaxFaults
      <3>1. faults \in 0..MaxFaults
        BY <1>1 DEF PlainTypes
      <3> QED BY <1>6, <3>1 DEF AdminSwitches, Ages, CooldownEnds, LeaseLapses, LeaseOverrun
    <2>3. age' \in [Tokens -> {"fresh", "due", "expired"}] /\ lease' \in Workers \cup {NoWorker}
      BY <1>1, <1>6 DEF PlainTypes, AdminSwitches, Ages, CooldownEnds, LeaseLapses, LeaseOverrun
    <2>4. UNCHANGED <<platform, provider, granted>>
      BY <1>6 DEF AdminSwitches, Ages, CooldownEnds, LeaseLapses, LeaseOverrun
    <2>6. writes' \in 0..MaxWrites
      <3>1. writes \in 0..MaxWrites
        BY <1>1 DEF PlainTypes
      <3>2. writes' = writes \/ (writes < MaxWrites /\ writes' = writes + 1)
        BY <1>6 DEF AdminSwitches, Ages, CooldownEnds, LeaseLapses, LeaseOverrun
      <3> QED BY <3>1, <3>2
    <2> QED BY <1>0, <1>1, <2>1, <2>2, <2>3, <2>4, <2>5, <2>6 DEF PlainTypes
  <1>7. ASSUME NEW n \in Nodes, Crash(n) PROVE TypeOK'
    <2>1. WorkerTypes' /\ AdminTypes'
      BY <1>1, <1>7 DEF WorkerTypes, AdminTypes, Crash
    <2>2. past' \subseteq Events
      BY <1>1, <1>7 DEF PlainTypes, Crash, Events
    <2>4. faults' \in 0..MaxFaults
      <3>1. faults \in 0..MaxFaults
        BY <1>1 DEF PlainTypes
      <3> QED BY <1>7, <3>1 DEF Crash
    <2>3. UNCHANGED <<platform, row, age, provider, granted, lease, admin, writes>>
      BY <1>7 DEF Crash
    <2> QED BY <1>0, <1>1, <2>1, <2>2, <2>3, <2>4 DEF PlainTypes
  <1>8. CASE UNCHANGED vars
    BY <1>0, <1>1, <1>8 DEF WorkerTypes, AdminTypes, PlainTypes, vars
  <1> QED
    BY <1>2, <1>3, <1>4, <1>5, <1>6, <1>7, <1>8 DEF Next, WorkerStep

\* What a worker carries away, and what it leaves behind, is in use already or
\* the newest token.
LEMMA Carries ==
    ASSUME TypeOK, NEW w \in Workers, WorkerStep(w)
    PROVE  /\ worker'[w].seen.rt \in {row.rt, worker[w].seen.rt, 0}
           /\ worker'[w].got \in {worker[w].got, 0, issued'}
           /\ \A v \in Workers \ {w} : worker'[v] = worker[v]
           /\ row'.rt \in {row.rt, worker[w].got}
           /\ \/ UNCHANGED <<accepted, issued, family>>
              \/ /\ Rotate(worker[w].seen.rt) /\ issued' = issued + 1
                 /\ accepted' \subseteq accepted \cup {issued'}
           /\ UNCHANGED <<admin, granted, writes>>
  <1>1. FirstRow.rt = 0
    BY DEF FirstRow
  <1>2. CASE Begin(w) \/ Reread(w) \/ Recover(w) \/ AttemptExpires(w) \/ Deadline(w)
    <2>1. UNCHANGED World
      BY <1>2, BeginEffect, RereadEffect, RecoverEffect, DeadlineEffect
    <2>2. CASE Begin(w)
      <3>1. PICK x \in {row, FirstRow} :
               Comes(w, "lock", x, worker[w].got, worker[w].late, worker[w].own, worker[w].out)
        BY <2>2, BeginEffect
      <3> QED BY <1>1, <2>1, <3>1 DEF Comes, World
    <2>3. CASE Reread(w) \/ Recover(w)
      BY <2>1, <2>3, RereadEffect, RecoverEffect DEF Comes, Left, World
    <2>4. CASE AttemptExpires(w) \/ Deadline(w)
      BY <2>1, <2>4, DeadlineEffect DEF Comes, World
    <2> QED BY <1>2, <2>2, <2>3, <2>4
  <1>3. CASE Lock(w) \/ Release(w)
    BY <1>1, <1>3, LockEffect, ReleaseEffect DEF Comes, Ended
  <1>4. CASE Answer(w) \/ GiveUp(w)
    <2>1. Rotate(worker[w].seen.rt) =>
             issued' = issued + 1 /\ accepted' \subseteq accepted \cup {issued'}
      BY DEF Rotate, Issue
    <2> QED BY <1>4, <2>1, AnswerEffect DEF Comes, Left
  <1>5. CASE Persist(w)
    <2>1. row \in Rows
      BY TypeParts DEF PlainTypes
    <2>2. Stored(w).rt = worker[w].got
      BY <2>1 DEF Stored, Rows
    <2> QED BY <1>5, <2>2, PersistEffect DEF Comes, Left
  <1>6. CASE PostRefresh(w) \/ Retry(w) \/ Condemn(w)
    <2>1. row \in Rows
      BY TypeParts DEF PlainTypes
    <2>2. row'.rt = row.rt
      BY <1>6, <2>1, AfterEffect DEF Rows
    <2> QED BY <1>1, <1>6, <2>2, AfterEffect DEF Comes
  <1> QED
    BY <1>2, <1>3, <1>4, <1>5, <1>6 DEF WorkerStep, Refresh

\* The numbers the arguments count with.
LEMMA Numbers ==
    ASSUME TypeOK
    PROVE  /\ row \in Rows /\ row.rt \in Nat /\ issued \in Nat /\ MaxTokens \in Nat
           /\ accepted \subseteq Nat /\ accepted \subseteq Tokens
           /\ issued \in Tokens /\ row.rt \in Tokens
           /\ family \in [Tokens -> Nat] /\ granted \in Nat /\ writes \in Nat
           /\ admin.seen \in Rows /\ admin.token \in Nat /\ admin.seen.rt \in Nat
           /\ admin.token \in Tokens /\ admin.seen.rt \in Tokens
           /\ \A w \in Workers :
                /\ worker[w].seen \in Rows /\ worker[w].seen.rt \in Nat /\ worker[w].got \in Nat
                /\ worker[w].seen.rt \in Tokens /\ worker[w].got \in Tokens
  <1>1. WorkerTypes /\ AdminTypes /\ PlainTypes
    BY TypeParts
  <1>2. /\ row \in Rows /\ accepted \subseteq Tokens /\ issued \in Tokens
        /\ family \in [Tokens -> 0..MaxWrites] /\ granted \in 0..MaxWrites /\ writes \in 0..MaxWrites
    BY <1>1 DEF PlainTypes
  <1>3. admin.seen \in Rows /\ admin.token \in Tokens
    BY <1>1 DEF AdminTypes, AdminStates
  <1>4. \A r \in Rows : r.rt \in Tokens
    BY DEF Rows
  <1>5. \A t \in Tokens : t \in Nat
    BY RefreshAssumption DEF Tokens
  <1>6. family \in [Tokens -> Nat] /\ granted \in Nat /\ writes \in Nat
    BY <1>2, RefreshAssumption
  <1>7. \A w \in Workers : worker[w].seen \in Rows /\ worker[w].got \in Tokens
    BY <1>1, WorkerFields
  <1> QED BY <1>2, <1>3, <1>4, <1>5, <1>6, <1>7, RefreshAssumption

\* Nobody makes up a token.
LEMMA IssuedStep == TypeOK /\ IssuedInv /\ [Next]_vars => IssuedInv'
  <1> SUFFICES ASSUME TypeOK, IssuedInv, [Next]_vars PROVE IssuedInv'
    OBVIOUS
  <1> USE Numbers DEF IssuedInv
  <1>1. ASSUME NEW w \in Workers, WorkerStep(w) PROVE IssuedInv'
    <2>1. issued' \in {issued, issued + 1}
      BY <1>1, Carries
    <2>2. \A t \in accepted' : t <= issued'
      BY <1>1, <2>1, Carries
    <2>3. row'.rt <= issued'
      BY <1>1, <2>1, Carries
    <2>4. admin'.token <= issued' /\ admin'.seen.rt <= issued'
      BY <1>1, <2>1, Carries
    <2>5. \A v \in Workers : worker'[v].seen.rt <= issued' /\ worker'[v].got <= issued'
      BY <1>1, <2>1, Carries
    <2> QED BY <2>2, <2>3, <2>4, <2>5
  <1>2. ASSUME NEW kind \in {"edit", "apply", "device"}, AdminReads(kind) PROVE IssuedInv'
    <2>1. issued' \in {issued, issued + 1} /\ (kind # "edit" => issued' = issued + 1)
          /\ UNCHANGED <<row, worker>>
      BY <1>2 DEF AdminReads, Issue
    <2>2. \A t \in accepted' : t \in accepted \/ t = issued'
      BY <1>2, <2>1 DEF AdminReads
    <2>3. admin'.seen = row /\ admin'.token \in {row.rt, issued'}
      BY <1>2, <2>1 DEF AdminReads
    <2> QED BY <2>1, <2>2, <2>3
  <1>3. CASE AdminWrites
    <2>1. row'.rt \in {row.rt, admin.token} /\ UNCHANGED <<accepted, issued, worker>>
      BY <1>3 DEF AdminWrites
    <2>2. admin' = NoRequest \/ (admin'.token = admin.token /\ admin'.seen = admin.seen)
      <3>1. admin' \in {NoRequest, [admin EXCEPT !.step = "clear"]}
        BY <1>3 DEF AdminWrites
      <3>2. AdminTypes
        BY TypeParts
      <3> QED BY <3>1, <3>2 DEF AdminTypes, AdminStates
    <2>3. NoRequest.token = 0 /\ NoRequest.seen.rt = 0
      BY DEF NoRequest, FirstRow
    <2> QED BY <2>1, <2>2, <2>3
  <1>4. CASE AdminClears \/ AdminFails
    <2>1. row'.rt = row.rt /\ admin' = NoRequest /\ UNCHANGED <<accepted, issued, worker>>
      BY <1>4 DEF AdminClears, AdminFails, Rows
    <2>2. NoRequest.token = 0 /\ NoRequest.seen.rt = 0
      BY DEF NoRequest, FirstRow
    <2> QED BY <2>1, <2>2
  <1>5. CASE AdminSwitches \/ Ages \/ CooldownEnds \/ LeaseLapses \/ LeaseOverrun
    <2>1. row'.rt = row.rt /\ UNCHANGED <<accepted, issued, worker, admin>>
      BY <1>5 DEF AdminSwitches, Ages, CooldownEnds, LeaseLapses, LeaseOverrun, Rows
    <2> QED BY <2>1
  <1>6. ASSUME NEW n \in Nodes, Crash(n) PROVE IssuedInv'
    <2>1. UNCHANGED <<row, accepted, issued, admin>>
      BY <1>6 DEF Crash
    <2>2. \A v \in Workers : worker'[v] \in {Resting, worker[v]}
      BY <1>6 DEF Crash
    <2>3. Resting.seen.rt = 0 /\ Resting.got = 0
      BY DEF Resting, FirstRow
    <2> QED BY <2>1, <2>2, <2>3
  <1>7. CASE UNCHANGED vars
    BY <1>7 DEF vars
  <1> QED
    BY <1>1, <1>2, <1>3, <1>4, <1>5, <1>6, <1>7 DEF Next, WorkerStep

\* What happened stays on record.
LEMMA HistoryGrows == TypeOK /\ [Next]_vars => past \subseteq past' /\ platform' = platform
  <1> SUFFICES ASSUME TypeOK, [Next]_vars PROVE past \subseteq past' /\ platform' = platform
    OBVIOUS
  <1>1. ASSUME NEW w \in Workers, WorkerStep(w) PROVE past \subseteq past' /\ platform' = platform
    BY <1>1, BeginEffect, LockEffect, RereadEffect, AnswerEffect, RecoverEffect, PersistEffect,
       ReleaseEffect, AfterEffect, DeadlineEffect DEF WorkerStep, Refresh, World
  <1>2. ASSUME NEW kind \in {"edit", "apply", "device"}, AdminReads(kind)
        PROVE  past \subseteq past' /\ platform' = platform
    BY <1>2 DEF AdminReads
  <1>3. CASE \/ AdminWrites \/ AdminClears \/ AdminFails
             \/ AdminSwitches \/ Ages \/ CooldownEnds \/ LeaseLapses \/ LeaseOverrun
    BY <1>3 DEF AdminWrites, AdminClears, AdminFails, AdminSwitches, Ages, CooldownEnds, LeaseLapses, LeaseOverrun
  <1>4. ASSUME NEW n \in Nodes, Crash(n) PROVE past \subseteq past' /\ platform' = platform
    BY <1>4 DEF Crash
  <1>5. CASE UNCHANGED vars
    BY <1>5 DEF vars
  <1> QED
    BY <1>1, <1>2, <1>3, <1>4, <1>5 DEF Next, WorkerStep

\* Tokens keep the family they were issued in.
LEMMA FamilyKept ==
    ASSUME TypeOK, NEW f \in Nat, Issue(f)
    PROVE  /\ family'[issued + 1] = f
           /\ \A t \in Tokens : t <= issued => family'[t] = family[t]
           /\ \A t \in Tokens : family'[t] \in {family[t], f}
  <1>1. issued + 1 \in Tokens
    BY Numbers, RefreshAssumption, SMTT(30) DEF Issue, Tokens
  <1>2. family' = [family EXCEPT ![issued + 1] = f]
    BY DEF Issue
  <1>3. \A t \in Tokens : t <= issued => t # issued + 1
    BY Numbers, RefreshAssumption DEF Tokens
  <1> QED BY <1>1, <1>2, <1>3, Numbers

\* A worker keeps every token in its family.
LEMMA WorkerFamilyStep ==
    ASSUME TypeOK, IssuedInv, FamilyInv, NEW w \in Workers, WorkerStep(w), past \subseteq past',
           platform' = platform
    PROVE  FamilyInv'
  <1>1. \A t \in Tokens : t <= issued => family'[t] = family[t]
    BY Carries, FamilyKept, Numbers DEF Rotate
  <1>2. \A t \in Tokens : family'[t] <= writes
    <2>1. \A t \in Tokens : \/ family'[t] = family[t]
                            \/ family'[t] = family[worker[w].seen.rt]
      BY Carries, FamilyKept, Numbers DEF Rotate
    <2> QED BY <2>1, Numbers DEF FamilyInv
  <1>3. UNCHANGED <<admin, granted, writes>> /\ (Crossed => Crossed')
    BY Carries DEF Crossed
  <1>4. ReauthorizationStands'
    <2>1. CASE row'.rt = row.rt
      BY <1>1, <1>3, <2>1, Numbers DEF FamilyInv, IssuedInv, ReauthorizationStands, Crossed
    <2>2. CASE row'.rt # row.rt
      <3>1. /\ worker[w].step = "persist" /\ Matches(w) /\ row' = Stored(w)
            /\ UNCHANGED family
        <4>1. ~(Begin(w) \/ Lock(w) \/ Reread(w) \/ Answer(w) \/ GiveUp(w) \/ Recover(w)
                \/ Release(w) \/ AttemptExpires(w) \/ Deadline(w))
          BY <2>2, BeginEffect, LockEffect, RereadEffect, AnswerEffect, RecoverEffect,
             ReleaseEffect, DeadlineEffect DEF World
        <4>2. ~(PostRefresh(w) \/ Retry(w) \/ Condemn(w))
          BY <2>2, AfterEffect, Numbers DEF Rows
        <4>3. Persist(w)
          BY <4>1, <4>2 DEF WorkerStep, Refresh
        <4> QED BY <2>2, <4>3, PersistEffect
      <3>2. row'.rt = worker[w].got
        BY <3>1, Numbers DEF Stored, Rows
      <3>3. family[worker[w].got] = family[worker[w].seen.rt]
        BY <3>1 DEF FamilyInv
      <3>4. CASE Grok
        <4>1. row.rt = worker[w].seen.rt
          BY <3>1, <3>4 DEF Matches, Unchanged, Document
        <4> QED BY <1>3, <3>1, <3>2, <3>3, <3>4, <4>1 DEF FamilyInv, ReauthorizationStands
      <3>5. CASE ~Grok
        BY <1>3, <3>1, <3>2, <3>3, <3>5 DEF FamilyInv, ReauthorizationStands, Crossed
      <3> QED BY <3>4, <3>5
    <2> QED BY <2>1, <2>2
  <1>5. admin'.step = "write" /\ admin'.kind = "edit" =>
          admin'.token = admin'.seen.rt /\ (family'[admin'.token] >= granted' \/ Crossed')
    BY <1>1, <1>3, Numbers DEF FamilyInv, IssuedInv
  <1> DEFINE Mild(v) ==
        /\ worker[v].step = "persist" => family[worker[v].got] = family[worker[v].seen.rt]
        /\ worker[v].step \in {"sent", "persist"} =>
              Grok \/ family[worker[v].seen.rt] >= granted \/ Crossed
  <1>6. \A v \in Workers \ {w} : Mild(v)'
    BY <1>1, <1>3, Carries, Numbers DEF FamilyInv, IssuedInv
  <1>7. Mild(w)'
    <2>1. CASE Begin(w) \/ Lock(w) \/ Recover(w) \/ Persist(w) \/ Release(w)
               \/ PostRefresh(w) \/ Retry(w) \/ Condemn(w)
      <3>1. worker'[w].step \notin {"sent", "persist"}
        BY <2>1, BeginEffect, LockEffect, RecoverEffect, PersistEffect, ReleaseEffect, AfterEffect,
           ZenonT(30) DEF Comes, Ended, Left
      <3> QED BY <3>1
    <2>2. CASE Reread(w)
      <3>1. \/ worker'[w].step = "release"
            \/ worker'[w].step = "sent" /\ worker'[w].seen = row
        BY <2>2, RereadEffect DEF Comes, Left
      <3>2. family' = family
        BY <2>2, RereadEffect DEF World
      <3> QED BY <1>3, <3>1, <3>2 DEF FamilyInv, ReauthorizationStands, Crossed
    <2>3. CASE Answer(w) \/ GiveUp(w)
      <3>1. CASE worker'[w].step = "persist"
        <4>1. /\ worker[w].step = "sent" /\ Rotate(worker[w].seen.rt)
              /\ worker'[w].seen = worker[w].seen /\ worker'[w].got = issued + 1
          BY <2>3, <3>1, AnswerEffect DEF Comes, Left
        <4>2. family'[issued + 1] = family[worker[w].seen.rt]
          BY <4>1, FamilyKept, Numbers DEF Rotate
        <4>3. family'[worker[w].seen.rt] = family[worker[w].seen.rt]
          BY <1>1, Numbers DEF IssuedInv
        <4> QED BY <1>3, <4>1, <4>2, <4>3 DEF FamilyInv
      <3>2. CASE worker'[w].step # "persist"
        <4>1. worker'[w].step # "sent"
          BY <2>3, AnswerEffect DEF Comes, Left
        <4> QED BY <3>2, <4>1
      <3> QED BY <3>1, <3>2
    <2>4. CASE AttemptExpires(w) \/ Deadline(w)
      <3>1. /\ worker'[w].step = worker[w].step /\ worker'[w].seen = worker[w].seen
            /\ worker'[w].got = worker[w].got
        BY <2>4, DeadlineEffect DEF Comes
      <3>2. family' = family
        BY <2>4, DeadlineEffect DEF World
      <3> QED BY <1>3, <3>1, <3>2 DEF FamilyInv
    <2> QED BY <2>1, <2>2, <2>3, <2>4 DEF WorkerStep, Refresh
  <1>8. \A v \in Workers : Mild(v)'
    BY <1>6, <1>7
  <1>9. granted' <= writes' /\ \A t \in Tokens : family'[t] <= writes'
    BY <1>2, <1>3 DEF FamilyInv
  <1> QED BY <1>4, <1>5, <1>8, <1>9 DEF FamilyInv

\* So does everybody.
LEMMA FamilyStep == TypeOK /\ IssuedInv /\ FamilyInv /\ [Next]_vars => FamilyInv'
  <1> SUFFICES ASSUME TypeOK, IssuedInv, FamilyInv, [Next]_vars PROVE FamilyInv'
    OBVIOUS
  <1>0. past \subseteq past' /\ platform' = platform /\ (Crossed => Crossed')
    BY HistoryGrows DEF Crossed
  <1>1. ASSUME NEW w \in Workers, WorkerStep(w) PROVE FamilyInv'
    BY <1>0, <1>1, WorkerFamilyStep
  <1>2. ASSUME NEW kind \in {"edit", "apply", "device"}, AdminReads(kind) PROVE FamilyInv'
    <2>1. writes' = writes + 1 /\ UNCHANGED <<platform, row, granted, past, worker>>
      BY <1>2 DEF AdminReads
    <2>2. CASE kind = "edit"
      <3>1. UNCHANGED <<family, issued>> /\ admin'.kind = "edit" /\ admin'.seen = row
            /\ admin'.token = row.rt
        BY <1>2, <2>2 DEF AdminReads
      <3> QED BY <2>1, <3>1, Numbers DEF FamilyInv, ReauthorizationStands, Crossed
    <2>3. CASE kind # "edit"
      <3>1. Issue(writes + 1) /\ admin'.kind # "edit" /\ admin'.token = issued + 1
        BY <1>2, <2>3 DEF AdminReads
      <3>2. /\ family'[issued + 1] = writes + 1
            /\ \A t \in Tokens : t <= issued => family'[t] = family[t]
            /\ \A t \in Tokens : family'[t] \in {family[t], writes + 1}
        BY <3>1, FamilyKept, Numbers
      <3>3. granted' <= writes' /\ \A t \in Tokens : family'[t] <= writes'
        BY <2>1, <3>2, Numbers DEF FamilyInv
      <3>4. ReauthorizationStands'
        BY <2>1, <3>2, Numbers DEF FamilyInv, IssuedInv, ReauthorizationStands
      <3>5. \A w \in Workers :
              /\ worker'[w].step = "persist" => family'[worker'[w].got] = family'[worker'[w].seen.rt]
              /\ worker'[w].step \in {"sent", "persist"} =>
                    Grok' \/ family'[worker'[w].seen.rt] >= granted' \/ Crossed'
        BY <2>1, <3>2, Numbers DEF FamilyInv, IssuedInv, Crossed
      <3> QED BY <2>1, <3>1, <3>2, <3>3, <3>4, <3>5 DEF FamilyInv
    <2> QED BY <2>2, <2>3
  <1>3. CASE AdminWrites
    <2>1. admin.step = "write" /\ UNCHANGED <<platform, family, worker, writes>>
      BY <1>3 DEF AdminWrites
    <2>2. CASE admin.kind = "device" /\ Document(row) # Document(admin.seen)
      <3>1. admin'.step = "idle" /\ UNCHANGED <<row, granted>>
        BY <1>3, <2>2 DEF AdminWrites, NoRequest
      <3> QED BY <1>0, <2>1, <3>1 DEF FamilyInv, ReauthorizationStands, Crossed
    <2>3. CASE ~(admin.kind = "device" /\ Document(row) # Document(admin.seen))
      <3>1. /\ row'.rt = admin.token
            /\ granted' = IF admin.kind = "edit" THEN granted ELSE family[admin.token]
            /\ (\E w \in Workers : Engaged(w)) => "crossed" \in past'
        BY <1>3, <2>3 DEF AdminWrites
      <3>2. admin'.step # "write"
        <4>1. admin' \in {NoRequest, [admin EXCEPT !.step = "clear"]}
          BY <1>3, <2>3 DEF AdminWrites
        <4>2. AdminTypes
          BY TypeParts
        <4> QED BY <4>1, <4>2 DEF AdminTypes, AdminStates, NoRequest
      <3>3. ReauthorizationStands'
        BY <1>0, <2>1, <3>1, Numbers DEF FamilyInv, ReauthorizationStands, Crossed
      <3>4. granted' <= writes'
        BY <2>1, <3>1, Numbers DEF FamilyInv
      <3>5. \A w \in Workers : worker[w].step \in {"sent", "persist"} => Grok' \/ Crossed'
        BY <2>1, <3>1 DEF Crossed, Engaged
      <3> QED BY <2>1, <3>2, <3>3, <3>4, <3>5 DEF FamilyInv
    <2> QED BY <2>2, <2>3
  <1>4. CASE AdminClears \/ AdminFails
    <2>1. UNCHANGED <<family, granted, writes, worker>> /\ admin' = NoRequest
      BY <1>4 DEF AdminClears, AdminFails
    <2>2. \/ row' = row
          \/ row' = [row EXCEPT !.status = "active", !.schedulable = TRUE, !.cooldown = FALSE]
      BY <1>4 DEF AdminClears, AdminFails
    <2>3. row'.rt = row.rt
      BY <2>2, Numbers DEF Rows
    <2>4. NoRequest.step = "idle"
      BY DEF NoRequest
    <2> QED BY <1>0, <2>1, <2>3, <2>4 DEF FamilyInv, ReauthorizationStands, Crossed
  <1>5. CASE AdminSwitches \/ Ages \/ CooldownEnds \/ LeaseLapses \/ LeaseOverrun
    <2>1. row'.rt = row.rt /\ UNCHANGED <<family, granted, worker, admin>>
      BY <1>5, Numbers DEF AdminSwitches, Ages, CooldownEnds, LeaseLapses, LeaseOverrun, Rows
    <2>2. writes' \in {writes, writes + 1}
      BY <1>5 DEF AdminSwitches, Ages, CooldownEnds, LeaseLapses, LeaseOverrun
    <2> QED BY <1>0, <2>1, <2>2, Numbers DEF FamilyInv, ReauthorizationStands, Crossed
  <1>6. ASSUME NEW n \in Nodes, Crash(n) PROVE FamilyInv'
    <2>1. UNCHANGED <<row, family, granted, writes, admin>>
      BY <1>6 DEF Crash
    <2>2. \A v \in Workers : worker'[v] = worker[v] \/ worker'[v].step = "idle"
      BY <1>6 DEF Crash, Resting
    <2> QED BY <1>0, <2>1, <2>2 DEF FamilyInv, ReauthorizationStands, Crossed
  <1>7. CASE UNCHANGED vars
    BY <1>7 DEF vars, FamilyInv, ReauthorizationStands, Crossed
  <1> QED
    BY <1>1, <1>2, <1>3, <1>4, <1>5, <1>6, <1>7 DEF Next, WorkerStep

\* The lease passes on only when its owner is through, or by a recorded fault.
LEMMA LeaseStep == TypeOK /\ LeaseInv /\ [Next]_vars => LeaseInv'
  <1> SUFFICES ASSUME TypeOK, LeaseInv, [Next]_vars PROVE LeaseInv'
    OBVIOUS
  <1>0. past \subseteq past' /\ platform' = platform /\ (Degraded => Degraded')
    BY HistoryGrows DEF Degraded
  <1>1. ASSUME NEW w \in Workers, WorkerStep(w) PROVE LeaseInv'
    <2>1. \A v \in Workers \ {w} : worker'[v] = worker[v]
      BY <1>1, Carries
    <2>2. lease' = lease \/ (lease \in {w, NoWorker} /\ lease' \in {w, NoWorker})
      BY <1>1, BeginEffect, LockEffect, RereadEffect, AnswerEffect, RecoverEffect, PersistEffect,
         ReleaseEffect, AfterEffect, DeadlineEffect DEF WorkerStep, Refresh, World
    <2>3. /\ worker'[w].late => worker'[w].step \in {"sent", "persist", "release"}
          /\ ~Degraded' => (Driving(w)' => lease' = w /\ worker'[w].own)
      <3>1. CASE Begin(w) \/ Reread(w) \/ Answer(w) \/ GiveUp(w) \/ Recover(w)
                 \/ AttemptExpires(w) \/ Deadline(w) \/ Persist(w)
        <4>1. lease' = lease
          BY <3>1, BeginEffect, RereadEffect, AnswerEffect, RecoverEffect, DeadlineEffect,
             PersistEffect DEF World
        <4>2. /\ worker'[w].late => worker'[w].step \in {"sent", "persist", "release"}
              /\ Driving(w)' => Driving(w) /\ worker'[w].own = worker[w].own
          <5>1. CASE Begin(w)
            BY <5>1, BeginEffect DEF LeaseInv, Driving, Comes, Section
          <5>2. CASE Reread(w) \/ Recover(w)
            BY <5>2, RereadEffect, RecoverEffect DEF LeaseInv, Driving, Comes, Left, Section
          <5>3. CASE Answer(w) \/ GiveUp(w)
            BY <5>3, AnswerEffect DEF LeaseInv, Driving, Comes, Left, Section
          <5>4. CASE AttemptExpires(w) \/ Deadline(w)
            BY <5>4, DeadlineEffect DEF LeaseInv, Driving, Comes, Section
          <5>5. CASE Persist(w)
            BY <5>5, PersistEffect DEF LeaseInv, Driving, Comes, Left, Section
          <5> QED BY <3>1, <5>1, <5>2, <5>3, <5>4, <5>5
        <4> QED BY <1>0, <4>1, <4>2 DEF LeaseInv
      <3>2. CASE Lock(w)
        <4>1. ~worker[w].late
          BY <3>2, LockEffect DEF LeaseInv
        <4> QED BY <3>2, <4>1, LockEffect DEF Driving, Comes, Ended, Section, Degraded
      <3>3. CASE Release(w) \/ PostRefresh(w) \/ Retry(w) \/ Condemn(w)
        BY <3>3, ReleaseEffect, AfterEffect DEF Driving, Comes, Ended, Section
      <3> QED BY <1>1, <3>1, <3>2, <3>3 DEF WorkerStep, Refresh
    <2> QED BY <1>0, <2>1, <2>2, <2>3, RefreshAssumption DEF LeaseInv, Driving
  <1>2. ASSUME NEW kind \in {"edit", "apply", "device"}, AdminReads(kind) PROVE LeaseInv'
    BY <1>0, <1>2 DEF AdminReads, LeaseInv, Driving
  <1>3. CASE AdminWrites \/ AdminClears \/ AdminFails \/ AdminSwitches \/ Ages \/ CooldownEnds
    BY <1>0, <1>3 DEF AdminWrites, AdminClears, AdminFails, AdminSwitches, Ages, CooldownEnds, LeaseInv, Driving
  <1>4. CASE LeaseLapses
    BY <1>0, <1>4 DEF LeaseLapses, LeaseInv, Driving
  <1>5. CASE LeaseOverrun
    <2>1. lease \in Workers
      BY <1>5, TypeParts DEF LeaseOverrun, PlainTypes
    <2>2. Degraded' /\ worker' = worker
      BY <1>5, <2>1 DEF LeaseOverrun, Degraded, Bounded
    <2> QED BY <2>2 DEF LeaseInv
  <1>6. ASSUME NEW n \in Nodes, Crash(n) PROVE LeaseInv'
    <2>1. \A v \in Workers :
             worker'[v] = worker[v] \/ (worker'[v].step = "idle" /\ ~worker'[v].late)
      BY <1>6 DEF Crash, Resting
    <2>2. lease' = lease
      BY <1>6 DEF Crash
    <2> QED BY <1>0, <2>1, <2>2 DEF LeaseInv, Driving, Section
  <1>7. CASE UNCHANGED vars
    BY <1>7 DEF vars, LeaseInv, Driving, Degraded
  <1> QED
    BY <1>1, <1>2, <1>3, <1>4, <1>5, <1>6, <1>7 DEF Next, WorkerStep

\* The steps that leave the verdict alone: a worker that was not refused is
\* not refused by them, and does not come to store anything.
Harmless(w) ==
    /\ \A v \in Workers \ {w} : worker'[v] = worker[v]
    /\ row'.rt = row.rt
    /\ Refused(w)' => Refused(w) /\ worker'[w].seen.rt = worker[w].seen.rt
    /\ Storing(w)' => Storing(w) /\ worker'[w].seen.rt = worker[w].seen.rt

\* Most steps of a worker are of that kind.
LEMMA HarmlessSteps ==
    ASSUME TypeOK, LeaseInv, NEW w \in Workers,
           \/ Begin(w) \/ Lock(w) \/ Reread(w) \/ Recover(w) \/ Release(w)
           \/ PostRefresh(w) \/ Retry(w) \/ Condemn(w) \/ AttemptExpires(w) \/ Deadline(w)
    PROVE  Harmless(w) /\ UNCHANGED <<accepted, issued>>
  <1>1. (\A v \in Workers \ {w} : worker'[v] = worker[v])
    BY Carries DEF WorkerStep, Refresh
  <1>2. CASE Begin(w)
    BY <1>1, <1>2, BeginEffect DEF Comes, World, Harmless, Refused, Storing
  <1>3. CASE Lock(w)
    BY <1>1, <1>3, LockEffect DEF Comes, Ended, Harmless, Refused, Storing
  <1>4. CASE Reread(w)
    BY <1>1, <1>4, RereadEffect DEF Comes, Left, World, Harmless, Refused, Storing
  <1>5. CASE Recover(w)
    <2>1. \/ worker'[w].step = "release" /\ worker'[w].out \in {"skip", "retry"}
          \/ worker'[w].step = "release" /\ worker'[w].seen = worker[w].seen
      BY <1>5, RecoverEffect DEF Comes, Left
    <2>2. UNCHANGED <<row, accepted, issued>> /\ worker[w].step = "recover"
      BY <1>5, RecoverEffect DEF World
    <2> QED BY <1>1, <2>1, <2>2 DEF Harmless, Refused, Storing
  <1>6. CASE Release(w)
    BY <1>1, <1>6, ReleaseEffect DEF Comes, Ended, Harmless, Refused, Storing
  <1>7. CASE PostRefresh(w) \/ Retry(w) \/ Condemn(w)
    <2>1. row'.rt = row.rt
      BY <1>7, AfterEffect, Numbers DEF Rows
    <2> QED BY <1>1, <1>7, <2>1, AfterEffect DEF Comes, Harmless, Refused, Storing
  <1>8. CASE AttemptExpires(w) \/ Deadline(w)
    BY <1>1, <1>8, DeadlineEffect DEF Comes, World, Harmless, Refused, Storing
  <1> QED
    BY <1>2, <1>3, <1>4, <1>5, <1>6, <1>7, <1>8

\* Nobody else goes on while one of them does.
LEMMA OneDrives ==
    ASSUME LeaseInv, ~Degraded, NEW v \in Workers, NEW w \in Workers, Driving(v), Driving(w)
    PROVE  v = w
  BY DEF LeaseInv

\* An exception is never taken back.
LEMMA ExceptedStays ==
    ASSUME TypeOK, [Next]_vars
    PROVE  Excepted => Excepted'
  BY HistoryGrows DEF Excepted, Crossed, Degraded

\* To store what the provider issued.
LEMMA StoreEffect ==
    ASSUME TypeOK, NEW w \in Workers, Persist(w)
    PROVE  /\ \A v \in Workers \ {w} : worker'[v] = worker[v]
           /\ worker[w].step = "persist"
           /\ worker'[w].step = "release" /\ worker'[w].out \notin {"refused", "none"}
           /\ UNCHANGED <<accepted, issued, admin>>
           /\ \/ row' = row
              \/ /\ Storing(w) /\ Matches(w)
                 /\ row'.rt = worker[w].got /\ ~row'.failed /\ row'.status = row.status
  <1>1. /\ Stored(w).rt = worker[w].got /\ ~Stored(w).failed
        /\ Stored(w).status = row.status
    BY Numbers DEF Stored, Rows
  <1> QED BY <1>1, PersistEffect DEF Comes, Left, Storing

\* The token in the row is the one a storing worker rotated, unless nothing is stored.
LEMMA StoredOver ==
    ASSUME TypeOK, SameInv, ~Excepted, NEW w \in Workers, Storing(w), Matches(w)
    PROVE  row.rt = worker[w].seen.rt
  BY DEF SameInv, Storing, Matches, Unchanged, Document, Driving, Section

\* The row stays as the one who drives the refresh read it.
LEMMA SameStep ==
    ASSUME TypeOK, LeaseInv, SameInv, VerdictInv, [Next]_vars
    PROVE  SameInv'
  <1>0. platform' = platform /\ (Excepted => Excepted')
    BY HistoryGrows, ExceptedStays
  <1> DEFINE Bound(v) == (Driving(v) /\ worker[v].step # "reread") \/ Refused(v)
  <1> SUFFICES ASSUME ~Grok, ~Excepted, ~Excepted',
                      \A v \in Workers : Bound(v) => row.rt = worker[v].seen.rt
               PROVE  \A v \in Workers : Bound(v)' => row'.rt = worker'[v].seen.rt
    BY <1>0 DEF SameInv
  <1>1. ASSUME NEW w \in Workers, WorkerStep(w), NEW v \in Workers, Bound(v)'
        PROVE  row'.rt = worker'[v].seen.rt
    <2>0. \A u \in Workers \ {w} : worker'[u] = worker[u]
      BY <1>1, Carries
    <2>1. CASE Persist(w)
      <3>1. v # w
        BY <1>1, <2>1, StoreEffect DEF Driving, Refused, Section
      <3>2. Bound(v) /\ worker'[v] = worker[v]
        BY <1>1, <2>0, <3>1 DEF Driving, Refused
      <3>3. row.rt = worker[v].seen.rt
        BY <3>2
      <3>4. row' = row
        <4> SUFFICES ASSUME row' # row PROVE FALSE
          OBVIOUS
        <4>1. Storing(w) /\ Matches(w)
          BY <2>1, StoreEffect
        <4>2. row.rt = worker[w].seen.rt
          BY <4>1, StoredOver
        <4>3. Driving(w)
          BY <4>1 DEF Storing, Driving, Section
        <4>4. ~Driving(v)
          BY <3>1, <4>3, OneDrives DEF Excepted
        <4>5. Refused(v)
          BY <3>2, <4>4
        <4>6. Condemned(worker[v].seen.rt)
          BY <4>5 DEF Condemned
        <4> QED BY <3>3, <4>1, <4>2, <4>6, Numbers DEF VerdictInv
      <3> QED BY <3>2, <3>3, <3>4
    <2>2. CASE Answer(w) \/ GiveUp(w)
      <3>1. row' = row
        BY <2>2, AnswerEffect
      <3>2. CASE v = w
        <4>1. Driving(w) /\ worker[w].step = "sent" /\ worker'[w].seen = worker[w].seen
          BY <1>1, <2>2, <3>2, AnswerEffect DEF Comes, Left, Driving, Refused, Section
        <4> QED BY <3>1, <3>2, <4>1
      <3>3. CASE v # w
        BY <1>1, <2>0, <3>1, <3>3 DEF Driving, Refused
      <3> QED BY <3>2, <3>3
    <2>3. CASE Reread(w)
      <3>1. row' = row
        BY <2>3, RereadEffect DEF World
      <3>2. CASE v = w
        BY <1>1, <2>3, <3>1, <3>2, RereadEffect DEF Comes, Left, Driving, Refused, Section
      <3>3. CASE v # w
        BY <1>1, <2>0, <3>1, <3>3 DEF Driving, Refused
      <3> QED BY <3>2, <3>3
    <2>4. CASE \/ Begin(w) \/ Lock(w) \/ Recover(w) \/ Release(w) \/ PostRefresh(w)
               \/ Retry(w) \/ Condemn(w) \/ AttemptExpires(w) \/ Deadline(w)
      <3>1. Harmless(w)
        BY <2>4, HarmlessSteps
      <3>2. CASE v # w
        BY <1>1, <3>1, <3>2 DEF Harmless, Driving, Refused
      <3>3. CASE v = w /\ Refused(w)'
        BY <3>1, <3>3 DEF Harmless
      <3>4. CASE v = w /\ ~Refused(w)'
        <4>1. worker'[w].step \in {"sent", "persist"} /\ ~worker'[w].late
          BY <1>1, <3>4 DEF Driving, Refused, Section
        <4>2. FALSE
          <5>1. CASE Begin(w) \/ Lock(w)
            BY <4>1, <5>1, BeginEffect, LockEffect DEF Comes, Ended
          <5>2. CASE Recover(w) \/ Release(w)
            BY <4>1, <5>2, RecoverEffect, ReleaseEffect DEF Comes, Ended, Left
          <5>3. CASE PostRefresh(w) \/ Retry(w) \/ Condemn(w)
            BY <4>1, <5>3, AfterEffect DEF Comes
          <5>4. CASE AttemptExpires(w) \/ Deadline(w)
            BY <4>1, <5>4, DeadlineEffect DEF Comes
          <5> QED BY <2>4, <5>1, <5>2, <5>3, <5>4
        <4> QED BY <4>2
      <3> QED BY <3>2, <3>3, <3>4
    <2> QED BY <1>1, <2>1, <2>2, <2>3, <2>4 DEF WorkerStep, Refresh
  <1>2. ASSUME NEW kind \in {"edit", "apply", "device"}, AdminReads(kind),
               NEW v \in Workers, Bound(v)'
        PROVE  row'.rt = worker'[v].seen.rt
    BY <1>2 DEF AdminReads, Driving, Refused
  <1>3. ASSUME AdminWrites, NEW v \in Workers, Bound(v)'
        PROVE  row'.rt = worker'[v].seen.rt
    <2>1. worker' = worker /\ platform' = platform
      BY <1>3 DEF AdminWrites
    <2>2. Bound(v) /\ Engaged(v)
      BY <1>3, <2>1 DEF Driving, Refused, Engaged, Section
    <2>3. row' = row \/ "crossed" \in past'
      BY <1>3, <2>2 DEF AdminWrites
    <2>4. row' = row
      BY <2>1, <2>3 DEF Excepted, Crossed
    <2> QED BY <2>1, <2>2, <2>4
  <1>4. ASSUME AdminClears \/ AdminFails \/ AdminSwitches \/ Ages \/ CooldownEnds \/ LeaseLapses \/ LeaseOverrun,
               NEW v \in Workers, Bound(v)'
        PROVE  row'.rt = worker'[v].seen.rt
    <2>1. row'.rt = row.rt
      BY <1>4, Numbers DEF AdminClears, AdminFails, AdminSwitches, Ages, CooldownEnds, LeaseLapses, LeaseOverrun, Rows
    <2>2. worker' = worker
      BY <1>4 DEF AdminClears, AdminFails, AdminSwitches, Ages, CooldownEnds, LeaseLapses, LeaseOverrun
    <2> QED BY <1>4, <2>1, <2>2 DEF Driving, Refused
  <1>5. ASSUME NEW n \in Nodes, Crash(n), NEW v \in Workers, Bound(v)'
        PROVE  row'.rt = worker'[v].seen.rt
    <2>1. row' = row /\ (worker'[v] = worker[v] \/ worker'[v].step = "idle")
      BY <1>5 DEF Crash, Resting
    <2> QED BY <1>5, <2>1 DEF Driving, Refused, Section
  <1>6. CASE UNCHANGED vars
    BY <1>6 DEF vars, Driving, Refused
  <1> QED
    BY <1>1, <1>2, <1>3, <1>4, <1>5, <1>6 DEF Next, WorkerStep

\* No step passes a wrong verdict.
LEMMA VerdictStep ==
    ASSUME IInv, [Next]_vars
    PROVE  VerdictInv'
  <1>0. TypeOK /\ IssuedInv /\ FamilyInv /\ LeaseInv /\ SameInv /\ VerdictInv /\ (Excepted => Excepted')
    BY ExceptedStays DEF IInv
  <1> SUFFICES ASSUME ~Excepted, ~Excepted', NEW t \in Tokens, Condemned(t)'
               PROVE  t \notin accepted' /\ \A v \in Workers : Storing(v)' => t # worker'[v].seen.rt
    BY <1>0 DEF VerdictInv
  <1> DEFINE Fine == t \notin accepted' /\ \A v \in Workers : Storing(v)' => t # worker'[v].seen.rt
  <1>a. Condemned(t) => t \notin accepted /\ \A v \in Workers : Storing(v) => t # worker[v].seen.rt
    BY <1>0 DEF VerdictInv
  <1>b. Condemned(t) => t # issued + 1
    BY <1>0, Numbers DEF Condemned, IssuedInv
  <1>1. ASSUME NEW w \in Workers, WorkerStep(w) PROVE Fine
    <2>0. (\A u \in Workers \ {w} : worker'[u] = worker[u]) /\ admin' = admin
      BY <1>0, <1>1, Carries
    <2>1. CASE Persist(w)
      <3>1. ~Refused(w)' /\ ~Storing(w)'
        BY <1>0, <2>1, StoreEffect DEF Refused, Storing
      <3>2. Condemned(t)
        <4>1. CASE row' = row
          BY <2>0, <3>1, <4>1 DEF Condemned, Refused
        <4>2. CASE /\ Storing(w) /\ Matches(w)
                   /\ row'.rt = worker[w].got /\ ~row'.failed /\ row'.status = row.status
          <5>1. row.rt = worker[w].seen.rt
            BY <1>0, <4>2, StoredOver
          <5>2. ~Condemned(row.rt)
            BY <1>0, <4>2, <5>1, Numbers DEF VerdictInv
          <5>3. ~(row'.status = "error" /\ admin'.step # "clear")
            BY <2>0, <4>2, <5>2 DEF Condemned
          <5> QED BY <2>0, <3>1, <4>2, <5>3 DEF Condemned, Refused
        <4> QED BY <1>0, <2>1, <4>1, <4>2, StoreEffect
      <3>3. accepted' = accepted
        BY <1>0, <2>1, StoreEffect
      <3> QED BY <1>a, <2>0, <3>1, <3>2, <3>3 DEF Storing
    <2>2. CASE Answer(w) \/ GiveUp(w)
      <3>1. row' = row
        BY <1>0, <2>2, AnswerEffect
      <3>2. CASE worker'[w].step = "persist"
        <4>1. /\ Rotate(worker[w].seen.rt) /\ worker'[w].seen = worker[w].seen
          BY <1>0, <2>2, <3>2, AnswerEffect DEF Comes, Left
        <4>2. Condemned(t)
          BY <2>0, <3>1, <3>2 DEF Condemned, Refused
        <4>3. t # worker[w].seen.rt /\ t \notin accepted'
          BY <1>a, <1>b, <4>1, <4>2 DEF Rotate
        <4> QED BY <1>a, <2>0, <4>1, <4>2, <4>3 DEF Storing
      <3>3. CASE worker'[w].step = "recover"
        <4>1. /\ worker[w].step = "sent" /\ ~worker[w].late
              /\ worker[w].seen.rt \notin accepted /\ worker'[w].seen = worker[w].seen
              /\ accepted' = accepted
          BY <1>0, <2>2, <3>3, AnswerEffect DEF Comes, Left
        <4>2. \A v \in Workers : ~Storing(v)'
          <5> SUFFICES ASSUME NEW v \in Workers, Storing(v)' PROVE FALSE
            OBVIOUS
          <5>1. v # w
            BY <3>3 DEF Storing
          <5>2. Driving(v) /\ Driving(w)
            BY <2>0, <4>1, <5>1 DEF Storing, Driving, Section
          <5> QED BY <1>0, <5>1, <5>2, OneDrives DEF Excepted
        <4>3. Condemned(t) \/ t = worker[w].seen.rt
          BY <2>0, <3>1, <4>1 DEF Condemned, Refused
        <4> QED BY <1>a, <4>1, <4>2, <4>3
      <3>4. CASE worker'[w].step \notin {"persist", "recover"}
        <4>1. ~Refused(w)' /\ ~Storing(w)'
          BY <1>0, <2>2, <3>4, AnswerEffect DEF Comes, Left, Refused, Storing
        <4>2. Condemned(t)
          BY <2>0, <3>1, <4>1 DEF Condemned, Refused
        <4>3. t \notin accepted'
          BY <1>0, <1>a, <1>b, <2>2, <4>2, AnswerEffect DEF Rotate
        <4> QED BY <1>a, <2>0, <4>1, <4>2, <4>3 DEF Storing
      <3> QED BY <3>2, <3>3, <3>4
    <2>3. CASE \/ Begin(w) \/ Lock(w) \/ Reread(w) \/ Recover(w) \/ Release(w)
               \/ PostRefresh(w) \/ Retry(w) \/ Condemn(w) \/ AttemptExpires(w) \/ Deadline(w)
      <3>1. Harmless(w) /\ accepted' = accepted
        BY <1>0, <2>3, HarmlessSteps
      <3>2. \/ row'.failed = row.failed /\ row'.status = row.status
            \/ worker[w].step = "after" /\ worker[w].out = "refused" /\ Mine(w)
        <4>1. CASE Begin(w) \/ Lock(w) \/ Reread(w) \/ Recover(w) \/ Release(w)
                   \/ AttemptExpires(w) \/ Deadline(w)
          BY <1>0, <4>1, BeginEffect, LockEffect, RereadEffect, RecoverEffect, ReleaseEffect,
             DeadlineEffect DEF World
        <4>2. CASE PostRefresh(w) \/ Retry(w) \/ Condemn(w)
          BY <1>0, <4>2, AfterEffect, Numbers DEF Rows
        <4> QED BY <2>3, <4>1, <4>2
      <3>3. Condemned(t)
        <4>1. CASE t = row'.rt /\ (row'.failed \/ (row'.status = "error" /\ admin'.step # "clear"))
          <5>1. CASE row'.failed = row.failed /\ row'.status = row.status
            BY <2>0, <3>1, <4>1, <5>1 DEF Condemned, Harmless
          <5>2. CASE worker[w].step = "after" /\ worker[w].out = "refused" /\ Mine(w)
            <6>1. Refused(w)
              BY <5>2 DEF Refused
            <6>2. row.rt = worker[w].seen.rt
              BY <1>0, <5>2, <6>1 DEF SameInv, Mine, Unchanged, Document
            <6> QED BY <3>1, <4>1, <6>1, <6>2 DEF Condemned, Harmless
          <5> QED BY <3>2, <5>1, <5>2
        <4>2. CASE /\ admin'.step = "write" /\ admin'.kind = "edit"
                   /\ t = admin'.seen.rt /\ (admin'.seen.failed \/ admin'.seen.status = "error")
          BY <2>0, <4>2 DEF Condemned
        <4>3. ASSUME NEW v \in Workers, Refused(v)', t = worker'[v].seen.rt PROVE Condemned(t)
          <5>1. Refused(v) /\ worker'[v].seen.rt = worker[v].seen.rt
            BY <3>1, <4>3 DEF Harmless, Refused
          <5> QED BY <4>3, <5>1 DEF Condemned
        <4> QED BY <4>1, <4>2, <4>3 DEF Condemned
      <3>4. \A v \in Workers : Storing(v)' => Storing(v) /\ worker'[v].seen.rt = worker[v].seen.rt
        BY <3>1 DEF Harmless, Storing
      <3> QED BY <1>a, <3>1, <3>3, <3>4
    <2> QED BY <1>1, <2>1, <2>2, <2>3 DEF WorkerStep, Refresh
  <1>2. ASSUME NEW kind \in {"edit", "apply", "device"}, AdminReads(kind) PROVE Fine
    <2>1. /\ UNCHANGED <<row, worker>> /\ admin.step = "idle"
          /\ admin'.step = "write" /\ admin'.seen = row
      BY <1>2 DEF AdminReads
    <2>2. Condemned(t)
      BY <2>1 DEF Condemned, Refused
    <2>3. t \notin accepted'
      BY <1>2, <1>a, <1>b, <2>2 DEF AdminReads
    <2> QED BY <1>a, <2>1, <2>2, <2>3 DEF Storing
  <1>3. CASE AdminWrites
    <2>1. UNCHANGED <<accepted, worker>> /\ admin.step = "write"
      BY <1>3 DEF AdminWrites
    <2>2. CASE admin.kind = "device" /\ Document(row) # Document(admin.seen)
      <3>1. row' = row /\ admin'.step = "idle"
        BY <1>3, <2>2 DEF AdminWrites, NoRequest
      <3>2. Condemned(t)
        BY <2>1, <3>1 DEF Condemned, Refused
      <3> QED BY <1>a, <2>1, <3>2 DEF Storing
    <2>3. CASE ~(admin.kind = "device" /\ Document(row) # Document(admin.seen))
      <3>1. /\ row'.rt = admin.token
            /\ row'.failed = (admin.kind = "edit" /\ admin.seen.failed)
            /\ row'.status = IF admin.kind = "device" THEN "active" ELSE admin.seen.status
        BY <1>3, <2>3 DEF AdminWrites
      <3>2. admin'.step = IF admin.kind = "apply" THEN "clear" ELSE "idle"
        <4>1. admin' = IF admin.kind = "apply" THEN [admin EXCEPT !.step = "clear"] ELSE NoRequest
          BY <1>3, <2>3 DEF AdminWrites
        <4>2. AdminTypes
          BY <1>0, TypeParts
        <4> QED BY <4>1, <4>2 DEF AdminTypes, AdminStates, NoRequest
      <3>3. admin.kind \in {"edit", "apply", "device"}
        BY <1>0, TypeParts DEF AdminTypes, AdminStates
      <3>4. admin.kind = "edit" => admin.token = admin.seen.rt
        BY <1>0, <2>1 DEF FamilyInv
      <3>5. Condemned(t)
        BY <2>1, <3>1, <3>2, <3>3, <3>4 DEF Condemned, Refused
      <3> QED BY <1>a, <2>1, <3>5 DEF Storing
    <2> QED BY <2>2, <2>3
  <1>4. CASE AdminClears
    <2>1. /\ row'.rt = row.rt /\ row'.failed = row.failed /\ row'.status = "active"
      BY <1>0, <1>4, Numbers DEF AdminClears, Rows
    <2>2. UNCHANGED <<accepted, worker>> /\ admin'.step = "idle"
      BY <1>4 DEF AdminClears, NoRequest
    <2>3. Condemned(t)
      BY <2>1, <2>2 DEF Condemned, Refused
    <2> QED BY <1>a, <2>2, <2>3 DEF Storing
  <1>5. CASE AdminFails
    <2>1. "halfway" \in past'
      BY <1>5 DEF AdminFails
    <2> QED BY <2>1 DEF Excepted
  <1>6. CASE AdminSwitches \/ Ages \/ CooldownEnds \/ LeaseLapses \/ LeaseOverrun
    <2>1. row'.rt = row.rt /\ row'.failed = row.failed /\ row'.status = row.status
      BY <1>0, <1>6, Numbers DEF AdminSwitches, Ages, CooldownEnds, LeaseLapses, LeaseOverrun, Rows
    <2>2. UNCHANGED <<accepted, worker, admin>>
      BY <1>6 DEF AdminSwitches, Ages, CooldownEnds, LeaseLapses, LeaseOverrun
    <2>3. Condemned(t)
      BY <2>1, <2>2 DEF Condemned, Refused
    <2> QED BY <1>a, <2>2, <2>3 DEF Storing
  <1>7. ASSUME NEW n \in Nodes, Crash(n) PROVE Fine
    <2>1. UNCHANGED <<row, accepted, admin>>
      BY <1>7 DEF Crash
    <2>2. \A v \in Workers : worker'[v] = worker[v] \/ worker'[v].step = "idle"
      BY <1>7 DEF Crash, Resting
    <2>3. Condemned(t)
      BY <2>1, <2>2 DEF Condemned, Refused
    <2> QED BY <1>a, <2>1, <2>2, <2>3 DEF Storing
  <1>8. CASE UNCHANGED vars
    <2>1. Condemned(t)
      BY <1>8 DEF vars, Condemned, Refused
    <2> QED BY <1>8, <1>a, <2>1 DEF vars, Storing
  <1> QED
    BY <1>1, <1>2, <1>3, <1>4, <1>5, <1>6, <1>7, <1>8 DEF Next, WorkerStep

-----------------------------------------------------------------------------
(* The token.                                                              *)

\* A step after which nothing new was sent or rotated, the tokens are where
\* they were, and the row still is what Grok compares with, unless its token is
\* dead and nobody is about to store what came of it.
Quiet ==
    /\ row'.rt = row.rt /\ accepted' = accepted
    /\ Granting' => Granting
    /\ admin.step = "write" => admin'.step = "write" /\ admin'.token = admin.token /\ Granting' = Granting
    /\ \A w \in Workers :
         /\ Sent(w)' => Sent(w) /\ worker'[w].seen = worker[w].seen
         /\ Rotated(w)' => Rotated(w) /\ worker'[w].seen = worker[w].seen
                                      /\ worker'[w].got = worker[w].got
         /\ Storing(w)' => Storing(w)
         /\ Holds(w) => Holds(w)'
    /\ platform' = platform
    /\ \/ ~Grok
       \/ Document(row') = Document(row)
       \/ row.rt \notin accepted /\ \A w \in Workers : Storing(w) => row.rt # worker[w].seen.rt

\* Such a step keeps the token.
LEMMA QuietKeeps ==
    ASSUME KeptInv, SentInv, RotatedInv, GrantInv, Quiet
    PROVE  KeptInv' /\ SentInv' /\ RotatedInv' /\ GrantInv'
  <1>1. KeptInv'
    BY DEF KeptInv, Quiet
  <1>2. \A w \in Workers : Document(row') = Document(row) /\ worker'[w].seen = worker[w].seen
            /\ Unchanged(w) => Unchanged(w)'
    BY DEF Unchanged
  <1>3. SentInv'
    <2> SUFFICES ASSUME NEW w \in Workers, Sent(w)', worker'[w].seen.rt \in accepted'
                 PROVE  row'.rt = worker'[w].seen.rt /\ (Grok' => Unchanged(w)')
      BY DEF SentInv
    <2>1. Sent(w) /\ worker'[w].seen = worker[w].seen /\ worker[w].seen.rt \in accepted
      BY DEF Quiet
    <2>2. row.rt = worker[w].seen.rt /\ (Grok => Unchanged(w))
      BY <2>1 DEF SentInv
    <2> QED BY <1>2, <2>1, <2>2 DEF Quiet
  <1>4. GrantInv'
    BY DEF GrantInv, Quiet, Granting
  <1>5. ASSUME NEW w \in Workers, Rotated(w)'
        PROVE  /\ row'.rt \notin accepted'
               /\ \A v \in Workers : Rotated(v)' => v = w
               /\ Holds(w)' \/ Granting'
               /\ Storing(w)' /\ Grok' => Unchanged(w)'
               /\ worker'[w].got # row'.rt
               /\ \A v \in Workers : Sent(v)' => worker'[v].seen.rt # worker'[w].got
    <2>1. Rotated(w) /\ worker'[w].seen = worker[w].seen /\ worker'[w].got = worker[w].got
      BY <1>5 DEF Quiet
    <2>2. Holds(w)' \/ Granting'
      BY <2>1 DEF RotatedInv, Quiet, Granting
    <2>3. Storing(w)' /\ Grok' => Unchanged(w)'
      <3> SUFFICES ASSUME Storing(w)', Grok' PROVE Unchanged(w)'
        OBVIOUS
      <3>1. Storing(w) /\ Grok /\ Unchanged(w)
        BY <2>1 DEF RotatedInv, Quiet
      <3>2. row.rt = worker[w].seen.rt
        BY <3>1 DEF Unchanged, Document
      <3> QED BY <1>2, <2>1, <3>1, <3>2 DEF Quiet
    <2>4. \A v \in Workers : Rotated(v)' => v = w
      BY <2>1 DEF RotatedInv, Quiet
    <2>5. /\ row'.rt \notin accepted' /\ worker'[w].got # row'.rt
          /\ \A v \in Workers : Sent(v)' => worker'[v].seen.rt # worker'[w].got
      BY <2>1 DEF RotatedInv, Quiet
    <2> QED BY <2>2, <2>3, <2>4, <2>5
  <1>6. RotatedInv'
    BY <1>5 DEF RotatedInv
  <1> QED BY <1>1, <1>3, <1>4, <1>6

\* Grok's verdicts have no exception as long as no token is lost.
LEMMA GrokVerdicts == Lossless /\ Grok => ~Excepted
  BY DEF Lossless, Losses, Excepted, Crossed, Degraded

\* A step of a worker that neither sends, nor rotates, nor stores.
LEMMA QuietSteps ==
    ASSUME IInv, Lossless, NEW w \in Workers,
           \/ Begin(w) \/ Lock(w) \/ Recover(w) \/ Release(w)
           \/ PostRefresh(w) \/ Retry(w) \/ Condemn(w) \/ AttemptExpires(w) \/ Deadline(w)
    PROVE  Quiet
  <1>0. TypeOK /\ LeaseInv /\ VerdictInv
    BY DEF IInv
  <1>1. Harmless(w) /\ accepted' = accepted
    BY <1>0, HarmlessSteps
  <1>2. admin' = admin
    BY <1>0, Carries DEF WorkerStep, Refresh
  <1>3. platform' = platform
    BY <1>0, BeginEffect, LockEffect, RecoverEffect, ReleaseEffect, AfterEffect, DeadlineEffect
       DEF World
  <1>4. /\ Sent(w)' => Sent(w) /\ worker'[w].seen = worker[w].seen
        /\ Rotated(w)' => Rotated(w) /\ worker'[w].seen = worker[w].seen
                                     /\ worker'[w].got = worker[w].got
        /\ Rotated(w) => Rotated(w)' /\ worker'[w].got = worker[w].got
    <2>1. CASE Begin(w) \/ Lock(w)
      BY <1>0, <2>1, BeginEffect, LockEffect DEF Comes, Ended, Sent, Rotated
    <2>2. CASE Recover(w) \/ Release(w)
      BY <1>0, <2>2, RecoverEffect, ReleaseEffect DEF Comes, Left, Ended, Sent, Rotated
    <2>3. CASE PostRefresh(w) \/ Retry(w) \/ Condemn(w)
      BY <1>0, <2>3, AfterEffect DEF Comes, Sent, Rotated
    <2>4. CASE AttemptExpires(w) \/ Deadline(w)
      BY <1>0, <2>4, DeadlineEffect DEF Comes, Sent, Rotated
    <2> QED BY <2>1, <2>2, <2>3, <2>4
  <1>5. \/ Document(row') = Document(row)
        \/ worker[w].step = "after" /\ worker[w].out = "refused" /\ Mine(w)
    <2>1. CASE \/ Begin(w) \/ Lock(w) \/ Recover(w) \/ Release(w)
               \/ AttemptExpires(w) \/ Deadline(w)
      BY <1>0, <2>1, BeginEffect, LockEffect, RecoverEffect, ReleaseEffect, DeadlineEffect
         DEF World
    <2>2. CASE PostRefresh(w) \/ Retry(w) \/ Condemn(w)
      BY <1>0, <2>2, AfterEffect, Numbers DEF Rows, Document
    <2> QED BY <2>1, <2>2
  <1>6. CASE Document(row') = Document(row)
    BY <1>1, <1>2, <1>3, <1>4, <1>6 DEF Quiet, Harmless, Holds, Sent, Rotated, Storing, Granting
  <1>7. CASE worker[w].step = "after" /\ worker[w].out = "refused" /\ Mine(w) /\ Grok
    <2>1. row.rt = worker[w].seen.rt
      BY <1>7 DEF Mine, Unchanged, Document
    <2>2. Condemned(row.rt)
      BY <1>7, <2>1 DEF Condemned, Refused
    <2>3. row.rt \notin accepted /\ \A v \in Workers : Storing(v) => row.rt # worker[v].seen.rt
      BY <1>0, <1>7, <2>2, GrokVerdicts, Numbers DEF VerdictInv
    <2> QED
      BY <1>1, <1>2, <1>3, <1>4, <2>3 DEF Quiet, Harmless, Holds, Sent, Rotated, Storing, Granting
  <1>8. CASE ~Grok
    BY <1>1, <1>2, <1>3, <1>4, <1>8 DEF Quiet, Harmless, Holds, Sent, Rotated, Storing, Granting
  <1> QED BY <1>5, <1>6, <1>7, <1>8

\* The account is read, and the request is made with what was read.
LEMMA RereadKeeps ==
    ASSUME IInv, Lossless, NEW w \in Workers, Reread(w)
    PROVE  KeptInv' /\ SentInv' /\ RotatedInv' /\ GrantInv'
  <1>0. TypeOK /\ KeptInv /\ SentInv /\ RotatedInv /\ GrantInv
    BY DEF IInv, TokenInv
  <1>1. /\ worker[w].step = "reread" /\ UNCHANGED <<platform, row, accepted, admin>>
        /\ \A v \in Workers \ {w} : worker'[v] = worker[v]
    BY <1>0, RereadEffect, Carries DEF World, WorkerStep, Refresh
  <1>2. \/ worker'[w].step = "release"
        \/ worker'[w].step = "sent" /\ worker'[w].seen = row
    BY <1>0, RereadEffect DEF Comes, Left
  <1>3. \A v \in Workers :
          /\ Rotated(v)' <=> Rotated(v)
          /\ Rotated(v) => worker'[v] = worker[v]
          /\ Sent(v)' => v = w \/ (Sent(v) /\ worker'[v] = worker[v])
          /\ Holds(v)' <=> Holds(v)
    BY <1>1, <1>2 DEF Rotated, Sent, Holds
  <1>4. KeptInv'
    BY <1>0, <1>1, <1>3 DEF KeptInv
  <1>5. Sent(w)' => worker'[w].seen.rt = row.rt /\ Unchanged(w)'
    BY <1>1, <1>2 DEF Sent, Unchanged
  <1>6. SentInv'
    BY <1>0, <1>1, <1>3, <1>5 DEF SentInv, Unchanged
  <1>7. RotatedInv'
    BY <1>0, <1>1, <1>3, <1>5 DEF RotatedInv, Unchanged, Storing, Granting, Rotated
  <1>8. GrantInv'
    BY <1>0, <1>1, <1>3, <1>5 DEF GrantInv, Granting
  <1> QED BY <1>4, <1>6, <1>7, <1>8

\* The provider answers.
LEMMA AnswerKeeps ==
    ASSUME IInv, Lossless, Lossless', NEW w \in Workers, Answer(w) \/ GiveUp(w)
    PROVE  KeptInv' /\ SentInv' /\ RotatedInv' /\ GrantInv'
  <1>0. TypeOK /\ IssuedInv /\ KeptInv /\ SentInv /\ RotatedInv /\ GrantInv
    BY DEF IInv, TokenInv
  <1>1. /\ worker[w].step = "sent" /\ UNCHANGED <<platform, row, admin>>
        /\ \A v \in Workers \ {w} : worker'[v] = worker[v]
    BY <1>0, AnswerEffect, Carries DEF WorkerStep, Refresh
  <1>2. \/ /\ Rotate(worker[w].seen.rt) /\ worker'[w].step = "persist"
           /\ worker'[w].seen = worker[w].seen /\ worker'[w].got = issued + 1
        \/ accepted' = accepted /\ worker'[w].step \in {"recover", "release"}
    <2>1. "lost" \notin past' /\ "late" \notin past'
      BY DEF Lossless, Losses
    <2> QED BY <1>0, <2>1, AnswerEffect DEF Comes, Left
  <1>3. CASE accepted' = accepted /\ worker'[w].step \in {"recover", "release"}
    <2>1. Quiet
      BY <1>1, <1>3 DEF Quiet, Holds, Sent, Rotated, Storing, Granting
    <2> QED BY <1>0, <2>1, QuietKeeps
  <1>4. CASE /\ Rotate(worker[w].seen.rt) /\ worker'[w].step = "persist"
             /\ worker'[w].seen = worker[w].seen /\ worker'[w].got = issued + 1
    <2>1. worker[w].seen.rt \in accepted /\ accepted' = (accepted \ {worker[w].seen.rt}) \cup {issued + 1}
      BY <1>4 DEF Rotate
    <2>2. row.rt = worker[w].seen.rt /\ (Grok => Unchanged(w))
      BY <1>0, <1>1, <2>1 DEF SentInv, Sent
    <2>3. \A v \in Workers : ~Rotated(v)
      BY <1>0, <2>1, <2>2 DEF RotatedInv
    <2>4. /\ row.rt # issued + 1 /\ admin.token # issued + 1
          /\ \A v \in Workers : worker[v].seen.rt # issued + 1
      BY <1>0, Numbers DEF IssuedInv
    <2>5. row'.rt \notin accepted' /\ Holds(w)' /\ Rotated(w)'
      BY <1>1, <1>4, <2>1, <2>2, <2>4 DEF Holds, Rotated
    <2>6. KeptInv'
      BY <2>5 DEF KeptInv
    <2>7. \A v \in Workers \ {w} : worker'[v] = worker[v] /\ ~Rotated(v)'
      BY <1>1, <2>3 DEF Rotated
    <2>8. \A v \in Workers : Sent(v)' => v # w /\ Sent(v) /\ worker'[v] = worker[v]
      BY <1>1, <1>4 DEF Sent
    <2>9. SentInv'
      BY <1>0, <2>1, <2>2, <2>4, <2>8 DEF SentInv
    <2>10. Unchanged(w) => Unchanged(w)'
      BY <1>1, <1>4 DEF Unchanged
    <2>11. RotatedInv'
      BY <1>1, <1>4, <2>2, <2>4, <2>5, <2>7, <2>8, <2>10 DEF RotatedInv
    <2>12. GrantInv'
      BY <1>0, <1>1, <1>4, <2>1, <2>2, <2>4, <2>7, <2>8 DEF GrantInv, Granting
    <2> QED BY <2>6, <2>9, <2>11, <2>12
  <1> QED BY <1>2, <1>3, <1>4

\* What the provider issued is stored, in place of the token it came from.
LEMMA PersistKeeps ==
    ASSUME IInv, Lossless, Lossless', NEW w \in Workers, Persist(w)
    PROVE  KeptInv' /\ SentInv' /\ RotatedInv' /\ GrantInv'
  <1>0. TypeOK /\ KeptInv /\ SentInv /\ RotatedInv /\ GrantInv
    BY DEF IInv, TokenInv
  <1>1. /\ \A v \in Workers \ {w} : worker'[v] = worker[v]
        /\ worker[w].step = "persist" /\ worker'[w].step = "release"
        /\ UNCHANGED <<platform, accepted, admin>>
    BY <1>0, StoreEffect, PersistEffect
  <1>2. Rotated(w)
    BY <1>1 DEF Rotated
  <1>3. \/ Storing(w) /\ row'.rt = worker[w].got
        \/ row' = row /\ ~Holds(w)
    <2>1. "unsaved" \notin past' /\ "late" \notin past'
      BY DEF Lossless, Losses
    <2>2. Storing(w) => Matches(w)
      BY <1>0, <1>2 DEF RotatedInv, Matches
    <2>3. Stored(w).rt = worker[w].got
      BY <1>0, Numbers DEF Stored, Rows
    <2> QED BY <1>0, <2>1, <2>2, <2>3, PersistEffect DEF Storing
  <1>4. CASE row' = row /\ ~Holds(w)
    <2>1. Quiet
      BY <1>1, <1>4 DEF Quiet, Holds, Sent, Rotated, Storing, Granting
    <2> QED BY <1>0, <2>1, QuietKeeps
  <1>5. CASE Storing(w) /\ row'.rt = worker[w].got
    <2>1. \A v \in Workers : ~Rotated(v)'
      BY <1>0, <1>1, <1>2 DEF RotatedInv, Rotated
    <2>2. \A v \in Workers : Sent(v)' => Sent(v) /\ worker'[v] = worker[v]
      BY <1>1 DEF Sent
    <2>3. KeptInv'
      BY <1>0, <1>1, <1>2, <1>5 DEF KeptInv, RotatedInv, Holds, GrantInv, Granting
    <2>4. SentInv'
      BY <1>0, <1>1, <1>2, <2>2 DEF SentInv, RotatedInv
    <2>5. RotatedInv'
      BY <2>1 DEF RotatedInv
    <2>6. GrantInv'
      BY <1>0, <1>1, <1>2, <1>5, <2>1, <2>2 DEF GrantInv, Granting
    <2> QED BY <2>3, <2>4, <2>5, <2>6
  <1> QED BY <1>3, <1>4, <1>5

\* An administrator's request.
LEMMA AdminKeeps ==
    ASSUME IInv, Lossless, Lossless',
           \/ \E kind \in {"edit", "apply", "device"} : AdminReads(kind)
           \/ AdminWrites \/ AdminClears \/ AdminFails
    PROVE  KeptInv' /\ SentInv' /\ RotatedInv' /\ GrantInv'
  <1>0. TypeOK /\ IssuedInv /\ FamilyInv /\ KeptInv /\ SentInv /\ RotatedInv /\ GrantInv
    BY DEF IInv, TokenInv
  <1>1. ASSUME NEW kind \in {"edit", "apply", "device"}, AdminReads(kind)
        PROVE  KeptInv' /\ SentInv' /\ RotatedInv' /\ GrantInv'
    <2>1. /\ UNCHANGED <<platform, row, worker>> /\ admin.step = "idle"
          /\ admin'.step = "write" /\ admin'.kind = kind
      BY <1>1 DEF AdminReads
    <2>2. CASE kind = "edit"
      <3>1. accepted' = accepted
        BY <1>1, <2>2 DEF AdminReads
      <3>2. Quiet
        BY <2>1, <2>2, <3>1 DEF Quiet, Holds, Sent, Rotated, Storing, Granting
      <3> QED BY <1>0, <3>2, QuietKeeps
    <2>3. CASE kind # "edit"
      <3>1. /\ accepted' \subseteq accepted \cup {issued + 1} /\ issued + 1 \in accepted'
            /\ admin'.token = issued + 1
        BY <1>1, <2>3 DEF AdminReads
      <3>2. /\ row.rt # issued + 1
            /\ \A v \in Workers : worker[v].seen.rt # issued + 1 /\ worker[v].got # issued + 1
        BY <1>0, Numbers DEF IssuedInv
      <3>3. KeptInv'
        BY <2>1, <3>1 DEF KeptInv
      <3>4. SentInv'
        BY <1>0, <2>1, <3>1, <3>2 DEF SentInv, Sent, Unchanged
      <3>5. Granting'
        BY <2>1, <2>3 DEF Granting
      <3>6. RotatedInv'
        BY <1>0, <2>1, <3>1, <3>2, <3>5 DEF RotatedInv, Rotated, Sent, Storing, Unchanged
      <3>7. GrantInv'
        BY <2>1, <3>1, <3>2 DEF GrantInv, Sent, Rotated
      <3> QED BY <3>3, <3>4, <3>6, <3>7
    <2> QED BY <2>2, <2>3
  <1>2. CASE AdminWrites
    <2>0. "crossed" \notin past'
      BY DEF Lossless, Losses
    <2>1. /\ admin.step = "write" /\ UNCHANGED <<accepted, worker>>
          /\ row'.rt = admin.token /\ row.rt = admin.seen.rt
          /\ \A w \in Workers : ~Engaged(w)
          /\ admin' \in {NoRequest, [admin EXCEPT !.step = "clear"]}
      BY <1>2, <2>0 DEF AdminWrites
    <2>2. \A w \in Workers : ~Sent(w)' /\ ~Rotated(w)' /\ ~Holds(w)
      BY <2>1 DEF Engaged, Sent, Rotated, Holds
    <2>3. ~Granting'
      <3>1. AdminTypes
        BY <1>0, TypeParts
      <3> QED BY <2>1, <3>1 DEF AdminTypes, AdminStates, NoRequest, Granting
    <2>4. admin.token \in accepted
      BY <1>0, <2>1, <2>2 DEF KeptInv, GrantInv, Granting, FamilyInv
    <2> QED BY <2>1, <2>2, <2>3, <2>4 DEF KeptInv, SentInv, RotatedInv, GrantInv
  <1>3. CASE AdminClears
    <2>1. /\ row'.rt = row.rt /\ row'.doc = row.doc /\ row'.failed = row.failed
      BY <1>0, <1>3, Numbers DEF AdminClears, Rows
    <2>2. UNCHANGED <<platform, accepted, worker>> /\ admin.step = "clear" /\ admin'.step = "idle"
      BY <1>3 DEF AdminClears, NoRequest
    <2>3. Quiet
      BY <2>1, <2>2 DEF Quiet, Document, Holds, Sent, Rotated, Storing, Granting
    <2> QED BY <1>0, <2>3, QuietKeeps
  <1>4. CASE AdminFails
    BY <1>4 DEF AdminFails, Lossless, Losses
  <1> QED BY <1>1, <1>2, <1>3, <1>4

\* No step loses the token unrecorded.
LEMMA TokenStep ==
    ASSUME IInv, [Next]_vars
    PROVE  TokenInv'
  <1>0. TypeOK /\ past \subseteq past' /\ platform' = platform
    BY HistoryGrows DEF IInv
  <1> SUFFICES ASSUME Lossless' PROVE KeptInv' /\ SentInv' /\ RotatedInv' /\ GrantInv'
    BY DEF TokenInv
  <1>1. Lossless /\ KeptInv /\ SentInv /\ RotatedInv /\ GrantInv
    BY <1>0 DEF IInv, TokenInv, Lossless
  <1>2. ASSUME NEW w \in Workers, WorkerStep(w)
        PROVE  KeptInv' /\ SentInv' /\ RotatedInv' /\ GrantInv'
    <2>1. CASE Reread(w) \/ Answer(w) \/ GiveUp(w) \/ Persist(w)
      BY <1>1, <2>1, RereadKeeps, AnswerKeeps, PersistKeeps
    <2>2. CASE \/ Begin(w) \/ Lock(w) \/ Recover(w) \/ Release(w) \/ PostRefresh(w)
               \/ Retry(w) \/ Condemn(w) \/ AttemptExpires(w) \/ Deadline(w)
      BY <1>1, <2>2, QuietSteps, QuietKeeps
    <2> QED BY <1>2, <2>1, <2>2 DEF WorkerStep, Refresh
  <1>3. CASE \/ \E kind \in {"edit", "apply", "device"} : AdminReads(kind)
             \/ AdminWrites \/ AdminClears \/ AdminFails
    BY <1>1, <1>3, AdminKeeps
  <1>4. CASE AdminSwitches \/ Ages \/ CooldownEnds \/ LeaseLapses \/ LeaseOverrun
    <2>1. row'.rt = row.rt /\ row'.doc = row.doc /\ row'.failed = row.failed
      BY <1>0, <1>4, Numbers DEF AdminSwitches, Ages, CooldownEnds, LeaseLapses, LeaseOverrun, Rows
    <2>2. UNCHANGED <<accepted, worker, admin>>
      BY <1>4 DEF AdminSwitches, Ages, CooldownEnds, LeaseLapses, LeaseOverrun
    <2>3. Quiet
      BY <1>0, <2>1, <2>2 DEF Quiet, Document, Holds, Sent, Rotated, Storing, Granting
    <2> QED BY <1>1, <2>3, QuietKeeps
  <1>5. ASSUME NEW n \in Nodes, Crash(n)
        PROVE  KeptInv' /\ SentInv' /\ RotatedInv' /\ GrantInv'
    <2>0. "crash" \notin past'
      BY DEF Lossless, Losses
    <2>1. UNCHANGED <<row, accepted, admin>>
      BY <1>5 DEF Crash
    <2>2. \A w \in Workers :
            \/ worker'[w] = worker[w]
            \/ worker'[w].step = "idle" /\ ~Holds(w)
      BY <1>5, <2>0 DEF Crash, Resting
    <2>3. Quiet
      BY <1>0, <2>1, <2>2 DEF Quiet, Holds, Sent, Rotated, Storing, Granting
    <2> QED BY <1>1, <2>3, QuietKeeps
  <1>6. CASE UNCHANGED vars
    <2>1. Quiet
      BY <1>6 DEF vars, Quiet, Holds, Sent, Rotated, Storing, Granting
    <2> QED BY <1>1, <2>1, QuietKeeps
  <1> QED
    BY <1>2, <1>3, <1>4, <1>5, <1>6 DEF Next, WorkerStep

-----------------------------------------------------------------------------
(* What holds throughout.                                                  *)

\* The invariant holds in the beginning,
LEMMA InitIInv == Init => IInv
  <1> SUFFICES ASSUME Init PROVE IInv
    OBVIOUS
  <1>1. TypeOK
    <2>1. WorkerTypes /\ AdminTypes
      BY FirstTypes DEF Init, WorkerTypes, AdminTypes
    <2>2. PlainTypes
      BY FirstTypes, RefreshAssumption DEF Init, PlainTypes
    <2> QED BY <2>1, <2>2, TypeParts
  <1>2. /\ Resting.step = "idle" /\ ~Resting.late /\ Resting.seen.rt = 0 /\ Resting.got = 0
        /\ FirstRow.rt = 0 /\ ~FirstRow.failed /\ FirstRow.status = "active"
        /\ NoRequest.step = "idle" /\ NoRequest.token = 0 /\ NoRequest.seen.rt = 0
    BY DEF Resting, FirstRow, NoRequest
  <1>3. \A w \in Workers : worker[w] = Resting
    BY DEF Init
  <1>4. \A w \in Workers : ~Driving(w) /\ ~Refused(w)
    BY <1>2, <1>3 DEF Driving, Refused, Section
  <1>5. IssuedInv
    BY <1>2, <1>3 DEF Init, IssuedInv
  <1>6. FamilyInv
    BY <1>2, <1>3, FirstTypes DEF Init, FamilyInv, ReauthorizationStands
  <1>7. LeaseInv /\ SameInv /\ VerdictInv
    BY <1>2, <1>3, <1>4 DEF Init, LeaseInv, SameInv, VerdictInv, Condemned
  <1>8. TokenInv
    <2>1. row.rt \in accepted /\ admin.step = "idle" /\ \A w \in Workers : worker[w].step = "idle"
      BY <1>2, <1>3 DEF Init
    <2> QED BY <2>1 DEF TokenInv, KeptInv, SentInv, RotatedInv, GrantInv, Sent, Rotated, Granting
  <1> QED BY <1>1, <1>5, <1>6, <1>7, <1>8 DEF IInv

\* and from then on.
LEMMA Invariance == Spec => []IInv
  <1>1. Init => IInv
    BY InitIInv
  <1>2. IInv /\ [Next]_vars => IInv'
    BY TypesStep, IssuedStep, FamilyStep, LeaseStep, SameStep, VerdictStep,
       TokenStep DEF IInv
  <1> QED BY <1>1, <1>2, PTL DEF Spec

\* The variables keep their types: no token beyond those issued is stored, no
\* worker is anywhere but in the steps of refreshAccount.
THEOREM TypeCorrect == Spec => []TypeOK
  <1>1. IInv => TypeOK
    BY DEF IInv
  <1> QED BY <1>1, Invariance, PTL

\* The refresh token that the provider accepts is in the row, in the hands of
\* the worker that rotated it or of the administrator, however many instances
\* refresh at a time, until a crash, a lost answer, a deadline, a failed store
\* or a write of the administrator in between drops it.
THEOREM TokenStays == Spec => []TokenKept
  <1>1. IInv => TokenKept
    BY DEF IInv, TokenInv, Lossless, KeptInv, TokenKept
  <1> QED BY <1>1, Invariance, PTL

\* What an administrator authorized last is not replaced by a refresh that
\* began before, but for stores that do not compare (updateCredentials).
THEOREM AuthorizationStands == Spec => []ReauthorizationStands
  <1>1. IInv => ReauthorizationStands
    BY DEF IInv, FamilyInv
  <1> QED BY <1>1, Invariance, PTL

\* An account whose token works is not condemned by a refresh that lost a race
\* (SetError, the permanent failure in the credentials), with the exceptions
\* that the property names.
THEOREM HealthyStays == Spec => []HealthyNotCondemned
  <1>1. IInv => HealthyNotCondemned
    <2> SUFFICES ASSUME IInv, ~Excepted, admin.step # "clear", row.status = "error" \/ row.failed
                 PROVE  row.rt \notin accepted
      BY DEF HealthyNotCondemned, Excepted, Crossed, Degraded
    <2>1. Condemned(row.rt)
      BY DEF Condemned
    <2> QED BY <2>1, Numbers DEF IInv, VerdictInv
  <1> QED BY <1>1, Invariance, PTL

=============================================================================

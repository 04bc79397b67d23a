----------------------------- MODULE OAuthRefresh -----------------------------
(***************************************************************************)
(* The refresh of one account's OAuth credentials.  The provider rotates   *)
(* the refresh token: an answer spends the token of the request and hands  *)
(* out the only one that works from then on.  The refresh cycles and the   *)
(* gateway requests of all instances go through refreshAccount, which      *)
(* holds a mutex of the process and a lease in Redis, rereads the account, *)
(* asks the provider and stores what it answers; an administrator edits or *)
(* re-authorizes the same row at any time.  Grok accounts take the lease   *)
(* strictly and store by compare-and-set; the other platforms fall back to *)
(* the mutex and store unconditionally.                                    *)
(***************************************************************************)
EXTENDS Integers, FiniteSets

CONSTANTS
    Nodes,        \* instances of the service
    Cycles,       \* refresh workers of the background cycles
    Requests,     \* gateway requests that find the token due
    NodeOf,       \* the instance each of them runs on
    NoWorker,     \* "the lease is free"
    MaxRetries,   \* token_refresh.max_retries
    MaxTokens,    \* bound: refresh tokens the provider issues after the first
    MaxWrites,    \* bound: writes by the administrator
    MaxFaults     \* bound: failed calls, lost answers, deadlines, crashes

Workers == Cycles \cup Requests
Tokens  == 0..MaxTokens

ASSUME RefreshAssumption ==
    /\ Cycles \cap Requests = {} /\ NoWorker \notin Workers
    /\ NodeOf \in [Workers -> Nodes]
    /\ MaxRetries \in Nat \ {0} /\ MaxTokens \in Nat
    /\ MaxWrites \in Nat /\ MaxFaults \in Nat

VARIABLES
    platform,    \* of the account
    row,         \* its row in the database
    age,         \* of the access token that came with each refresh token
    accepted,    \* refresh tokens the provider accepts
    issued,      \* number of the newest of them
    family,      \* history: the authorization each token descends from
    granted,     \* history: the latest authorization an administrator stored
    lease,       \* owner in the refresh lock key
    worker,      \* state of each worker
    admin,       \* state of the administrator's request
    writes,      \* writes of the administrator so far
    faults,      \* faults so far
    past         \* history: which Events happened

provider == <<accepted, issued, family>>
history  == <<granted, past>>
vars == <<platform, row, age, provider, history, lease, worker, admin, writes, faults>>

\* "crash", "lost", "late", "unsaved": a rotated token was dropped with a
\* process, with the provider's answer, by a deadline or by a failed write;
\* "crossed": an administrator's write met a refresh; "halfway": one stopped
\* half-way; "degraded": a refresh ran without the lease; "overrun": the lease
\* lapsed under a refresh no deadline bounds.
Events == {"crash", "lost", "late", "unsaved", "crossed", "halfway", "degraded",
           "overrun"}
Losses == {"crash", "lost", "late", "unsaved", "crossed", "halfway"}

Rows == [rt : Tokens,            \* credentials: the refresh token
         doc : 0..MaxWrites,     \* credentials and proxy: everything else
         failed : BOOLEAN,       \* credentials: permanent refresh failure
         status : {"active", "error"},
         schedulable : BOOLEAN,  \* an administrator's switch; an error turns it off
         cooldown : BOOLEAN]     \* temp_unschedulable after exhausted retries

Section == {"reread", "sent", "recover", "persist", "release"}

TypeOK ==
    /\ platform \in {"grok", "other"}
    /\ row \in Rows
    /\ age \in [Tokens -> {"fresh", "due", "expired"}]
    /\ accepted \subseteq Tokens /\ issued \in Tokens
    /\ family \in [Tokens -> 0..MaxWrites] /\ granted \in 0..MaxWrites
    /\ lease \in Workers \cup {NoWorker}
    /\ worker \in [Workers ->
           [step : {"idle", "lock", "after"} \cup Section,
            seen : Rows,             \* the account it works with
            got : Tokens,            \* the token the provider issued; 0: none
            late : BOOLEAN,          \* is its context done
            forced : BOOLEAN,        \* does it refresh whatever the token's age
            tries : 0..(MaxRetries - 1),
            own : BOOLEAN,           \* will it release the lease
            out : {"none", "skip", "contained", "retry", "refused", "done"}]]
    /\ admin \in [step : {"idle", "write", "clear"}, seen : Rows, token : Tokens,
                  kind : {"edit", "apply", "device"}]
    /\ writes \in 0..MaxWrites /\ faults \in 0..MaxFaults
    /\ past \subseteq Events

FirstRow  == [rt |-> 0, doc |-> 0, failed |-> FALSE, status |-> "active",
              schedulable |-> TRUE, cooldown |-> FALSE]
Resting   == [step |-> "idle", seen |-> FirstRow, got |-> 0, late |-> FALSE,
              forced |-> FALSE, tries |-> 0, own |-> FALSE, out |-> "none"]
NoRequest == [step |-> "idle", seen |-> FirstRow, token |-> 0, kind |-> "edit"]

Init ==
    /\ platform \in {"grok", "other"}
    /\ row = FirstRow
    /\ age = [t \in Tokens |-> "fresh"]
    /\ accepted = {0} /\ issued = 0 /\ family = [t \in Tokens |-> 0]
    /\ granted = 0 /\ past = {}
    /\ lease = NoWorker
    /\ worker = [w \in Workers |-> Resting]
    /\ admin = NoRequest
    /\ writes = 0 /\ faults = 0

--------------------------------------------------------------------------------
Grok == platform = "grok"

Document(r) == <<r.rt, r.doc, r.failed>>

HardValid(r) == age[r.rt] # "expired"

NeedsRefresh(r) == IF r.failed THEN ~HardValid(r) ELSE age[r.rt] # "fresh"

\* Mutant of Candidate: takes up tokens about to expire, not expired ones.
CandidateBeforeExpiry(r) ==
    r.status = "active" /\ r.schedulable /\ ~r.cooldown /\ age[r.rt] = "due"

\* The cycle's query, and what a request asks before it refreshes.
Usable(r)    == r.status = "active" /\ r.schedulable /\ ~r.cooldown
Candidate(r) == Usable(r) /\ NeedsRefresh(r)

Fault     == faults < MaxFaults /\ faults' = faults + 1
NoFault   == UNCHANGED faults
Record(E) == past' = past \cup E

InSection(w) == worker[w].step \in Section
Engaged(w)   == worker[w].step \notin {"idle", "lock"}
Holds(w)     == worker[w].step = "persist" /\ worker[w].got \in accepted

\* A deadline below the lease's life ends the attempt: the cycle's attempt
\* timeout, or the critical section of Grok.
Bounded(w) == Grok \/ w \in Cycles

Becomes(w, state) == worker' = [worker EXCEPT ![w] = state]
Goto(w, s)        == Becomes(w, [worker[w] EXCEPT !.step = s])
Rest(w)           == Becomes(w, Resting)

\* The attempt is over; saved is the account as the caller gets it.
Leave(w, o, saved) ==
    Becomes(w, [worker[w] EXCEPT !.step = "release", !.out = o, !.got = 0, !.seen = saved])

\* The result reaches the caller.  A request leaves the row alone, and a cycle
\* counts what it did not have to do.
Return(w, o) ==
    IF w \in Requests \/ o \in {"skip", "contained"} THEN Rest(w)
    ELSE Becomes(w, [Resting EXCEPT !.step = "after", !.out = o, !.seen = worker[w].seen,
                                    !.tries = worker[w].tries])

Aged == {t \in accepted : age[t] # "fresh"}

\* The provider issues one more token of authorization f.
Issue(f) ==
    /\ issued < MaxTokens
    /\ issued' = issued + 1
    /\ family' = [family EXCEPT ![issued + 1] = f]

--------------------------------------------------------------------------------
\* A cycle lists the account among its candidates, a request finds its token
\* due, or the provider refuses an access token that is not: then the request
\* asks for another in any case.
Begin(w) ==
    /\ worker[w].step = "idle"
    /\ \E forced \in BOOLEAN :
         /\ IF forced THEN w \in Requests /\ Usable(row)
                           /\ issued + 1 + Cardinality(Aged) <= MaxTokens
                      ELSE Candidate(row)
         /\ Becomes(w, [worker[w] EXCEPT !.step = "lock", !.forced = forced,
                                         !.seen = IF w \in Cycles THEN row ELSE FirstRow])
    /\ UNCHANGED <<platform, row, age, provider, history, lease, admin, writes, faults>>

\* The mutex of the process and the lease.  A lease that is held ends the
\* attempt; one that cannot be asked for ends Grok's and is done without by the
\* others, whether or not Redis set the key.  The wait may outlast the context.
Lock(w) ==
    /\ worker[w].step = "lock"
    /\ \A v \in Workers \ {w} : NodeOf[v] = NodeOf[w] => ~InSection(v)
    /\ \/ /\ lease # NoWorker
          /\ Return(w, "skip")
          /\ NoFault /\ UNCHANGED <<lease, past>>
       \/ /\ lease = NoWorker
          /\ lease' = w
          /\ Becomes(w, [worker[w] EXCEPT !.step = "reread", !.own = TRUE])
          /\ NoFault /\ UNCHANGED past
       \/ /\ Fault
          /\ lease' \in IF lease = NoWorker THEN {w, NoWorker} ELSE {lease}
          /\ \/ Grok /\ Return(w, "retry") /\ UNCHANGED past
             \/ ~Grok /\ Goto(w, "reread") /\ Record({"degraded"})
       \/ Fault /\ Return(w, "retry") /\ UNCHANGED <<lease, past>>
    /\ UNCHANGED <<platform, row, age, provider, granted, admin, writes>>

\* A request uses no Grok account that was set aside meanwhile.
Eligible(w) == IF Grok /\ w \in Requests THEN Usable(row) ELSE row.status = "active"

\* refreshAccount reads the account again under the lease.
Reread(w) ==
    /\ worker[w].step = "reread"
    /\ \/ Fault /\ \E o \in {"contained", "retry"} : Leave(w, o, worker[w].seen)
       \/ /\ NoFault
          /\ IF Eligible(w) /\ (worker[w].forced \/ NeedsRefresh(row))
             THEN Becomes(w, [worker[w] EXCEPT !.step = "sent", !.seen = row])
             ELSE Leave(w, "skip", row)
    /\ UNCHANGED <<platform, row, age, provider, history, lease, admin, writes>>

\* The provider handles the request: it rotates a token it accepts and refuses
\* any other.  It may fail, and its answer may be lost after it rotated.
Rotate(t) ==
    /\ t \in accepted
    /\ Issue(family[t])
    /\ accepted' = (accepted \ {t}) \cup {issued + 1}

Answer(w) ==
    /\ worker[w].step = "sent" /\ ~worker[w].late
    /\ \/ /\ Rotate(worker[w].seen.rt)
          /\ Becomes(w, [worker[w] EXCEPT !.step = "persist", !.got = issued + 1])
          /\ NoFault /\ UNCHANGED past
       \/ /\ worker[w].seen.rt \notin accepted
          /\ Goto(w, "recover")
          /\ NoFault /\ UNCHANGED <<provider, past>>
       \/ /\ Fault
          /\ Leave(w, IF Grok THEN "contained" ELSE "retry", worker[w].seen)
          /\ \/ Rotate(worker[w].seen.rt) /\ Record({"lost"})
             \/ UNCHANGED <<provider, past>>
       \/ /\ Fault
          /\ Leave(w, "retry", worker[w].seen)
          /\ UNCHANGED <<provider, past>>
    /\ UNCHANGED <<platform, row, age, granted, lease, admin, writes>>

\* What comes back after the context is done is dropped, and the provider may
\* have served the request.
GiveUp(w) ==
    /\ worker[w].step = "sent" /\ worker[w].late
    /\ Leave(w, "retry", worker[w].seen)
    /\ \/ Rotate(worker[w].seen.rt) /\ Record({"late"})
       \/ UNCHANGED <<provider, past>>
    /\ UNCHANGED <<platform, row, age, granted, lease, admin, writes, faults>>

\* tryRecoverFromRefreshRace: another refresh token in the row means that
\* someone else spent this one.
Recover(w) ==
    /\ worker[w].step = "recover"
    /\ \/ /\ NoFault
          /\ IF row.rt = worker[w].seen.rt THEN Leave(w, "refused", worker[w].seen)
             ELSE Leave(w, "skip", row)
       \/ Fault /\ \E o \in {"refused", "retry"} : Leave(w, o, worker[w].seen)
    /\ UNCHANGED <<platform, row, age, provider, history, lease, admin, writes>>

Unchanged(w) == Document(row) = Document(worker[w].seen)

\* Mutant of Matches: Grok stores without comparing, like the others.
MatchesAlways(w) == TRUE

Matches(w) == Grok => Unchanged(w)

\* Mutant of Stored: in the merge with the former credentials these win.
StoredUnderOld(w) == [row EXCEPT !.failed = FALSE, !.doc = worker[w].seen.doc]

\* What is stored.
Stored(w) == [row EXCEPT !.rt = worker[w].got, !.failed = FALSE,
                         !.doc = worker[w].seen.doc]

\* The rotated token is stored: by Grok if the document is still the one the
\* request was made with, by the others in place of whatever is there.
Persist(w) ==
    /\ worker[w].step = "persist"
    /\ LET Fails(o, why) ==
              /\ Leave(w, o, worker[w].seen)
              /\ IF Holds(w) THEN Record({why}) ELSE UNCHANGED past
              /\ UNCHANGED row
           Failure == IF Grok THEN "contained" ELSE "retry"
       IN  \/ /\ ~worker[w].late /\ Matches(w) /\ NoFault
              /\ row' = Stored(w)
              /\ Leave(w, "done", [worker[w].seen EXCEPT
                          !.cooldown = IF Grok THEN row.cooldown ELSE @])
              /\ UNCHANGED past
           \/ /\ ~worker[w].late /\ ~Matches(w) /\ NoFault
              /\ Leave(w, "skip", row)
              /\ UNCHANGED <<row, past>>
           \/ /\ ~worker[w].late /\ Matches(w) /\ Fault
              /\ row' = Stored(w)
              /\ Leave(w, Failure, worker[w].seen)
              /\ UNCHANGED past
           \/ ~worker[w].late /\ Fault /\ Fails(Failure, "unsaved")
           \/ worker[w].late /\ NoFault /\ \E o \in {"retry", Failure} : Fails(o, "late")
    /\ UNCHANGED <<platform, age, provider, granted, lease, admin, writes>>

\* The deferred release deletes the key if it still names this attempt.
Release(w) ==
    /\ worker[w].step = "release"
    /\ \/ /\ lease' = IF worker[w].own /\ lease = w THEN NoWorker ELSE lease
          /\ NoFault
       \/ Fault /\ worker[w].own /\ UNCHANGED lease
    /\ Return(w, worker[w].out)
    /\ UNCHANGED <<platform, row, age, provider, history, admin, writes>>

--------------------------------------------------------------------------------
\* After a refresh the cycle lifts the cool-down it saw on the account, unless
\* that fails or the attempt ran out of time.
PostRefresh(w) ==
    /\ worker[w].step = "after" /\ worker[w].out = "done"
    /\ \/ /\ row' = IF worker[w].seen.cooldown THEN [row EXCEPT !.cooldown = FALSE] ELSE row
          /\ NoFault
       \/ Fault /\ UNCHANGED row
    /\ Rest(w)
    /\ UNCHANGED <<platform, age, provider, history, lease, admin, writes>>

\* Mutant of Mine: the verdict is written whatever the row became meanwhile.
MineAlways(w) == TRUE

\* What the caller may still write: of a Grok account, only on the credentials
\* the attempt was made with.
Mine(w) == Grok => row.status = "active" /\ Unchanged(w)

\* The attempt's own budget ran out although the critical section went on.
AttemptExpires(w) ==
    /\ worker[w].step = "release" /\ w \in Cycles
    /\ worker[w].out \in {"skip", "refused"}
    /\ Fault
    /\ Becomes(w, [worker[w] EXCEPT !.out = "retry"])
    /\ UNCHANGED <<platform, row, age, provider, history, lease, admin, writes>>

\* Mutant of MoreTries: counts one attempt too many.
MoreTriesByOne(w) == worker[w].tries < MaxRetries

MoreTries(w) == worker[w].tries + 1 < MaxRetries

\* A failed attempt is repeated; after the last one the account cools down,
\* unless the access token of Grok still works.
Retry(w) ==
    /\ worker[w].step = "after" /\ worker[w].out = "retry"
    /\ \/ /\ MoreTries(w) /\ NoFault
          /\ Becomes(w, [Resting EXCEPT !.step = "lock", !.seen = worker[w].seen,
                                        !.tries = worker[w].tries + 1])
          /\ UNCHANGED row
       \/ /\ ~MoreTries(w)
          /\ Rest(w)
          /\ \/ /\ row' = IF Mine(w) /\ ~(Grok /\ HardValid(worker[w].seen))
                          THEN [row EXCEPT !.cooldown = TRUE] ELSE row
                /\ NoFault
             \/ Fault /\ UNCHANGED row
    /\ UNCHANGED <<platform, age, provider, history, lease, admin, writes>>

\* A refused token condemns the account: Grok's only once its access token
\* stopped working, until then the failure is noted in the credentials.
Condemn(w) ==
    /\ worker[w].step = "after" /\ worker[w].out = "refused"
    /\ \/ /\ row' = IF ~Mine(w) THEN row
                    ELSE IF Grok /\ HardValid(worker[w].seen)
                         THEN [row EXCEPT !.failed = TRUE]
                         ELSE [row EXCEPT !.status = "error", !.schedulable = FALSE]
          /\ NoFault
       \/ Fault /\ UNCHANGED row
    /\ Rest(w)
    /\ UNCHANGED <<platform, age, provider, history, lease, admin, writes>>

--------------------------------------------------------------------------------
\* UpdateAccount reads the row it is going to write back whole.  To apply new
\* credentials the administrator first has the provider issue them, which may
\* revoke the former ones; a Grok device flow compares and sets.
AdminReads(kind) ==
    /\ admin.step = "idle" /\ writes < MaxWrites
    /\ kind = "device" => Grok
    /\ writes' = writes + 1
    /\ \/ kind = "edit" /\ UNCHANGED provider
       \/ /\ kind # "edit"
          /\ issued + 1 + Cardinality(Aged) <= MaxTokens
          /\ Issue(writes + 1)
          /\ \E kept \in {accepted, {}} : accepted' = kept \cup {issued + 1}
    /\ admin' = [step |-> "write", seen |-> row, kind |-> kind,
                 token |-> IF kind = "edit" THEN row.rt ELSE issued + 1]
    /\ UNCHANGED <<platform, row, age, history, lease, worker, faults>>

AdminWrites ==
    /\ admin.step = "write"
    /\ IF admin.kind = "device" /\ Document(row) # Document(admin.seen)
       THEN /\ admin' = NoRequest
            /\ Record({"crossed"})
            /\ UNCHANGED <<row, granted>>
       ELSE /\ \E doc \in {admin.seen.doc, writes} :
                 row' = [rt |-> admin.token,
                         doc |-> doc,
                         failed |-> admin.kind = "edit" /\ admin.seen.failed,
                         status |-> IF admin.kind = "device" THEN "active" ELSE admin.seen.status,
                         schedulable |-> \/ admin.kind = "device"
                                         \/ admin.seen.schedulable /\ admin.seen.status # "error",
                         cooldown |-> admin.kind # "device" /\ row.cooldown]
            /\ granted' = IF admin.kind = "edit" THEN granted ELSE family[admin.token]
            /\ admin' = IF admin.kind = "apply" THEN [admin EXCEPT !.step = "clear"]
                        ELSE NoRequest
            /\ IF row.rt # admin.seen.rt \/ \E w \in Workers : Engaged(w)
               THEN Record({"crossed"}) ELSE UNCHANGED past
    /\ UNCHANGED <<platform, age, provider, lease, worker, writes, faults>>

\* ClearAccountError, the last step of ApplyOAuthCredentials.
AdminClears ==
    /\ admin.step = "clear"
    /\ row' = [row EXCEPT !.status = "active", !.schedulable = TRUE, !.cooldown = FALSE]
    /\ admin' = NoRequest
    /\ UNCHANGED <<platform, age, provider, history, lease, worker, writes, faults>>

\* SetAccountSchedulable: the account is paused, or taken up again.
AdminSwitches ==
    /\ writes < MaxWrites
    /\ writes' = writes + 1
    /\ row' = [row EXCEPT !.schedulable = ~@]
    /\ UNCHANGED <<platform, age, provider, history, lease, worker, admin, faults>>

\* One of its calls fails, and the administrator's request ends there.
AdminFails ==
    /\ admin.step # "idle" /\ Fault
    /\ admin' = NoRequest
    /\ Record({"halfway"})
    /\ UNCHANGED <<platform, row, age, provider, granted, lease, worker, writes>>

--------------------------------------------------------------------------------
\* Time passes for the access token in the row.
Ages ==
    /\ issued + Cardinality((accepted \cap {row.rt}) \cup Aged) <= MaxTokens
    /\ \/ age[row.rt] = "fresh" /\ age' = [age EXCEPT ![row.rt] = "due"]
       \/ Grok /\ age[row.rt] = "due" /\ age' = [age EXCEPT ![row.rt] = "expired"]
    /\ UNCHANGED <<platform, row, provider, history, lease, worker, admin, writes, faults>>

CooldownEnds ==
    /\ row.cooldown
    /\ row' = [row EXCEPT !.cooldown = FALSE]
    /\ UNCHANGED <<platform, age, provider, history, lease, worker, admin, writes, faults>>

\* The context ends while a token may be on its way: by a deadline, or because
\* the client went away.
Deadline(w) ==
    /\ worker[w].step \in {"sent", "persist"} /\ ~worker[w].late
    /\ Fault
    /\ Becomes(w, [worker[w] EXCEPT !.late = TRUE])
    /\ UNCHANGED <<platform, row, age, provider, history, lease, admin, writes>>

\* The lock key expires: after a deadline below its life when there is one, or
\* when nobody is going to release it.
LeaseLapses ==
    /\ lease # NoWorker
    /\ ~worker[lease].own \/ worker[lease].late
    /\ lease' = NoWorker
    /\ UNCHANGED <<platform, row, age, provider, history, worker, admin, writes, faults>>

LeaseOverrun ==
    /\ lease # NoWorker /\ worker[lease].own
    /\ ~worker[lease].late /\ ~Bounded(lease)
    /\ Fault
    /\ lease' = NoWorker
    /\ Record({"overrun"})
    /\ UNCHANGED <<platform, row, age, provider, granted, worker, admin, writes>>

\* An instance dies with everything its workers know.
Crash(n) ==
    /\ \E w \in Workers : NodeOf[w] = n /\ worker[w].step # "idle"
    /\ Fault
    /\ worker' = [w \in Workers |-> IF NodeOf[w] = n THEN Resting ELSE worker[w]]
    /\ IF \E w \in Workers : NodeOf[w] = n /\ Holds(w)
       THEN Record({"crash"}) ELSE UNCHANGED past
    /\ UNCHANGED <<platform, row, age, provider, granted, lease, admin, writes>>

--------------------------------------------------------------------------------
Refresh(w) == Lock(w) \/ Reread(w) \/ Answer(w) \/ GiveUp(w) \/ Recover(w)
              \/ Persist(w) \/ Release(w) \/ PostRefresh(w) \/ Retry(w) \/ Condemn(w)

Next ==
    \/ \E w \in Workers : Begin(w) \/ Refresh(w) \/ AttemptExpires(w) \/ Deadline(w)
    \/ \E kind \in {"edit", "apply", "device"} : AdminReads(kind)
    \/ AdminWrites \/ AdminClears \/ AdminSwitches \/ AdminFails
    \/ Ages \/ CooldownEnds \/ LeaseLapses \/ LeaseOverrun
    \/ \E n \in Nodes : Crash(n)

\* The cycle's ticker, steps that are under way and the lease's expiry do not
\* wait for anyone; requests, administrators and time come when they like.
Fairness ==
    /\ \A w \in Cycles : WF_vars(Begin(w))
    /\ \A w \in Workers : WF_vars(Refresh(w))
    /\ WF_vars(LeaseLapses)

Spec == Init /\ [][Next]_vars /\ Fairness

--------------------------------------------------------------------------------
\* The only refresh token the provider still accepts is in the row, or on its
\* way there, unless one of the named events dropped it.
TokenKept ==
    \/ row.rt \in accepted
    \/ \E w \in Workers : Holds(w)
    \/ admin.step = "write" /\ admin.token \in accepted
    \/ past \cap Losses # {}

\* An account is not condemned while the provider accepts its token: a refresh
\* that lost the race against another finds out.  Platforms other than Grok
\* condemn whatever is in the row, so two refreshes at a time or a write of the
\* administrator in between may hit an account that is well.
HealthyNotCondemned ==
    row.status = "error" \/ row.failed =>
        \/ row.rt \notin accepted
        \/ admin.step = "clear" \/ "halfway" \in past
        \/ ~Grok /\ past \cap {"crossed", "degraded", "overrun"} # {}

\* What an administrator authorized last is not replaced by the outcome of a
\* refresh that began before, except on platforms that store unconditionally.
ReauthorizationStands ==
    family[row.rt] >= granted \/ (~Grok /\ "crossed" \in past)

\* A token that is due does not stay so: it is refreshed, or the account is put
\* aside for someone to see, or by someone: a paused account is not refreshed.
\* A request that is refused leaves no trace, so requests that always hold the
\* lease when a cycle comes by can prevent it.
EventuallyRefreshed ==
    <>[](\A w \in Requests : worker[w].step = "idle") =>
        (NeedsRefresh(row) ~> \/ ~NeedsRefresh(row)
                              \/ row.status = "error" \/ row.cooldown \/ ~row.schedulable)
================================================================================

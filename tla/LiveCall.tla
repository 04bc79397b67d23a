------------------------------- MODULE LiveCall -------------------------------
(***************************************************************************)
(* One live call (openai_live.go, gateway_cache.go): its media go directly *)
(* between the client and the provider, and the service only keeps a       *)
(* control connection.  The request that creates the call trades its slot  *)
(* of the account for a lease, stores the call in Redis and leaves an      *)
(* observer behind; a client may take the control over and give it back.   *)
(* Whoever controls the call refreshes the lease, and when the session is  *)
(* over, or its time, settles it: closes the call, releases the lease and  *)
(* writes the usage log, which is the only trace of it.                    *)
(***************************************************************************)
EXTENDS ConcurrencySlots

CONSTANTS
    Proxies,        \* control connections of clients
    RetryLimit,     \* liveObserverStoreRetryLimit
    NoOwner         \* no proxy controls the call

Workers == {Call} \cup Proxies

ASSUME LiveAssumption ==
    /\ Proxies \cap Members = {} /\ NoOwner \notin Proxies
    /\ DOMAIN NodeOf = Members \cup Proxies
    /\ RetryLimit \in Nat \ {0}

VARIABLES
    controller,  \* controller of the stored call; "none": not stored yet;
                 \* "closed": closed, or no longer stored
    owner,       \* controller_owner, when that is a proxy
    session,     \* of the provider: not yet, on, or over
    expired,     \* has the call's ExpiresAt passed
    worker,      \* step of the request that creates the call, and of each
                 \* proxy; both go on as the observer they leave behind
    errors,      \* storeErrStreak of each observer
    logs         \* usage logs of the call

call == <<controller, owner, logs>>
vars == <<regular, live, request, down, faults, past, call, session, expired,
          worker, errors>>

\* "overrun": a slot or a lease outlived its set in the hands of a living
\* request; "lapsed": the lease of the running call did; "cleaned": an
\* instance that started removed slots of others; "unsaved": the provider runs
\* a call the service failed to store; "refresh": a failed refresh ended the
\* call; "stranded": the controller is a proxy that has gone; "dead": an
\* observer or a proxy died; "unclosed", "kept", "unlogged": closing the call,
\* releasing its lease, writing its log failed; "forgotten": the record of the
\* call ran out before those at work had closed it.
Events == {"overrun", "lapsed", "cleaned", "unsaved", "refresh", "stranded",
           "dead", "unclosed", "kept", "unlogged", "forgotten"}

CreateSteps   == {"slot", "lease", "refused", "create", "trade", "fail", "failLease", "save"}
ObserverSteps == {"claim", "load", "dial", "observing", "wait", "expiry"}
ProxySteps    == {"seize", "join", "proxying", "unjoined", "yield", "yieldEnded"}
SettleSteps   == {"mark", "release", "log"}
Steps == CreateSteps \cup ObserverSteps \cup ProxySteps \cup SettleSteps \cup {"idle", "gone"}

TypeOK ==
    /\ SlotsTypeOK
    /\ past \subseteq Events
    /\ controller \in {"none", "pending", "observer", "proxy", "closed"}
    /\ owner \in Proxies \cup {NoOwner}
    /\ session \in {"none", "on", "over"} /\ expired \in BOOLEAN
    /\ worker \in [Workers -> Steps]
    /\ errors \in [Workers -> 0..(RetryLimit - 1)]
    /\ logs \in Nat

Init ==
    /\ SlotsInit
    /\ controller = "none" /\ owner = NoOwner /\ logs = 0
    /\ session = "none" /\ expired = FALSE
    /\ worker = [w \in Workers |-> IF w = Call THEN "slot" ELSE "idle"]
    /\ errors = [w \in Workers |-> 0]

-----------------------------------------------------------------------------
At(w, step) == worker[w] = step /\ NodeOf[w] \notin down

Goto(w, step) == worker' = [worker EXCEPT ![w] = step]
\* The same for a step that neither counts errors nor uses the call.
Step(w, step) == Goto(w, step) /\ UNCHANGED <<request, down, session, expired, errors>>

NoFault == UNCHANGED faults
Quiet   == UNCHANGED <<faults, past>>

Running == session = "on" /\ ~expired

-----------------------------------------------------------------------------
(* CreateLiveCall.                                                         *)

\* The scheduler takes a slot of the account; a request without one gives up.
SelectAccount ==
    /\ At(Call, "slot")
    /\ \/ Room /\ TakeSlot(Call) /\ Step(Call, "lease")
       \/ ~Room /\ NoSlot /\ Step(Call, "gone")
    /\ Quiet /\ UNCHANGED call

AcquireLiveLease ==
    /\ At(Call, "lease")
    /\ \/ LiveRoom /\ TakeLease(Call) /\ Step(Call, "create") /\ NoFault
       \/ ~LiveRoom /\ NoLease /\ Step(Call, "refused") /\ NoFault
       \/ Fault /\ Step(Call, "refused")
          /\ (UNCHANGED slots \/ (LiveRoom /\ TakeLease(Call)))
    /\ UNCHANGED <<past, call>>

\* The provider starts the session, or does not; an answer may be lost.
CreateUpstreamLiveCall ==
    /\ At(Call, "create")
    /\ \/ session' = "on" /\ Goto(Call, "trade") /\ Quiet
       \/ Fault /\ Goto(Call, "fail")
          /\ \/ UNCHANGED <<session, past>>
             \/ session' = "on" /\ Record({"unsaved"})
    /\ UNCHANGED <<slots, request, down, call, expired, errors>>

\* Whatever came of it, the slot is given back.
ReleaseSlot ==
    /\ \/ At(Call, "refused") /\ Step(Call, "gone")
       \/ At(Call, "trade") /\ Step(Call, "save")
       \/ At(Call, "fail") /\ Step(Call, "failLease")
    /\ BestEffort(DropSlot(Call))
    /\ UNCHANGED <<past, call>>

ReleaseUnusedLease ==
    /\ At(Call, "failLease")
    /\ Step(Call, "gone")
    /\ BestEffort(DropLease(Call))
    /\ UNCHANGED <<past, call>>

\* Stored, the call is the client's, and the creator goes on as its observer.
SaveLiveCall ==
    /\ At(Call, "save")
    /\ \/ controller' = "pending" /\ Step(Call, "claim") /\ Quiet
       \/ Fault /\ Step(Call, "failLease") /\ Record({"unsaved"})
          /\ controller' \in {"none", "pending"}
    /\ UNCHANGED <<slots, owner, logs>>

Create ==
    \/ SelectAccount \/ AcquireLiveLease \/ CreateUpstreamLiveCall
    \/ ReleaseSlot \/ ReleaseUnusedLease \/ SaveLiveCall

-----------------------------------------------------------------------------
(* The control connection.                                                 *)

\* Mutant of OnClaimError: a claim that was not answered ends the observer.
OnClaimErrorLeave == "gone"

\* What an observer does whose claim was not answered.
OnClaimError == "expiry"

Claim(kind, w) == controller' = kind /\ owner' = IF kind = "proxy" THEN w ELSE NoOwner

ClaimObserver(w) ==
    /\ At(w, "claim")
    /\ \/ controller = "pending" /\ Claim("observer", w) /\ Step(w, "load") /\ NoFault
       \/ controller # "pending" /\ Step(w, "gone") /\ NoFault /\ UNCHANGED <<controller, owner>>
       \/ Fault /\ Step(w, OnClaimError)
          /\ \/ UNCHANGED <<controller, owner>>
             \/ controller = "pending" /\ Claim("observer", w)
    /\ UNCHANGED <<slots, past, logs>>

\* Mutant of StreakEnds: one error too many is counted.
StreakEndsLate(w) == errors[w] + 1 > RetryLimit

StreakEnds(w) == errors[w] + 1 >= RetryLimit

\* The stored call is read again before every connection; ErrLiveCallNotFound
\* ends the observer, as the call's end does.
GetLiveCall(w) ==
    /\ At(w, "load")
    /\ \/ /\ NoFault
          /\ Goto(w, IF controller # "observer" THEN "gone"
                     ELSE IF expired THEN "mark" ELSE "dial")
          /\ errors' = [errors EXCEPT ![w] = 0]
       \/ /\ Fault
          /\ IF StreakEnds(w) THEN Goto(w, "expiry") /\ UNCHANGED errors
             ELSE errors' = [errors EXCEPT ![w] = @ + 1] /\ UNCHANGED worker
    /\ UNCHANGED <<slots, request, down, past, call, session, expired>>

\* A session that is over cannot be joined.
DialSideband(w) ==
    /\ At(w, "dial")
    /\ \/ session = "on" /\ Step(w, "observing") /\ NoFault
       \/ session # "on" /\ Step(w, "wait") /\ NoFault
       \/ Fault /\ Step(w, "wait")
    /\ UNCHANGED <<slots, past, call>>

WaitForRetry(w) ==
    /\ At(w, "wait")
    /\ \/ Step(w, IF controller = "observer" THEN "load" ELSE "gone") /\ NoFault
       \/ Fault /\ Step(w, "load")
    /\ UNCHANGED <<slots, past, call>>

\* After so long without the store the observer only waits for the end.
WaitForExpiry(w) ==
    /\ At(w, "expiry") /\ expired
    /\ Step(w, "mark")
    /\ Quiet /\ UNCHANGED <<slots, call>>

\* A refresh of the lease by a controller that goes to ended if it is refused
\* or fails; a lease that is no longer there is not taken again.
RefreshLease(w, ended) ==
    \/ Leased(Call) /\ TakeLease(Call) /\ Step(w, worker[w]) /\ Quiet
    \/ ~Leased(Call) /\ NoLease /\ Step(w, ended) /\ Quiet
    \/ Fault /\ Step(w, ended) /\ Record({"refresh"})
       /\ (UNCHANGED slots \/ (Leased(Call) /\ TakeLease(Call)))

\* session.close is sent, and its failure ignored.
CloseExpired(w, ended) ==
    /\ expired
    /\ \/ session' = "over" /\ NoFault
       \/ UNCHANGED session /\ Fault
    /\ Goto(w, ended)
    /\ UNCHANGED <<slots, request, down, past, expired, errors>>

Observe(w) ==
    /\ At(w, "observing")
    /\ \/ session = "over" /\ Step(w, "mark") /\ Quiet /\ UNCHANGED slots
       \/ controller # "observer" /\ Step(w, "gone") /\ Quiet /\ UNCHANGED slots
       \/ Fault /\ Step(w, "wait") /\ UNCHANGED <<slots, past>>
       \/ RefreshLease(w, "mark")
       \/ CloseExpired(w, "mark")
    /\ UNCHANGED call

\* A client that was told of the call takes the control over: from an
\* observer, not from another client.
JoinLiveCall(p) ==
    /\ At(p, "idle")
    /\ controller \notin {"none", "closed"} /\ "unsaved" \notin past
    /\ Step(p, "seize")
    /\ Quiet /\ UNCHANGED <<slots, call>>

ClaimProxy(p) ==
    /\ At(p, "seize")
    /\ LET free == controller \in {"pending", "observer"} IN
       \/ free /\ Claim("proxy", p) /\ Step(p, "join") /\ Quiet
       \/ ~free /\ Step(p, "gone") /\ Quiet /\ UNCHANGED <<controller, owner>>
       \/ Fault /\ Step(p, "gone")
          /\ \/ UNCHANGED <<controller, owner, past>>
             \/ free /\ Claim("proxy", p) /\ Record({"stranded"})
    /\ UNCHANGED <<slots, logs>>

DialForClient(p) ==
    /\ At(p, "join")
    /\ \/ session = "on" /\ Step(p, "proxying") /\ NoFault
       \/ session # "on" /\ Step(p, "unjoined") /\ NoFault
       \/ Fault /\ Step(p, "unjoined")
    /\ UNCHANGED <<slots, past, call>>

\* Until the session ends, or the client leaves or its connection breaks.
RunLiveController(p) ==
    /\ At(p, "proxying")
    /\ \/ session = "over" /\ Step(p, "yieldEnded") /\ Quiet /\ UNCHANGED slots
       \/ Step(p, "yield") /\ Quiet /\ UNCHANGED slots
       \/ RefreshLease(p, "yieldEnded")
       \/ CloseExpired(p, "yieldEnded")
    /\ UNCHANGED call

\* The control is given back to a new observer, unless the call has ended; a
\* client that never joined does not look at the time.
ReleaseLiveController(p) ==
    /\ worker[p] \in {"unjoined", "yield", "yieldEnded"} /\ NodeOf[p] \notin down
    /\ LET ends == worker[p] = "yieldEnded" \/ (worker[p] = "yield" /\ expired)
           mine == controller = "proxy" /\ owner = p
       IN  /\ Step(p, IF ends THEN "mark" ELSE "claim")
           /\ \/ /\ IF mine THEN controller' = "pending" /\ owner' = NoOwner
                            ELSE UNCHANGED <<controller, owner>>
                 /\ Quiet
              \/ /\ Fault
                 /\ UNCHANGED <<controller, owner>>
                 /\ IF mine /\ ~ends THEN Record({"stranded"}) ELSE UNCHANGED past
    /\ UNCHANGED <<slots, logs>>

-----------------------------------------------------------------------------
(* finalizeLiveCall.                                                       *)

\* Mutant of First: a call that is closed is settled again.
FirstOrNot == controller # "none"

\* Is this the first to close the call.
First == controller \notin {"none", "closed"}

MarkLiveCallClosed(w) ==
    /\ At(w, "mark")
    /\ LET Closes == controller' = "closed" /\ owner' = NoOwner IN
       \/ First /\ Closes /\ Step(w, "release") /\ Quiet
       \/ ~First /\ Step(w, "gone") /\ Quiet /\ UNCHANGED <<controller, owner>>
       \/ Fault /\ Step(w, "gone") /\ Record({"unclosed"})
          /\ (UNCHANGED <<controller, owner>> \/ (First /\ Closes))
    /\ UNCHANGED <<slots, logs>>

ReleaseLiveLease(w) ==
    /\ At(w, "release")
    /\ \/ DropLease(Call) /\ Quiet
       \/ Fault /\ UNCHANGED slots /\ Record({"kept"})
    /\ Step(w, "log")
    /\ UNCHANGED call

\* "The only chance": the log is written best effort, and once more if that
\* fails; when both fail, or there is no repository, it is lost for ever.
WriteUsageLog(w) ==
    /\ At(w, "log")
    /\ \/ logs' = logs + 1 /\ Quiet
       \/ Fault /\ Record({"unlogged"}) /\ UNCHANGED logs
    /\ Step(w, "gone")
    /\ UNCHANGED <<slots, controller, owner>>

Control(w) ==
    \/ ClaimObserver(w) \/ GetLiveCall(w) \/ DialSideband(w) \/ WaitForRetry(w)
    \/ WaitForExpiry(w) \/ Observe(w)
    \/ w \in Proxies /\ (ClaimProxy(w) \/ DialForClient(w) \/ RunLiveController(w)
                         \/ ReleaseLiveController(w))
    \/ MarkLiveCallClosed(w) \/ ReleaseLiveLease(w) \/ WriteUsageLog(w)

-----------------------------------------------------------------------------
(* The provider, time, and the instances.                                  *)

SessionEnds ==
    /\ session = "on"
    /\ session' = "over"
    /\ UNCHANGED <<slots, request, down, faults, past, call, expired, worker, errors>>

Expires ==
    /\ controller # "none" /\ ~expired
    /\ expired' = TRUE
    /\ UNCHANGED <<slots, request, down, faults, past, call, session, worker, errors>>

\* The record outlives the session by five minutes; to the scripts one that is
\* missing is as one that is closed.  Whoever is still at work was delayed.
MappingExpires ==
    /\ First /\ expired
    /\ controller' = "closed" /\ owner' = NoOwner
    /\ IF \E w \in Workers : NodeOf[w] \notin down /\ worker[w] \notin {"idle", "gone"}
       THEN Fault /\ Record({"forgotten"}) ELSE Quiet
    /\ UNCHANGED <<slots, request, down, logs, session, expired, worker, errors>>

\* Someone is there to refresh the lease in time, or holds it for a moment.
Attended == \E w \in Workers : NodeOf[w] \notin down
                                /\ worker[w] \notin {"idle", "slot", "lease", "expiry", "gone"}

CallAges ==
    /\ \/ /\ regular[Call] = "young"
          /\ regular' = [regular EXCEPT ![Call] = "old"] /\ UNCHANGED live
          /\ IF worker[Call] \in CreateSteps /\ NodeOf[Call] \notin down
             THEN Fault /\ Record({"overrun"}) ELSE Quiet
       \/ /\ live[Call] = "young"
          /\ live' = [live EXCEPT ![Call] = "old"] /\ UNCHANGED regular
          /\ IF Attended THEN Fault ELSE NoFault
          /\ IF Running \/ worker[Call] = "create" THEN Record({"lapsed"}) ELSE UNCHANGED past
    /\ UNCHANGED <<request, down, call, session, expired, worker, errors>>

\* With an instance its observers and proxies are gone, and no one resumes them.
Crash(n) ==
    /\ Die(n)
    /\ worker' = [w \in Workers |-> IF NodeOf[w] = n /\ worker[w] \notin {"idle", "slot"}
                                    THEN "gone" ELSE worker[w]]
    /\ errors' = [w \in Workers |-> IF NodeOf[w] = n THEN 0 ELSE errors[w]]
    /\ IF \E w \in Workers : NodeOf[w] = n /\ worker[w] \notin {"idle", "slot", "gone"}
       THEN Record({"dead"}) ELSE UNCHANGED past
    /\ UNCHANGED <<call, session, expired>>

Others ==
    /\ \/ \E r \in Requests : RequestSteps(r) \/ RequestAges(r)
       \/ Prune
       \/ \E n \in Nodes : StartupCleanup(n)
    /\ UNCHANGED <<call, session, expired, worker, errors>>

Next ==
    \/ Create
    \/ \E w \in Workers : Control(w)
    \/ \E p \in Proxies : JoinLiveCall(p)
    \/ SessionEnds \/ Expires \/ MappingExpires \/ CallAges
    \/ Others
    \/ \E n \in Nodes : Crash(n)

\* What has begun goes on, and time passes.
Fairness ==
    /\ \A w \in Workers : WF_vars(Control(w))
    /\ WF_vars(Expires)

Spec == Init /\ [][Next]_vars /\ Fairness

-----------------------------------------------------------------------------
(* Properties.                                                             *)

\* Requests and calls together stay within the account's limit, although a
\* call trades its slot for a lease while others compete for both: as long as
\* slots and leases outlive their holders, no instance starts among working
\* ones, and neither a failed store nor a failed refresh lets go of a call
\* that goes on at the provider.
WithinLimit ==
    past \cap {"overrun", "lapsed", "cleaned", "unsaved", "refresh"} = {} =>
        Cardinality(Forwarded) + (IF Running THEN 1 ELSE 0) <= Limit

\* However many observers and proxies meet the end of a call, one of them
\* settles it, and not while it runs unless its lease was lost; the released
\* lease does not come back by a refresh that is still on its way.
SettledByRight ==
    /\ logs <= 1
    /\ logs = 1 /\ Running => past \cap {"lapsed", "refresh"} # {}
    /\ logs = 1 /\ "kept" \notin past => live[Call] = "out"

\* A call that was handed to a client is settled at last, through changes of
\* the controller and failing calls to the store.  Not so if its controller
\* dies, or keeps the control without being there, or the closing fails, or is
\* so late that the record has run out: no one else closes it; nor if the log
\* cannot be written: no one tries again.
CallIsSettled ==
    controller = "pending" ~>
        logs = 1 \/ past \cap {"unsaved", "dead", "stranded", "unclosed", "forgotten",
                               "unlogged"} # {}
=============================================================================

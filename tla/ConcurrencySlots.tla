--------------------------- MODULE ConcurrencySlots ---------------------------
(***************************************************************************)
(* The concurrency slots of one account (concurrency_cache.go,             *)
(* concurrency_service.go): two sorted sets in Redis, one of the requests  *)
(* that are being forwarded, one of the live calls, which together may not *)
(* pass the account's limit.  Members carry the time they were written;    *)
(* every script first removes those that have outlived their set.  An      *)
(* instance that starts removes the slots of all other processes.          *)
(***************************************************************************)
EXTENDS Integers, FiniteSets

CONSTANTS
    Nodes,       \* instances of the service
    Requests,    \* requests and calls that compete for the account
    Call,        \* the request that becomes the call of LiveCall
    NodeOf,      \* the instance each of them runs on
    Limit,       \* the account's concurrency
    MaxFaults    \* bound: failed calls, lost answers, deaths, overlong steps

ASSUME SlotsAssumption ==
    /\ Call \notin Requests
    /\ Requests \cup {Call} \subseteq DOMAIN NodeOf
    /\ \A r \in DOMAIN NodeOf : NodeOf[r] \in Nodes
    /\ Limit \in Nat \ {0} /\ MaxFaults \in Nat

VARIABLES
    regular,    \* concurrency:account: for each member, is it in, and how old
    live,       \* concurrency:live:account, in the same way
    request,    \* step of each of Requests
    down,       \* instances that are not running
    faults,     \* faults so far
    past        \* history: which Events happened

slots == <<regular, live>>

Members == Requests \cup {Call}

\* "old": outlived the set's life and not yet removed.
Ages == {"out", "young", "old"}

SlotsTypeOK ==
    /\ regular \in [Members -> Ages] /\ live \in [Members -> Ages]
    /\ request \in [Requests -> {"new", "running", "refused", "both", "calling", "over"}]
    /\ down \subseteq Nodes
    /\ faults \in 0..MaxFaults

SlotsInit ==
    /\ regular = [m \in Members |-> "out"] /\ live = regular
    /\ request = [r \in Requests |-> "new"]
    /\ down \in {{}} \cup {{n} : n \in Nodes}
    /\ faults = 0 /\ past = {}

-----------------------------------------------------------------------------
(* The scripts.                                                            *)

Fault     == faults < MaxFaults /\ faults' = faults + 1
Record(E) == past' = past \cup E

\* ZREMRANGEBYSCORE, ZCARD and ZADD.
Pruned(set)  == [m \in Members |-> IF set[m] = "old" THEN "out" ELSE set[m]]
Size(set)    == Cardinality({m \in Members : set[m] # "out"})
Add(set, m)  == [set EXCEPT ![m] = "young"]
Drop(set, m) == [set EXCEPT ![m] = "out"]

\* Mutant of Room: the live calls are not counted.
RoomAmongRegular == Size(Pruned(regular)) < Limit

\* acquireScript prunes both sets.
Room == Size(Pruned(regular)) + Size(Pruned(live)) < Limit

TakeSlot(m) == regular' = Add(Pruned(regular), m) /\ live' = Pruned(live)
NoSlot      == regular' = Pruned(regular) /\ live' = Pruned(live)

\* acquireLiveLeaseScript prunes the live set only, and allows one more for
\* the regular slot that the lease replaces.
LiveRoom == Size(regular) + Size(Pruned(live)) < Limit + 1

TakeLease(m) == live' = Add(Pruned(live), m) /\ UNCHANGED regular
NoLease      == live' = Pruned(live) /\ UNCHANGED regular

\* refreshLiveLeaseScript does not recreate a lease.
Leased(m) == live[m] = "young"

DropSlot(m)  == regular' = Drop(regular, m) /\ UNCHANGED live
DropLease(m) == live' = Drop(live, m) /\ UNCHANGED regular

\* A removal that takes effect, or fails: its caller only logs the error.
BestEffort(Effect) ==
    \/ Effect /\ UNCHANGED faults
    \/ Fault /\ UNCHANGED slots

\* Load queries and the clean-up worker remove what is too old.
Prune ==
    /\ slots # <<Pruned(regular), Pruned(live)>>
    /\ NoSlot
    /\ UNCHANGED <<request, down, faults, past>>

-----------------------------------------------------------------------------
(* Requests that compete with the call: forwarded under a regular slot, or  *)
(* calls of their own, which replace it by a lease.                        *)

Becomes(r, s) == request' = [request EXCEPT ![r] = s]
Up(r)      == NodeOf[r] \notin down

\* AcquireAccountSlot; a request without a slot waits and asks again.
AcquireAccountSlot(r) ==
    /\ request[r] = "new" /\ Up(r)
    /\ \/ Room /\ TakeSlot(r) /\ Becomes(r, "running") /\ UNCHANGED faults
       \/ Room /\ TakeSlot(r) /\ Becomes(r, "over") /\ Fault
       \/ ~Room /\ NoSlot /\ UNCHANGED <<request, faults>>
    /\ UNCHANGED <<down, past>>

ReleaseAccountSlot(r) ==
    /\ request[r] \in {"running", "refused", "both"} /\ Up(r)
    /\ BestEffort(DropSlot(r))
    /\ Becomes(r, IF request[r] = "both" THEN "calling" ELSE "over")
    /\ UNCHANGED <<down, past>>

ReplaceSlot(r) ==
    /\ request[r] = "running" /\ Up(r)
    /\ \/ LiveRoom /\ TakeLease(r) /\ Becomes(r, "both")
       \/ ~LiveRoom /\ NoLease /\ Becomes(r, "refused")
    /\ UNCHANGED <<down, faults, past>>

EndLease(r) ==
    /\ request[r] = "calling" /\ Up(r)
    /\ BestEffort(DropLease(r))
    /\ Becomes(r, "over")
    /\ UNCHANGED <<down, past>>

RequestSteps(r) ==
    \/ AcquireAccountSlot(r) \/ ReleaseAccountSlot(r)
    \/ ReplaceSlot(r) \/ EndLease(r)

\* Requests the upstream is working for.
Forwarded == {r \in Requests : request[r] \in {"running", "both", "calling"}}

-----------------------------------------------------------------------------
(* Time, and the life of the instances.                                    *)

\* A member outlives its set: a request's slot only if the request takes
\* longer than a slot lives, its lease only if it is not refreshed in time.
RequestAges(r) ==
    /\ \/ regular[r] = "young" /\ UNCHANGED live
          /\ regular' = [regular EXCEPT ![r] = "old"]
          /\ IF request[r] \in {"running", "refused", "both"}
             THEN Fault /\ Record({"overrun"}) ELSE UNCHANGED <<faults, past>>
       \/ live[r] = "young" /\ UNCHANGED regular
          /\ live' = [live EXCEPT ![r] = "old"]
          /\ IF request[r] \in {"both", "calling"}
             THEN Fault /\ Record({"overrun"}) ELSE UNCHANGED <<faults, past>>
    /\ UNCHANGED <<request, down>>

\* CleanupStaleProcessSlots: the members of all other processes are removed
\* from the regular set, and no request of this instance is in it yet.
StartupCleanup(n) ==
    /\ n \in down
    /\ down' = down \ {n}
    /\ BestEffort(regular' = [m \in Members |-> "out"] /\ UNCHANGED live)
    /\ IF \E m \in Members : regular'[m] # regular[m] /\ NodeOf[m] \notin {n} \cup down
       THEN Record({"cleaned"}) ELSE UNCHANGED past
    /\ UNCHANGED request

\* An instance dies with its requests; what they had in Redis stays there.
Die(n) ==
    /\ n \notin down
    /\ Fault
    /\ down' = down \cup {n}
    /\ request' = [r \in Requests |-> IF NodeOf[r] = n /\ request[r] # "new"
                                      THEN "over" ELSE request[r]]
    /\ UNCHANGED slots
=============================================================================

---------------------------- MODULE LiveCall_proofs ----------------------------
(***************************************************************************)
(* Proofs about LiveCall, for any number of proxies, requests and          *)
(* instances, any limit and any number of faults.                          *)
(***************************************************************************)
EXTENDS LiveCall, FiniteSetTheorems, TLAPS

\* The types the arguments need.
LiveTypes ==
    /\ live \in [Members -> Ages]
    /\ worker \in [Workers -> Steps]
    /\ controller \in {"none", "pending", "observer", "proxy", "closed"}
    /\ session \in {"none", "on", "over"} /\ expired \in BOOLEAN
    /\ logs \in Nat

\* Steps of those who control the call, or are about to settle it.
Active == ObserverSteps \cup ProxySteps \cup SettleSteps

Lost == past \cap {"lapsed", "refresh"} # {}

\* The call may be settled: it is over, or its lease is lost.
Over == ~Running \/ Lost

\* Nobody controls a call that was not stored, or was stored without the
\* creator knowing it; the session begins before the call is stored.
StoredInv ==
    /\ \A w \in Workers : worker[w] \in Active => controller # "none" /\ "unsaved" \notin past
    /\ worker[Call] \in CreateSteps \ {"failLease"} => controller = "none"
    /\ worker[Call] = "failLease" => controller = "none" \/ "unsaved" \in past
    /\ worker[Call] \in {"slot", "lease", "create", "trade", "save"} => "unsaved" \notin past
    /\ \A p \in Proxies : worker[p] \notin CreateSteps
    /\ session = "none" => controller = "none" /\ worker[Call] \notin {"trade", "save"}
    /\ expired => controller # "none"

\* As long as the call has to go on its lease is there, from its creation
\* through all changes of the controller.
LeaseInv ==
    /\ controller # "none" /\ "unsaved" \notin past => live[Call] = "young" \/ Over
    /\ worker[Call] = "create" => live[Call] = "young" \/ Lost
    /\ worker[Call] \in {"trade", "save"} => live[Call] = "young" \/ Over
    /\ \A w \in Workers : worker[w] \in SettleSteps \cup {"yieldEnded"} => Over
    /\ logs = 1 => Over

\* Closing the call elects the one who settles it.
OnceInv ==
    /\ \A w \in Workers : worker[w] \in {"release", "log"} =>
         /\ controller = "closed" /\ logs = 0
         /\ \A v \in Workers : worker[v] \in {"release", "log"} => v = w
         /\ worker[w] = "log" /\ "kept" \notin past => live[Call] = "out"
    /\ logs # 0 =>
         /\ logs = 1 /\ controller = "closed"
         /\ \A w \in Workers : worker[w] \notin {"release", "log"}
         /\ "kept" \notin past => live[Call] = "out"

IInv == LiveTypes /\ StoredInv /\ LeaseInv /\ OnceInv

USE DEF At, Goto, Step, NoFault, Quiet, Fault, Record, slots, call

-----------------------------------------------------------------------------

\* What the scripts make of the set of leases.
LEMMA Scripts ==
    ASSUME live \in [Members -> Ages], NEW m \in Members
    PROVE  /\ Pruned(live) \in [Members -> Ages]
           /\ Pruned(live)[m] = IF live[m] = "old" THEN "out" ELSE live[m]
           /\ Add(Pruned(live), m) \in [Members -> Ages]
           /\ Add(Pruned(live), m)[m] = "young"
           /\ \A k \in Members \ {m} : Add(Pruned(live), m)[k] = Pruned(live)[k]
           /\ Drop(live, m) \in [Members -> Ages]
           /\ Drop(live, m)[m] = "out"
           /\ \A k \in Members \ {m} : Drop(live, m)[k] = live[k]
  BY DEF Pruned, Add, Drop, Ages

\* The call is one of the members and workers, and none of its competitors.
LEMMA CallIsMember ==
    Call \in Members /\ Call \in Workers /\ Call \notin Requests /\ Call \notin Proxies
  BY SlotsAssumption, LiveAssumption DEF Members, Workers

\* Other requests, clean-ups and load queries leave the call's lease alone, but
\* for removing what is too old.
LEMMA OthersKeepLease ==
    ASSUME LiveTypes, Others
    PROVE  /\ live' \in [Members -> Ages]
           /\ live'[Call] = live[Call] \/ (live[Call] = "old" /\ live'[Call] = "out")
           /\ past' \in {past, past \cup {"overrun"}, past \cup {"cleaned"}}
           /\ UNCHANGED <<call, session, expired, worker, errors>>
  <1> USE CallIsMember
  <1>1. live \in [Members -> Ages] /\ UNCHANGED <<call, session, expired, worker, errors>>
    BY DEF LiveTypes, Others
  <1>2. Pruned(live) \in [Members -> Ages]
        /\ Pruned(live)[Call] = IF live[Call] = "old" THEN "out" ELSE live[Call]
    BY <1>1, Scripts
  <1>3. ASSUME NEW r \in Requests, RequestSteps(r) \/ RequestAges(r)
        PROVE  /\ live' \in [Members -> Ages]
               /\ live'[Call] = live[Call] \/ (live[Call] = "old" /\ live'[Call] = "out")
               /\ past' \in {past, past \cup {"overrun"}}
    <2>1. r \in Members /\ r # Call
      BY DEF Members
    <2>2. /\ Add(Pruned(live), r) \in [Members -> Ages]
          /\ Add(Pruned(live), r)[Call] = Pruned(live)[Call]
          /\ Drop(live, r) \in [Members -> Ages]
          /\ Drop(live, r)[Call] = live[Call]
      BY <1>1, <2>1, Scripts
    <2>3. CASE AcquireAccountSlot(r)
      BY <1>1, <1>2, <2>3 DEF AcquireAccountSlot, TakeSlot, NoSlot
    <2>4. CASE ReleaseAccountSlot(r)
      BY <1>1, <2>4 DEF ReleaseAccountSlot, BestEffort, DropSlot
    <2>5. CASE ReplaceSlot(r)
      BY <1>2, <2>2, <2>5 DEF ReplaceSlot, TakeLease, NoLease
    <2>6. CASE EndLease(r)
      BY <1>1, <2>2, <2>6 DEF EndLease, BestEffort, DropLease
    <2>7. CASE RequestAges(r)
      BY <1>1, <2>1, <2>7 DEF RequestAges, Ages
    <2> QED BY <1>3, <2>3, <2>4, <2>5, <2>6, <2>7 DEF RequestSteps
  <1>4. CASE Prune
    <2>1. live' = Pruned(live) /\ past' = past
      BY <1>4 DEF Prune, NoSlot
    <2> QED BY <1>1, <1>2, <2>1
  <1>5. ASSUME NEW n \in Nodes, StartupCleanup(n)
        PROVE live' = live /\ past' \in {past, past \cup {"cleaned"}}
    BY <1>5 DEF StartupCleanup, BestEffort
  <1> QED BY <1>1, <1>3, <1>4, <1>5 DEF Others

\* No step leaves the types.
LEMMA TypesStep == LiveTypes /\ [Next]_vars => LiveTypes'
  <1> SUFFICES ASSUME LiveTypes, [Next]_vars PROVE LiveTypes'
    OBVIOUS
  <1> USE CallIsMember
  <1>0. /\ live \in [Members -> Ages]
        /\ Pruned(live) \in [Members -> Ages]
        /\ Add(Pruned(live), Call) \in [Members -> Ages]
        /\ Drop(live, Call) \in [Members -> Ages]
        /\ [live EXCEPT ![Call] = "old"] \in [Members -> Ages]
    BY Scripts DEF LiveTypes, Ages
  <1> USE DEF LiveTypes, Steps, CreateSteps, ObserverSteps, ProxySteps, SettleSteps
  <1>1. CASE Create
    BY <1>0, <1>1 DEF Create, SelectAccount, AcquireLiveLease, CreateUpstreamLiveCall,
       ReleaseSlot, ReleaseUnusedLease, SaveLiveCall, TakeSlot, NoSlot, TakeLease,
       NoLease, BestEffort, DropSlot, DropLease
  <1>2. ASSUME NEW w \in Workers, Control(w) PROVE LiveTypes'
    <2>1. CASE \/ ClaimObserver(w) \/ GetLiveCall(w) \/ DialSideband(w)
               \/ WaitForRetry(w) \/ WaitForExpiry(w)
      BY <2>1 DEF ClaimObserver, GetLiveCall, DialSideband, WaitForRetry, WaitForExpiry,
         Claim, OnClaimError
    <2>2. CASE Observe(w)
      BY <1>0, <2>2 DEF Observe, RefreshLease, CloseExpired, TakeLease, NoLease
    <2>3. CASE w \in Proxies /\ RunLiveController(w)
      BY <1>0, <2>3 DEF RunLiveController, RefreshLease, CloseExpired, TakeLease, NoLease
    <2>4. CASE w \in Proxies /\ (ClaimProxy(w) \/ DialForClient(w) \/ ReleaseLiveController(w))
      BY <2>4 DEF ClaimProxy, DialForClient, ReleaseLiveController, Claim
    <2>5. CASE MarkLiveCallClosed(w) \/ ReleaseLiveLease(w) \/ WriteUsageLog(w)
      BY <1>0, <2>5 DEF MarkLiveCallClosed, ReleaseLiveLease, WriteUsageLog, DropLease
    <2> QED BY <1>2, <2>1, <2>2, <2>3, <2>4, <2>5 DEF Control
  <1>3. ASSUME NEW p \in Proxies, JoinLiveCall(p) PROVE LiveTypes'
    BY <1>3 DEF JoinLiveCall, Workers
  <1>4. CASE SessionEnds \/ Expires \/ MappingExpires \/ CallAges
    BY <1>0, <1>4 DEF SessionEnds, Expires, MappingExpires, CallAges
  <1>5. CASE Others
    BY <1>5, OthersKeepLease
  <1>6. ASSUME NEW n \in Nodes, Crash(n) PROVE LiveTypes'
    BY <1>6 DEF Crash, Die
  <1>7. CASE UNCHANGED vars
    BY <1>7 DEF vars
  <1> QED BY <1>1, <1>2, <1>3, <1>4, <1>5, <1>6, <1>7 DEF Next

\* Who controls the call knows that it is stored.
LEMMA StoredStep == IInv /\ [Next]_vars => StoredInv'
  <1> SUFFICES ASSUME IInv, [Next]_vars PROVE StoredInv'
    OBVIOUS
  <1> USE CallIsMember DEF StoredInv, LiveTypes, Active,
         Steps, CreateSteps, ObserverSteps, ProxySteps, SettleSteps
  <1>1. LiveTypes /\ LiveTypes' /\ StoredInv /\ LeaseInv /\ OnceInv
    BY TypesStep DEF IInv
  <1>2. /\ \A p \in Proxies : p \in Workers /\ p # Call
        /\ live \in [Members -> Ages] /\ worker \in [Workers -> Steps]
        /\ Pruned(live)[Call] = IF live[Call] = "old" THEN "out" ELSE live[Call]
        /\ Add(Pruned(live), Call)[Call] = "young"
        /\ Drop(live, Call)[Call] = "out"
        /\ [live EXCEPT ![Call] = "old"][Call] = "old"
    BY <1>1, Scripts DEF LiveTypes, Workers
  <1>3. CASE Create
    <2>1. CASE SelectAccount
      BY <1>1, <1>2, <2>1 DEF SelectAccount, TakeSlot, NoSlot
    <2>2. CASE AcquireLiveLease
      BY <1>1, <1>2, <2>2 DEF AcquireLiveLease, TakeLease, NoLease
    <2>3. CASE CreateUpstreamLiveCall
      BY <1>1, <1>2, <2>3 DEF CreateUpstreamLiveCall
    <2>4. CASE ReleaseSlot
      BY <1>1, <1>2, <2>4 DEF ReleaseSlot, BestEffort, DropSlot
    <2>5. CASE ReleaseUnusedLease
      BY <1>1, <1>2, <2>5 DEF ReleaseUnusedLease, BestEffort, DropLease
    <2>6. CASE SaveLiveCall
      BY <1>1, <1>2, <2>6 DEF SaveLiveCall
    <2> QED BY <1>3, <2>1, <2>2, <2>3, <2>4, <2>5, <2>6 DEF Create
  <1>4. ASSUME NEW w \in Workers, Control(w) PROVE StoredInv'
    <2>1. CASE ClaimObserver(w)
      BY <1>1, <1>2, <2>1 DEF ClaimObserver, Claim, OnClaimError
    <2>2. CASE GetLiveCall(w)
      BY <1>1, <1>2, <2>2 DEF GetLiveCall
    <2>3. CASE DialSideband(w)
      BY <1>1, <1>2, <2>3 DEF DialSideband
    <2>4. CASE WaitForRetry(w)
      BY <1>1, <1>2, <2>4 DEF WaitForRetry
    <2>5. CASE WaitForExpiry(w)
      BY <1>1, <1>2, <2>5 DEF WaitForExpiry
    <2>6. CASE Observe(w)
      BY <1>1, <1>2, <2>6 DEF Observe, RefreshLease, CloseExpired,
         TakeLease, NoLease, Leased
    <2>7. CASE w \in Proxies /\ ClaimProxy(w)
      BY <1>1, <1>2, <2>7 DEF ClaimProxy, Claim
    <2>8. CASE w \in Proxies /\ DialForClient(w)
      BY <1>1, <1>2, <2>8 DEF DialForClient
    <2>9. CASE w \in Proxies /\ RunLiveController(w)
      BY <1>1, <1>2, <2>9 DEF RunLiveController, RefreshLease, CloseExpired,
         TakeLease, NoLease, Leased
    <2>10. CASE w \in Proxies /\ ReleaseLiveController(w)
      BY <1>1, <1>2, <2>10 DEF ReleaseLiveController
    <2>11. CASE MarkLiveCallClosed(w)
      BY <1>1, <1>2, <2>11 DEF MarkLiveCallClosed, First
    <2>12. CASE ReleaseLiveLease(w)
      BY <1>1, <1>2, <2>12 DEF ReleaseLiveLease, DropLease
    <2>13. CASE WriteUsageLog(w)
      BY <1>1, <1>2, <2>13 DEF WriteUsageLog
    <2> QED BY <1>4, <2>1, <2>2, <2>3, <2>4, <2>5, <2>6, <2>7,
         <2>8, <2>9, <2>10, <2>11, <2>12, <2>13 DEF Control
  <1>5. ASSUME NEW p \in Proxies, JoinLiveCall(p) PROVE StoredInv'
    BY <1>1, <1>2, <1>5 DEF JoinLiveCall, Workers
  <1>6. CASE SessionEnds \/ Expires \/ MappingExpires
    BY <1>1, <1>2, <1>6 DEF SessionEnds, Expires, MappingExpires, First
  <1>7. CASE CallAges
    BY <1>1, <1>2, <1>7 DEF CallAges
  <1>8. CASE Others
    BY <1>1, <1>2, <1>8, OthersKeepLease
  <1>9. ASSUME NEW n \in Nodes, Crash(n) PROVE StoredInv'
    BY <1>1, <1>2, <1>9 DEF Crash, Die
  <1>10. CASE UNCHANGED vars
    BY <1>1, <1>10 DEF vars
  <1> QED BY <1>3, <1>4, <1>5, <1>6, <1>7, <1>8, <1>9, <1>10 DEF Next

\* The lease is let go of only where the call is over, or its loss is recorded.
LEMMA LeaseStep == IInv /\ [Next]_vars => LeaseInv'
  <1> SUFFICES ASSUME IInv, [Next]_vars PROVE LeaseInv'
    OBVIOUS
  <1> USE CallIsMember DEF OnceInv, StoredInv, LeaseInv, LiveTypes, Active, Over, Lost,
     Running,
         Steps, CreateSteps, ObserverSteps, ProxySteps, SettleSteps
  <1>1. LiveTypes /\ LiveTypes' /\ StoredInv /\ LeaseInv /\ OnceInv
    BY TypesStep DEF IInv
  <1>2. /\ \A p \in Proxies : p \in Workers /\ p # Call
        /\ live \in [Members -> Ages] /\ worker \in [Workers -> Steps]
        /\ Pruned(live)[Call] = IF live[Call] = "old" THEN "out" ELSE live[Call]
        /\ Add(Pruned(live), Call)[Call] = "young"
        /\ Drop(live, Call)[Call] = "out"
        /\ [live EXCEPT ![Call] = "old"][Call] = "old"
    BY <1>1, Scripts DEF LiveTypes, Workers
  <1>3. CASE Create
    <2>1. CASE SelectAccount
      BY <1>1, <1>2, <2>1 DEF SelectAccount, TakeSlot, NoSlot
    <2>2. CASE AcquireLiveLease
      BY <1>1, <1>2, <2>2 DEF AcquireLiveLease, TakeLease, NoLease
    <2>3. CASE CreateUpstreamLiveCall
      BY <1>1, <1>2, <2>3 DEF CreateUpstreamLiveCall
    <2>4. CASE ReleaseSlot
      BY <1>1, <1>2, <2>4 DEF ReleaseSlot, BestEffort, DropSlot
    <2>5. CASE ReleaseUnusedLease
      BY <1>1, <1>2, <2>5 DEF ReleaseUnusedLease, BestEffort, DropLease
    <2>6. CASE SaveLiveCall
      BY <1>1, <1>2, <2>6 DEF SaveLiveCall
    <2> QED BY <1>3, <2>1, <2>2, <2>3, <2>4, <2>5, <2>6 DEF Create
  <1>4. ASSUME NEW w \in Workers, Control(w) PROVE LeaseInv'
    <2>1. CASE ClaimObserver(w)
      BY <1>1, <1>2, <2>1 DEF ClaimObserver, Claim, OnClaimError
    <2>2. CASE GetLiveCall(w)
      BY <1>1, <1>2, <2>2 DEF GetLiveCall
    <2>3. CASE DialSideband(w)
      BY <1>1, <1>2, <2>3 DEF DialSideband
    <2>4. CASE WaitForRetry(w)
      BY <1>1, <1>2, <2>4 DEF WaitForRetry
    <2>5. CASE WaitForExpiry(w)
      BY <1>1, <1>2, <2>5 DEF WaitForExpiry
    <2>6. CASE Observe(w)
      BY <1>1, <1>2, <2>6 DEF Observe, RefreshLease, CloseExpired,
         TakeLease, NoLease, Leased
    <2>7. CASE w \in Proxies /\ ClaimProxy(w)
      BY <1>1, <1>2, <2>7 DEF ClaimProxy, Claim
    <2>8. CASE w \in Proxies /\ DialForClient(w)
      BY <1>1, <1>2, <2>8 DEF DialForClient
    <2>9. CASE w \in Proxies /\ RunLiveController(w)
      BY <1>1, <1>2, <2>9 DEF RunLiveController, RefreshLease, CloseExpired,
         TakeLease, NoLease, Leased
    <2>10. CASE w \in Proxies /\ ReleaseLiveController(w)
      BY <1>1, <1>2, <2>10 DEF ReleaseLiveController
    <2>11. CASE MarkLiveCallClosed(w)
      BY <1>1, <1>2, <2>11 DEF MarkLiveCallClosed, First
    <2>12. CASE ReleaseLiveLease(w)
      BY <1>1, <1>2, <2>12 DEF ReleaseLiveLease, DropLease
    <2>13. CASE WriteUsageLog(w)
      BY <1>1, <1>2, <2>13 DEF WriteUsageLog
    <2> QED BY <1>4, <2>1, <2>2, <2>3, <2>4, <2>5, <2>6, <2>7,
         <2>8, <2>9, <2>10, <2>11, <2>12, <2>13 DEF Control
  <1>5. ASSUME NEW p \in Proxies, JoinLiveCall(p) PROVE LeaseInv'
    BY <1>1, <1>2, <1>5 DEF JoinLiveCall, Workers
  <1>6. CASE SessionEnds \/ Expires \/ MappingExpires
    BY <1>1, <1>2, <1>6 DEF SessionEnds, Expires, MappingExpires, First
  <1>7. CASE CallAges
    BY <1>1, <1>2, <1>7 DEF CallAges
  <1>8. CASE Others
    BY <1>1, <1>2, <1>8, OthersKeepLease
  <1>9. ASSUME NEW n \in Nodes, Crash(n) PROVE LeaseInv'
    BY <1>1, <1>2, <1>9 DEF Crash, Die
  <1>10. CASE UNCHANGED vars
    BY <1>1, <1>10 DEF vars
  <1> QED BY <1>3, <1>4, <1>5, <1>6, <1>7, <1>8, <1>9, <1>10 DEF Next

\* The one who closes the call settles it alone.
LEMMA OnceStep == IInv /\ [Next]_vars => OnceInv'
  <1> SUFFICES ASSUME IInv, [Next]_vars PROVE OnceInv'
    OBVIOUS
  <1> USE CallIsMember DEF StoredInv, OnceInv, LiveTypes, Active,
         Steps, CreateSteps, ObserverSteps, ProxySteps, SettleSteps
  <1>1. LiveTypes /\ LiveTypes' /\ StoredInv /\ LeaseInv /\ OnceInv
    BY TypesStep DEF IInv
  <1>2. /\ \A p \in Proxies : p \in Workers /\ p # Call
        /\ live \in [Members -> Ages] /\ worker \in [Workers -> Steps]
        /\ Pruned(live)[Call] = IF live[Call] = "old" THEN "out" ELSE live[Call]
        /\ Add(Pruned(live), Call)[Call] = "young"
        /\ Drop(live, Call)[Call] = "out"
        /\ [live EXCEPT ![Call] = "old"][Call] = "old"
    BY <1>1, Scripts DEF LiveTypes, Workers
  <1>3. CASE Create
    <2>1. CASE SelectAccount
      BY <1>1, <1>2, <2>1 DEF SelectAccount, TakeSlot, NoSlot
    <2>2. CASE AcquireLiveLease
      BY <1>1, <1>2, <2>2 DEF AcquireLiveLease, TakeLease, NoLease
    <2>3. CASE CreateUpstreamLiveCall
      BY <1>1, <1>2, <2>3 DEF CreateUpstreamLiveCall
    <2>4. CASE ReleaseSlot
      BY <1>1, <1>2, <2>4 DEF ReleaseSlot, BestEffort, DropSlot
    <2>5. CASE ReleaseUnusedLease
      BY <1>1, <1>2, <2>5 DEF ReleaseUnusedLease, BestEffort, DropLease
    <2>6. CASE SaveLiveCall
      BY <1>1, <1>2, <2>6 DEF SaveLiveCall
    <2> QED BY <1>3, <2>1, <2>2, <2>3, <2>4, <2>5, <2>6 DEF Create
  <1>4. ASSUME NEW w \in Workers, Control(w) PROVE OnceInv'
    <2>1. CASE ClaimObserver(w)
      BY <1>1, <1>2, <2>1 DEF ClaimObserver, Claim, OnClaimError
    <2>2. CASE GetLiveCall(w)
      BY <1>1, <1>2, <2>2 DEF GetLiveCall
    <2>3. CASE DialSideband(w)
      BY <1>1, <1>2, <2>3 DEF DialSideband
    <2>4. CASE WaitForRetry(w)
      BY <1>1, <1>2, <2>4 DEF WaitForRetry
    <2>5. CASE WaitForExpiry(w)
      BY <1>1, <1>2, <2>5 DEF WaitForExpiry
    <2>6. CASE Observe(w)
      BY <1>1, <1>2, <2>6 DEF Observe, RefreshLease, CloseExpired,
         TakeLease, NoLease, Leased
    <2>7. CASE w \in Proxies /\ ClaimProxy(w)
      BY <1>1, <1>2, <2>7 DEF ClaimProxy, Claim
    <2>8. CASE w \in Proxies /\ DialForClient(w)
      BY <1>1, <1>2, <2>8 DEF DialForClient
    <2>9. CASE w \in Proxies /\ RunLiveController(w)
      BY <1>1, <1>2, <2>9 DEF RunLiveController, RefreshLease, CloseExpired,
         TakeLease, NoLease, Leased
    <2>10. CASE w \in Proxies /\ ReleaseLiveController(w)
      BY <1>1, <1>2, <2>10 DEF ReleaseLiveController
    <2>11. CASE MarkLiveCallClosed(w)
      BY <1>1, <1>2, <2>11 DEF MarkLiveCallClosed, First
    <2>12. CASE ReleaseLiveLease(w)
      BY <1>1, <1>2, <2>12 DEF ReleaseLiveLease, DropLease
    <2>13. CASE WriteUsageLog(w)
      BY <1>1, <1>2, <2>13 DEF WriteUsageLog
    <2> QED BY <1>4, <2>1, <2>2, <2>3, <2>4, <2>5, <2>6, <2>7,
         <2>8, <2>9, <2>10, <2>11, <2>12, <2>13 DEF Control
  <1>5. ASSUME NEW p \in Proxies, JoinLiveCall(p) PROVE OnceInv'
    BY <1>1, <1>2, <1>5 DEF JoinLiveCall, Workers
  <1>6. CASE SessionEnds \/ Expires \/ MappingExpires
    BY <1>1, <1>2, <1>6 DEF SessionEnds, Expires, MappingExpires, First
  <1>7. CASE CallAges
    BY <1>1, <1>2, <1>7 DEF CallAges
  <1>8. CASE Others
    BY <1>1, <1>2, <1>8, OthersKeepLease
  <1>9. ASSUME NEW n \in Nodes, Crash(n) PROVE OnceInv'
    BY <1>1, <1>2, <1>9 DEF Crash, Die
  <1>10. CASE UNCHANGED vars
    BY <1>1, <1>10 DEF vars
  <1> QED BY <1>3, <1>4, <1>5, <1>6, <1>7, <1>8, <1>9, <1>10 DEF Next

-----------------------------------------------------------------------------

\* The first state has no call.
LEMMA InitIInv == Init => IInv
  <1> SUFFICES ASSUME Init PROVE IInv
    OBVIOUS
  <1> USE CallIsMember DEF Init, SlotsInit
  <1>1. LiveTypes
    BY DEF LiveTypes, Ages, Steps, CreateSteps
  <1>2. /\ \A w \in Workers : worker[w] = IF w = Call THEN "slot" ELSE "idle"
        /\ \A p \in Proxies : p \in Workers /\ p # Call
    BY DEF Workers
  <1>3. StoredInv
    BY <1>2 DEF StoredInv, Active, CreateSteps, ObserverSteps, ProxySteps, SettleSteps
  <1>4. LeaseInv
    BY <1>2 DEF LeaseInv, SettleSteps
  <1>5. OnceInv
    BY <1>2 DEF OnceInv
  <1> QED BY <1>1, <1>3, <1>4, <1>5 DEF IInv

\* The inductive invariant holds.
LEMMA Invariance == Spec => []IInv
  <1>1. IInv /\ [Next]_vars => IInv'
    BY TypesStep, StoredStep, LeaseStep, OnceStep DEF IInv
  <1> QED BY InitIInv, <1>1, PTL DEF Spec

\* However many observers and proxies run finalizeLiveCall, whatever fails and
\* whoever dies, one usage log is written at most, for a call that is over or
\* has lost its lease, and the released lease does not come back.
THEOREM SettlesByRight == Spec => []SettledByRight
  <1>1. IInv => SettledByRight
    BY DEF IInv, LiveTypes, LeaseInv, OnceInv, Over, Lost, SettledByRight
  <1> QED BY Invariance, <1>1, PTL

-----------------------------------------------------------------------------
(* The limit: requests and live calls together stay within the account's,  *)
(* for any number of requests, proxies and instances.                      *)

Losses == {"overrun", "lapsed", "cleaned", "unsaved", "refresh"}

\* Nothing has happened that takes a slot or a lease from its holder.
Calm == past \cap Losses = {}

\* Those who hold a slot, a lease or both.
Held == {m \in Members : regular[m] # "out" \/ live[m] # "out"}

SlotTypes ==
    /\ regular \in [Members -> Ages]
    /\ request \in [Requests -> {"new", "running", "refused", "both", "calling", "over"}]

\* Who holds anything runs on a living instance; the provider has a session
\* only of a call whose lease was taken.
AliveInv ==
    /\ worker[Call] \in CreateSteps \ {"slot"} => NodeOf[Call] \notin down
    /\ \A r \in Requests :
         request[r] \in {"running", "refused", "both", "calling"} => NodeOf[r] \notin down
    /\ worker[Call] \in {"slot", "lease", "refused", "create"} => session = "none"
    /\ worker[Call] \in {"fail", "failLease"} => session = "none" \/ "unsaved" \in past

\* Everyone who is forwarded holds a slot or a lease, and while a call trades
\* one for the other it holds both.
HoldInv ==
    /\ \A r \in Requests : request[r] = "running" => regular[r] = "young"
    /\ \A r \in Requests : request[r] \in {"both", "calling"} => live[r] = "young"
    /\ worker[Call] = "lease" => regular[Call] = "young"
    /\ Running => live[Call] = "young"

\* It is the holders who are counted: a trade adds none.
LimitInv == IsFiniteSet(Held) /\ Cardinality(Held) <= Limit

LInv == IInv /\ SlotTypes /\ AliveInv /\ (Calm => HoldInv /\ LimitInv)

-----------------------------------------------------------------------------

\* What pruning leaves of a member.
Kept(age) == IF age = "old" THEN "out" ELSE age

\* What the scripts, run for m, do to each member's slot and lease.
EffectsOn(m) ==
    /\ TakeSlot(m) =>
         /\ regular' \in [Members -> Ages]
         /\ \A k \in Members : regular'[k] = IF k = m THEN "young" ELSE Kept(regular[k])
         /\ \A k \in Members : live'[k] = Kept(live[k])
    /\ NoSlot =>
         /\ regular' \in [Members -> Ages]
         /\ \A k \in Members : regular'[k] = Kept(regular[k]) /\ live'[k] = Kept(live[k])
    /\ TakeLease(m) =>
         /\ regular' = regular
         /\ \A k \in Members : live'[k] = IF k = m THEN "young" ELSE Kept(live[k])
    /\ NoLease =>
         regular' = regular /\ \A k \in Members : live'[k] = Kept(live[k])
    /\ DropSlot(m) =>
         /\ regular' \in [Members -> Ages] /\ live' = live
         /\ \A k \in Members : regular'[k] = IF k = m THEN "out" ELSE regular[k]
    /\ DropLease(m) =>
         /\ regular' = regular
         /\ \A k \in Members : live'[k] = IF k = m THEN "out" ELSE live[k]

\* They do so, whatever was there before.
LEMMA Effects ==
    ASSUME regular \in [Members -> Ages], live \in [Members -> Ages], NEW m \in Members
    PROVE  EffectsOn(m)
  <1>1. \A set \in [Members -> Ages] :
          /\ Pruned(set) \in [Members -> Ages]
          /\ \A k \in Members : Pruned(set)[k] = Kept(set[k])
    BY DEF Pruned, Kept, Ages
  <1>2. \A set \in [Members -> Ages] :
          /\ Add(set, m) \in [Members -> Ages] /\ Drop(set, m) \in [Members -> Ages]
          /\ \A k \in Members : /\ Add(set, m)[k] = IF k = m THEN "young" ELSE set[k]
                                /\ Drop(set, m)[k] = IF k = m THEN "out" ELSE set[k]
    BY DEF Add, Drop, Ages
  <1> QED BY <1>1, <1>2 DEF EffectsOn, TakeSlot, NoSlot, TakeLease, NoLease, DropSlot,
     DropLease

\* Without a new holder the limit is kept.
LEMMA NoNewHolder ==
    ASSUME LimitInv, \A m \in Members : regular'[m] # "out" \/ live'[m] # "out" =>
                                          regular[m] # "out" \/ live[m] # "out"
    PROVE  LimitInv'
  <1>1. Held' \in SUBSET Held
    BY DEF Held
  <1>2. IsFiniteSet(Held') /\ Cardinality(Held') <= Cardinality(Held)
    BY <1>1, FS_Subset DEF LimitInv
  <1>3. Cardinality(Held) \in Nat /\ Cardinality(Held') \in Nat /\ Limit \in Nat
    BY <1>2, FS_CardinalityType, SlotsAssumption DEF LimitInv
  <1> QED BY <1>2, <1>3 DEF LimitInv

\* acquireScript lets one in only below the limit: a holder of both a slot and
\* a lease counts twice there.
LEMMA OneMoreHolder ==
    ASSUME regular \in [Members -> Ages], live \in [Members -> Ages], LimitInv,
           NEW m \in Members, Room, TakeSlot(m)
    PROVE  LimitInv'
  <1> DEFINE A == {k \in Members : Pruned(regular)[k] # "out"}
             B == {k \in Members : Pruned(live)[k] # "out"}
  <1>1. \A k \in Members : /\ Pruned(regular)[k] = Kept(regular[k])
                           /\ Pruned(live)[k] = Kept(live[k])
    BY DEF Pruned, Kept
  <1>2. A \in SUBSET Held /\ B \in SUBSET Held
    BY <1>1 DEF Held, Kept
  <1>3. IsFiniteSet(A) /\ IsFiniteSet(B)
    BY <1>2, FS_Subset DEF LimitInv
  <1>4. /\ IsFiniteSet(A \cup B) /\ IsFiniteSet(A \cap B)
        /\ Cardinality(A \cup B) = Cardinality(A) + Cardinality(B) - Cardinality(A \cap B)
    <2>1. IsFiniteSet(A \cap B)
      BY <1>3, FS_Subset, A \cap B \in SUBSET A
    <2> QED BY <1>3, <2>1, FS_Union
  <1>5. /\ Cardinality(A) \in Nat /\ Cardinality(B) \in Nat
        /\ Cardinality(A \cap B) \in Nat /\ Cardinality(A \cup B) \in Nat
    BY <1>3, <1>4, FS_CardinalityType
  <1>6. Cardinality(A) + Cardinality(B) < Limit
    BY DEF Room, Size
  <1> HIDE DEF A, B
  <1>7. Limit \in Nat /\ Cardinality(A \cup B) + 1 <= Limit
    BY <1>4, <1>5, <1>6, SlotsAssumption
  <1>8. /\ IsFiniteSet((A \cup B) \cup {m})
        /\ Cardinality((A \cup B) \cup {m}) \in {Cardinality(A \cup B), Cardinality(A \cup B) + 1}
    BY <1>4, FS_AddElement
  <1>9. Held' \in SUBSET ((A \cup B) \cup {m})
    BY <1>1, Effects DEF EffectsOn, Kept, Held, A, B
  <1>10. IsFiniteSet(Held') /\ Cardinality(Held') <= Cardinality((A \cup B) \cup {m})
    BY <1>8, <1>9, FS_Subset
  <1>11. Cardinality(Held') \in Nat
    BY <1>10, FS_CardinalityType
  <1> QED BY <1>5, <1>7, <1>8, <1>10, <1>11 DEF LimitInv

\* What has happened stays recorded.
LEMMA HistoryGrows == [Next]_vars => past \subseteq past'
  <1> SUFFICES ASSUME [Next]_vars PROVE past \subseteq past'
    OBVIOUS
  <1>1. CASE Create
    BY <1>1 DEF Create, SelectAccount, AcquireLiveLease, CreateUpstreamLiveCall,
       ReleaseSlot, ReleaseUnusedLease, SaveLiveCall
  <1>2. ASSUME NEW w \in Workers, Control(w) PROVE past \subseteq past'
    BY <1>2 DEF Control, ClaimObserver, GetLiveCall, DialSideband, WaitForRetry,
       WaitForExpiry, Observe, RefreshLease, CloseExpired, ClaimProxy, DialForClient,
       RunLiveController, ReleaseLiveController, MarkLiveCallClosed, ReleaseLiveLease,
       WriteUsageLog
  <1>3. ASSUME NEW p \in Proxies, JoinLiveCall(p) PROVE past \subseteq past'
    BY <1>3 DEF JoinLiveCall
  <1>4. CASE SessionEnds \/ Expires \/ MappingExpires \/ CallAges
    BY <1>4 DEF SessionEnds, Expires, MappingExpires, CallAges
  <1>5. CASE Others
    BY <1>5 DEF Others, RequestSteps, AcquireAccountSlot, ReleaseAccountSlot,
       ReplaceSlot, EndLease, RequestAges, Prune, StartupCleanup
  <1>6. ASSUME NEW n \in Nodes, Crash(n) PROVE past \subseteq past'
    BY <1>6 DEF Crash, Die
  <1>7. CASE UNCHANGED vars
    BY <1>7 DEF vars
  <1> QED BY <1>1, <1>2, <1>3, <1>4, <1>5, <1>6, <1>7 DEF Next

\* A competing request is not the call.
LEMMA ReqMembers == \A r \in Requests : r \in Members /\ r # Call
  BY CallIsMember DEF Members

\* The slots and requests keep their types, and who holds anything lives.
LEMMA AliveStep == IInv /\ SlotTypes /\ AliveInv /\ [Next]_vars => SlotTypes' /\ AliveInv'
  <1> SUFFICES ASSUME IInv, SlotTypes, AliveInv, [Next]_vars PROVE SlotTypes' /\ AliveInv'
    OBVIOUS
  <1> USE CallIsMember DEF SlotTypes, AliveInv, CreateSteps, ObserverSteps, ProxySteps,
     SettleSteps
  <1>1. /\ live \in [Members -> Ages] /\ worker \in [Workers -> Steps]
        /\ \A w \in Proxies : w \in Workers /\ w # Call
        /\ \A w \in Proxies : worker[w] \notin CreateSteps
        /\ session = "none" => controller = "none"
        /\ \A w \in Workers : worker[w] \in {"observing", "proxying"} =>
             controller # "none" /\ "unsaved" \notin past
        /\ [regular EXCEPT ![Call] = "old"] \in [Members -> Ages]
        /\ \A r \in Requests : [regular EXCEPT ![r] = "old"] \in [Members -> Ages]
        /\ [m \in Members |-> "out"] \in [Members -> Ages]
    BY DEF IInv, LiveTypes, StoredInv, Active, Workers, Ages
  <1>2. EffectsOn(Call)
    BY <1>1, Effects
  <1> USE DEF EffectsOn, Kept
  <1>3. CASE Create
    <2>1. CASE SelectAccount
      BY <1>1, <1>2, <2>1 DEF SelectAccount
    <2>2. CASE AcquireLiveLease
      BY <1>1, <1>2, <2>2 DEF AcquireLiveLease
    <2>3. CASE CreateUpstreamLiveCall
      BY <1>1, <1>2, <2>3 DEF CreateUpstreamLiveCall
    <2>4. CASE ReleaseSlot
      BY <1>1, <1>2, <2>4 DEF ReleaseSlot, BestEffort
    <2>5. CASE ReleaseUnusedLease
      BY <1>1, <1>2, <2>5 DEF ReleaseUnusedLease, BestEffort
    <2>6. CASE SaveLiveCall
      BY <1>1, <1>2, <2>6 DEF SaveLiveCall
    <2> QED BY <1>3, <2>1, <2>2, <2>3, <2>4, <2>5, <2>6 DEF Create
  <1>4. ASSUME NEW w \in Workers, Control(w) PROVE SlotTypes' /\ AliveInv'
    <2>1. CASE ClaimObserver(w)
      BY <1>1, <1>2, <2>1 DEF ClaimObserver, Claim, OnClaimError
    <2>2. CASE GetLiveCall(w)
      BY <1>1, <1>2, <2>2 DEF GetLiveCall
    <2>3. CASE DialSideband(w)
      BY <1>1, <1>2, <2>3 DEF DialSideband
    <2>4. CASE WaitForRetry(w)
      BY <1>1, <1>2, <2>4 DEF WaitForRetry
    <2>5. CASE WaitForExpiry(w)
      BY <1>1, <1>2, <2>5 DEF WaitForExpiry
    <2>6. CASE Observe(w)
      BY <1>1, <1>2, <2>6 DEF Observe, RefreshLease, CloseExpired, Leased
    <2>7. CASE w \in Proxies /\ ClaimProxy(w)
      BY <1>1, <1>2, <2>7 DEF ClaimProxy, Claim
    <2>8. CASE w \in Proxies /\ DialForClient(w)
      BY <1>1, <1>2, <2>8 DEF DialForClient
    <2>9. CASE w \in Proxies /\ RunLiveController(w)
      BY <1>1, <1>2, <2>9 DEF RunLiveController, RefreshLease, CloseExpired, Leased
    <2>10. CASE w \in Proxies /\ ReleaseLiveController(w)
      BY <1>1, <1>2, <2>10 DEF ReleaseLiveController
    <2>11. CASE MarkLiveCallClosed(w)
      BY <1>1, <1>2, <2>11 DEF MarkLiveCallClosed, First
    <2>12. CASE ReleaseLiveLease(w)
      BY <1>1, <1>2, <2>12 DEF ReleaseLiveLease
    <2>13. CASE WriteUsageLog(w)
      BY <1>1, <1>2, <2>13 DEF WriteUsageLog
    <2> QED BY <1>4, <2>1, <2>2, <2>3, <2>4, <2>5, <2>6, <2>7,
         <2>8, <2>9, <2>10, <2>11, <2>12, <2>13 DEF Control
  <1>5. ASSUME NEW p \in Proxies, JoinLiveCall(p) PROVE SlotTypes' /\ AliveInv'
    BY <1>1, <1>2, <1>5 DEF JoinLiveCall
  <1>6. CASE SessionEnds \/ Expires \/ MappingExpires
    BY <1>1, <1>2, <1>6 DEF SessionEnds, Expires, MappingExpires, First
  <1>7. CASE CallAges
    BY <1>1, <1>2, <1>7 DEF CallAges
  <1>8. CASE Others
    <2>1. UNCHANGED <<call, session, expired, worker, errors>>
      BY <1>8 DEF Others
    <2>2. ASSUME NEW r \in Requests, RequestSteps(r) \/ RequestAges(r) PROVE SlotTypes' /\ AliveInv'
      <3>1. r \in Members /\ r # Call
        BY DEF Members
      <3> HIDE DEF Members
      <3>2. CASE AcquireAccountSlot(r)
        BY <1>1, <1>2, <2>1, <3>1, <3>2, Effects DEF AcquireAccountSlot, Becomes, Up
      <3>3. CASE ReleaseAccountSlot(r)
        BY <1>1, <1>2, <2>1, <3>1, <3>3, Effects DEF ReleaseAccountSlot, BestEffort,
           Becomes, Up
      <3>4. CASE ReplaceSlot(r)
        BY <1>1, <1>2, <2>1, <3>1, <3>4, Effects DEF ReplaceSlot, Becomes, Up
      <3>5. CASE EndLease(r)
        BY <1>1, <1>2, <2>1, <3>1, <3>5, Effects DEF EndLease, BestEffort, Becomes, Up
      <3>6. CASE RequestAges(r)
        BY <1>1, <1>2, <2>1, <3>1, <3>6, Effects DEF RequestAges
      <3> QED BY <2>2, <3>2, <3>3, <3>4, <3>5, <3>6 DEF RequestSteps
    <2>3. CASE Prune
      BY <1>1, <1>2, <2>1, <2>3 DEF Prune
    <2>4. ASSUME NEW n \in Nodes, StartupCleanup(n) PROVE SlotTypes' /\ AliveInv'
      BY <1>1, <1>2, <2>1, <2>4, ReqMembers DEF StartupCleanup, BestEffort
    <2> QED BY <1>8, <2>2, <2>3, <2>4 DEF Others
  <1>9. ASSUME NEW n \in Nodes, Crash(n) PROVE SlotTypes' /\ AliveInv'
    BY <1>1, <1>2, <1>9 DEF Crash, Die
  <1>10. CASE UNCHANGED vars
    BY <1>1, <1>2, <1>10 DEF vars
  <1> QED BY <1>3, <1>4, <1>5, <1>6, <1>7, <1>8, <1>9, <1>10 DEF Next

\* Until a loss is recorded every holder keeps what it holds.
LEMMA HoldStep == LInv /\ [Next]_vars /\ Calm' => HoldInv'
  <1> SUFFICES ASSUME LInv, [Next]_vars, Calm' PROVE HoldInv'
    OBVIOUS
  <1> USE CallIsMember DEF HoldInv, AliveInv, Running, Calm, Losses,
         CreateSteps, ObserverSteps, ProxySteps, SettleSteps
  <1>0. Calm => HoldInv
    BY DEF LInv
  <1> HIDE DEF HoldInv
  <1>1. /\ live \in [Members -> Ages] /\ worker \in [Workers -> Steps]
        /\ \A w \in Proxies : w \in Workers /\ w # Call
        /\ \A w \in Proxies : worker[w] \notin CreateSteps
        /\ regular \in [Members -> Ages] 
        /\ request \in [Requests -> {"new", "running", "refused", "both", "calling", "over"}]
        /\ AliveInv /\ session \in {"none", "on", "over"} /\ expired \in BOOLEAN
        /\ \A r \in Requests : r \in Members /\ r # Call
        /\ worker[Call] = "create" => live[Call] = "young" \/ Lost
        /\ \A w \in Workers : worker[w] \in SettleSteps => ~Running \/ Lost
    BY DEF LInv, IInv, LiveTypes, SlotTypes, StoredInv, LeaseInv, Over, Workers, Members
  <1>2. EffectsOn(Call)
    BY <1>1, Effects
  <1> USE DEF EffectsOn, Kept
  <1> USE DEF HoldInv, Lost
  <1>3. CASE Create
    <2>1. CASE SelectAccount
      BY <1>0, <1>1, <1>2, <2>1 DEF SelectAccount
    <2>2. CASE AcquireLiveLease
      BY <1>0, <1>1, <1>2, <2>2 DEF AcquireLiveLease
    <2>3. CASE CreateUpstreamLiveCall
      BY <1>0, <1>1, <1>2, <2>3 DEF CreateUpstreamLiveCall
    <2>4. CASE ReleaseSlot
      BY <1>0, <1>1, <1>2, <2>4 DEF ReleaseSlot, BestEffort
    <2>5. CASE ReleaseUnusedLease
      BY <1>0, <1>1, <1>2, <2>5 DEF ReleaseUnusedLease, BestEffort
    <2>6. CASE SaveLiveCall
      BY <1>0, <1>1, <1>2, <2>6 DEF SaveLiveCall
    <2> QED BY <1>3, <2>1, <2>2, <2>3, <2>4, <2>5, <2>6 DEF Create
  <1>4. ASSUME NEW w \in Workers, Control(w) PROVE HoldInv'
    <2>1. CASE ClaimObserver(w)
      BY <1>0, <1>1, <1>2, <2>1 DEF ClaimObserver, Claim, OnClaimError
    <2>2. CASE GetLiveCall(w)
      BY <1>0, <1>1, <1>2, <2>2 DEF GetLiveCall
    <2>3. CASE DialSideband(w)
      BY <1>0, <1>1, <1>2, <2>3 DEF DialSideband
    <2>4. CASE WaitForRetry(w)
      BY <1>0, <1>1, <1>2, <2>4 DEF WaitForRetry
    <2>5. CASE WaitForExpiry(w)
      BY <1>0, <1>1, <1>2, <2>5 DEF WaitForExpiry
    <2>6. CASE Observe(w)
      BY <1>0, <1>1, <1>2, <2>6 DEF Observe, RefreshLease, CloseExpired, Leased
    <2>7. CASE w \in Proxies /\ ClaimProxy(w)
      BY <1>0, <1>1, <1>2, <2>7 DEF ClaimProxy, Claim
    <2>8. CASE w \in Proxies /\ DialForClient(w)
      BY <1>0, <1>1, <1>2, <2>8 DEF DialForClient
    <2>9. CASE w \in Proxies /\ RunLiveController(w)
      BY <1>0, <1>1, <1>2, <2>9 DEF RunLiveController, RefreshLease, CloseExpired, Leased
    <2>10. CASE w \in Proxies /\ ReleaseLiveController(w)
      BY <1>0, <1>1, <1>2, <2>10 DEF ReleaseLiveController
    <2>11. CASE MarkLiveCallClosed(w)
      BY <1>0, <1>1, <1>2, <2>11 DEF MarkLiveCallClosed, First
    <2>12. CASE ReleaseLiveLease(w)
      BY <1>0, <1>1, <1>2, <2>12 DEF ReleaseLiveLease
    <2>13. CASE WriteUsageLog(w)
      BY <1>0, <1>1, <1>2, <2>13 DEF WriteUsageLog
    <2> QED BY <1>4, <2>1, <2>2, <2>3, <2>4, <2>5, <2>6, <2>7,
         <2>8, <2>9, <2>10, <2>11, <2>12, <2>13 DEF Control
  <1>5. ASSUME NEW p \in Proxies, JoinLiveCall(p) PROVE HoldInv'
    BY <1>0, <1>1, <1>2, <1>5 DEF JoinLiveCall
  <1>6. CASE SessionEnds \/ Expires \/ MappingExpires
    BY <1>0, <1>1, <1>2, <1>6 DEF SessionEnds, Expires, MappingExpires, First
  <1>7. CASE CallAges
    BY <1>0, <1>1, <1>2, <1>7 DEF CallAges
  <1>8. CASE Others
    <2>1. UNCHANGED <<call, session, expired, worker, errors>>
      BY <1>8 DEF Others
    <2>2. ASSUME NEW r \in Requests, RequestSteps(r) \/ RequestAges(r) PROVE HoldInv'
      <3>1. r \in Members /\ r # Call
        BY DEF Members
      <3> HIDE DEF Members
      <3>2. CASE AcquireAccountSlot(r)
        BY <1>0, <1>1, <1>2, <2>1, <3>1, <3>2, Effects DEF AcquireAccountSlot, Becomes, Up
      <3>3. CASE ReleaseAccountSlot(r)
        BY <1>0, <1>1, <1>2, <2>1, <3>1, <3>3, Effects DEF ReleaseAccountSlot, BestEffort,
           Becomes, Up
      <3>4. CASE ReplaceSlot(r)
        BY <1>0, <1>1, <1>2, <2>1, <3>1, <3>4, Effects DEF ReplaceSlot, Becomes, Up
      <3>5. CASE EndLease(r)
        BY <1>0, <1>1, <1>2, <2>1, <3>1, <3>5, Effects DEF EndLease, BestEffort, Becomes, Up
      <3>6. CASE RequestAges(r)
        BY <1>0, <1>1, <1>2, <2>1, <3>1, <3>6, Effects DEF RequestAges
      <3> QED BY <2>2, <3>2, <3>3, <3>4, <3>5, <3>6 DEF RequestSteps
    <2>3. CASE Prune
      BY <1>0, <1>1, <1>2, <2>1, <2>3 DEF Prune
    <2>4. ASSUME NEW n \in Nodes, StartupCleanup(n) PROVE HoldInv'
      BY <1>0, <1>1, <1>2, <2>1, <2>4, ReqMembers DEF StartupCleanup, BestEffort
    <2> QED BY <1>8, <2>2, <2>3, <2>4 DEF Others
  <1>9. ASSUME NEW n \in Nodes, Crash(n) PROVE HoldInv'
    BY <1>0, <1>1, <1>2, <1>9 DEF Crash, Die
  <1>10. CASE UNCHANGED vars
    BY <1>0, <1>1, <1>2, <1>10 DEF vars
  <1> QED BY <1>3, <1>4, <1>5, <1>6, <1>7, <1>8, <1>9, <1>10 DEF Next

\* A step that brings in one holder more has found room for it.
Admission ==
    \/ \A m \in Members : regular'[m] # "out" \/ live'[m] # "out" =>
                            regular[m] # "out" \/ live[m] # "out"
    \/ \E m \in Members : Room /\ TakeSlot(m)

\* The scripts add no holder but for a slot that acquireScript grants.
LEMMA AdmissionStep == LInv /\ [Next]_vars /\ Calm' => Admission
  <1> SUFFICES ASSUME LInv, [Next]_vars, Calm' PROVE Admission
    OBVIOUS
  <1> USE CallIsMember DEF Admission, HoldInv, Calm, Losses
  <1>0. Calm => HoldInv
    BY DEF LInv
  <1>1. /\ live \in [Members -> Ages] /\ worker \in [Workers -> Steps]
        /\ \A w \in Proxies : w \in Workers /\ w # Call
        /\ regular \in [Members -> Ages]
        /\ \A r \in Requests : r \in Members /\ r # Call
    BY DEF LInv, IInv, LiveTypes, SlotTypes, Workers, Members
  <1>2. EffectsOn(Call)
    BY <1>1, Effects
  <1> USE DEF EffectsOn, Kept
  <1>3. CASE Create
    <2>1. CASE SelectAccount
      BY <1>0, <1>1, <1>2, <2>1 DEF SelectAccount
    <2>2. CASE AcquireLiveLease
      BY <1>0, <1>1, <1>2, <2>2 DEF AcquireLiveLease
    <2>3. CASE CreateUpstreamLiveCall
      BY <1>0, <1>1, <1>2, <2>3 DEF CreateUpstreamLiveCall
    <2>4. CASE ReleaseSlot
      BY <1>0, <1>1, <1>2, <2>4 DEF ReleaseSlot, BestEffort
    <2>5. CASE ReleaseUnusedLease
      BY <1>0, <1>1, <1>2, <2>5 DEF ReleaseUnusedLease, BestEffort
    <2>6. CASE SaveLiveCall
      BY <1>0, <1>1, <1>2, <2>6 DEF SaveLiveCall
    <2> QED BY <1>3, <2>1, <2>2, <2>3, <2>4, <2>5, <2>6 DEF Create
  <1>4. ASSUME NEW w \in Workers, Control(w) PROVE Admission
    <2>1. CASE ClaimObserver(w)
      BY <1>0, <1>1, <1>2, <2>1 DEF ClaimObserver, Claim, OnClaimError
    <2>2. CASE GetLiveCall(w)
      BY <1>0, <1>1, <1>2, <2>2 DEF GetLiveCall
    <2>3. CASE DialSideband(w)
      BY <1>0, <1>1, <1>2, <2>3 DEF DialSideband
    <2>4. CASE WaitForRetry(w)
      BY <1>0, <1>1, <1>2, <2>4 DEF WaitForRetry
    <2>5. CASE WaitForExpiry(w)
      BY <1>0, <1>1, <1>2, <2>5 DEF WaitForExpiry
    <2>6. CASE Observe(w)
      BY <1>0, <1>1, <1>2, <2>6 DEF Observe, RefreshLease, CloseExpired, Leased
    <2>7. CASE w \in Proxies /\ ClaimProxy(w)
      BY <1>0, <1>1, <1>2, <2>7 DEF ClaimProxy, Claim
    <2>8. CASE w \in Proxies /\ DialForClient(w)
      BY <1>0, <1>1, <1>2, <2>8 DEF DialForClient
    <2>9. CASE w \in Proxies /\ RunLiveController(w)
      BY <1>0, <1>1, <1>2, <2>9 DEF RunLiveController, RefreshLease, CloseExpired, Leased
    <2>10. CASE w \in Proxies /\ ReleaseLiveController(w)
      BY <1>0, <1>1, <1>2, <2>10 DEF ReleaseLiveController
    <2>11. CASE MarkLiveCallClosed(w)
      BY <1>0, <1>1, <1>2, <2>11 DEF MarkLiveCallClosed, First
    <2>12. CASE ReleaseLiveLease(w)
      BY <1>0, <1>1, <1>2, <2>12 DEF ReleaseLiveLease
    <2>13. CASE WriteUsageLog(w)
      BY <1>0, <1>1, <1>2, <2>13 DEF WriteUsageLog
    <2> QED BY <1>4, <2>1, <2>2, <2>3, <2>4, <2>5, <2>6, <2>7,
         <2>8, <2>9, <2>10, <2>11, <2>12, <2>13 DEF Control
  <1>5. ASSUME NEW p \in Proxies, JoinLiveCall(p) PROVE Admission
    BY <1>0, <1>1, <1>2, <1>5 DEF JoinLiveCall
  <1>6. CASE SessionEnds \/ Expires \/ MappingExpires
    BY <1>0, <1>1, <1>2, <1>6 DEF SessionEnds, Expires, MappingExpires, First
  <1>7. CASE CallAges
    BY <1>0, <1>1, <1>2, <1>7 DEF CallAges
  <1>8. CASE Others
    <2>1. UNCHANGED <<call, session, expired, worker, errors>>
      BY <1>8 DEF Others
    <2>2. ASSUME NEW r \in Requests, RequestSteps(r) \/ RequestAges(r) PROVE Admission
      <3>1. r \in Members /\ r # Call
        BY DEF Members
      <3> HIDE DEF Members
      <3>2. CASE AcquireAccountSlot(r)
        BY <1>0, <1>1, <1>2, <2>1, <3>1, <3>2, Effects DEF AcquireAccountSlot, Becomes, Up
      <3>3. CASE ReleaseAccountSlot(r)
        BY <1>0, <1>1, <1>2, <2>1, <3>1, <3>3, Effects DEF ReleaseAccountSlot, BestEffort,
           Becomes, Up
      <3>4. CASE ReplaceSlot(r)
        BY <1>0, <1>1, <1>2, <2>1, <3>1, <3>4, Effects DEF ReplaceSlot, Becomes, Up
      <3>5. CASE EndLease(r)
        BY <1>0, <1>1, <1>2, <2>1, <3>1, <3>5, Effects DEF EndLease, BestEffort, Becomes, Up
      <3>6. CASE RequestAges(r)
        BY <1>0, <1>1, <1>2, <2>1, <3>1, <3>6, Effects DEF RequestAges
      <3> QED BY <2>2, <3>2, <3>3, <3>4, <3>5, <3>6 DEF RequestSteps
    <2>3. CASE Prune
      BY <1>0, <1>1, <1>2, <2>1, <2>3 DEF Prune
    <2>4. ASSUME NEW n \in Nodes, StartupCleanup(n) PROVE Admission
      BY <1>0, <1>1, <1>2, <2>1, <2>4, ReqMembers DEF StartupCleanup, BestEffort
    <2> QED BY <1>8, <2>2, <2>3, <2>4 DEF Others
  <1>9. ASSUME NEW n \in Nodes, Crash(n) PROVE Admission
    BY <1>0, <1>1, <1>2, <1>9 DEF Crash, Die
  <1>10. CASE UNCHANGED vars
    BY <1>0, <1>1, <1>2, <1>10 DEF vars
  <1> QED BY <1>3, <1>4, <1>5, <1>6, <1>7, <1>8, <1>9, <1>10 DEF Next

-----------------------------------------------------------------------------

\* The first state has no holder.
LEMMA InitLInv == Init => LInv
  <1> SUFFICES ASSUME Init PROVE LInv
    OBVIOUS
  <1>1. IInv
    BY InitIInv
  <1> USE CallIsMember DEF Init, SlotsInit
  <1>2. SlotTypes
    BY DEF SlotTypes, Ages
  <1>3. AliveInv /\ HoldInv
    BY DEF AliveInv, HoldInv, CreateSteps, Running
  <1>4. LimitInv
    <2>1. Held = {}
      BY DEF Held
    <2>2. 0 <= Limit
      BY SlotsAssumption
    <2> QED BY <2>1, <2>2, FS_EmptySet DEF LimitInv
  <1> QED BY <1>1, <1>2, <1>3, <1>4 DEF LInv

\* Each of the two counts once among the holders.
LEMMA LimitCounts == LInv => WithinLimit
  <1> SUFFICES ASSUME LInv, Calm
               PROVE Cardinality(Forwarded) + (IF Running THEN 1 ELSE 0) <= Limit
    BY DEF WithinLimit, Calm, Losses
  <1> DEFINE F == Forwarded
  <1>1. HoldInv /\ LimitInv
    BY DEF LInv
  <1>2. F \in SUBSET Held /\ Call \notin F
    BY <1>1, CallIsMember DEF HoldInv, Held, Forwarded, Members
  <1>3. IsFiniteSet(F) /\ Cardinality(F) \in Nat /\ Cardinality(F) <= Cardinality(Held)
    BY <1>1, <1>2, FS_Subset, FS_CardinalityType DEF LimitInv
  <1>4. Cardinality(Held) \in Nat /\ Limit \in Nat /\ Cardinality(Held) <= Limit
    BY <1>1, FS_CardinalityType, SlotsAssumption DEF LimitInv
  <1>5. CASE Running
    <2>1. F \cup {Call} \in SUBSET Held
      BY <1>1, <1>2, <1>5, CallIsMember DEF HoldInv, Held
    <2>2. Cardinality(F \cup {Call}) = Cardinality(F) + 1
      BY <1>2, <1>3, FS_AddElement
    <2>3. Cardinality(F \cup {Call}) <= Cardinality(Held)
      BY <1>1, <2>1, FS_Subset DEF LimitInv
    <2> QED BY <1>3, <1>4, <1>5, <2>2, <2>3
  <1>6. CASE ~Running
    BY <1>3, <1>4, <1>6
  <1> QED BY <1>5, <1>6

\* acquireScript and acquireLiveLeaseScript keep the requests that are being
\* forwarded and the calls that go on within the account's limit, through the
\* trade of a slot for a lease, restarts, and every failure but those named in
\* Losses.
THEOREM LimitIsKept == Spec => []WithinLimit
  <1>1. LInv /\ [Next]_vars => LInv'
    <2> SUFFICES ASSUME LInv, [Next]_vars PROVE LInv'
      OBVIOUS
    <2>1. IInv'
      BY TypesStep, StoredStep, LeaseStep, OnceStep DEF LInv, IInv
    <2>2. SlotTypes' /\ AliveInv'
      BY AliveStep DEF LInv
    <2>3. ASSUME Calm' PROVE HoldInv' /\ LimitInv'
      <3>1. Calm
        BY <2>3, HistoryGrows DEF Calm
      <3>2. LimitInv /\ regular \in [Members -> Ages] /\ live \in [Members -> Ages]
        BY <3>1 DEF LInv, SlotTypes, IInv, LiveTypes
      <3>3. LimitInv'
        BY <2>3, <3>2, AdmissionStep, NoNewHolder, OneMoreHolder DEF Admission
      <3> QED BY <2>3, <3>3, HoldStep
    <2> QED BY <2>1, <2>2, <2>3 DEF LInv
  <1> QED BY InitLInv, <1>1, LimitCounts, PTL DEF Spec

-----------------------------------------------------------------------------
(* Types.                                                                  *)

\* What the arguments above did not need: the rest of the record of the call,
\* the observers' streaks, and the account of what went wrong.
OtherTypes ==
    /\ past \subseteq Events
    /\ owner \in Proxies \cup {NoOwner}
    /\ errors \in [Workers -> 0..(RetryLimit - 1)]
    /\ down \subseteq Nodes
    /\ faults \in 0..MaxFaults

\* A fault is counted within the bound.
LEMMA FaultCounts == faults \in 0..MaxFaults /\ Fault => faults' \in 0..MaxFaults
  BY SlotsAssumption

\* A streak that does not end the observer's patience stays below the limit.
LEMMA StreakCounts ==
    ASSUME errors \in [Workers -> 0..(RetryLimit - 1)], NEW w \in Workers, ~StreakEnds(w)
    PROVE  [errors EXCEPT ![w] = @ + 1] \in [Workers -> 0..(RetryLimit - 1)]
  <1>1. errors[w] \in 0..(RetryLimit - 1) /\ RetryLimit \in Nat
    BY LiveAssumption
  <1>2. errors[w] + 1 \in 0..(RetryLimit - 1)
    BY <1>1 DEF StreakEnds
  <1> QED BY <1>2

\* No step leaves these types either: only proxies own a call, and every count
\* is guarded by its bound.
LEMMA OtherTypesStep == OtherTypes /\ [Next]_vars => OtherTypes'
  <1> SUFFICES ASSUME OtherTypes, [Next]_vars PROVE OtherTypes'
    OBVIOUS
  <1> USE FaultCounts DEF OtherTypes, Events
  <1> HIDE DEF Fault
  <1>1. 0 \in 0..(RetryLimit - 1)
    BY LiveAssumption
  <1>2. CASE Create
    BY <1>2 DEF Create, SelectAccount, AcquireLiveLease, CreateUpstreamLiveCall,
       ReleaseSlot, ReleaseUnusedLease, SaveLiveCall, BestEffort, TakeSlot, NoSlot,
       TakeLease, NoLease, DropSlot, DropLease
  <1>3. ASSUME NEW w \in Workers, Control(w) PROVE OtherTypes'
    <2>1. CASE GetLiveCall(w)
      <3>1. errors' \in [Workers -> 0..(RetryLimit - 1)]
        BY <1>1, <2>1, StreakCounts DEF GetLiveCall
      <3> QED BY <2>1, <3>1 DEF GetLiveCall
    <2>2. CASE ClaimObserver(w)
      BY <2>2 DEF ClaimObserver, Claim
    <2>3. CASE DialSideband(w) \/ WaitForRetry(w) \/ WaitForExpiry(w)
      BY <2>3 DEF DialSideband, WaitForRetry, WaitForExpiry
    <2>4. CASE Observe(w)
      BY <2>4 DEF Observe, RefreshLease, CloseExpired
    <2>5. CASE w \in Proxies /\ ClaimProxy(w)
      BY <2>5 DEF ClaimProxy, Claim
    <2>6. CASE w \in Proxies /\ DialForClient(w)
      BY <2>6 DEF DialForClient
    <2>7. CASE w \in Proxies /\ RunLiveController(w)
      BY <2>7 DEF RunLiveController, RefreshLease, CloseExpired
    <2>8. CASE w \in Proxies /\ ReleaseLiveController(w)
      BY <2>8 DEF ReleaseLiveController
    <2>9. CASE MarkLiveCallClosed(w) \/ ReleaseLiveLease(w) \/ WriteUsageLog(w)
      BY <2>9 DEF MarkLiveCallClosed, ReleaseLiveLease, WriteUsageLog
    <2> QED BY <1>3, <2>1, <2>2, <2>3, <2>4, <2>5, <2>6, <2>7, <2>8, <2>9 DEF Control
  <1>4. ASSUME NEW p \in Proxies, JoinLiveCall(p) PROVE OtherTypes'
    BY <1>4 DEF JoinLiveCall
  <1>5. CASE SessionEnds \/ Expires \/ MappingExpires \/ CallAges
    BY <1>5 DEF SessionEnds, Expires, MappingExpires, CallAges
  <1>6. CASE Others
    <2>1. UNCHANGED <<call, session, expired, worker, errors>>
      BY <1>6 DEF Others
    <2>2. ASSUME NEW r \in Requests, RequestSteps(r) \/ RequestAges(r) PROVE OtherTypes'
      BY <2>1, <2>2 DEF RequestSteps, AcquireAccountSlot, ReleaseAccountSlot,
         ReplaceSlot, EndLease, RequestAges, BestEffort
    <2>3. CASE Prune
      BY <2>1, <2>3 DEF Prune
    <2>4. ASSUME NEW n \in Nodes, StartupCleanup(n) PROVE OtherTypes'
      BY <2>1, <2>4 DEF StartupCleanup, BestEffort
    <2> QED BY <1>6, <2>2, <2>3, <2>4 DEF Others
  <1>7. ASSUME NEW n \in Nodes, Crash(n) PROVE OtherTypes'
    <2>1. errors' \in [Workers -> 0..(RetryLimit - 1)]
      BY <1>1, <1>7 DEF Crash
    <2> QED BY <1>7, <2>1 DEF Crash, Die
  <1>8. CASE UNCHANGED vars
    BY <1>8 DEF vars
  <1> QED BY <1>2, <1>3, <1>4, <1>5, <1>6, <1>7, <1>8 DEF Next

\* Every variable of the call and of the account's slots keeps its type, for
\* any instances, requests and proxies; no observer counts more errors than it
\* has patience for, and only a proxy owns the call.
THEOREM TypeCorrect == Spec => []TypeOK
  <1> DEFINE TypeInv == IInv /\ SlotTypes /\ AliveInv /\ OtherTypes
  <1>1. Init => TypeInv
    <2> SUFFICES ASSUME Init PROVE OtherTypes
      BY InitLInv DEF LInv
    <2> QED BY SlotsAssumption, LiveAssumption DEF Init, SlotsInit, OtherTypes
  <1>2. TypeInv /\ [Next]_vars => TypeInv'
    BY TypesStep, StoredStep, LeaseStep, OnceStep, AliveStep, OtherTypesStep DEF IInv
  <1>3. TypeInv => TypeOK
    BY DEF IInv, LiveTypes, SlotTypes, OtherTypes, TypeOK, SlotsTypeOK
  <1> QED BY <1>1, <1>2, <1>3, PTL DEF Spec
=============================================================================

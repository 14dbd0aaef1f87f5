----------------------- MODULE EndpointGroup_proofs ------------------------
(* Proofs of the safety properties of EndpointGroup. *)
EXTENDS EndpointGroup, FiniteSetTheorems, WellFoundedInduction, TLAPS

-----------------------------------------------------------------------------
(* The ring walk: sort.Search and the wrap-around stay on the ring. *)

\* A non-empty set of naturals has a least element.
LEMMA Minimum ==
    ASSUME NEW S \in SUBSET Nat, S # {}
    PROVE  \E x \in S : \A y \in S : x <= y
<1>1. PICK x \in S : \A y \in S : ~(<<y, x>> \in OpToRel(<, Nat))
  BY NatLessThanWellFounded, WFMin, Zenon
<1>2. \A y \in S : ~(y < x)
  BY <1>1 DEF OpToRel
<1> QED
  BY <1>2

\* NextHash of a non-empty set of hashes is one of them.
LEMMA NextHashInSet ==
    ASSUME NEW h \in Nat, NEW S \in SUBSET Nat, S # {}
    PROVE  NextHash(h, S) \in S
<1> DEFINE ahead == {x \in S : x >= h}
           from  == IF ahead = {} THEN S ELSE ahead
<1>1. from \in SUBSET Nat /\ from # {} /\ from \subseteq S
  OBVIOUS
<1>2. \E x \in from : \A y \in from : x <= y
  <2> HIDE DEF from
  <2> QED BY <1>1, Minimum
<1>3. NextHash(h, S) = CHOOSE x \in from : \A y \in from : x <= y
  BY DEF NextHash
<1>4. NextHash(h, S) \in from
  <2> HIDE DEF from
  <2> QED BY <1>2, <1>3
<1> QED
  BY <1>1, <1>4

-----------------------------------------------------------------------------
(* Typing of partial maps. *)

\* Membership in the sets of partial maps, by domain and values.
LEMMA MapTypes ==
    /\ endpoints \in EndpointMaps =>
        /\ DOMAIN endpoints \subseteq Names
        /\ endpoints \in [DOMAIN endpoints -> Endpoint]
    /\ chwblHashes \in HashMaps =>
        /\ DOMAIN chwblHashes \subseteq Nat
        /\ chwblHashes \in [DOMAIN chwblHashes -> Names]
    /\ observed \in Observations =>
        /\ DOMAIN observed \subseteq Names
        /\ observed \in [DOMAIN observed -> SUBSET Adapters]
  BY HashAssumption DEF EndpointMaps, HashMaps, Observations

-----------------------------------------------------------------------------
(* Type correctness. *)

\* The counter of an endpoint of the group, and the endpoints the walks look at.
LEMMA EligibleTypes ==
    ASSUME StructInv, NEW c \in Calls
    PROVE  /\ \A n \in DOMAIN endpoints :
                /\ n \in Names
                /\ endpoints[n].counter \in Counters
                /\ inFlight[endpoints[n].counter] \in Int
           /\ pc[c] = "scan" => todo[c] \subseteq DOMAIN endpoints
           /\ (pc[c] \in {"walk", "walkTotal"} /\ todo[c] # {}) =>
                /\ Position(c) \in DOMAIN chwblHashes
                /\ chwblHashes[Position(c)] \in DOMAIN endpoints
           /\ pc[c] = "walkTotal" => Eligible(c, chwblHashes[Position(c)])
           /\ (pc[c] \in {"scan", "walk", "walkTotal"} /\ best[c] # None) => Eligible(c, best[c])
<1>0. TypeOK /\ ScanInv /\ RingMatchesEndpoints
  BY DEF StructInv
<1>1. \A n \in DOMAIN endpoints :
         n \in Names /\ endpoints[n].counter \in Counters
  BY <1>0, MapTypes DEF TypeOK, Endpoint
<1>2. \A k \in Counters : inFlight[k] \in Int
  BY <1>0 DEF TypeOK
<1>3. ASSUME pc[c] \in {"walk", "walkTotal"}, todo[c] # {}
      PROVE  /\ Position(c) \in DOMAIN chwblHashes
             /\ chwblHashes[Position(c)] \in DOMAIN endpoints
  <2>1. todo[c] \in SUBSET Nat /\ todo[c] \subseteq DOMAIN chwblHashes
    BY <1>0, <1>3, MapTypes DEF TypeOK, ScanInv
  <2>2. req[c].hash \in Nat
    BY <1>0 DEF TypeOK, Request
  <2>3. Position(c) \in DOMAIN chwblHashes
    BY <1>3, <2>1, <2>2, NextHashInSet DEF Position
  <2>4. PICK n \in DOMAIN endpoints : Position(c) \in HashOf[n]
    BY <1>0, <2>3 DEF RingMatchesEndpoints
  <2>5. /\ Position(c) \in HashOf[chwblHashes[Position(c)]]
        /\ chwblHashes[Position(c)] \in Names
    BY <1>0, <2>3, MapTypes DEF RingMatchesEndpoints, TypeOK
  <2>6. chwblHashes[Position(c)] = n
    BY <1>1, <2>4, <2>5, HashAssumption
  <2> QED
    BY <2>3, <2>4, <2>6
<1>4. /\ pc[c] = "scan" => todo[c] \subseteq DOMAIN endpoints
      /\ pc[c] = "walkTotal" => Eligible(c, chwblHashes[Position(c)])
      /\ (pc[c] \in {"scan", "walk", "walkTotal"} /\ best[c] # None) => Eligible(c, best[c])
  BY <1>0 DEF ScanInv
<1> QED
  BY <1>1, <1>2, <1>3, <1>4

\* The initial state is well typed.
LEMMA TypeInit == Init => TypeOK
<1> SUFFICES ASSUME Init PROVE TypeOK
  OBVIOUS
<1>1. endpoints \in EndpointMaps /\ chwblHashes \in HashMaps /\ observed \in Observations
  <2>1. endpoints \in [{} -> Endpoint] /\ chwblHashes \in [{} -> Names]
        /\ observed \in [{} -> SUBSET Adapters]
    BY DEF Init
  <2> QED
    BY <2>1 DEF EndpointMaps, HashMaps, Observations
<1>2. req \in [Calls -> Request]
  BY DEF Init, NoRequest, Request, Strategies
<1> QED
  BY <1>1, <1>2 DEF Init, TypeOK

\* Every step of a call or of the reconciler keeps the types.
LEMMA TypeStep == StructInv /\ [Next]_vars => TypeOK'
<1> SUFFICES ASSUME StructInv, [Next]_vars PROVE TypeOK'
  OBVIOUS
<1> USE DEF Scanning, Granted
<1>0. TypeOK /\ LockInv /\ LeaseInv
  BY DEF StructInv
<1>1. NoRequest \in Request
  BY DEF NoRequest, Request, Strategies
<1>2. ASSUME NEW c \in Calls, Call(c) PROVE TypeOK'
  <2>1. CASE Start(c)
    BY <1>0, <1>1, <2>1, MapTypes, ConstantAssumption DEF TypeOK, Start, Goto, groupVars, loadVars, scanVars
  <2>2. CASE RLock(c)
    BY <1>0, <1>1, <2>2, MapTypes, ConstantAssumption DEF TypeOK, RLock, Goto, groupVars, loadVars, scanVars
  <2>3. CASE AwaitUnlock(c)
    BY <1>0, <1>1, <2>3, MapTypes, ConstantAssumption DEF TypeOK, AwaitUnlock, Goto, groupVars, loadVars, scanVars
  <2>4. CASE AwaitEndpoints(c)
    BY <1>0, <1>1, <2>4, MapTypes, ConstantAssumption DEF TypeOK, AwaitEndpoints, Goto, groupVars, loadVars, scanVars
  <2>5. CASE Woken(c)
    BY <1>0, <1>1, <2>5, MapTypes, ConstantAssumption DEF TypeOK, Woken, Goto, groupVars, loadVars, scanVars
  <2>6. CASE Cancelled(c)
    BY <1>0, <1>1, <2>6, MapTypes, ConstantAssumption DEF TypeOK, Cancelled, Goto, groupVars, loadVars, scanVars
  <2>7. CASE UnknownStrategy(c)
    BY <1>0, <1>1, <2>7, MapTypes, ConstantAssumption DEF TypeOK, UnknownStrategy, Goto, groupVars, loadVars, scanVars
  <2>8. CASE LeastLoad(c)
    BY <1>0, <1>1, <2>8, MapTypes, ConstantAssumption DEF TypeOK, LeastLoad, Goto, groupVars, loadVars, scanVars
  <2>9. CASE LeastLoadVisit(c)
    BY <1>0, <1>2, <2>9, EligibleTypes DEF TypeOK, LeastLoadVisit, Goto, groupVars, loadVars, scanVars
  <2>10. CASE LeastLoadEnd(c)
    <3>1. CASE best[c] = None /\ NotFound(c)
      BY <1>0, <2>10, <3>1 DEF TypeOK, NotFound, Goto, groupVars, loadVars, scanVars
    <3>2. CASE best[c] # None /\ Found(c, best[c])
      <4>1. best[c] \in Names /\ endpoints[best[c]].counter \in Counters
        BY <1>2, <2>10, <3>2, EligibleTypes DEF LeastLoadEnd, Eligible
      <4> QED
        BY <1>0, <3>2, <4>1 DEF TypeOK, Found, Goto, groupVars, loadVars, scanVars
    <3> QED
      BY <2>10, <3>1, <3>2 DEF LeastLoadEnd
  <2>11. CASE PrefixHash(c)
    BY <1>0, <1>1, <2>11, MapTypes, ConstantAssumption DEF TypeOK, PrefixHash, Goto, groupVars, loadVars, scanVars
  <2>12. CASE WalkVisit(c)
    BY <1>0, <1>2, <2>12, EligibleTypes DEF TypeOK, WalkVisit, Goto, groupVars, loadVars, scanVars
  <2>13. CASE WalkTake(c)
    BY <1>0, <1>2, <2>13, EligibleTypes DEF TypeOK, WalkTake, Found, Eligible, Goto, groupVars, loadVars, scanVars
  <2>14. CASE WalkSkip(c)
    BY <1>0, <1>1, <2>14, MapTypes, ConstantAssumption DEF TypeOK, WalkSkip, Goto, groupVars, loadVars, scanVars
  <2>15. CASE WalkEnd(c)
    <3>1. CASE best[c] = None /\ NotFound(c)
      BY <1>0, <2>15, <3>1 DEF TypeOK, NotFound, Goto, groupVars, loadVars, scanVars
    <3>2. CASE best[c] # None /\ Found(c, best[c])
      <4>1. best[c] \in Names /\ endpoints[best[c]].counter \in Counters
        BY <1>2, <2>15, <3>2, EligibleTypes DEF WalkEnd, Eligible
      <4> QED
        BY <1>0, <3>2, <4>1 DEF TypeOK, Found, Goto, groupVars, loadVars, scanVars
    <3> QED
      BY <2>15, <3>1, <3>2 DEF WalkEnd
  <2>16. CASE AddTotal(c)
    BY <1>0, <1>1, <2>16, MapTypes, ConstantAssumption DEF TypeOK, AddTotal, Goto, groupVars, loadVars, scanVars
  <2>17. CASE AddEndpoint(c)
    <3>1. lease[c] \in Counters
      BY <1>0, <2>17 DEF TypeOK, LeaseInv, AddEndpoint
    <3> QED
      BY <1>0, <2>17, <3>1 DEF TypeOK, AddEndpoint, Goto, groupVars, loadVars, scanVars
  <2>18. CASE RUnlock(c)
    BY <1>0, <1>1, <2>18, MapTypes, ConstantAssumption DEF TypeOK, RUnlock, Goto, groupVars, loadVars, scanVars
  <2>19. CASE DecTotal(c)
    BY <1>0, <1>1, <2>19, MapTypes, ConstantAssumption DEF TypeOK, DecTotal, Goto, groupVars, loadVars, scanVars
  <2>20. CASE DecEndpoint(c)
    <3>1. lease[c] \in Counters
      BY <1>0, <2>20 DEF TypeOK, LeaseInv, DecEndpoint
    <3> QED
      BY <1>0, <2>20, <3>1 DEF TypeOK, DecEndpoint, Goto, groupVars, loadVars, scanVars
  <2> QED
    BY <1>2, <2>1, <2>2, <2>3, <2>4, <2>5, <2>6, <2>7, <2>8, <2>9, <2>10, <2>11, <2>12, <2>13, <2>14, <2>15, <2>16, <2>17, <2>18, <2>19, <2>20 DEF Call, CallStep
<1>3. CASE ReconcileLock
  BY <1>0, <1>3 DEF TypeOK, ReconcileLock, groupVars, loadVars, scanVars
<1>4. CASE ReconcileApply
  <2>1. PICK fresh \in [Added -> FreeCounters] :
            /\ endpoints' = Reconciled(fresh)
            /\ inFlight' = [k \in Counters |->
                            IF \E n \in Added : fresh[n] = k THEN 0 ELSE inFlight[k]]
    BY <1>4 DEF ReconcileApply
  <2>2. endpoints' \in EndpointMaps
    <3>1. DOMAIN observed \in SUBSET Names
      BY <1>0, MapTypes DEF TypeOK
    <3>2. \A n \in DOMAIN observed :
            [counter |-> IF n \in Added THEN fresh[n] ELSE endpoints[n].counter,
             adapters |-> observed[n]] \in Endpoint
      <4> TAKE n \in DOMAIN observed
      <4>1. observed[n] \in SUBSET Adapters
        BY <1>0, MapTypes DEF TypeOK
      <4>2. n \in Added => fresh[n] \in Counters
        BY <2>1 DEF FreeCounters
      <4>3. n \notin Added => endpoints[n].counter \in Counters
        BY <1>0, MapTypes DEF TypeOK, Added, Endpoint
      <4> QED
        BY <4>1, <4>2, <4>3 DEF Endpoint
    <3>3. endpoints' \in [DOMAIN observed -> Endpoint]
      BY <2>1, <3>2 DEF Reconciled
    <3> QED
      BY <3>1, <3>3 DEF EndpointMaps
  <2>3. chwblHashes' \in HashMaps
    <3> DEFINE with == DOMAIN chwblHashes \cup UNION {HashOf[n] : n \in Added}
               kept == with \ UNION {HashOf[n] : n \in Removed}
    <3>1. Added \subseteq Names
      BY <1>0, MapTypes DEF TypeOK, Added
    <3>2. DOMAIN chwblHashes \subseteq UNION {HashOf[n] : n \in Names}
      BY <1>0 DEF TypeOK, HashMaps
    <3>3. kept \in SUBSET UNION {HashOf[n] : n \in Names}
      BY <3>1, <3>2
    <3>4. chwblHashes' \in [kept -> Names]
      <4>1. \A h \in kept :
               (~\E n \in Added : h \in HashOf[n]) => chwblHashes[h] \in Names
        BY <1>0, MapTypes DEF TypeOK
      <4>2. \A h \in kept : (\E n \in Added : h \in HashOf[n]) =>
                               (CHOOSE n \in Added : h \in HashOf[n]) \in Names
        BY <3>1
      <4>3. chwblHashes' = ReconciledHashes
        BY <1>4 DEF ReconcileApply
      <4> QED
        BY <4>1, <4>2, <4>3 DEF ReconciledHashes
    <3> HIDE DEF kept
    <3> QED
      BY <3>3, <3>4 DEF HashMaps
  <2>4. inFlight' \in [Counters -> Int]
    BY <1>0, <2>1 DEF TypeOK
  <2> QED
    BY <1>0, <1>4, <2>2, <2>3, <2>4 DEF TypeOK, ReconcileApply, scanVars
<1>5. CASE Broadcast
  <2>1. observed' \in Observations
    <3>1. observed' \in [{} -> SUBSET Adapters]
      BY <1>5 DEF Broadcast
    <3> QED
      BY <3>1 DEF Observations
  <2> QED
    BY <1>0, <1>5, <2>1 DEF TypeOK, Broadcast, groupVars, loadVars, scanVars
<1>6. CASE UNCHANGED vars
  BY <1>0, <1>6 DEF TypeOK, vars
<1> QED
  BY <1>2, <1>3, <1>4, <1>5, <1>6 DEF Next, Reconcile

-----------------------------------------------------------------------------
(* The steps of one call leave the group and the other calls alone. *)

\* What a step of call c cannot change: the group, the writer, the other calls.
LEMMA CallFrame ==
    ASSUME TypeOK, NEW c \in Calls, Call(c)
    PROVE  /\ UNCHANGED <<endpoints, chwblHashes, writer, observed>>
           /\ \A d \in Calls : d # c =>
                /\ pc'[d] = pc[d] /\ req'[d] = req[d] /\ lease'[d] = lease[d]
                /\ todo'[d] = todo[d] /\ best'[d] = best[d]
                /\ d \in readers' <=> d \in readers
<1> USE DEF TypeOK, Goto, groupVars, loadVars, scanVars
<1>1. CASE Start(c)
  BY <1>1 DEF Start
<1>2. CASE RLock(c)
  BY <1>2 DEF RLock
<1>3. CASE AwaitUnlock(c)
  BY <1>3 DEF AwaitUnlock
<1>4. CASE AwaitEndpoints(c)
  BY <1>4 DEF AwaitEndpoints
<1>5. CASE Woken(c)
  BY <1>5 DEF Woken
<1>6. CASE Cancelled(c)
  BY <1>6 DEF Cancelled
<1>7. CASE UnknownStrategy(c)
  BY <1>7 DEF UnknownStrategy
<1>8. CASE LeastLoad(c)
  BY <1>8 DEF LeastLoad
<1>9. CASE LeastLoadVisit(c)
  BY <1>9 DEF LeastLoadVisit
<1>10. CASE LeastLoadEnd(c)
  BY <1>10 DEF LeastLoadEnd, NotFound, Found
<1>11. CASE PrefixHash(c)
  BY <1>11 DEF PrefixHash
<1>12. CASE WalkVisit(c)
  BY <1>12 DEF WalkVisit
<1>13. CASE WalkTake(c)
  BY <1>13 DEF WalkTake, Found
<1>14. CASE WalkSkip(c)
  BY <1>14 DEF WalkSkip
<1>15. CASE WalkEnd(c)
  BY <1>15 DEF WalkEnd, NotFound, Found
<1>16. CASE AddTotal(c)
  BY <1>16 DEF AddTotal
<1>17. CASE AddEndpoint(c)
  BY <1>17 DEF AddEndpoint
<1>18. CASE RUnlock(c)
  BY <1>18 DEF RUnlock
<1>19. CASE DecTotal(c)
  BY <1>19 DEF DecTotal
<1>20. CASE DecEndpoint(c)
  BY <1>20 DEF DecEndpoint
<1> QED
  BY <1>1, <1>2, <1>3, <1>4, <1>5, <1>6, <1>7, <1>8, <1>9, <1>10, <1>11, <1>12, <1>13, <1>14, <1>15, <1>16, <1>17, <1>18, <1>19, <1>20 DEF Call, CallStep

-----------------------------------------------------------------------------
(* Who holds the read lock, and who refers to a counter. *)

\* mtx is held for reading exactly by the calls between RLock and RUnlock, and
\* decFunc captures a counter exactly from the choice on (group.go:54-86).
LEMMA LockStep == StructInv /\ [Next]_vars => LockInv' /\ LeaseInv'
<1> SUFFICES ASSUME StructInv, [Next]_vars PROVE LockInv' /\ LeaseInv'
  OBVIOUS
<1>0. TypeOK /\ LockInv /\ LeaseInv
  BY DEF StructInv
<1> DEFINE LockOf(c) ==
              c \in readers <=> pc[c] \in Scanning \cup Granted \cup {"errored", "panic"}
           LeaseOf(c) ==
              lease[c] # None <=> pc[c] \in Granted \cup {"serving", "uncount"}
<1>1. ASSUME NEW c \in Calls, Call(c) PROVE LockInv' /\ LeaseInv'
  <2> USE DEF Scanning, Granted, TypeOK, Goto
  <2>1. (Start(c)) => LockOf(c)' /\ LeaseOf(c)'
    BY <1>0 DEF LockInv, LeaseInv, Start
  <2>2. (RLock(c)) => LockOf(c)' /\ LeaseOf(c)'
    BY <1>0 DEF LockInv, LeaseInv, RLock
  <2>3. (AwaitUnlock(c)) => LockOf(c)' /\ LeaseOf(c)'
    BY <1>0 DEF LockInv, LeaseInv, AwaitUnlock
  <2>4. (AwaitEndpoints(c)) => LockOf(c)' /\ LeaseOf(c)'
    BY <1>0 DEF LockInv, LeaseInv, AwaitEndpoints
  <2>5. (Woken(c)) => LockOf(c)' /\ LeaseOf(c)'
    BY <1>0 DEF LockInv, LeaseInv, Woken
  <2>6. (Cancelled(c)) => LockOf(c)' /\ LeaseOf(c)'
    BY <1>0 DEF LockInv, LeaseInv, Cancelled
  <2>7. (UnknownStrategy(c)) => LockOf(c)' /\ LeaseOf(c)'
    BY <1>0 DEF LockInv, LeaseInv, UnknownStrategy
  <2>8. (LeastLoad(c)) => LockOf(c)' /\ LeaseOf(c)'
    BY <1>0 DEF LockInv, LeaseInv, LeastLoad
  <2>9. (LeastLoadVisit(c)) => LockOf(c)' /\ LeaseOf(c)'
    BY <1>0 DEF LockInv, LeaseInv, LeastLoadVisit
  <2>10. (LeastLoadEnd(c)) => LockOf(c)' /\ LeaseOf(c)'
    BY <1>0, <1>1, EligibleTypes, ConstantAssumption DEF LockInv, LeaseInv, LeastLoadEnd, NotFound, Found, Eligible
  <2>11. (PrefixHash(c)) => LockOf(c)' /\ LeaseOf(c)'
    BY <1>0 DEF LockInv, LeaseInv, PrefixHash
  <2>12. (WalkVisit(c)) => LockOf(c)' /\ LeaseOf(c)'
    BY <1>0 DEF LockInv, LeaseInv, WalkVisit
  <2>13. (WalkTake(c)) => LockOf(c)' /\ LeaseOf(c)'
    BY <1>0, <1>1, EligibleTypes, ConstantAssumption DEF LockInv, LeaseInv, WalkTake, Found, Eligible
  <2>14. (WalkSkip(c)) => LockOf(c)' /\ LeaseOf(c)'
    BY <1>0 DEF LockInv, LeaseInv, WalkSkip
  <2>15. (WalkEnd(c)) => LockOf(c)' /\ LeaseOf(c)'
    BY <1>0, <1>1, EligibleTypes, ConstantAssumption DEF LockInv, LeaseInv, WalkEnd, NotFound, Found, Eligible
  <2>16. (AddTotal(c)) => LockOf(c)' /\ LeaseOf(c)'
    BY <1>0 DEF LockInv, LeaseInv, AddTotal
  <2>17. (AddEndpoint(c)) => LockOf(c)' /\ LeaseOf(c)'
    BY <1>0 DEF LockInv, LeaseInv, AddEndpoint
  <2>18. (RUnlock(c)) => LockOf(c)' /\ LeaseOf(c)'
    BY <1>0 DEF LockInv, LeaseInv, RUnlock
  <2>19. (DecTotal(c)) => LockOf(c)' /\ LeaseOf(c)'
    BY <1>0 DEF LockInv, LeaseInv, DecTotal
  <2>20. (DecEndpoint(c)) => LockOf(c)' /\ LeaseOf(c)'
    BY <1>0 DEF LockInv, LeaseInv, DecEndpoint
  <2>21. LockOf(c)' /\ LeaseOf(c)'
    BY <1>1, <2>1, <2>2, <2>3, <2>4, <2>5, <2>6, <2>7, <2>8, <2>9, <2>10, <2>11, <2>12, <2>13, <2>14, <2>15, <2>16, <2>17, <2>18, <2>19, <2>20 DEF Call, CallStep
  <2>22. \A d \in Calls : d # c => LockOf(d)' /\ LeaseOf(d)'
    BY <1>0, <1>1, CallFrame DEF LockInv, LeaseInv
  <2> QED
    BY <2>21, <2>22 DEF LockInv, LeaseInv
<1>2. CASE Reconcile
  BY <1>0, <1>2 DEF Reconcile, ReconcileLock, ReconcileApply, Broadcast, LockInv, LeaseInv
<1>3. CASE UNCHANGED vars
  BY <1>0, <1>3 DEF LockInv, LeaseInv, vars
<1> QED
  BY <1>1, <1>2, <1>3 DEF Next

-----------------------------------------------------------------------------
(* What the scans look at, and what they choose. *)

\* The reconciler cannot run between a scan and its grant, because the call is a
\* reader: what was seen in the group is still there (group.go:66-86, 109).
LEMMA ScanStep == StructInv /\ [Next]_vars => ScanInv' /\ GrantIsCurrent'
<1> SUFFICES ASSUME StructInv, [Next]_vars PROVE ScanInv' /\ GrantIsCurrent'
  OBVIOUS
<1>0. TypeOK /\ LockInv /\ ScanInv /\ GrantIsCurrent /\ RingMatchesEndpoints
  BY DEF StructInv
<1> DEFINE ScanOf(c) ==
              /\ pc[c] \notin {"scan", "walk", "walkTotal"} \cup Granted => best[c] = None
              /\ pc[c] = "scan" => todo[c] \subseteq DOMAIN endpoints
              /\ pc[c] \in {"walk", "walkTotal"} => todo[c] \subseteq DOMAIN chwblHashes
              /\ pc[c] = "walkTotal" => Eligible(c, chwblHashes[Position(c)])
              /\ (pc[c] \in {"scan", "walk", "walkTotal"} /\ best[c] # None) => Eligible(c, best[c])
           GrantOf(c) ==
              pc[c] \in Granted => /\ Eligible(c, best[c])
                                  /\ lease[c] = endpoints[best[c]].counter
<1>1. ASSUME NEW c \in Calls, Call(c) PROVE ScanInv' /\ GrantIsCurrent'
  <2>0. ScanOf(c) /\ GrantOf(c) /\ UNCHANGED <<endpoints, chwblHashes>>
    BY <1>0, <1>1, CallFrame DEF ScanInv, GrantIsCurrent, Eligible
  <2> USE DEF Scanning, Granted, TypeOK, Goto, Eligible, Serves, Position, scanVars
  <2>1. Start(c) => ScanOf(c)' /\ GrantOf(c)'
    BY <1>0, <2>0 DEF Start
  <2>2. RLock(c) => ScanOf(c)' /\ GrantOf(c)'
    BY <1>0, <2>0 DEF RLock
  <2>3. AwaitUnlock(c) => ScanOf(c)' /\ GrantOf(c)'
    BY <1>0, <2>0 DEF AwaitUnlock
  <2>4. AwaitEndpoints(c) => ScanOf(c)' /\ GrantOf(c)'
    BY <1>0, <2>0 DEF AwaitEndpoints
  <2>5. Woken(c) => ScanOf(c)' /\ GrantOf(c)'
    BY <1>0, <2>0 DEF Woken
  <2>6. Cancelled(c) => ScanOf(c)' /\ GrantOf(c)'
    BY <1>0, <2>0 DEF Cancelled
  <2>7. UnknownStrategy(c) => ScanOf(c)' /\ GrantOf(c)'
    BY <1>0, <2>0 DEF UnknownStrategy
  <2>8. LeastLoad(c) => ScanOf(c)' /\ GrantOf(c)'
    BY <1>0, <2>0 DEF LeastLoad
  <2>9. LeastLoadVisit(c) => ScanOf(c)' /\ GrantOf(c)'
    BY <1>0, <2>0, EligibleTypes DEF LeastLoadVisit
  <2>10. LeastLoadEnd(c) => ScanOf(c)' /\ GrantOf(c)'
    BY <1>0, <2>0, EligibleTypes DEF LeastLoadEnd, NotFound, Found
  <2>11. PrefixHash(c) => ScanOf(c)' /\ GrantOf(c)'
    BY <1>0, <2>0 DEF PrefixHash
  <2>12. WalkVisit(c) => ScanOf(c)' /\ GrantOf(c)'
    BY <1>0, <2>0, EligibleTypes DEF WalkVisit
  <2>13. WalkTake(c) => ScanOf(c)' /\ GrantOf(c)'
    BY <1>0, <2>0, EligibleTypes DEF WalkTake, Found
  <2>14. WalkSkip(c) => ScanOf(c)' /\ GrantOf(c)'
    BY <1>0, <2>0 DEF WalkSkip
  <2>15. WalkEnd(c) => ScanOf(c)' /\ GrantOf(c)'
    BY <1>0, <2>0, EligibleTypes DEF WalkEnd, NotFound, Found
  <2>16. AddTotal(c) => ScanOf(c)' /\ GrantOf(c)'
    BY <1>0, <2>0 DEF AddTotal
  <2>17. AddEndpoint(c) => ScanOf(c)' /\ GrantOf(c)'
    BY <1>0, <2>0 DEF AddEndpoint
  <2>18. RUnlock(c) => ScanOf(c)' /\ GrantOf(c)'
    BY <1>0, <2>0 DEF RUnlock
  <2>19. DecTotal(c) => ScanOf(c)' /\ GrantOf(c)'
    BY <1>0, <2>0 DEF DecTotal
  <2>20. DecEndpoint(c) => ScanOf(c)' /\ GrantOf(c)'
    BY <1>0, <2>0 DEF DecEndpoint
  <2>21. ScanOf(c)' /\ GrantOf(c)'
    BY <1>1, <2>1, <2>2, <2>3, <2>4, <2>5, <2>6, <2>7, <2>8, <2>9, <2>10, <2>11, <2>12, <2>13, <2>14, <2>15, <2>16, <2>17, <2>18, <2>19, <2>20 DEF Call, CallStep
  <2>22. \A d \in Calls : d # c => ScanOf(d)' /\ GrantOf(d)'
    BY <1>0, <1>1, CallFrame DEF ScanInv, GrantIsCurrent
  <2> QED
    BY <2>21, <2>22 DEF ScanInv, GrantIsCurrent
<1>2. CASE ReconcileLock \/ Broadcast
  BY <1>0, <1>2 DEF ReconcileLock, Broadcast, groupVars, scanVars, ScanInv, GrantIsCurrent,
                    Eligible, Serves, Position
<1>3. CASE ReconcileApply
  <2>1. \A c \in Calls : pc[c] \notin Scanning \cup Granted
    BY <1>0, <1>3 DEF ReconcileApply, LockInv
  <2> QED
    BY <1>0, <1>3, <2>1 DEF ReconcileApply, ScanInv, GrantIsCurrent, Scanning, scanVars
<1>4. CASE UNCHANGED vars
  BY <1>0, <1>4 DEF vars, ScanInv, GrantIsCurrent, Eligible, Serves, Position
<1> QED
  BY <1>1, <1>2, <1>3, <1>4 DEF Next, Reconcile

(* The ring follows the endpoints, and no walk leaves it. *)

\* Endpoints and ring change together, in one critical section (group.go:110-130).
LEMMA RingStep == StructInv /\ [Next]_vars => RingMatchesEndpoints'
<1> SUFFICES ASSUME StructInv, [Next]_vars PROVE RingMatchesEndpoints'
  OBVIOUS
<1>0. TypeOK /\ RingMatchesEndpoints
  BY DEF StructInv
<1>1. ASSUME NEW c \in Calls, Call(c) PROVE RingMatchesEndpoints'
  <2>0. pc[c] # "panic" /\ UNCHANGED <<endpoints, chwblHashes>>
    BY <1>0, <1>1, CallFrame DEF RingMatchesEndpoints
  <2> USE DEF TypeOK, Goto
  <2>1. Start(c) => pc'[c] # "panic"
    BY <1>0, <2>0 DEF Start
  <2>2. RLock(c) => pc'[c] # "panic"
    BY <1>0, <2>0 DEF RLock
  <2>3. AwaitUnlock(c) => pc'[c] # "panic"
    BY <1>0, <2>0 DEF AwaitUnlock
  <2>4. AwaitEndpoints(c) => pc'[c] # "panic"
    BY <1>0, <2>0 DEF AwaitEndpoints
  <2>5. Woken(c) => pc'[c] # "panic"
    BY <1>0, <2>0 DEF Woken
  <2>6. Cancelled(c) => pc'[c] # "panic"
    BY <1>0, <2>0 DEF Cancelled
  <2>7. UnknownStrategy(c) => pc'[c] # "panic"
    BY <1>0, <2>0 DEF UnknownStrategy
  <2>8. LeastLoad(c) => pc'[c] # "panic"
    BY <1>0, <2>0 DEF LeastLoad
  <2>9. LeastLoadVisit(c) => pc'[c] # "panic"
    BY <1>0, <2>0 DEF LeastLoadVisit
  <2>10. LeastLoadEnd(c) => pc'[c] # "panic"
    BY <1>0, <2>0 DEF LeastLoadEnd, NotFound, Found
  <2>11. PrefixHash(c) => pc'[c] # "panic"
    BY <1>0, <2>0 DEF PrefixHash
  <2>12. WalkVisit(c) => pc'[c] # "panic"
    BY <1>0, <2>0, EligibleTypes DEF WalkVisit
  <2>13. WalkTake(c) => pc'[c] # "panic"
    BY <1>0, <2>0 DEF WalkTake, Found
  <2>14. WalkSkip(c) => pc'[c] # "panic"
    BY <1>0, <2>0 DEF WalkSkip
  <2>15. WalkEnd(c) => pc'[c] # "panic"
    BY <1>0, <2>0 DEF WalkEnd, NotFound, Found
  <2>16. AddTotal(c) => pc'[c] # "panic"
    BY <1>0, <2>0 DEF AddTotal
  <2>17. AddEndpoint(c) => pc'[c] # "panic"
    BY <1>0, <2>0 DEF AddEndpoint
  <2>18. RUnlock(c) => pc'[c] # "panic"
    BY <1>0, <2>0 DEF RUnlock
  <2>19. DecTotal(c) => pc'[c] # "panic"
    BY <1>0, <2>0 DEF DecTotal
  <2>20. DecEndpoint(c) => pc'[c] # "panic"
    BY <1>0, <2>0 DEF DecEndpoint
  <2>21. pc'[c] # "panic"
    BY <1>1, <2>1, <2>2, <2>3, <2>4, <2>5, <2>6, <2>7, <2>8, <2>9, <2>10, <2>11, <2>12, <2>13, <2>14, <2>15, <2>16, <2>17, <2>18, <2>19, <2>20 DEF Call, CallStep
  <2> QED
    BY <1>0, <1>1, <2>0, <2>21, CallFrame DEF RingMatchesEndpoints
<1>2. CASE ReconcileLock \/ Broadcast
  BY <1>0, <1>2 DEF ReconcileLock, Broadcast, groupVars, RingMatchesEndpoints
<1>3. CASE ReconcileApply
  <2> DEFINE with == DOMAIN chwblHashes \cup UNION {HashOf[n] : n \in Added}
             kept == with \ UNION {HashOf[n] : n \in Removed}
  <2>1. DOMAIN endpoints' = DOMAIN observed
    BY <1>3 DEF ReconcileApply, Reconciled
  <2>2. /\ DOMAIN chwblHashes' = kept
        /\ \A h \in kept : chwblHashes'[h] = IF \E n \in Added : h \in HashOf[n]
                                            THEN CHOOSE n \in Added : h \in HashOf[n]
                                            ELSE chwblHashes[h]
    BY <1>3 DEF ReconcileApply, ReconciledHashes
  <2>3. DOMAIN observed \subseteq Names /\ DOMAIN endpoints \subseteq Names
    BY <1>0, MapTypes DEF TypeOK
  <2>4. kept = UNION {HashOf[n] : n \in DOMAIN observed}
    <3>1. ASSUME NEW h \in kept PROVE \E n \in DOMAIN observed : h \in HashOf[n]
      BY <1>0, <3>1 DEF RingMatchesEndpoints, Added, Removed
    <3>2. ASSUME NEW n \in DOMAIN observed, NEW h \in HashOf[n] PROVE h \in kept
      <4>1. h \in with
        BY <1>0 DEF RingMatchesEndpoints, Added
      <4>2. \A m \in Removed : h \notin HashOf[m]
        BY <2>3, HashAssumption DEF Removed
      <4> QED
        BY <4>1, <4>2
    <3> QED
      BY <3>1, <3>2
  <2>5. \A h \in kept : h \in HashOf[chwblHashes'[h]]
    BY <1>0, <2>2 DEF RingMatchesEndpoints
  <2>6. \A c \in Calls : pc'[c] # "panic"
    BY <1>0, <1>3 DEF ReconcileApply, RingMatchesEndpoints
  <2> HIDE DEF kept
  <2> QED
    BY <2>1, <2>2, <2>4, <2>5, <2>6 DEF RingMatchesEndpoints
<1>4. CASE UNCHANGED vars
  BY <1>0, <1>4 DEF vars, RingMatchesEndpoints
<1> QED
  BY <1>1, <1>2, <1>3, <1>4 DEF Next, Reconcile

-----------------------------------------------------------------------------
(* Conservation of the in-flight counts. *)

\* Both sets of holders are finite, because the calls are.
LEMMA HoldersFinite ==
    /\ IsFiniteSet(InTotal)
    /\ \A k \in Counters : IsFiniteSet(CountedOn(k))
<1>1. InTotal \in SUBSET Calls /\ \A k \in Counters : CountedOn(k) \in SUBSET Calls
  BY DEF InTotal, CountedOn
<1> QED
  BY <1>1, FS_Subset, ConstantAssumption

\* A step of a call that neither counts nor uncounts it.
LEMMA SameHolders ==
    ASSUME Conservation, UNCHANGED <<totalInFlight, inFlight>>,
           InTotal' = InTotal, \A k \in Counters : CountedOn(k)' = CountedOn(k)
    PROVE  Conservation'
  BY DEF Conservation

\* Every counter changes together with the set of the calls counted on it.
LEMMA ConservationStep == StructInv /\ Conservation /\ [Next]_vars => Conservation'
<1> SUFFICES ASSUME StructInv, Conservation, [Next]_vars PROVE Conservation'
  OBVIOUS
<1>0. TypeOK /\ LockInv /\ LeaseInv
  BY DEF StructInv
<1>1. ASSUME NEW c \in Calls, Call(c) PROVE Conservation'
  <2>0. \A d \in Calls : d # c => pc'[d] = pc[d] /\ lease'[d] = lease[d]
    BY <1>0, <1>1, CallFrame
  <2> DEFINE Sleeping ==
                /\ UNCHANGED <<totalInFlight, inFlight>>
                /\ pc[c] \notin {"count", "runlock", "serving", "uncount"}
                /\ pc'[c] \notin {"count", "runlock", "serving", "uncount"}
  <2>1. Sleeping => Conservation'
    <3> SUFFICES ASSUME Sleeping PROVE Conservation'
      OBVIOUS
    <3>1. InTotal' = InTotal
      BY <2>0 DEF InTotal
    <3>2. \A k \in Counters : CountedOn(k)' = CountedOn(k)
      BY <2>0 DEF CountedOn
    <3> QED
      BY <3>1, <3>2, SameHolders
  <2>2. Start(c) => Sleeping
    BY <1>0 DEF Start, TypeOK, Goto, loadVars
  <2>3. RLock(c) => Sleeping
    BY <1>0 DEF RLock, TypeOK, Goto, loadVars
  <2>4. AwaitUnlock(c) => Sleeping
    BY <1>0 DEF AwaitUnlock, TypeOK, Goto, loadVars
  <2>5. AwaitEndpoints(c) => Sleeping
    BY <1>0 DEF AwaitEndpoints, TypeOK, Goto, loadVars
  <2>6. Woken(c) => Sleeping
    BY <1>0 DEF Woken, TypeOK, Goto, loadVars
  <2>7. Cancelled(c) => Sleeping
    BY <1>0 DEF Cancelled, TypeOK, Goto, loadVars
  <2>8. UnknownStrategy(c) => Sleeping
    BY <1>0 DEF UnknownStrategy, TypeOK, Goto, loadVars
  <2>9. LeastLoad(c) => Sleeping
    BY <1>0 DEF LeastLoad, TypeOK, Goto, loadVars
  <2>10. LeastLoadVisit(c) => Sleeping
    BY <1>0 DEF LeastLoadVisit, TypeOK, Goto, loadVars
  <2>11. LeastLoadEnd(c) => Sleeping
    BY <1>0 DEF LeastLoadEnd, NotFound, Found, TypeOK, Goto, loadVars
  <2>12. PrefixHash(c) => Sleeping
    BY <1>0 DEF PrefixHash, TypeOK, Goto, loadVars
  <2>13. WalkVisit(c) => Sleeping
    BY <1>0 DEF WalkVisit, TypeOK, Goto, loadVars
  <2>14. WalkTake(c) => Sleeping
    BY <1>0 DEF WalkTake, Found, TypeOK, Goto, loadVars
  <2>15. WalkSkip(c) => Sleeping
    BY <1>0 DEF WalkSkip, TypeOK, Goto, loadVars
  <2>16. WalkEnd(c) => Sleeping
    BY <1>0 DEF WalkEnd, NotFound, Found, TypeOK, Goto, loadVars
  <2>17. CASE AddTotal(c)
    <3>1. /\ totalInFlight' = totalInFlight + 1 /\ inFlight' = inFlight
          /\ pc[c] = "add" /\ pc'[c] = "count" /\ lease' = lease
      BY <1>0, <2>17 DEF AddTotal, TypeOK, Goto
    <3>2. InTotal' = InTotal \cup {c} /\ c \notin InTotal
      BY <2>0, <3>1 DEF InTotal
    <3>3. \A k \in Counters : CountedOn(k)' = CountedOn(k)
      BY <2>0, <3>1 DEF CountedOn
    <3>4. Cardinality(InTotal') = Cardinality(InTotal) + 1
      BY <3>2, HoldersFinite, FS_AddElement
    <3> QED
      BY <3>1, <3>3, <3>4 DEF Conservation
  <2>18. CASE AddEndpoint(c)
    <3>0. PICK k : k = lease[c]
      OBVIOUS
    <3>1. k \in Counters
      BY <1>0, <3>0, <2>18 DEF AddEndpoint, TypeOK, LeaseInv, Granted
    <3>2. /\ totalInFlight' = totalInFlight /\ lease' = lease
          /\ inFlight' = [inFlight EXCEPT ![k] = @ + 1]
          /\ pc[c] = "count" /\ pc'[c] = "runlock"
      BY <1>0, <3>0, <2>18 DEF AddEndpoint, TypeOK, Goto
    <3>3. InTotal' = InTotal
      BY <2>0, <3>2 DEF InTotal
    <3>4. CountedOn(k)' = CountedOn(k) \cup {c} /\ c \notin CountedOn(k)
      BY <2>0, <3>0, <3>2 DEF CountedOn
    <3>5. \A j \in Counters \ {k} : CountedOn(j)' = CountedOn(j)
      BY <2>0, <3>0, <3>2 DEF CountedOn
    <3>6. Cardinality(CountedOn(k)') = Cardinality(CountedOn(k)) + 1
      BY <3>1, <3>4, HoldersFinite, FS_AddElement
    <3>7. inFlight'[k] = inFlight[k] + 1 /\ \A j \in Counters \ {k} : inFlight'[j] = inFlight[j]
      BY <1>0, <3>1, <3>2 DEF TypeOK
    <3>8. inFlight'[k] = Cardinality(CountedOn(k)')
      BY <3>1, <3>6, <3>7 DEF Conservation
    <3>9. \A j \in Counters : inFlight'[j] = Cardinality(CountedOn(j)')
      <4> TAKE j \in Counters
      <4>1. j # k => inFlight'[j] = Cardinality(CountedOn(j)')
        BY <3>5, <3>7 DEF Conservation
      <4> QED
        BY <3>8, <4>1
    <3> QED
      BY <3>2, <3>3, <3>9 DEF Conservation
  <2>19. CASE RUnlock(c)
    <3>1. /\ UNCHANGED <<totalInFlight, inFlight, lease>>
          /\ pc[c] = "runlock" /\ pc'[c] = "serving"
      BY <1>0, <2>19 DEF RUnlock, TypeOK, Goto, loadVars
    <3>2. InTotal' = InTotal
      BY <2>0, <3>1 DEF InTotal
    <3>3. \A k \in Counters : CountedOn(k)' = CountedOn(k)
      BY <2>0, <3>1 DEF CountedOn
    <3> QED
      BY <3>1, <3>2, <3>3, SameHolders
  <2>20. CASE DecTotal(c)
    <3>1. /\ totalInFlight' = totalInFlight - 1 /\ inFlight' = inFlight
          /\ pc[c] = "serving" /\ pc'[c] = "uncount" /\ lease' = lease
      BY <1>0, <2>20 DEF DecTotal, TypeOK, Goto
    <3>2. InTotal' = InTotal \ {c} /\ c \in InTotal
      BY <2>0, <3>1 DEF InTotal
    <3>3. \A k \in Counters : CountedOn(k)' = CountedOn(k)
      BY <2>0, <3>1 DEF CountedOn
    <3>4. Cardinality(InTotal') = Cardinality(InTotal) - 1
      BY <3>2, HoldersFinite, FS_RemoveElement
    <3> QED
      BY <3>1, <3>3, <3>4 DEF Conservation
  <2>21. CASE DecEndpoint(c)
    <3>0. PICK k : k = lease[c]
      OBVIOUS
    <3>1. k \in Counters /\ None \notin Counters
      BY <1>0, <3>0, <2>21, ConstantAssumption DEF DecEndpoint, TypeOK, LeaseInv
    <3>2. /\ totalInFlight' = totalInFlight /\ lease'[c] = None
          /\ inFlight' = [inFlight EXCEPT ![k] = @ - 1]
          /\ pc[c] = "uncount" /\ pc'[c] = "idle"
      BY <1>0, <3>0, <2>21 DEF DecEndpoint, TypeOK, Goto
    <3>3. InTotal' = InTotal
      BY <2>0, <3>2 DEF InTotal
    <3>4. CountedOn(k)' = CountedOn(k) \ {c} /\ c \in CountedOn(k)
      BY <2>0, <3>0, <3>1, <3>2 DEF CountedOn
    <3>5. \A j \in Counters \ {k} : CountedOn(j)' = CountedOn(j)
      BY <2>0, <3>0, <3>1, <3>2 DEF CountedOn
    <3>6. Cardinality(CountedOn(k)') = Cardinality(CountedOn(k)) - 1
      BY <3>1, <3>4, HoldersFinite, FS_RemoveElement
    <3>7. inFlight'[k] = inFlight[k] - 1 /\ \A j \in Counters \ {k} : inFlight'[j] = inFlight[j]
      BY <1>0, <3>1, <3>2 DEF TypeOK
    <3>8. inFlight'[k] = Cardinality(CountedOn(k)')
      BY <3>1, <3>6, <3>7 DEF Conservation
    <3>9. \A j \in Counters : inFlight'[j] = Cardinality(CountedOn(j)')
      <4> TAKE j \in Counters
      <4>1. j # k => inFlight'[j] = Cardinality(CountedOn(j)')
        BY <3>5, <3>7 DEF Conservation
      <4> QED
        BY <3>8, <4>1
    <3> QED
      BY <3>2, <3>3, <3>9 DEF Conservation
  <2> QED
    BY <1>1, <2>1, <2>2, <2>3, <2>4, <2>5, <2>6, <2>7, <2>8, <2>9, <2>10, <2>11, <2>12, <2>13, <2>14, <2>15, <2>16, <2>17, <2>18, <2>19, <2>20, <2>21 DEF Call, CallStep
<1>2. CASE ReconcileLock \/ Broadcast
  BY <1>2, SameHolders DEF ReconcileLock, Broadcast, loadVars, InTotal, CountedOn
<1>3. CASE ReconcileApply
  <2>1. PICK fresh \in [Added -> FreeCounters] :
            inFlight' = [k \in Counters |->
                            IF \E n \in Added : fresh[n] = k THEN 0 ELSE inFlight[k]]
    BY <1>3 DEF ReconcileApply
  <2>2. UNCHANGED <<totalInFlight, pc, lease>>
    BY <1>3 DEF ReconcileApply
  <2>3. InTotal' = InTotal /\ \A k \in Counters : CountedOn(k)' = CountedOn(k)
    BY <2>2 DEF InTotal, CountedOn
  <2>4. \A k \in FreeCounters : CountedOn(k) = {}
    BY DEF FreeCounters, CountedOn
  <2>5. \A k \in Counters : inFlight'[k] = Cardinality(CountedOn(k))
    <3> TAKE k \in Counters
    <3>1. CASE \E n \in Added : fresh[n] = k
      BY <2>1, <2>4, <3>1, FS_EmptySet
    <3>2. CASE ~\E n \in Added : fresh[n] = k
      BY <2>1, <3>2 DEF Conservation
    <3> QED
      BY <3>1, <3>2
  <2> QED
    BY <2>2, <2>3, <2>5 DEF Conservation
<1>4. CASE UNCHANGED vars
  BY <1>4, SameHolders DEF vars, InTotal, CountedOn
<1> QED
  BY <1>1, <1>2, <1>3, <1>4 DEF Next, Reconcile

-----------------------------------------------------------------------------
(* Theorems *)

\* The inductive invariant holds initially.
LEMMA InvInit == Init => IInv
<1> SUFFICES ASSUME Init PROVE IInv
  OBVIOUS
<1>1. TypeOK
  BY TypeInit
<1>2. LockInv /\ LeaseInv /\ ScanInv /\ GrantIsCurrent
  BY DEF Init, LockInv, LeaseInv, ScanInv, GrantIsCurrent, Scanning, Granted
<1>3. RingMatchesEndpoints
  BY DEF Init, RingMatchesEndpoints
<1>4. Conservation
  <2>1. InTotal = {} /\ \A k \in Counters : CountedOn(k) = {}
    BY DEF Init, InTotal, CountedOn
  <2> QED
    BY <2>1, FS_EmptySet DEF Init, Conservation
<1> QED
  BY <1>1, <1>2, <1>3, <1>4 DEF IInv, StructInv

\* The inductive invariant is preserved by every step.
LEMMA InvStep == IInv /\ [Next]_vars => IInv'
  BY TypeStep, LockStep, ScanStep, RingStep, ConservationStep DEF IInv, StructInv

\* The inductive invariant holds in every reachable state, for every number of
\* calls, endpoints, adapters and ring positions.
THEOREM Invariance == Spec => []IInv
  BY InvInit, InvStep, PTL DEF Spec

\* Every variable of the group keeps its type (group.go:25-49).
THEOREM TypeCorrect == Spec => []TypeOK
<1>1. IInv => TypeOK
  BY DEF IInv, StructInv
<1> QED
  BY <1>1, Invariance, PTL

\* No in-flight count is ever lost or counted twice, for any number of
\* concurrent calls and reconciles (group.go:82-85, 147-150).
THEOREM CountsAreConserved == Spec => []Conservation
<1>1. IInv => Conservation
  BY DEF IInv
<1> QED
  BY <1>1, Invariance, PTL

\* The endpoint a call is granted is in the group, with the adapter, until the
\* call returns (group.go:68-87).
THEOREM GrantsAreCurrent == Spec => []GrantIsCurrent
<1>1. IInv => GrantIsCurrent
  BY DEF IInv, StructInv
<1> QED
  BY <1>1, Invariance, PTL

\* The ring and the endpoints agree, so chwblGetAddr never panics with
\* "endpoints corrupted" (balance_chwbl.go:37-41).
THEOREM RingIsConsistent == Spec => []RingMatchesEndpoints
<1>1. IInv => RingMatchesEndpoints
  BY DEF IInv, StructInv
<1> QED
  BY <1>1, Invariance, PTL

-----------------------------------------------------------------------------
(* Refinement of EndpointLeases. *)

\* Initial states of the group are initial states of the leases.
LEMMA LeasesInit == Init => Leases!Init
  BY DEF Init, Leases!Init, wantBar, heldBar, Holding

\* Every step of the group is a step of the leases or leaves them alone.
LEMMA LeasesStep == IInv /\ [Next]_vars => [Leases!Next]_(Leases!leaseVars)
<1> SUFFICES ASSUME IInv, [Next]_vars
             PROVE  Leases!Next \/ UNCHANGED Leases!leaseVars
  OBVIOUS
<1>0. TypeOK /\ LockInv /\ LeaseInv /\ GrantIsCurrent /\ RingMatchesEndpoints
  BY DEF IInv, StructInv
<1>1. ASSUME NEW c \in Calls, Call(c)
      PROVE  Leases!Next \/ UNCHANGED Leases!leaseVars
  <2> DEFINE Want(d) == IF pc[d] \in {"idle", "errored"} \cup Holding THEN None ELSE req[d].adapter
             Held(d) == IF pc[d] \in Holding THEN lease[d] ELSE None
  <2>0. endpoints' = endpoints /\ \A d \in Calls : d # c => Want(d)' = Want(d) /\ Held(d)' = Held(d)
    BY <1>0, <1>1, CallFrame
  <2>1. /\ wantBar' = [wantBar EXCEPT ![c] = Want(c)']
        /\ heldBar' = [heldBar EXCEPT ![c] = Held(c)']
        /\ wantBar[c] = Want(c) /\ heldBar[c] = Held(c)
    BY <2>0 DEF wantBar, heldBar
  <2>2. (inFlight' = inFlight /\ Want(c)' = Want(c) /\ Held(c)' = Held(c))
            => UNCHANGED Leases!leaseVars
    BY <2>0, <2>1 DEF Leases!leaseVars, wantBar, heldBar
  <2> DEFINE Waits == /\ inFlight' = inFlight /\ req'[c] = req[c]
                         /\ pc[c] \notin {"idle", "errored"} \cup Holding
                         /\ pc'[c] \notin {"idle", "errored"} \cup Holding
  <2>3. RLock(c) => Waits
    BY <1>0 DEF RLock, TypeOK, Goto, loadVars, Holding
  <2>4. AwaitUnlock(c) => Waits
    BY <1>0 DEF AwaitUnlock, TypeOK, Goto, loadVars, Holding
  <2>5. AwaitEndpoints(c) => Waits
    BY <1>0 DEF AwaitEndpoints, TypeOK, Goto, loadVars, Holding
  <2>6. Woken(c) => Waits
    BY <1>0 DEF Woken, TypeOK, Goto, loadVars, Holding
  <2>7. LeastLoad(c) => Waits
    BY <1>0 DEF LeastLoad, TypeOK, Goto, loadVars, Holding
  <2>8. LeastLoadVisit(c) => Waits
    BY <1>0 DEF LeastLoadVisit, TypeOK, Goto, loadVars, Holding
  <2>9. LeastLoadEnd(c) => Waits
    BY <1>0 DEF LeastLoadEnd, NotFound, Found, TypeOK, Goto, loadVars, Holding
  <2>10. PrefixHash(c) => Waits
    BY <1>0 DEF PrefixHash, TypeOK, Goto, loadVars, Holding
  <2>11. WalkVisit(c) => Waits
    BY <1>0 DEF WalkVisit, TypeOK, Goto, loadVars, Holding
  <2>12. WalkTake(c) => Waits
    BY <1>0 DEF WalkTake, Found, TypeOK, Goto, loadVars, Holding
  <2>13. WalkSkip(c) => Waits
    BY <1>0 DEF WalkSkip, TypeOK, Goto, loadVars, Holding
  <2>14. WalkEnd(c) => Waits
    BY <1>0 DEF WalkEnd, NotFound, Found, TypeOK, Goto, loadVars, Holding
  <2>15. AddTotal(c) => Waits
    BY <1>0 DEF AddTotal, TypeOK, Goto, loadVars, Holding
  <2>16. CASE Waits
    BY <2>2, <2>16
  <2>17. CASE Start(c)
    <3>1. /\ inFlight' = inFlight /\ Held(c)' = None /\ Held(c) = None
          /\ Want(c) = None /\ Want(c)' \in Adapters \cup {NoAdapter}
      BY <1>0, <2>17, ConstantAssumption DEF Start, TypeOK, Goto, loadVars, Holding, Request
    <3>2. heldBar' = heldBar
      BY <2>1, <3>1 DEF heldBar
    <3>3. wantBar[c] = None /\ heldBar[c] = None /\ wantBar' = [wantBar EXCEPT ![c] = Want(c)']
      BY <2>1, <3>1
    <3> HIDE DEF Want, Held
    <3>4. Leases!Ask(c)
      BY <2>0, <3>1, <3>2, <3>3 DEF Leases!Ask
    <3> QED
      BY <3>4 DEF Leases!Next
  <2>18. CASE Cancelled(c) \/ UnknownStrategy(c)
    <3>1. /\ inFlight' = inFlight /\ Held(c)' = None /\ Held(c) = None
          /\ Want(c) # None /\ Want(c)' = None
      BY <1>0, <2>18, ConstantAssumption
         DEF Cancelled, UnknownStrategy, TypeOK, Goto, loadVars, Holding, Request
    <3>2. Leases!GiveUp(c)
      BY <2>0, <2>1, <3>1 DEF Leases!GiveUp, heldBar
    <3> QED
      BY <3>2 DEF Leases!Next
  <2>19. CASE AddEndpoint(c)
    <3>1. /\ pc[c] = "count" /\ pc'[c] = "runlock"
          /\ lease' = lease /\ inFlight' = [inFlight EXCEPT ![lease[c]] = @ + 1]
      BY <1>0, <2>19 DEF AddEndpoint, TypeOK, Goto
    <3>2. /\ best[c] \in DOMAIN endpoints
          /\ lease[c] = endpoints[best[c]].counter
          /\ Serves(best[c], req[c].adapter)
      BY <1>0, <3>1 DEF GrantIsCurrent, Granted
    <3>3. req[c].adapter # None
      BY <1>0, ConstantAssumption DEF TypeOK, Request
    <3>4. /\ Want(c) = req[c].adapter /\ Want(c)' = None /\ Held(c)' = lease[c]
      BY <3>1 DEF Holding
    <3>5. Leases!Grant(c)
      BY <2>0, <2>1, <3>1, <3>2, <3>3, <3>4 DEF Leases!Grant, Serves
    <3> QED
      BY <3>5 DEF Leases!Next
  <2>20. CASE RUnlock(c) \/ DecTotal(c)
    <3>1. /\ inFlight' = inFlight /\ lease' = lease
          /\ pc[c] \in Holding /\ pc'[c] \in Holding
      BY <1>0, <2>20 DEF RUnlock, DecTotal, TypeOK, Goto, loadVars, Holding
    <3> QED
      BY <2>2, <3>1
  <2>21. CASE DecEndpoint(c)
    <3>1. /\ pc[c] = "uncount" /\ pc'[c] = "idle"
          /\ inFlight' = [inFlight EXCEPT ![lease[c]] = @ - 1]
      BY <1>0, <2>21 DEF DecEndpoint, TypeOK, Goto
    <3>2. lease[c] # None
      BY <1>0, <3>1 DEF LeaseInv
    <3>3. Held(c) = lease[c] /\ Held(c)' = None /\ Want(c) = None /\ Want(c)' = None
      BY <3>1 DEF Holding
    <3>4. Leases!Return(c)
      BY <2>0, <2>1, <3>1, <3>2, <3>3 DEF Leases!Return, wantBar
    <3> QED
      BY <3>4 DEF Leases!Next
  <2> QED
    BY <1>1, <2>3, <2>4, <2>5, <2>6, <2>7, <2>8, <2>9, <2>10, <2>11, <2>12, <2>13, <2>14, <2>15, <2>16, <2>17, <2>18, <2>19, <2>20, <2>21 DEF Call, CallStep
<1>2. CASE ReconcileLock \/ Broadcast
  BY <1>2 DEF ReconcileLock, Broadcast, groupVars, loadVars, Leases!leaseVars, wantBar, heldBar
<1>3. CASE ReconcileApply
  <2>1. PICK fresh \in [Added -> FreeCounters] :
            /\ endpoints' = Reconciled(fresh)
            /\ inFlight' = [k \in Counters |->
                            IF \E n \in Added : fresh[n] = k THEN 0 ELSE inFlight[k]]
    BY <1>3 DEF ReconcileApply
  <2>2. \A k \in FreeCounters : inFlight[k] = 0
    <3>1. \A k \in FreeCounters : k \in Counters /\ CountedOn(k) = {}
      BY DEF FreeCounters, CountedOn
    <3> QED
      BY <3>1, FS_EmptySet DEF IInv, Conservation
  <2>3. inFlight' = inFlight
    BY <1>0, <2>1, <2>2 DEF TypeOK
  <2>4. wantBar' = wantBar /\ heldBar' = heldBar
    BY <1>3 DEF ReconcileApply, wantBar, heldBar
  <2>5. /\ DOMAIN endpoints' = DOMAIN observed
        /\ \A n \in DOMAIN observed :
              endpoints'[n].counter = IF n \in Added THEN fresh[n] ELSE endpoints[n].counter
    BY <2>1 DEF Reconciled
  <2>6. DOMAIN observed \subseteq Names
    BY <1>0, MapTypes DEF TypeOK
  <2>7. \A k \in FreeCounters : k \in Counters /\ \A c \in Calls : heldBar[c] # k
    BY ConstantAssumption DEF FreeCounters, heldBar
  <2>8. Leases!Update
    BY <2>1, <2>2, <2>3, <2>4, <2>5, <2>6, <2>7 DEF Leases!Update, Added
  <2> QED
    BY <2>8 DEF Leases!Next
<1>4. CASE UNCHANGED vars
  BY <1>4 DEF vars, Leases!leaseVars, wantBar, heldBar
<1> QED
  BY <1>1, <1>2, <1>3, <1>4 DEF Next, Reconcile

\* The endpoint group implements EndpointLeases: to its callers, grants and
\* returns are atomic, whatever the interleaving (group.go:53-88, 108-150).
THEOREM GroupImplementsLeases == Spec => ImplementsLeases
<1>1. Spec => Leases!Spec
  BY LeasesInit, LeasesStep, Invariance, PTL DEF Spec, Leases!Spec
<1> QED
  BY <1>1 DEF ImplementsLeases

=============================================================================

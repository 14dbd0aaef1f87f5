--------------------------- MODULE EndpointGroup ---------------------------
(***************************************************************************)
(* One endpoint group of the load balancer: the endpoints that serve one   *)
(* Model, the in-flight counters, the hash ring, the read/write lock and   *)
(* the broadcast channel (internal/loadbalancer/group.go,                  *)
(* balance_least_load.go, balance_chwbl.go).                               *)
(*                                                                         *)
(* Two kinds of threads run here.  A call is one execution of getBestAddr  *)
(* followed, later and with no lock, by the decFunc it returned.  The      *)
(* reconciler runs reconcileEndpoints, one at a time (the controller has   *)
(* one worker).  A step of the model is one lock operation or one atomic   *)
(* read or write of a counter, so all the interleavings of the Go program  *)
(* are here; the body between Lock and Unlock of the reconciler touches    *)
(* nothing a call can reach without the lock and is one step.              *)
(*                                                                         *)
(* Counters are heap objects: an endpoint that is removed and added again  *)
(* gets a new one while calls may still hold the old one.  A counter is    *)
(* allocated from those nobody refers to any more.                         *)
(***************************************************************************)
EXTENDS Integers, FiniteSets

CONSTANTS
    Calls,               \* executions of getBestAddr that may run at once
    Names,               \* names of endpoints (namespace/pod)
    Adapters,            \* names of LoRA adapters
    NoAdapter,           \* req.Adapter == ""
    Counters,            \* identities of the *atomic.Int64 counters
    Requests,            \* the requests that calls may carry
    HashOf,              \* HashOf[n]: ring positions of the replicas of n
    MeanLoadPercentage,  \* PrefixHash.MeanLoadPercentage
    None                 \* nil pointer, no name

VARIABLES
    endpoints,      \* name -> [counter, adapters], guarded by mtx
    chwblHashes,    \* hash -> name, guarded by mtx
    totalInFlight,  \* atomic
    inFlight,       \* counter -> value, atomic
    readers,        \* calls holding mtx for reading
    writer,         \* the reconciler: "none" | "waiting" | "unlocked"
    observed,       \* argument of the running reconcileEndpoints
    waiting,        \* calls that hold the current, still open bcast channel
    pc, req, await, \* per call: control point, request, awaitChangeEndpoints
    todo,           \* per call: names or hashes the scan has yet to visit
    best,           \* per call: bestEp, or defaultEndpoint of the ring walk
    load,           \* per call: the last in-flight value kept by the scan
    lease           \* per call: the counter decFunc will decrement

groupVars == <<endpoints, chwblHashes>>
loadVars  == <<totalInFlight, inFlight>>
scanVars  == <<todo, best, load>>
vars == <<endpoints, chwblHashes, totalInFlight, inFlight, readers, writer,
          observed, waiting, pc, req, await, todo, best, load, lease>>

Strategies == {"PrefixHash", "LeastLoad", "Unknown"}
Request == [strategy : Strategies, adapter : Adapters \cup {NoAdapter}, hash : Nat]
Endpoint == [counter : Counters, adapters : SUBSET Adapters]

\* Control points between the acquisition of the read lock and its release.
Scanning == {"check", "scan", "walk", "walkTotal"}
Granted  == {"add", "count", "runlock"}

\* xxhash of the endpoint replicas: distinct inputs do not collide.
ASSUME HashAssumption ==
    /\ HashOf \in [Names -> SUBSET Nat]
    /\ \A m, n \in Names : m # n => HashOf[m] \cap HashOf[n] = {}

ASSUME ConstantAssumption ==
    /\ Requests \subseteq Request
    /\ MeanLoadPercentage \in Nat
    /\ NoAdapter \notin Adapters
    /\ None \notin Counters \cup Names \cup Adapters \cup {NoAdapter}
    /\ IsFiniteSet(Calls)

\* Partial maps: the observed endpoints, the endpoints of the group, the ring.
Observations == UNION {[N -> SUBSET Adapters] : N \in SUBSET Names}
EndpointMaps == UNION {[N -> Endpoint] : N \in SUBSET Names}
HashMaps     == UNION {[H -> Names] : H \in SUBSET UNION {HashOf[n] : n \in Names}}

-----------------------------------------------------------------------------
NoRequest == [strategy |-> "Unknown", adapter |-> NoAdapter, hash |-> 0]

Init ==
    /\ endpoints = [n \in {} |-> None]
    /\ chwblHashes = [h \in {} |-> None]
    /\ totalInFlight = 0
    /\ inFlight = [k \in Counters |-> 0]
    /\ readers = {} /\ writer = "none" /\ waiting = {}
    /\ observed = [n \in {} |-> {}]
    /\ pc = [c \in Calls |-> "idle"]
    /\ req = [c \in Calls |-> NoRequest]
    /\ await = [c \in Calls |-> FALSE]
    /\ todo = [c \in Calls |-> {}]
    /\ best = [c \in Calls |-> None]
    /\ load = [c \in Calls |-> 0]
    /\ lease = [c \in Calls |-> None]

Goto(c, label) == pc' = [pc EXCEPT ![c] = label]

\* The adapter filter of both strategies.
Serves(n, adapter) == adapter = NoAdapter \/ adapter \in endpoints[n].adapters

-----------------------------------------------------------------------------
(* getBestAddr *)

Start(c) ==
    /\ pc[c] = "idle"
    /\ \E r \in Requests : req' = [req EXCEPT ![c] = r]
    /\ Goto(c, "rlock")
    /\ UNCHANGED <<groupVars, loadVars, readers, writer, observed, waiting,
                   await, scanVars, lease>>

\* A waiting writer keeps new readers out (sync.RWMutex).
RLock(c) ==
    /\ pc[c] = "rlock" /\ writer # "waiting"
    /\ readers' = readers \cup {c}
    /\ Goto(c, "check")
    /\ UNCHANGED <<groupVars, loadVars, writer, observed, waiting, req, await,
                   scanVars, lease>>

\* The body of the await loop up to the read of the channel.
MustAwait(c) == await[c] \/ DOMAIN endpoints = {}

AwaitUnlock(c) ==
    /\ pc[c] = "check" /\ MustAwait(c)
    /\ readers' = readers \ {c}
    /\ Goto(c, "fetch")
    /\ UNCHANGED <<groupVars, loadVars, writer, observed, waiting, req, await,
                   scanVars, lease>>

\* awaitEndpoints(): the channel that is current now, maybe a later one than
\* when the endpoints were looked at.
AwaitEndpoints(c) ==
    /\ pc[c] = "fetch"
    /\ waiting' = waiting \cup {c}
    /\ Goto(c, "select")
    /\ UNCHANGED <<groupVars, loadVars, readers, writer, observed, req, await,
                   scanVars, lease>>

Woken(c) ==
    /\ pc[c] = "select" /\ c \notin waiting
    /\ Goto(c, "rlock")
    /\ UNCHANGED <<groupVars, loadVars, readers, writer, observed, waiting, req,
                   await, scanVars, lease>>

\* ctx.Done() may win the select at any time, also when the channel is closed.
Cancelled(c) ==
    /\ pc[c] = "select"
    /\ waiting' = waiting \ {c}
    /\ await' = [await EXCEPT ![c] = FALSE]
    /\ req' = [req EXCEPT ![c] = NoRequest]
    /\ Goto(c, "idle")
    /\ UNCHANGED <<groupVars, loadVars, readers, writer, observed, scanVars, lease>>

\* The error return of the switch leaves the read lock held.
UnknownStrategy(c) ==
    /\ pc[c] = "check" /\ ~MustAwait(c)
    /\ req[c].strategy = "Unknown"
    /\ Goto(c, "errored")
    /\ UNCHANGED <<groupVars, loadVars, readers, writer, observed, waiting, req,
                   await, scanVars, lease>>

\* Mutated form of NotFound: the recursive call is made with mtx still held.
NotFoundLocked(c) ==
    /\ await' = [await EXCEPT ![c] = TRUE]
    /\ Goto(c, "rlock")
    /\ UNCHANGED <<groupVars, loadVars, readers, writer, observed, waiting, req,
                   scanVars, lease>>

\* !found: unlock and call getBestAddr again with awaitChangeEndpoints = true.
NotFound(c) ==
    /\ readers' = readers \ {c}
    /\ await' = [await EXCEPT ![c] = TRUE]
    /\ Goto(c, "rlock")
    /\ UNCHANGED <<groupVars, loadVars, writer, observed, waiting, req, scanVars,
                   lease>>

\* Mutated form of Found: mtx is released before addInFlight.
FoundUnlocked(c, n) ==
    /\ lease' = [lease EXCEPT ![c] = endpoints[n].counter]
    /\ best' = [best EXCEPT ![c] = n]
    /\ todo' = [todo EXCEPT ![c] = {}]
    /\ load' = [load EXCEPT ![c] = 0]
    /\ readers' = readers \ {c}
    /\ Goto(c, "add")
    /\ UNCHANGED <<groupVars, loadVars, writer, observed, waiting, req, await>>

\* found: the counter of endpoint n is captured by decFunc.
Found(c, n) ==
    /\ lease' = [lease EXCEPT ![c] = endpoints[n].counter]
    /\ best' = [best EXCEPT ![c] = n]
    /\ todo' = [todo EXCEPT ![c] = {}]
    /\ load' = [load EXCEPT ![c] = 0]
    /\ Goto(c, "add")
    /\ UNCHANGED <<groupVars, loadVars, readers, writer, observed, waiting, req, await>>

-----------------------------------------------------------------------------
(* getAddrLeastLoad *)

LeastLoad(c) ==
    /\ pc[c] = "check" /\ ~MustAwait(c)
    /\ req[c].strategy = "LeastLoad"
    /\ todo' = [todo EXCEPT ![c] = DOMAIN endpoints]
    /\ Goto(c, "scan")
    /\ UNCHANGED <<groupVars, loadVars, readers, writer, observed, waiting, req,
                   await, best, load, lease>>

\* inFlight < minInFlight, or the first endpoint with the adapter.
Less(c, n) == best[c] = None \/ inFlight[endpoints[n].counter] < load[c]

\* Go's map iteration visits the endpoints in any order.
LeastLoadVisit(c) ==
    /\ pc[c] = "scan"
    /\ \E n \in todo[c] :
        /\ todo' = [todo EXCEPT ![c] = @ \ {n}]
        /\ IF Serves(n, req[c].adapter) /\ Less(c, n)
           THEN /\ best' = [best EXCEPT ![c] = n]
                /\ load' = [load EXCEPT ![c] = inFlight[endpoints[n].counter]]
           ELSE UNCHANGED <<best, load>>
    /\ UNCHANGED <<groupVars, loadVars, readers, writer, observed, waiting, pc, req,
                   await, lease>>

LeastLoadEnd(c) ==
    /\ pc[c] = "scan" /\ todo[c] = {}
    /\ \/ best[c] = None /\ NotFound(c)
       \/ best[c] # None /\ Found(c, best[c])

-----------------------------------------------------------------------------
(* chwblGetAddr *)

\* The ring walk starts at the first hash not below the key's, and wraps.
NextHash(h, S) ==
    LET ahead == {x \in S : x >= h}
        from  == IF ahead = {} THEN S ELSE ahead
    IN  CHOOSE x \in from : \A y \in from : x <= y

LoadOK(epLoad, totalLoad, n) ==
    totalLoad = 0 \/ epLoad * n * 100 <= (totalLoad + 1) * MeanLoadPercentage

PrefixHash(c) ==
    /\ pc[c] = "check" /\ ~MustAwait(c)
    /\ req[c].strategy = "PrefixHash"
    /\ todo' = [todo EXCEPT ![c] = DOMAIN chwblHashes]
    /\ Goto(c, "walk")
    /\ UNCHANGED <<groupVars, loadVars, readers, writer, observed, waiting, req,
                   await, best, load, lease>>

Position(c) == NextHash(req[c].hash, todo[c])

\* One ring position up to the read of the endpoint's counter.
WalkVisit(c) ==
    /\ pc[c] = "walk" /\ todo[c] # {}
    /\ LET n == chwblHashes[Position(c)] IN
        \/ /\ n \notin DOMAIN endpoints
           /\ Goto(c, "panic")
           /\ UNCHANGED scanVars
        \/ /\ n \in DOMAIN endpoints /\ ~Serves(n, req[c].adapter)
           /\ todo' = [todo EXCEPT ![c] = @ \ {Position(c)}]
           /\ UNCHANGED <<pc, best, load>>
        \/ /\ n \in DOMAIN endpoints /\ Serves(n, req[c].adapter)
           /\ best' = [best EXCEPT ![c] = IF @ = None THEN n ELSE @]
           /\ load' = [load EXCEPT ![c] = inFlight[endpoints[n].counter]]
           /\ Goto(c, "walkTotal")
           /\ UNCHANGED todo
    /\ UNCHANGED <<groupVars, loadVars, readers, writer, observed, waiting, req,
                   await, lease>>

\* The read of totalInFlight and the load check.
WalkLoadOK(c) ==
    LoadOK(load[c], totalInFlight, Cardinality(DOMAIN endpoints))

WalkTake(c) ==
    /\ pc[c] = "walkTotal" /\ WalkLoadOK(c)
    /\ Found(c, chwblHashes[Position(c)])

WalkSkip(c) ==
    /\ pc[c] = "walkTotal" /\ ~WalkLoadOK(c)
    /\ todo' = [todo EXCEPT ![c] = @ \ {Position(c)}]
    /\ Goto(c, "walk")
    /\ UNCHANGED <<groupVars, loadVars, readers, writer, observed, waiting, req,
                   await, best, load, lease>>

\* The whole ring was visited: the default endpoint, if there is one.
WalkEnd(c) ==
    /\ pc[c] = "walk" /\ todo[c] = {}
    /\ \/ best[c] = None /\ NotFound(c)
       \/ best[c] # None /\ Found(c, best[c])

-----------------------------------------------------------------------------
(* addInFlight(+1), RUnlock and return; later decFunc, with no lock. *)

AddTotal(c) ==
    /\ pc[c] = "add"
    /\ totalInFlight' = totalInFlight + 1
    /\ Goto(c, "count")
    /\ UNCHANGED <<groupVars, inFlight, readers, writer, observed, waiting, req,
                   await, scanVars, lease>>

AddEndpoint(c) ==
    /\ pc[c] = "count"
    /\ inFlight' = [inFlight EXCEPT ![lease[c]] = @ + 1]
    /\ Goto(c, "runlock")
    /\ UNCHANGED <<groupVars, totalInFlight, readers, writer, observed, waiting,
                   req, await, scanVars, lease>>

RUnlock(c) ==
    /\ pc[c] = "runlock"
    /\ readers' = readers \ {c}
    /\ best' = [best EXCEPT ![c] = None]
    /\ req' = [req EXCEPT ![c] = NoRequest]
    /\ await' = [await EXCEPT ![c] = FALSE]
    /\ Goto(c, "serving")
    /\ UNCHANGED <<groupVars, loadVars, writer, observed, waiting, todo, load, lease>>

\* Mutated form of DecTotal: decFunc forgets the total.
DecTotalForgotten(c) ==
    /\ pc[c] = "serving"
    /\ Goto(c, "uncount")
    /\ UNCHANGED <<groupVars, loadVars, readers, writer, observed, waiting, req,
                   await, scanVars, lease>>

DecTotal(c) ==
    /\ pc[c] = "serving"
    /\ totalInFlight' = totalInFlight - 1
    /\ Goto(c, "uncount")
    /\ UNCHANGED <<groupVars, inFlight, readers, writer, observed, waiting, req,
                   await, scanVars, lease>>

DecEndpoint(c) ==
    /\ pc[c] = "uncount"
    /\ inFlight' = [inFlight EXCEPT ![lease[c]] = @ - 1]
    /\ lease' = [lease EXCEPT ![c] = None]
    /\ Goto(c, "idle")
    /\ UNCHANGED <<groupVars, totalInFlight, readers, writer, observed, waiting,
                   req, await, scanVars>>

-----------------------------------------------------------------------------
(* reconcileEndpoints *)

ReconcileLock ==
    /\ writer = "none"
    /\ writer' = "waiting"
    /\ observed' \in Observations
    /\ UNCHANGED <<groupVars, loadVars, readers, waiting, pc, req, await, scanVars, lease>>

FreeCounters ==
    {k \in Counters : /\ \A n \in DOMAIN endpoints : endpoints[n].counter # k
                      /\ \A c \in Calls : lease[c] # k}

Added   == DOMAIN observed \ DOMAIN endpoints
Removed == DOMAIN endpoints \ DOMAIN observed

\* Mutated form of Reconciled: a new endpoint without a counter.
ReconciledNilCounter(fresh) ==
    [n \in DOMAIN observed |->
        [counter  |-> IF n \in Added THEN None ELSE endpoints[n].counter,
         adapters |-> observed[n]]]

\* Mutated form of Reconciled: observed endpoints replace the ones in the group.
ReconciledReplaced(fresh) ==
    [n \in DOMAIN observed |->
        [counter  |-> IF n \in Added THEN fresh[n]
                      ELSE CHOOSE k \in FreeCounters : \A m \in Added : fresh[m] # k,
         adapters |-> observed[n]]]

\* An endpoint that stays keeps its counter; only its adapters are refreshed.
Reconciled(fresh) ==
    [n \in DOMAIN observed |->
        [counter  |-> IF n \in Added THEN fresh[n] ELSE endpoints[n].counter,
         adapters |-> observed[n]]]

\* Mutated form of ReconciledHashes: removed endpoints stay on the ring.
ReconciledHashesKept ==
    [h \in DOMAIN chwblHashes \cup UNION {HashOf[n] : n \in Added} |->
        IF \E n \in Added : h \in HashOf[n]
        THEN CHOOSE n \in Added : h \in HashOf[n]
        ELSE chwblHashes[h]]

\* chwblAddEndpoint for the added names, then chwblRemoveEndpoint.
ReconciledHashes ==
    LET with == DOMAIN chwblHashes \cup UNION {HashOf[n] : n \in Added}
        kept == with \ UNION {HashOf[n] : n \in Removed}
    IN  [h \in kept |-> IF \E n \in Added : h \in HashOf[n]
                        THEN CHOOSE n \in Added : h \in HashOf[n]
                        ELSE chwblHashes[h]]

\* Lock, update, Unlock.
ReconcileApply ==
    /\ writer = "waiting" /\ readers = {}
    /\ \E fresh \in [Added -> FreeCounters] :
        /\ \A m, n \in Added : fresh[m] = fresh[n] => m = n
        /\ endpoints' = Reconciled(fresh)
        /\ inFlight' = [k \in Counters |->
                            IF \E n \in Added : fresh[n] = k THEN 0 ELSE inFlight[k]]
    /\ chwblHashes' = ReconciledHashes
    /\ writer' = "unlocked"
    /\ UNCHANGED <<totalInFlight, readers, observed, waiting, pc, req, await,
                   scanVars, lease>>

\* Mutated form of Broadcast: the old channel is replaced without closing it.
BroadcastNotClosed ==
    /\ writer = "unlocked"
    /\ observed' = [n \in {} |-> {}]
    /\ writer' = "none"
    /\ UNCHANGED <<groupVars, loadVars, readers, waiting, pc, req, await, scanVars, lease>>

\* broadcastEndpoints: close the channel, install a new one.
Broadcast ==
    /\ writer = "unlocked"
    /\ waiting' = IF DOMAIN observed = {} THEN waiting ELSE {}
    /\ observed' = [n \in {} |-> {}]
    /\ writer' = "none"
    /\ UNCHANGED <<groupVars, loadVars, readers, pc, req, await, scanVars, lease>>

-----------------------------------------------------------------------------
(* Specification *)

\* The steps a running goroutine takes by itself; Start, Cancelled and the end
\* of the request (DecTotal) are up to the client and the backend.
CallStep(c) ==
    \/ RLock(c) \/ AwaitUnlock(c) \/ AwaitEndpoints(c) \/ Woken(c)
    \/ UnknownStrategy(c) \/ LeastLoad(c) \/ LeastLoadVisit(c) \/ LeastLoadEnd(c)
    \/ PrefixHash(c) \/ WalkVisit(c) \/ WalkTake(c) \/ WalkSkip(c) \/ WalkEnd(c)
    \/ AddTotal(c) \/ AddEndpoint(c) \/ RUnlock(c) \/ DecEndpoint(c)

Call(c) == Start(c) \/ Cancelled(c) \/ CallStep(c) \/ DecTotal(c)

Reconcile == ReconcileLock \/ ReconcileApply \/ Broadcast

Next == Reconcile \/ \E c \in Calls : Call(c)

Spec == Init /\ [][Next]_vars

\* Goroutines that can run do run, and a reconcile that started finishes.  A
\* reader that waits for mtx gets it before the next writer: RWMutex.Unlock
\* admits all the readers that queued behind the writer.
Fairness ==
    /\ \A c \in Calls : WF_vars(CallStep(c)) /\ SF_vars(RLock(c))
    /\ WF_vars(ReconcileApply) /\ WF_vars(Broadcast)

FairSpec == Spec /\ Fairness

-----------------------------------------------------------------------------
(* Properties *)

TypeOK ==
    /\ endpoints \in EndpointMaps
    /\ chwblHashes \in HashMaps
    /\ totalInFlight \in Int
    /\ inFlight \in [Counters -> Int]
    /\ readers \subseteq Calls /\ waiting \subseteq Calls
    /\ writer \in {"none", "waiting", "unlocked"}
    /\ observed \in Observations
    /\ pc \in [Calls -> {"idle", "rlock", "fetch", "select", "errored", "panic",
                         "serving", "uncount"} \cup Scanning \cup Granted]
    /\ req \in [Calls -> Request]
    /\ await \in [Calls -> BOOLEAN]
    /\ todo \in [Calls -> SUBSET (Names \cup Nat)]
    /\ best \in [Calls -> Names \cup {None}]
    /\ load \in [Calls -> Int]
    /\ lease \in [Calls -> Counters \cup {None}]

\* Calls that have added themselves to totalInFlight, and to their endpoint.
InTotal    == {c \in Calls : pc[c] \in {"count", "runlock", "serving"}}
CountedOn(k) ==
    {c \in Calls : lease[c] = k /\ pc[c] \in {"runlock", "serving", "uncount"}}

(* No in-flight count leaks: whatever endpoints come, go and come back under
   the same name, the total is the number of calls between addInFlight(1) and
   decFunc, and every counter, that of a removed endpoint included, is the
   number of calls that will decrement it (group.go:82-85, 125-126, 147-150). *)
Conservation ==
    /\ totalInFlight = Cardinality(InTotal)
    /\ \A k \in Counters : inFlight[k] = Cardinality(CountedOn(k))

(* From the choice of an endpoint to the return of its address the endpoint
   stays in the group, with the requested adapter and with the counter that
   decFunc captured: no concurrent reconcile swaps it (group.go:68-86). *)
GrantIsCurrent ==
    \A c \in Calls : pc[c] \in Granted =>
        /\ best[c] \in DOMAIN endpoints
        /\ lease[c] = endpoints[best[c]].counter
        /\ Serves(best[c], req[c].adapter)

(* The ring holds exactly the replicas of the endpoints of the group, so the
   walk never meets a name without an endpoint and never panics
   (balance_chwbl.go:37-41, 86-105). *)
RingMatchesEndpoints ==
    /\ DOMAIN chwblHashes = UNION {HashOf[n] : n \in DOMAIN endpoints}
    /\ \A h \in DOMAIN chwblHashes : h \in HashOf[chwblHashes[h]]
    /\ \A c \in Calls : pc[c] # "panic"

(* The reconciler gets the write lock whatever the calls do, unless a call
   with an unsupported strategy left its read lock behind (group.go:54-86,
   109). *)
ReconcileFinishes ==
    writer = "waiting" ~> (writer = "none" \/ \E c \in Calls : pc[c] = "errored")

\* A call for the base model that is on its way and not given an endpoint yet.
Pending(c) == pc[c] = "rlock" /\ req[c].adapter = NoAdapter
Answered(c) == pc[c] \in Granted \cup {"idle"}

HasEndpoints == DOMAIN endpoints # {}

(* While reconciles with observed endpoints keep coming and the group stays
   non-empty, every call for the base model gets an endpoint, unless it is
   cancelled (group.go:56-64, 134-136). *)
ServedIfBroadcast ==
    ([]<><<Broadcast /\ DOMAIN observed # {}>>_vars /\ <>[]HasEndpoints)
        => \A c \in Calls : Pending(c) ~> Answered(c)

(* "It blocks until there are available endpoints in the endpoint group"
   (group.go:51-52): a call does not stay blocked for ever in a group that has
   endpoints for ever. *)
BlocksOnlyWithoutEndpoints ==
    <>[]HasEndpoints => \A c \in Calls : Pending(c) ~> Answered(c)

(* "It will block until an endpoint becomes available or the context times
   out" (load_balancer.go:188-189), for a call that needs an adapter: with an
   endpoint that has the adapter for ever, and broadcasts coming for ever, the
   call does not stay blocked. *)
AdapterCallIsServed ==
    \A c \in Calls : \A a \in Adapters :
        ( /\ []<><<Broadcast /\ DOMAIN observed # {}>>_vars
          /\ <>[](\E n \in DOMAIN endpoints : a \in endpoints[n].adapters) )
        => ((pc[c] = "rlock" /\ req[c].adapter = a) ~> Answered(c))

(* "MeanLoadPercentage is the percentage that any given endpoint's load must
   not exceed over the mean load of all endpoints in the hash ring"
   (model_types.go:193-195): an endpoint accepted by the load check is within
   the bound once the request is added to it, and to the total. *)
BoundedLoad ==
    [][\A c \in Calls :
        (WalkTake(c) /\ totalInFlight > 0) =>
            (load[c] + 1) * Cardinality(DOMAIN endpoints) * 100
                <= (totalInFlight + 1) * MeanLoadPercentage]_vars

-----------------------------------------------------------------------------
(* The inductive invariant behind the safety properties. *)

\* A call holds mtx exactly between RLock and RUnlock, or has leaked it.
LockInv ==
    \A c \in Calls :
        c \in readers <=> pc[c] \in Scanning \cup Granted \cup {"errored", "panic"}

Eligible(c, n) == n \in DOMAIN endpoints /\ Serves(n, req[c].adapter)

\* What a scan has yet to visit, and what it has kept, is in the group.
ScanInv ==
    \A c \in Calls :
        /\ pc[c] \notin {"scan", "walk", "walkTotal"} \cup Granted => best[c] = None
        /\ pc[c] = "scan" => todo[c] \subseteq DOMAIN endpoints
        /\ pc[c] \in {"walk", "walkTotal"} => todo[c] \subseteq DOMAIN chwblHashes
        /\ pc[c] = "walkTotal" => Eligible(c, chwblHashes[Position(c)])
        /\ (pc[c] \in {"scan", "walk", "walkTotal"} /\ best[c] # None) => Eligible(c, best[c])

\* A call refers to a counter exactly from the choice to the end of decFunc.
LeaseInv ==
    \A c \in Calls : lease[c] # None <=> pc[c] \in Granted \cup {"serving", "uncount"}

StructInv ==
    TypeOK /\ LockInv /\ LeaseInv /\ ScanInv /\ GrantIsCurrent /\ RingMatchesEndpoints

IInv == StructInv /\ Conservation

-----------------------------------------------------------------------------
(* Refinement: the group implements EndpointLeases.  A lease begins when the
   call is counted on the endpoint, under the read lock, and ends when decFunc
   uncounts it. *)

Holding == {"runlock", "serving", "uncount"}

wantBar == [c \in Calls |-> IF pc[c] \in {"idle", "errored"} \cup Holding
                           THEN None ELSE req[c].adapter]
heldBar == [c \in Calls |-> IF pc[c] \in Holding THEN lease[c] ELSE None]

Leases == INSTANCE EndpointLeases
            WITH members <- endpoints, load <- inFlight,
                 want <- wantBar, held <- heldBar

(* Every behaviour of the group, with all its locks, scans and atomic steps,
   looks to its callers like atomic grants and returns of leases
   (group.go:53-88, 108-150). *)
ImplementsLeases == Leases!Spec

=============================================================================

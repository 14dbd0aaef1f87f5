# KubeAI in TLA+

A verification project for KubeAI: a Kubernetes operator that runs inference
servers for `Model` resources, scales them with the load, and proxies OpenAI-style
requests (over HTTP or over a message broker) to them. The modules here model the
parts of it that are concurrent, that can fail half-way or that compute something
delicate; TLC checks them on small instances, and TLAPS proves the safety properties of the runs
for all instances.

Contents: [the system](#1-the-system) · [the modules](#2-the-modules) ·
[the runs](#3-the-runs) · [fairness](#4-fairness) · [the proofs](#5-the-proofs) ·
[known divergences](#6-known-divergences) · [not modelled](#7-what-is-not-modelled) ·
[plan](#8-plan). `PROJECT.json` lists every definition with the lines it models,
every hazard with the property that guards it, and a mutant for every property.

    tlc -workers 2 -config EndpointGroup_safety.cfg MCEndpointGroup
    tlapm EndpointGroup_proofs.tla

## 1. The system

A request takes this way. The **proxy** (`internal/modelproxy`) or the **messenger**
(`internal/messenger`) parses it, looks up the Model, counts the request as active,
makes sure that the Model has at least one replica, and asks the **load balancer**
(`internal/loadbalancer`) for an address; the load balancer blocks until the group
of endpoints of the Model can give one, and the caller returns the lease when it is
done. The **model controller** (`internal/modelcontroller`) creates the Pods the
Model asks for, loads adapters into them and manages files and cache. The load
balancer watches the Pods. The **autoscaler** (`internal/modelautoscaler`), on the
elected leader only, scrapes the active requests of all instances of KubeAI and
writes the replicas.

| Part | State | Operations | What is hard | What makes it correct |
|---|---|---|---|---|
| endpoint group (`group.go`, `balance_*.go`) | endpoints, in-flight counters, hash ring, a read/write lock, the broadcast channel | getBestAddr, decFunc, reconcileEndpoints, broadcast | atomics outside the lock, endpoints that go and come back while leased, lost wake-ups | no count leaks; a grant is current; ring = endpoints; waiting calls are served |
| hash ring (`balance_chwbl.go`) | map of hashes, sorted slice | add, remove, search, walk | hand-written binary search, wrap-around | slice = map; walk clockwise and complete; few keys move |
| load balancer (`load_balancer.go`) | table of groups, own addresses, work queue | Reconcile of a Pod | merged events, reads that age between list and update | ready Pods, and only they, get requests |
| autoscaler, moving average, scale client, leader flag | averages, scale-down counters, saved state, `Spec.Replicas` | tick (list, scrape, scale, save), scale from zero | unconditional writes of stale reads, change of leader in a tick, restarts | scale-down delay; held requests are served |
| model proxy | per request: attempt, leases, answer | ServeHTTP, proxyHTTP, retry | nested retries, cancellation at any point | no leak; one answer; bounded retries; returns |
| messenger | semaphore, handlers, the subscription; the broker's messages | Start, handleRequest, sendResponse | redelivery, deadlines, stop and restart | no ack without answer; every message acked |
| Pod plan | the Pods, a cache of them | calculatePodPlan, execute | counts that interact; plans that fail half-way or are made from an old list | no ready Pod given up; rollouts complete |
| engines, model source, patches | none: functions from Model and configuration to a Pod | vLLMPodForModel etc. | parts that append to one Pod without looking at each other; map iteration | one hash per Model; Pods are accepted; the server finds the weights |
| adapters | files, loaded adapters and labels of each Pod | reconcileAdapters | a chain of calls, each of which may be the last | labels, servers and Model converge |
| model files, cache and headless Service | ConfigMap, PVC annotation, Jobs, directories, finalizer, Service | Reconcile, reconcileCache, finalizeCache | objects named after the Model and owned by its UID; Jobs that fail, expire or run too long | Pods start on a filled cache; evicted before gone |
| manager (`run.go`, `main.go`, `config/system.go`) | configuration, one goroutine per component, servers | load, default and validate, launch, shut down, return | a signal at any time; waiting in a circle at the end; the order of shut-down | Run returns; metrics outlive the requests |

The parts meet in few places: a group (leases: `EndpointLeases`), the active-request
metric, `Spec.Replicas`, and the labels and readiness of Pods.

## 2. The modules

An action is one handler step between two points at which something else can
happen: a lock operation, an atomic access, an API call, a channel operation. Names
follow the code. Comments name the lines; `PROJECT.json` has the full map.
Definitions that say "Mutated form of" are alternatives with a plausible bug, used to
check that the properties notice.

**EndpointGroup** - `group.getBestAddr` with both strategies (`LeastLoad`,
`PrefixHash` with bounded loads), `decFunc`, `reconcileEndpoints` and the broadcast.
Calls have a program counter: `Start`, `RLock`, then either the wait (`AwaitUnlock`,
`AwaitEndpoints`, `Woken`, `Cancelled`) or a scan under the read lock, endpoint by
endpoint, since other calls change the counters meanwhile; then `AddTotal`,
`AddEndpoint`, `RUnlock`, and later `DecTotal`, `DecEndpoint` without the lock. The
writer-preferring lock of Go is `readers` and `writer`. A counter is an object of its
own (`Counters`), as in Go, so that a removed endpoint and a new one of the same name
are told apart. Hashes are positions on the ring (`HashOf`), distinct by assumption.

**EndpointLeases** - what a group promises its callers: atomic `Ask`, `Grant`,
`Return`, `GiveUp` and `Update`. `EndpointGroup` implements it (`ImplementsLeases`:
a lease begins when the call is counted on the endpoint and ends when it is
uncounted); **ModelProxy** is built on it instead of on the detailed group.

**HashRing** - `chwblAddEndpoint`, `chwblRemoveEndpoint`, `chwblDeleteSortedHash`,
`chwblSearch` and the walk, on the real data structures (map and sorted slice), compared
with a reference definition by sets. In EndpointGroup the ring is that set. The loops are
recursive functions (`BinarySearch` over the pair of its bounds, `DeleteAll` over the replicas), so
that they can be proved about. A ring may be empty: a replication of 0 passes the validation of
the Model (model_types.go:200-206), `chwblGetAddr` then finds nothing (balance_chwbl.go:15-17),
and nothing is looked up.

**LoadBalancer** - the Pod controller: a queue that holds a Pod once, one worker that
gets the Pod, lists, looks up the Model and updates the group; Pods, Models and the
failing API are the environment. Pods have addresses here, and nowhere else.

**Autoscaler** - ticks of the instances as list, scrape, scale and save; requests
that arrive, scale from zero, wait and are served; election, loss of leadership, restart
with the saved average. `downTicks` is a history variable. Averages are exact, in
multiples of `1/Unit`; float64 rounding is left out. The window and the required number of
scale-downs are computed from the configured durations, with the code's rounding up; the
ring buffer of the moving average is its values, oldest first.

**ModelProxy** - ServeHTTP and proxyHTTP; the recursion of retries is a stack of
attempts, each with its lease, that is unwound when the request ends.

**Messenger** - the receive loop with its semaphore and back-off, handlers, and an
at-least-once broker with ack deadlines, with and without Nack; a stop, and a new process.
When Receive fails the subscription is shut down and opened again; the handlers that hold messages
of the old one (`orphans`) can no longer ack or nack them. The count of consecutive errors is left
out: it only sets how long `Backoff` sleeps. Of an answer it matters whether it has a body.

**PodSpec** - the Pod that is built for a Model: the four engines, the additions of the
source of the weights (`authFor*`, `pvcPodAdditions`, `ociPodAdditions`), the patches for files,
adapters and cache, and the validation rules that say which Models there can be
(`Admitted`) and what they can be changed to (`AdmittedChange`). Pure operators: a Pod is
its containers (where the server is told to load from, arguments, environment in order,
mounts, startup probe), volumes, pull secrets and patches. `Iterations` is the order
in which Go may iterate over a map, `ValidPod` what the API server asks of volumes and mounts.
What appends to a Pod does so with `Extended`. A Model's files are a list of distinct paths out of
`UserPaths`, any absolute paths, also those where an engine or a patch mounts something (`Taken`).
`PodHash` is the identity: that no two Pods built for one Model have the same 32-bit FNV hash
(k8sutils/pods.go:28-41) is assumed.

**Rollout** - `calculatePodPlan` and `execute` over the Pods of PodSpec: the Model is a record of
its fields, and the hash is that of the Pod built for it. `view` is the informer's cache, from
which plans are made; it follows `pods` unless a `Lag` keeps it back, until `Sync`. A Model
that cannot be resolved has no plan, and a Pod that is not valid is refused. The comparator
that orders Pods for deletion is not an order for Pods of two old hashes; the model
allows what the sort may make of it.

**Adapters** - a pass of `reconcileAdapters`, one step per call (load files, load
into the server, label, unload, remove files, remove label). Servers differ in how they refuse to
unload what they do not have: those in `Nested` reply in the form that the client decodes
(client.go:80-82), the others in that of its own comment (client.go:61), which it takes for an error.
`touched` is a history variable: the adapters changed or removed after they were added.

**ModelCache** - Reconcile in its order: files, self labels and replica bounds,
profiles, deletion with eviction, cache, headless Service, Pods (one step), status. Models of
one name are made one after the other; Jobs and ConfigMap carry the UID they belong to.
Users edit files, set and remove the cache profile, and change the URL of a Model without one;
operators restart KubeAI in the other proxy mode or without the profile. Five history variables
name the Models that the properties leave out: those whose load Job wrote behind an eviction
(`raced`), whose URL changed without a profile (`moved`), that took a complete Job of a forerunner for
their own (`adopted`), that lost the PVC between their load Job and their Pods (`emptied`), and for
which the ConfigMap of a forerunner was updated (`inherited`).

**Manager** - one process: the configuration is read, defaulted and validated, the components of the
mode are set up and launched, each with a control point of its own, and `Return` is the end of
`wg.Wait`. Requests and handlers appear as far as the end of the process depends
on them: they wait for an endpoint, which only the controllers report; requests give up with the
context of the process (the servers' `BaseContext`), handlers do not.

`MC*.tla` give constants their values where a `.cfg` cannot.

## 3. The runs

States are distinct states; all runs finish within three minutes with two
workers.

| Run | Instance | Checks |
|---|---|---|
| `group_safety` (654,025) | 2 calls, 3 endpoints, 4 counters, both strategies, with and without adapter | `TypeOK`, `Conservation`, `GrantIsCurrent`, `RingMatchesEndpoints`, refinement `ImplementsLeases` |
| `group_live` (75,638) | 2 calls, 1 endpoint, 3 counters, also an unknown strategy | `ReconcileFinishes`: the write lock is had, whatever calls do; `ServedIfBroadcast` |
| `hash_ring` | 7 endpoints with 1 to 3 replicas in interleaved order, all keys | `SliceMatchesMap`, `WalkIsClockwise`, `MinimalDisruption` |
| `autoscaler` (289,729) | 2 instances, 1 request, window 2, delay of 2 ticks, 1 restart, loss of leadership or switching off | `DelayedScaleDown`, `HeldRequestIsServed` |
| `proxy` (58,893) | 2 requests (base, adapter), 1 retry, 1 endpoint | `NothingLeaks`, `OneAnswer`, `RetriesAreUsed`, `HandlerReturns` |
| `adapters` (321,061) | 2 Pods, one of them in `Nested`, 2 adapters, 2 URLs, 3 changes, 2 failures | `QuietMeansLabelled`, `QuietMeansServed`, `QuietMeansClean`, `AdaptersConverge` |
| `rollout` (61,419) | 4 Pods (replicas, surge and one that a stale plan adds), up to 2 replicas, surge 1, 3 Models (of two engines and sources, one with adapters, one that does not resolve), 3 events; files at none, one or both of a free path (`/model`, taken with pvc:// and oci://) and a taken one (`/dev/shm`) | `TypeOK`, `PlansKeepReadyPods`, `PlansDoNotGrow`, `UpToDateIsLeftAlone`, `RolloutCompletes`; `PodsAreValid` and `ServerFindsModel` for all Models the present one can be changed to |
| `messenger` (485,558) | 2 messages (1 with Nack), 2 handlers, 1 failure (of Send or of the subscription), 1 expiry, 1 stop | `AckedIsAnswered`, `ActiveIsExact`, `EveryMessageIsAcked` |
| `load_balancer` (1.35 M) | 2 Pods of a Model, 1 Pod of KubeAI, 1 restart, 1 relabelling, 1 failure | `QuietMeansRouted`, `QuietMeansReady`, `QuietMeansScraped` |
| `model_cache` (1.29 M) | 2 Models of one name, 2 events of edits, failures and deleted PVCs | `PodsHaveTheirCache`, `FilesUpToDate`, `EvictedBeforeGone`, `Settles` |
| `manager` (263,592) | all configurations with up to 2 handlers, 1 request, 3 messages | `MetricsOutliveRequests`, `RunReturns`, `MessengerProceeds` |
| `group_adapterwait` | 1 adapter | violated: `AdapterCallIsServed`, see 1 in [section 6](#6-known-divergences) |

Why these bounds: each property relates at most two actors of a kind (two calls and
a reconcile, two instances, two Models of a name, an old and a new version and one
before), and each instance has them, with one event more of every kind of failure than
the unharmed behaviour. The counters of failures, restarts and edits only bound how
often the environment acts; the code is not bounded. Where `MaxEvents` bounds several kinds
of events together, every combination of that many is tried: two events are what an
interrupted clean-up takes, three a change of the Model, a roll-back and a failure, or
a change and a lag of the cache (which counts as two). The four counters of
`group_safety` let an endpoint come back with a new counter while old ones are
leased; three endpoints are what it takes for the load check to skip one. `CHECK_DEADLOCK FALSE` is set where the bounded environment may run out of things
to do while the system rests.

## 4. Fairness

- goroutines that can run do (weak fairness of each call, handler, tick, worker step);
- Go's lock does not starve a reader (strong fairness of `RLock`: a waiting
  writer blocks new readers, but not twice in a row), and gives a waiting writer the
  lock once the readers are gone;
- `ServedIfBroadcast` and `AdapterCallIsServed` assume, in the formula, that Pods
  keep having events; this is not assumed of the system, since a quiet cluster has none;
- the controllers' queues are served, failed reconciles are queued again, and some
  loader, kubelet, Job, time to live and garbage collection make progress;
- backends answer or their connections fail; the broker redelivers; a stopped process
  is started again. `Messenger` also assumes that a Model gets an endpoint in the end;
- in `Autoscaler` fairness is that of some instance, not of each: the tick of an instance that
  no longer leads may stay where it is;
- in `Rollout` the cache catches up (`Sync`) in the end, and Pods get scheduled and ready;
- in `Manager` the goroutines run, client-go's election returns when the context is done and
  backends answer; the signal, lost elections, failures and endpoints are not fair, and the
  messenger is not assumed to receive anything.

Users and failures are never fair: nothing relies on an edit, a deletion or a crash.

## 5. The proofs

Eight modules of proofs (`tlapm <component>_proofs.tla`), one beside each component;
`LoadBalancer_proofs` also has the proofs about HashRing and Manager, whose specifications are
`RingSpec` and `RunSpec`. Each has an inductive invariant (`IInv`, `RingInv`, `RunInv`) with
`Invariance == Spec => []IInv`, and the theorems that follow. They state every invariant and every
action property that the runs check, and the refinement; what is left to TLC is liveness. They
hold for every value of the constants that the named assumptions admit: any sets of Pods, Models,
requests, messages and adapters, any number of replicas, failures, edits, restarts and retries.
The bounds of section 3 are parameters, and nothing is bounded by a particular number.

| Module | Theorems | What the invariant adds to them |
|---|---|---|
| `EndpointGroup_proofs` | `TypeCorrect`, `CountsAreConserved` (`Conservation`), `GrantsAreCurrent` (`GrantIsCurrent`), `RingIsConsistent` (`RingMatchesEndpoints`), `GroupImplementsLeases` (`ImplementsLeases`) | who holds the lock, what a scan has kept, who has a lease |
| `LoadBalancer_proofs` | `Routed`, `Ready`, `Scraped` (`QuietMeans...`) | what may be out of date is in the queue or in the worker's hands |
| the same, on `HashRing` | `RingMatches` (`SliceMatchesMap`), `RingIsWalkedClockwise` (`WalkIsClockwise`), `RingDisruption` (`MinimalDisruption`) | that the slice is one, of numbers |
| the same, on `Manager` | `MetricsLast` (`MetricsOutliveRequests`) | which components were launched, and what is over once a server is shut down |
| `ModelProxy_proofs` | `NoLeak` (`NothingLeaks`), `AnsweredOnce` (`OneAnswer`), `RetriesUsed` (`RetriesAreUsed`) | which frames of the stack of attempts may hold a lease |
| `Messenger_proofs` | `AckedAnswered` (`AckedIsAnswered`), `ActiveExact` (`ActiveIsExact`) | handlers that work have a message, those that answer an answer |
| `Adapters_proofs` | `LabelledWhenQuiet`, `CleanWhenQuiet`, `ServedWhenQuiet` (`QuietMeans...`) | without an event since, a plan is the plan for what is there |
| `ModelCache_proofs` | `CacheOfPods` (`PodsHaveTheirCache`), `FilesWhenIdle` (`FilesUpToDate`), `EvictionBeforeRemoval` (`EvictedBeforeGone`) | whom Jobs and ConfigMap belong to, and what finalizer, annotation and eviction stand for |
| `Autoscaler_proofs` | `ScaleDownIsDelayed` (`DelayedScaleDown`) | who may have counted, and for which ticks |
| `Rollout_proofs` | `TypeCorrect` (`TypeOK`), `ReadyPodsAreKept` (`PlansKeepReadyPods`), `PodsAreBounded` (`PlansDoNotGrow`), `UpToDateStays` (`UpToDateIsLeftAlone`), `PodsValid` (`PodsAreValid`), `WeightsFound` (`ServerFindsModel`) | the Pods in the cache are such as there are |

### The arguments

*Endpoint group.* `GrantIsCurrent` needs to know that a call which has chosen an endpoint still
holds the read lock (`LockInv`), so that no reconcile can come in between, and that what a scan has
kept so far is in the group and eligible (`ScanInv`). The latter needs `RingMatchesEndpoints` for the
walk, which steps through the ring and looks the name up in the endpoints. `Conservation` counts
calls by program counter and lease, so it needs to know who has a lease (`LeaseInv`), and that a
fresh counter is not leased by anyone: `Reconciled` takes one that no call refers to, as a newly
allocated one in Go. The induction is split accordingly: `TypeStep`, `LockStep`, `ScanStep`,
`RingStep` and `ConservationStep` each prove one part from `StructInv`. `LeasesStep` maps every step to
a step of `EndpointLeases` or to none: only `Start`, the steps that give up, `AddEndpoint`,
`DecEndpoint` and `ReconcileApply` are visible.

*Load balancer.* `EventInv` is the reason why merged events and old lists do no harm: of a Pod with
no event in the queue the group is right, or the worker has the Pod in hand; and a list the
worker has already made agrees with every such Pod, since a change after the list puts an event
into the queue. When the queue is empty and the worker idle, only "the group is right" is left.

*Hash ring.* `RingInv` is inductive because of what the algorithms compute, for slices of any
length. `Ranks` and `SortedFacts`: of a slice without repetitions the sort is an ascending one of the
same elements. `BinarySearchFacts`: between two bounds in an ascending slice the loop finds the value
if it is there, and 0 otherwise; `DeleteFacts` and `DeleteAllFacts`: what is taken out leaves an ascending
slice of the rest. `WalkFacts` turns the remainder of the index into "ahead of the key, then from
the start", and `NextHashFacts` says that this is the clockwise order. Induction is done without
an induction theorem: if a statement failed for some width of the bounds, or some number of
replicas, it would fail for a least one (`Minimum`, from the well-foundedness of `<`), and one step of
the recursion refutes that. `RingDisruption` compares the owner of a key, which is the
first of its walk, before and after: a set of hashes that grows or shrinks by those of one
endpoint changes the next hash only to or from that endpoint. The property says nothing of a ring that is
empty before or after, where no look-up takes place.

*Manager.* `LaunchInv` says which control points a component has in each phase, and `ShutdownInv`
that past the shut-down of the API server nothing is in flight, and that Run returns only after
both servers are shut down. A request that comes later is refused, because `Accept` needs the server.

*Proxy.* The stack of attempts is a function from depth to lease; `FrameInv` says that frames above
the current one, and the current one while it asks, hold none. With that the two sums of
`NothingLeaks` change by one where the code adds and subtracts. `OneAnswer` needs that nothing is
written before the last attempt (`AnswerInv`), and that what is written is one (`SingleInv`).

*Messenger.* A handler that finishes has a message and an answer (`InHandInv`), so what it acks was
sent. `ActiveIsExact` is an invariant of its own once the handlers are finitely many.

*Adapters.* `QuietMeansServed` holds whatever failed, for what was added once: `OnceInv` says that such
an adapter is never planned for removal, known to plan, label and server from no other URL, and loaded wherever
its label is. `LoadedInv`: without failures what is planned for removal is still loaded, so no unload
is refused. `LabelInv`: as long as no event has come since the plan was made, it is the plan for the
present state, and the Pods that are passed needed nothing. `SettledInv`: without failures
labels, files and server of a Pod differ only in the adapters that the pass is about to
unload, or in the one that it is loading. `PlanInv` is why a label is never written over another:
an adapter that is loaded from another URL is planned for removal as well.

*Model cache.* Everything is keyed by the UID. `UIDInv` and `ReadInv` relate the Model that the
reconcile has read to the one that is there; `JobInv` says whom the two Jobs can belong to,
and at which steps there are none; `EvictInv` follows a directory from the PVC over the eviction to the removal of the
finalizer, and `CacheInv` from the completed Job over the annotation to the Pods; `URLInv` and
`moved` say for which UIDs the URL is the one that was loaded. `FilesInv` follows the ConfigMap from
the read of the Model to the end of the reconcile, for every Model that did not inherit it. Since the module has thirty kinds
of steps and eight conjuncts, the steps are first sorted (lemmas that say what a kind of step
changes and leaves alone), and each conjunct is then proved over the kinds it depends on.

*Autoscaler.* `CountInv` is the bound itself: the counter of an instance that can still scale down
is at most the length of a row of ticks (`downTicks`, a history variable) that asked for it, all
by one leader. `FreshInv` says who has not counted anything, before and after the one change of
leader that the property admits, and `SwitchInv` that autoscaling which was switched off is not
on again. `DelayInTicks` is the arithmetic of the delay: the rounded-up number of ticks lasts for
the delay or longer, for every interval. The averages are left out of the invariant: whatever a tick
desires, what matters is how it compares with what was read.

*Rollout.* The theorems are about single plans. `ExcessSparesReady` (scaling down deletes ready Pods
only when all others are deleted, hence at most those beyond the desired number) and
`RecreatedFacts` (one ready Pod at most is recreated, and only if all the desired are ready) give
`PlanKeepsReady`; `ReplacementsFacts` (no more is created than recreated) gives `PlanDoesNotGrow`.
They hold for any relation between the versions of the Pods, though the comparator of the sort is not
an order: only its first criterion is used. `IterationIsComplete` (an iteration of a map, of as many
distinct keys as there are, has them all) gives `OnePodPerModel`: the names are filtered from their
sorted list, so all orders of iteration build the same Pod, no Pod that was built for the
Model is out of date, and with the right number of them nothing is left to plan (`NothingToPlan`).
The invariant is needed because plans are made from the cache, which may hold Pods that are gone.

*Pods.* `PodsValid` and `WeightsFound` follow a Pod through the patches that append to it. `Built` bounds
the volumes and the paths of the server so far, and `BuiltGrown`, `BuiltBeside` and `BuiltWith` say that one
more volume, mount or container is harmless if it is new. One lemma per patch then adds
its own (`BaseBuilt`, `FilesBuilt`, `AdaptersBuilt`, `CacheBuilt`, `FinishedOutcome`), the files for any list of
distinct paths. What can clash are the credentials for Google Cloud of the source and of the adapter
loader (19 in section 6), and a file with what else is mounted at its path (25), the two exceptions in
`PodsAreValid`. `Right` relates the load flag to the mounts,
though they are computed apart. Neither depends on the steps of Rollout: the statements are about
every Model and every order in which the map of its environment is iterated.

### Assumptions

All are evaluated by TLC in the runs, and none is about behaviour.

- `HashAssumption` and `ReplicasAssumption`: ring positions are naturals, distinct between endpoints. The code keeps going
  with colliding hashes, wrongly; 64-bit collisions are assumed away.
- Finitely many calls, requests, handlers (the semaphore has a capacity), instances of KubeAI and names
  of Pods: what is counted is countable.
- The names of the environment are a sequence without repetitions, in the order `sort` gives them.
- `UserPaths` is finite (model_types.go:137 allows ten files of a Model).
- No two Pods that are built for one Model have the same hash: `PodHash` is the identity. This is the
  one assumption that is in a definition; the code's hash has 32 bits.
- Special values are none of the ordinary ones (`None`, `NoAdapter`), and the Pods of Models are not
  those of KubeAI.
- Numbers of the configuration are naturals, and those the code divides by are not zero (defaults
  and validation in system.go and model_types.go).

### What the proofs changed

Two properties had held in their runs because the instance was too small, and were made to say
what the code does; a third place could not be reasoned about.

- `PodsHaveTheirCache` claimed the first URL of a Model for all Models that made their own Job.
  With four events the URL changes while the profile is away (see 16 in section 6). It now has
  two parts: the cache is complete, for all of them, and it is loaded from the Pod's URL, for
  those whose URL did not change (`moved`, a history variable).
- `DelayedScaleDown` counted as a scale-down whatever left fewer replicas than before. With two
  replicas, the new leader, which has read none, may scale *up* to one over the two that the last
  leader's tick has just written (the writes are unconditional, scale.go:75-80). It now is about
  ticks that write fewer replicas than they have read, and only about the first time that
  autoscaling is switched off.
- `Create` in Rollout chose a free name with no guard, so that it was unspecified what a step beyond the
  bound on names does. It has the guard `FreeNames # {}` now, and the number of states is the same.
- `MinimalDisruption` spoke of the owner of a key on an empty ring, where there is none and the index of the
  walk is a remainder by zero. It says now that there are hashes before and after.
- `vLLMModelFlag` was a `CASE` whose guards overlap (a cached Model from a bucket), and so did not say
  which flag there is. It is the chain of conditions of engine_vllm.go:20-31 now.

### Only model-checked

- Liveness (`ReconcileFinishes`, `ServedIfBroadcast`, `HeldRequestIsServed`, `HandlerReturns`,
  `AdaptersConverge`, `RolloutCompletes`, `EveryMessageIsAcked`, `Settles`, `RunReturns`,
  `MessengerProceeds`): TLAPS has no support for fairness and ENABLED.
- Values of averages and replicas in Autoscaler (a fold over the window).

## 6. Known divergences

What the code does and its documents or comments say differently. The first is a run
of the project; the others are reproduced with `tlc -config <cfg> <module>`, which
reports the named property as violated (a cfg that names several reports the one with the shortest
behaviour; the others show when it is taken out).

1. **A call for an adapter waits for ever** (`group_adapterwait`, `AdapterCallIsServed`).
   After a search without result `getBestAddr` calls itself with
   `awaitChangeEndpoints = true` (group.go:79), and the loop at group.go:56 never clears
   the flag: every broadcast starts the next wait.
2. **Lost wake-up** (`EndpointGroup_lostwakeup.cfg`, MCEndpointGroup,
   `BlocksOnlyWithoutEndpoints`). The lock is released (group.go:57) before the channel is
   fetched (59); a reconcile in between is missed, and the call sleeps in a group with
   endpoints until the next one ("It blocks until there are available endpoints", group.go:51).
3. **Load bound exceeded** (`EndpointGroup_boundedload.cfg`, MCEndpointGroup, `BoundedLoad`).
   The load check counts the new request in the threshold but not in the load
   (balance_chwbl.go:157-160; model_types.go:193).
4. **Unknown strategy**: group.go:74 returns with the read lock held, for ever; the
   CRD's validation keeps such a strategy out. `ReconcileFinishes` excludes it.
5. **No delay after autoscaling is switched on again** (`Autoscaler_toggle.cfg`, MCAutoscaler,
   `AlwaysDelayed`): the counter of scale-downs is not reset while a Model is skipped
   (scale.go:59; model_types.go:120).
   Neither is there when the leader changes (`Autoscaler_twoleaders.cfg`, MCAutoscaler,
   `AlwaysDelayed`): each instance counts its own ticks, and the last one may still be under way.
6. **A request scales down** (`Autoscaler_fromzero.cfg`, MCAutoscaler, `RequestsOnlyScaleUp`).
   It reads zero replicas and later writes 1 over what the autoscaler wrote (scale.go:30-33).
7. **A held adapter request is not counted** (`Autoscaler_adapter.cfg`, MCAutoscaler,
   `HeldRequestIsServed`): the proxy counts under `model_adapter` (handler.go:77), the
   autoscaler looks up `model` (autoscaler.go:145), scales to zero, and nothing scales up
   again (docs/concepts/autoscaling.md:3).
8. **Adapter of an old URL** (`Adapters_lostadapter.cfg`, Adapters, `ServedDespiteFailures`).
   The label for the new URL is written before the old adapter is unloaded
   (adapters.go:90-94); a failure in between leaves the old one served, with nothing to do. And an
   adapter that was unloaded, kept its label because the removal failed, and is then added again from the
   same URL, is not loaded again. `QuietMeansServed` leaves out what was changed or removed.
9. **Label without adapter** (`Adapters_lostadapter.cfg`, Adapters, `LabelledIsLoaded`): unloaded
   before the label is removed (adapters.go:103-111).
10. **Surge exceeded** (`Rollout_overshoot.cfg`, MCRollout, `PlansStayInSurge`): a scale-down in a
    rollout creates Pods beyond replicas and surge (pod_plan.go:135; system.go:141).
11. **No drain** (`Messenger_drain.cfg`, Messenger, `DrainedAtReturn`): a stop in Receive returns
    before the loop that waits for the handlers (messenger.go:95, 163).
12. **Empty answer** (`Messenger_emptybody.cfg`, Messenger, `AckedHasBody`): a backend's body
    that is not JSON is sent as an empty message and acked (messenger.go:324).
13. **Vanished Pod** (`LoadBalancer_vanished.cfg`, MCLoadBalancer, `EndpointsAreCurrent`): a Pod that
    is gone when its event is looked at stays in its group until another Pod of the
    Model has an event; one that restarted between two looks keeps its old address
    (load_balancer.go:56, group.go:112).
14. **Job of another Model** (`ModelCache_forerunner.cfg`, ModelCache, `FilledOnItsPVC`): the finalizer is
    removed before the Jobs (cache.go:206-212). After a crash in between a new Model of the same
    name takes the completed load Job of the old one for its own, and its Pods
    start on an empty directory (cache.go:99).
15. **Files left behind** (`ModelCache_forerunner.cfg`, ModelCache, `LeavesNoFiles`): a load Job that is
    still running is not stopped before the eviction and writes the directory again
    (cache.go:180; docs/concepts/storage-caching.md:31).
16. **Stale cache used** (`ModelCache_moved.cfg`, ModelCache, `FilledOnItsPVC`): the comment at
    cache.go:76 says that the URL is immutable. It is while there is a cache profile; the profile can
    be removed (a transition rule on an optional field does not apply to its removal), the URL
    changed, and the profile set again. The annotation still has the UID of the Model.
17. **A Model that cannot be deleted** (`ModelCache_undeletable.cfg`, ModelCache, `DeletedModelsGo`):
    with the profile removed the finalizer is no longer handled (model_controller.go:127).
18. **Plans from an old list** (`Rollout_lag.cfg`, MCRollout, `StalePlansKeepReadyPods`): when the sleep
    of three seconds (model_controller.go:185) was not enough, a plan may take the ready Pods
    below the replicas; `RolloutCompletes` holds nevertheless.
19. **Credentials mounted twice** (`Rollout_bucket.cfg`, MCRollout, `RolloutCompletes`): a Model with weights in
    gs:// and adapters has the volume `gcp-credentials` from the adapter loader
    (adapters.go:218) and from its source (engine_vllm.go:164); no Pod of it is accepted.
20. **Sources the server is not told of** (`Rollout_engines.cfg`, MCRollout, `DocumentedSourcesAreFound`): for
    pvc:// and oci:// Infinity and FasterWhisper get the reference in the URL, and not `/model`
    where the weights are mounted (engine_infinity.go:24; model_types.go:40-45).
21. **Startup probe of Ollama** (`Rollout_engines.cfg` with `tlc -continue`, MCRollout,
    `ProbeRunsScript`): `bash -c` gets the script in one argument per word, of which it runs
    the first (engine_ollama.go:106-109).
22. **No end while a handler waits** (`Manager_drain.cfg`, Manager, `RunAlwaysReturns`): the drain waits for
    handlers, handlers wait for an endpoint with a context of their own (messenger.go:220),
    and the controllers that would report one have stopped.
23. **Stranded label** (`Adapters_stranded.cfg`, Adapters, `AlwaysConverge`): an adapter is unloaded and the removal
    of its label fails (adapters.go:111). The next pass unloads again, and the client recognises the
    refusal only in a reply with the error under the key `error` (client.go:62, 80-82); the reply its comment
    shows (client.go:61) has none. Every pass then fails there, before the label goes and before
    the Pods after it, though adapters.go:104-106 says that the error is ignored.
24. **ConfigMap of a forerunner** (`ModelCache_forerunner.cfg`, ModelCache, `FilesAlwaysUpToDate`): a Model made again under
    its name finds the ConfigMap of the deleted one, not yet collected, and updates its data but not
    its owner (files.go:72-76). The garbage collector removes it; the controller does not watch ConfigMaps
    (model_controller.go:216-222), so Pods started later lack their files until another event.
25. **File in the way** (`Rollout_engines.cfg` with `tlc -continue`, MCRollout, `FilesAreMounted`): any absolute path is
    admitted for a file (model_types.go:216-220). At one where the Pod has another mount, such as
    `/dev/shm`, `/adapters` or `/model`, the API server refuses the Pod and the rollout never completes.
26. **PVC lost after loading** (`ModelCache_emptied.cfg`, ModelCache, `AlwaysFilled`): if the PVC is deleted and
    made again while the load Job is complete and not yet deleted, the Job is taken for the content of the new,
    empty volume (cache.go:99-121), which is annotated, and Pods start on it.

Where a property of a passing run says "unless", "but for" or "left out", it excludes only these: 4 for
`ReconcileFinishes`, 5 for `DelayedScaleDown`, 7 for `HeldRequestIsServed`, 8 for `QuietMeansServed` and
`QuietMeansClean`, 13 for `QuietMeansReady` and `QuietMeansScraped`, 14, 16 and 26 for `PodsHaveTheirCache`,
14 and 15 for `EvictedBeforeGone`, 17 for `Settles`, 18 for `PlansKeepReadyPods`, 19 and 25 for
`PodsAreValid`, 20 for `ServerFindsModel`, 22 for `RunReturns`, 23 for `AdaptersConverge`, 24 for
`FilesUpToDate`.

## 7. What is not modelled

- **Lag of the informer cache** in Adapters, LoadBalancer and ModelCache: reads return what is there.
  Rollout has it, where the code itself counts on it (model_controller.go:181-185).
- Metrics other than the active requests, logging, tracing; message formats and the
  rewriting of bodies (`apiutils` appears by its outcomes); the OpenAI types.
- Of Pods, what is the same for all Models of a resource profile or copied from a field: probes
  other than Ollama's, resources, security contexts, labels; the templates of Jobs and Services.
- The lease protocol of leader election (client-go): two instances are never elected
  at a time, but a tick of the old leader may still run.
- The OpenAI server's routes and listing, charts, benchmarks, examples; of the configuration all
  values but the mode, the number of handlers and the durations of the autoscaler.
- Two file paths with the same ConfigMap key (files.go:118).

## 8. Plan

Done: one module per component above, the construction of Pods, the lag of the cache in rollouts, the
life of the process, and proofs of all the safety properties that the runs check.

1. *Extend*, if more is wanted: a composition of LoadBalancer with EndpointLeases, so that a Pod
   that goes is followed to the last request on it; several Models in the autoscaler; the lag
   of the cache in ModelCache.
2. *Prove*: the walk of EndpointGroup, which is stated on sets, from that of HashRing, by a
   composition of the two modules; an at-least-once service as the abstract specification of Messenger.

---------------------------- MODULE LoadBalancer ----------------------------
(***************************************************************************)
(* The Pod controller of the load balancer                                 *)
(* (internal/loadbalancer/load_balancer.go): it keeps, for each Model, a   *)
(* group of endpoints in line with the ready Pods of the Model, and the    *)
(* addresses of the ready Pods of KubeAI itself.                           *)
(*                                                                         *)
(* The controller has one worker and a queue that holds a Pod once,        *)
(* however many events it had: what the worker sees is the state at the    *)
(* time it looks, not the event.  It looks up the Pod, lists the Pods of   *)
(* its Model, looks up the Model and updates the group, in this order and  *)
(* with anything in between.  What a group does with the endpoints it is   *)
(* given is the business of EndpointGroup; here it keeps the address of an *)
(* endpoint that stays and replaces its adapters.                          *)
(***************************************************************************)
EXTENDS Integers, FiniteSets

CONSTANTS
    Pods,         \* names of Pods of Models; a name is not used again
    SelfPods,     \* names of Pods of KubeAI
    ModelOf,      \* Pod -> the Model in its label
    Adapters,     \* names of adapters that a Pod may have a label for
    MaxRestarts,  \* bound: times a Pod gets unready, and another IP when it is back
    MaxRelabels,  \* bound: changes of the adapter labels of a Pod
    MaxFailures,  \* bound: failed calls of the API
    None

ASSUME LoadBalancerAssumption == Pods \cap SelfPods = {}

AllPods == Pods \cup SelfPods
Models  == {ModelOf[p] : p \in Pods}

VARIABLES
    pod,      \* Pod -> [phase: "none" | "pending" | "ready" | "unready" | "gone",
              \*   ip: its nth address, adapters: its labels, orphan: its Model was deleted]
    models,   \* Models that exist
    queue,    \* Pods with an event the worker has not looked at yet
    worker,   \* [step |-> "idle"], or what Reconcile has in hand
    groups,   \* Model -> name of Pod -> [ip, adapters]: the endpoints of its group
    selfIPs,  \* the addresses of KubeAI's Pods, as pairs <<Pod, IP>>
    restarts, relabels, failures

clusterVars == <<pod, models, restarts, relabels>>
vars == <<pod, models, queue, worker, groups, selfIPs, restarts, relabels, failures>>

Idle == [step |-> "idle"]

NoEndpoints == [p \in {} |-> None]

Init ==
    /\ pod = [p \in AllPods |-> [phase |-> "none", ip |-> 0, adapters |-> {},
                            orphan |-> FALSE]]
    /\ models = {} /\ queue = {} /\ worker = Idle
    /\ groups = [m \in Models |-> NoEndpoints]
    /\ selfIPs = {}
    /\ restarts = 0 /\ relabels = 0 /\ failures = 0

-----------------------------------------------------------------------------
(* The cluster.  Every change of a Pod is an event. *)

\* In the API: Get and List return it.
Exists(p)  == pod[p].phase \notin {"none", "gone"}

\* PodIsReady; a Pod that is being deleted stays ready until it stops.
IsReady(p) == pod[p].phase = "ready"

Becomes(p, phase) ==
    /\ pod' = [pod EXCEPT ![p].phase = phase]
    /\ queue' = queue \cup {p}

\* The model controller creates Pods of a Model that is there.
CreatePod(p) ==
    /\ pod[p].phase = "none"
    /\ p \in Pods => ModelOf[p] \in models
    /\ Becomes(p, "pending")
    /\ UNCHANGED <<models, worker, groups, selfIPs, restarts, relabels, failures>>

\* A container that restarts in a new sandbox has another IP.
PodReady(p) ==
    /\ pod[p].phase \in {"pending", "unready"}
    /\ pod' = [pod EXCEPT ![p].phase = "ready", ![p].ip = @ + 1]
    /\ queue' = queue \cup {p}
    /\ UNCHANGED <<models, worker, groups, selfIPs, restarts, relabels, failures>>

PodUnready(p) ==
    /\ pod[p].phase = "ready" /\ restarts < MaxRestarts
    /\ restarts' = restarts + 1
    /\ Becomes(p, "unready")
    /\ UNCHANGED <<models, worker, groups, selfIPs, relabels, failures>>

\* Deleted, as the last event of the Pod.
PodGone(p) ==
    /\ Exists(p)
    /\ Becomes(p, "gone")
    /\ UNCHANGED <<models, worker, groups, selfIPs, restarts, relabels, failures>>

\* The model controller has loaded or unloaded an adapter.
Relabel(p) ==
    /\ Exists(p) /\ relabels < MaxRelabels
    /\ relabels' = relabels + 1
    /\ \E a \in Adapters : pod' = [pod EXCEPT ![p].adapters =
                                      IF a \in @ THEN @ \ {a} ELSE @ \cup {a}]
    /\ queue' = queue \cup {p}
    /\ UNCHANGED <<models, worker, groups, selfIPs, restarts, failures>>

\* Models cause no event here.
CreateModel(m) ==
    /\ m \notin models
    /\ models' = models \cup {m}
    /\ UNCHANGED <<pod, queue, worker, groups, selfIPs, restarts, relabels, failures>>

\* Its Pods go later, by the garbage collector.
DeleteModel(m) ==
    /\ m \in models
    /\ models' = models \ {m}
    /\ pod' = [p \in AllPods |->
                IF p \in Pods /\ ModelOf[p] = m /\ Exists(p)
                THEN [pod[p] EXCEPT !.orphan = TRUE] ELSE pod[p]]
    /\ UNCHANGED <<queue, worker, groups, selfIPs, restarts, relabels, failures>>

-----------------------------------------------------------------------------
(* Reconcile *)

\* Mutated form of Get: the worker drops a Pod that is not ready.
GetReadyOnly(p) ==
    /\ worker = Idle /\ p \in queue
    /\ queue' = queue \ {p}
    /\ worker' = IF IsReady(p) THEN [step |-> "list", for |-> p] ELSE Idle
    /\ UNCHANGED <<clusterVars, groups, selfIPs, failures>>

\* Get: a Pod that is gone is no reason to do anything.
Get(p) ==
    /\ worker = Idle /\ p \in queue
    /\ queue' = queue \ {p}
    /\ worker' = IF Exists(p) THEN [step |-> "list", for |-> p] ELSE Idle
    /\ UNCHANGED <<clusterVars, groups, selfIPs, failures>>

\* The Pods of KubeAI: those that are ready.
ListSelf ==
    /\ worker.step = "list" /\ worker.for \in SelfPods
    /\ selfIPs' = {<<p, pod[p].ip>> : p \in {q \in SelfPods : IsReady(q)}}
    /\ worker' = Idle
    /\ UNCHANGED <<clusterVars, queue, groups, failures>>

\* observedEndpoints, with the adapters of getEndpointAdapters.
Observed(m) ==
    [p \in {q \in Pods : ModelOf[q] = m /\ IsReady(q)} |->
        [ip |-> pod[p].ip, adapters |-> pod[p].adapters]]

List ==
    /\ worker.step = "list" /\ worker.for \in Pods
    /\ worker' = [step |-> "update", for |-> worker.for, observed |-> Observed(ModelOf[worker.for])]
    /\ UNCHANGED <<clusterVars, queue, groups, selfIPs, failures>>

\* Mutated form of ReconcileEndpoints: the adapters of an endpoint that stays
\* are kept.
ReconcileEndpointsKept(current, observed) ==
    [p \in DOMAIN observed |-> IF p \in DOMAIN current THEN current[p] ELSE observed[p]]

\* group.reconcileEndpoints: an endpoint that stays keeps its address.
ReconcileEndpoints(current, observed) ==
    [p \in DOMAIN observed |->
        IF p \in DOMAIN current THEN [current[p] EXCEPT !.adapters = observed[p].adapters]
        ELSE observed[p]]

\* The Model is looked up; without it the group stays as it is.
Update ==
    /\ worker.step = "update"
    /\ LET m == ModelOf[worker.for] IN
        groups' = IF m \in models
                  THEN [groups EXCEPT ![m] = ReconcileEndpoints(@, worker.observed)]
                  ELSE groups
    /\ worker' = Idle
    /\ UNCHANGED <<clusterVars, queue, selfIPs, failures>>

\* Mutated form of Fail: the error is dropped.
FailDropped ==
    /\ worker.step # "idle" /\ failures < MaxFailures
    /\ failures' = failures + 1
    /\ worker' = Idle
    /\ UNCHANGED <<clusterVars, queue, groups, selfIPs>>

\* A call of the API fails: the Pod is queued again.
Fail ==
    /\ worker.step # "idle" /\ failures < MaxFailures
    /\ failures' = failures + 1
    /\ queue' = queue \cup {worker.for}
    /\ worker' = Idle
    /\ UNCHANGED <<clusterVars, groups, selfIPs>>

Worker == ListSelf \/ List \/ Update \/ \E p \in AllPods : Get(p)

Cluster ==
    \/ \E p \in AllPods : CreatePod(p) \/ PodReady(p) \/ PodUnready(p) \/ PodGone(p)
    \/ \E p \in Pods : Relabel(p)
    \/ \E m \in Models : CreateModel(m) \/ DeleteModel(m)

Next == Worker \/ Fail \/ Cluster

Spec == Init /\ [][Next]_vars

-----------------------------------------------------------------------------
(* Properties *)

\* Nothing left to look at.
Quiet == queue = {} /\ worker = Idle

\* A Pod whose Model is there.
Current(p) == Exists(p) /\ ~pod[p].orphan

(* Every ready Pod of a Model gets requests, for the adapters it has labels
   for: the queue may merge its events, calls may fail, and the list may be
   older than the update of the group, but the last event is followed by a
   reconcile that sees it all (load_balancer.go:53-137). *)
QuietMeansRouted ==
    Quiet => \A p \in Pods : (Current(p) /\ IsReady(p)) =>
        LET group == groups[ModelOf[p]] IN
        p \in DOMAIN group /\ group[p].adapters = pod[p].adapters

(* And no Pod gets requests that is there and not ready, also when its
   readiness changed between the list and the update
   (load_balancer.go:97-103, 137). *)
QuietMeansReady ==
    Quiet => \A m \in Models : \A p \in DOMAIN groups[m] : Current(p) => IsReady(p)

(* The autoscaler scrapes all the Pods of KubeAI that are ready, at their
   present addresses, and none that is known not to be; one it misses is load
   it does not see (load_balancer.go:68-83, autoscaler.go:122). *)
QuietMeansScraped ==
    Quiet => \A p \in SelfPods : Exists(p) =>
        {s \in selfIPs : s[1] = p} = IF IsReady(p) THEN {<<p, pod[p].ip>>} ELSE {}

(* What the code does not give: a Pod whose last event is looked at when it is
   gone stays in the group, as does the old address of one that was restarted
   between two looks (load_balancer.go:55-57, group.go:111-113). *)
EndpointsAreCurrent ==
    Quiet => \A m \in Models : \A p \in DOMAIN groups[m] :
        Exists(p) /\ groups[m][p].ip = pod[p].ip

=============================================================================

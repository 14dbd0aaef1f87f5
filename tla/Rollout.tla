------------------------------ MODULE Rollout -------------------------------
(***************************************************************************)
(* The Pods of one Model under the model controller: calculatePodPlan and  *)
(* podPlan.execute (internal/modelcontroller/pod_plan.go) inside Reconcile *)
(* (model_controller.go), while users change the Model, the autoscaler     *)
(* changes its replicas, and Pods get scheduled, ready and unready.        *)
(*                                                                         *)
(* The plan is made from one list of the Pods, taken from the informer's   *)
(* cache, and carried out call by call; any call may fail, which ends the  *)
(* reconcile.  After a plan that changed something the controller sleeps   *)
(* three seconds for the cache to catch up.  Most of the time it has then; *)
(* now and then it has not, and plans are made from an earlier state.      *)
(*                                                                         *)
(* A Pod is a record; a deleted Pod is gone, because the plan skips the    *)
(* terminating ones.  CreationTimestamps have a resolution of one second:  *)
(* the Pods of one plan are of the same age.                               *)
(***************************************************************************)
EXTENDS PodSpec, FiniteSetsExt

CONSTANTS
    Models,       \* what users set the Model to
    FirstModel,   \* what it is at first
    PodNames,     \* names for generated Pods; a bound on their number at once
    Surge,        \* ModelRollouts.Surge
    MaxReplicas,  \* bound: Spec.Replicas
    MaxEvents     \* bound: changes of Model and replicas, Pods that turn unready,
                  \* calls that fail and, each for two, caches that lag

ASSUME RolloutAssumption ==
    /\ Models \subseteq Model /\ FirstModel \in Models /\ \A m \in Models : Admitted(m)
    /\ Surge \in Nat /\ MaxReplicas \in Nat /\ IsFiniteSet(PodNames)

VARIABLES
    replicas,  \* Spec.Replicas
    model,     \* the rest of the Model
    pods,      \* name -> [hash, ready, scheduled, created]
    view,      \* the Pods as the controller's cache has them
    stale,     \* the cache has stopped to follow
    toDelete,  \* the plan that is carried out: names yet to delete
    toCreate,  \* and the number of Pods yet to create,
    template,  \* and what they are
    running,   \* a plan is carried out
    plans,     \* age: plans made so far, renumbered by Renumber
    events     \* how many of those there were

planVars == <<toDelete, toCreate, template, running>>
vars == <<replicas, model, pods, view, stale, toDelete, toCreate, template, running, plans,
          events>>

NoPod == [name |-> "none"]

Init ==
    /\ replicas \in 0..MaxReplicas /\ model = FirstModel
    /\ pods = [n \in {} |-> NoPod] /\ view = pods /\ stale = FALSE
    /\ toDelete = {} /\ toCreate = 0 /\ template = NoPod /\ running = FALSE
    /\ plans = 0 /\ events = 0

\* A change of the Pods, which the cache sees unless it lags.
SetPods(p) == pods' = p /\ view' = IF stale THEN view ELSE p

-----------------------------------------------------------------------------
(* calculatePodPlan *)

All == DOMAIN view
ReadyPods == {n \in All : view[n].ready}

\* h is the expectedHash.
OutOfDate(h) == {n \in All : view[n].hash # h}

\* Mutated form of Before: ready Pods are not spared.
BeforeByHash(m, n, h) ==
    \/ view[m].hash # h /\ view[n].hash = h
    \/ (view[m].hash # h) = (view[n].hash # h) /\ view[m].created > view[n].created

\* sortPodsByDeletionOrder: m is strictly before n.  Pods that neither is
\* before the other come in the order of the list, which is any.
Before(m, n, h) ==
    LET p == view[m]
        q == view[n]
    IN  \/ ~p.ready /\ q.ready
        \/ p.ready = q.ready /\ ~p.scheduled /\ q.scheduled
        \/ p.ready = q.ready /\ p.scheduled = q.scheduled /\ p.hash # q.hash /\ p.hash # h
        \/ p.ready = q.ready /\ p.scheduled = q.scheduled /\ p.hash = q.hash
           /\ p.created > q.created

\* The sets that the first k of S may be.  Two Pods of different old versions
\* are each before the other: they come in any order too.
First(k, S, h) ==
    {F \in SUBSET S : /\ Cardinality(F) = k
                      /\ \A m \in F, n \in S \ F : Before(n, m, h) => Before(m, n, h)}

Desired(h) == IF OutOfDate(h) = {} THEN replicas ELSE replicas + Surge

\* Pods deleted to get to the desired number.
Excess(h) == IF Cardinality(All) > Desired(h) THEN Cardinality(All) - Desired(h) ELSE 0

\* Mutated form of Missing: one Pod too many is created.
MissingOffByOne(h) ==
    IF Cardinality(All) < Desired(h) THEN Desired(h) - Cardinality(All) + 1 ELSE 0

Missing(h) == IF Cardinality(All) < Desired(h) THEN Desired(h) - Cardinality(All) ELSE 0

AllReady(h) == Cardinality(ReadyPods) = Desired(h)

\* The out-of-date Pods to recreate: those that are not ready and, when all
\* Pods are ready, the first of the ready ones.
Recreated(h) ==
    LET serving == OutOfDate(h) \cap ReadyPods
    IN  {(OutOfDate(h) \ ReadyPods) \cup F :
            F \in IF AllReady(h) /\ serving # {} THEN First(1, serving, h) ELSE {{}}}

\* Mutated form of Replacements: no check that there is more than the surge.
ReplacementsUnchecked(R, h) == Min({Cardinality(R), Cardinality(OutOfDate(h)) - Surge})

\* New Pods for them, without the surge.
Replacements(R, h) ==
    LET limit == Cardinality(OutOfDate(h)) - Surge
    IN  IF limit < 0 THEN 0 ELSE Min({Cardinality(R), limit})

\* The Pods that may be built for each Model.
BuiltPods == [m \in Models |-> AllPods(m)]

\* Reconcile: list the Pods, build the Pod for the Model, make the plan.
\* Nothing is done for a Model no Pod can be built for.  The bound on the number
\* of Pods ends the plans that are made from an old list.
Plan ==
    /\ ~running /\ Resolves(model)
    /\ \E pod \in BuiltPods[model] :
        LET h == PodHash(pod)
        IN  /\ \E D \in First(Excess(h), All, h), R \in Recreated(h) :
                /\ toDelete' = D \cup R
                /\ toCreate' = Missing(h) + Replacements(R, h)
                /\ D \cup R # {} \/ Missing(h) > 0
                /\ stale => Cardinality(DOMAIN pods \cup All) + toCreate' <= Cardinality(PodNames)
            /\ template' = pod
    /\ running' = TRUE
    /\ UNCHANGED <<replicas, model, pods, view, stale, plans, events>>

-----------------------------------------------------------------------------
(* podPlan.execute *)

\* A Pod that is gone already is no error.
Delete ==
    /\ running /\ toDelete # {}
    /\ \E n \in toDelete :
        /\ SetPods([m \in DOMAIN pods \ {n} |-> pods[m]])
        /\ toDelete' = toDelete \ {n}
    /\ UNCHANGED <<replicas, model, stale, toCreate, template, running, plans, events>>

FreeNames == PodNames \ (DOMAIN pods \cup All)

\* Names are interchangeable: one that is free, within the bound.
Create ==
    /\ running /\ toDelete = {} /\ toCreate > 0 /\ ValidPod(template)
    /\ FreeNames # {}
    /\ LET n == CHOOSE m \in FreeNames : TRUE IN
        SetPods([m \in DOMAIN pods \cup {n} |->
                    IF m = n THEN [hash |-> PodHash(template), ready |-> FALSE,
                                   scheduled |-> FALSE, created |-> plans + 1]
                    ELSE pods[m]])
    /\ toCreate' = toCreate - 1
    /\ UNCHANGED <<replicas, model, stale, toDelete, template, running, plans, events>>

\* Ages matter relative to each other only.
Renumber ==
    LET ages == {pods[n].created : n \in DOMAIN pods} \cup {view[n].created : n \in All}
        Aged(p) == [n \in DOMAIN p |-> [p[n] EXCEPT !.created =
                        Cardinality({a \in ages : a <= p[n].created})]]
    IN  /\ pods' = Aged(pods) /\ view' = Aged(view)
        /\ plans' = Cardinality(ages)

EndPlan == toDelete' = {} /\ toCreate' = 0 /\ template' = NoPod /\ running' = FALSE

Finish ==
    /\ running /\ toDelete = {} /\ toCreate = 0
    /\ EndPlan /\ Renumber
    /\ UNCHANGED <<replicas, model, stale, events>>

\* The API server refuses the Pod.
Refused == toDelete = {} /\ toCreate > 0 /\ ~ValidPod(template)

\* A call fails: the rest of the plan is dropped.
Fail ==
    /\ running /\ (Refused \/ events < MaxEvents)
    /\ events' = IF Refused THEN events ELSE events + 1
    /\ EndPlan /\ Renumber
    /\ UNCHANGED <<replicas, model, stale>>

-----------------------------------------------------------------------------
(* Users, autoscaler and cluster *)

ChangeSpec ==
    /\ events < MaxEvents
    /\ events' = events + 1
    /\ \E m \in Models \ {model} : AdmittedChange(model, m) /\ model' = m
    /\ UNCHANGED <<replicas, pods, view, stale, planVars, plans>>

Scale ==
    /\ events < MaxEvents
    /\ events' = events + 1
    /\ replicas' \in (0..MaxReplicas) \ {replicas}
    /\ UNCHANGED <<model, pods, view, stale, planVars, plans>>

Schedule(n) ==
    /\ n \in DOMAIN pods /\ ~pods[n].scheduled
    /\ SetPods([pods EXCEPT ![n].scheduled = TRUE])
    /\ UNCHANGED <<replicas, model, stale, planVars, plans, events>>

GetReady(n) ==
    /\ n \in DOMAIN pods /\ pods[n].scheduled /\ ~pods[n].ready
    /\ SetPods([pods EXCEPT ![n].ready = TRUE])
    /\ UNCHANGED <<replicas, model, stale, planVars, plans, events>>

GetUnready(n) ==
    /\ n \in DOMAIN pods /\ pods[n].ready /\ events < MaxEvents
    /\ events' = events + 1
    /\ SetPods([pods EXCEPT ![n].ready = FALSE])
    /\ UNCHANGED <<replicas, model, stale, planVars, plans>>

\* The events of the watch on a plan's calls are late, and in the end they come.
Lag ==
    /\ running /\ ~stale /\ events + 2 <= MaxEvents
    /\ stale' = TRUE /\ events' = events + 2
    /\ UNCHANGED <<replicas, model, pods, view, planVars, plans>>

Sync ==
    /\ stale
    /\ stale' = FALSE /\ view' = pods
    /\ UNCHANGED <<replicas, model, pods, planVars, plans, events>>

Next ==
    \/ Plan \/ Delete \/ Create \/ Finish \/ Fail \/ ChangeSpec \/ Scale \/ Lag \/ Sync
    \/ \E n \in PodNames : Schedule(n) \/ GetReady(n) \/ GetUnready(n)

Spec == Init /\ [][Next]_vars

\* The controller runs, its cache catches up, and Pods get scheduled and ready.
FairSpec ==
    /\ Spec
    /\ WF_vars(Plan) /\ WF_vars(Delete \/ Create \/ Finish) /\ WF_vars(Sync)
    /\ \A n \in PodNames : WF_vars(Schedule(n)) /\ WF_vars(GetReady(n))

-----------------------------------------------------------------------------
(* Properties *)

Hashes == {PodHash(pod) : pod \in UNION {BuiltPods[m] : m \in Models}}

PodState == [hash : Hashes, ready : BOOLEAN, scheduled : BOOLEAN, created : Nat]

TypeOK ==
    /\ replicas \in 0..MaxReplicas /\ model \in Models /\ stale \in BOOLEAN
    /\ DOMAIN pods \cup All \subseteq PodNames
    /\ \A n \in DOMAIN pods : pods[n] \in PodState
    /\ toDelete \subseteq PodNames /\ toCreate \in Nat /\ running \in BOOLEAN

Planned == ~running /\ running' /\ view = pods

(* "Waits for all Pods to be Ready before recreating any out-of-date Pods that
   are Ready" (pod_plan.go:27): with a surge, no plan made from the present
   Pods takes the ready ones below the replicas, or further below them,
   whatever scale-down and rollout meet in it. *)
PlansKeepReadyPods ==
    [][(Planned /\ Surge > 0) =>
        Cardinality(ReadyPods \ toDelete') >= Min({Cardinality(ReadyPods), replicas})]_vars

(* The same for every plan: "It assumes the list of Pods represents an accurate
   snapshot of the current state" (pod_plan.go:22). *)
StalePlansKeepReadyPods ==
    [][(~running /\ running' /\ Surge > 0) =>
        LET ready == {n \in DOMAIN pods : pods[n].ready}
        IN  Cardinality(ready \ toDelete') >= Min({Cardinality(ready), replicas})]_vars

(* A plan leaves at most as many Pods as there were, or as the Model calls for
   with the surge (pod_plan.go:90-151). *)
PlansDoNotGrow ==
    [][Planned =>
        Cardinality(All \ toDelete') + toCreate' <= Max({Cardinality(All), replicas + Surge})]_vars

(* "Surge is the number of additional Pods to create when rolling out an
   update" (config/system.go:141): a plan never leaves more Pods than the
   replicas and the surge. *)
PlansStayInSurge ==
    [][Planned => Cardinality(All \ toDelete') + toCreate' <= replicas + Surge]_vars

UpToDate(pod) ==
    Cardinality(DOMAIN pods) = replicas /\ \A n \in DOMAIN pods : pods[n].hash = PodHash(pod)

RolledOut ==
    (\E pod \in BuiltPods[model] : UpToDate(pod)) /\ \A n \in DOMAIN pods : pods[n].ready

(* Pods are replaced for a reason: no plan that changes anything is made from the
   present Pods while they are as many as the replicas and all of one of the forms
   the Model's Pod may be built in, ready or not.  A Go map is iterated in another
   order each time the hash is computed (pod_plan.go:28-165, engine_vllm.go:54-63). *)
UpToDateIsLeftAlone == [][Planned => \A pod \in BuiltPods[model] : ~UpToDate(pod)]_vars

(* The rollout ends: with the Model left alone, and a Pod that can be built for
   it, the Pods come to be as many as the replicas, up to date and ready, and
   are left alone then, whatever the rollout was interrupted by: a roll-back, a
   change of scale, failing calls, plans made from an old list of the Pods, and
   a Go map that is iterated in another order each time the hash is computed
   (pod_plan.go:28-165, model_controller.go:178-189, engine_vllm.go:54-63). *)
RolloutCompletes == <>[](Resolves(model) => RolledOut)

(* Whatever a user changes the Model to next, the API server accepts its Pod:
   the engine, the files, the adapter loader, the cache and the source of the
   weights append volumes and mounts without looking at each other
   (engine_vllm.go:161-164), for any number of files anywhere.  Left out are the two
   combinations that fail: weights in a gs:// bucket with adapters, and a file at
   a path where one of the others has a mount. *)
PodsAreValid == \A c \in Clashing : ~AdmittedChange(model, c)

(* Whatever a user changes the Model to next, the server loads the model from
   where the source of the weights, or the cache, put it: flag and mount are
   computed in different files (engine_vllm.go:20-31, model_source.go:208-260,
   cache.go:436-458).  For all sources with vLLM, for the hub and the cache
   with the other two. *)
ServerFindsModel == \A c \in Misled : ~AdmittedChange(model, c)

(* "For VLLM, FasterWhisper, Infinity engines: ... pvc://<pvcName> ...
   oci://<registry>/<repository>:<tag>" (model_types.go:40-45). *)
DocumentedSourcesAreFound ==
    \A c \in Broken :
        (c.fault = "lost" /\ c.scheme \in {"pvc", "oci"}) => ~AdmittedChange(model, c)

(* "Path where the file should be mounted in the pod.  Must be an absolute path."
   (model_types.go:216-217): any absolute path will do. *)
FilesAreMounted ==
    \A c \in Broken :
        (c.fault = "refused" /\ AdmittedChange(model, c)) => SecretTwice(c)

(* "Use a startup probe to pull the model" and "Pull model and copy to rename
   it to Model.metadata.name" (engine_ollama.go:96, 170): the probe runs the
   script. *)
ProbeRunsScript == \A c \in Broken : c.fault = "unprobed" => ~AdmittedChange(model, c)

=============================================================================

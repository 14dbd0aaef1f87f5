----------------------------- MODULE ModelCache -----------------------------
(***************************************************************************)
(* The life of a Model with a cache profile: Reconcile of the model        *)
(* controller (internal/modelcontroller/model_controller.go) with the      *)
(* ConfigMap of its files (files.go), the load and evict Jobs, the         *)
(* annotation of the shared PVC and the finalizer (cache.go), and the      *)
(* headless Service of the external proxy mode.  The Pod plan is Rollout's *)
(* and appears as one step.                                                *)
(*                                                                         *)
(* Users may edit the Model, also set and remove its cache profile (see    *)
(* AdmittedChange in PodSpec), delete it at any point and make another one *)
(* of the same name.  Jobs and ConfigMap are named after the Model, not    *)
(* after its UID, belong to the Model by an owner reference and are        *)
(* removed by the garbage collector some time after it; directories in the *)
(* cache are per UID.  Finished Jobs are also removed after a time to      *)
(* live.                                                                   *)
(*                                                                         *)
(* A step of Reconcile is one call that writes, together with the read it  *)
(* is based on: a write after an outdated read is refused (create of what  *)
(* is there, update of another version), which Conflict and Fail cover.    *)
(***************************************************************************)
EXTENDS Integers

CONSTANTS
    MaxModels,      \* bound: Models made one after the other
    MaxEvents       \* bound, on all of them together: edits of a Model, server
                    \*   Pods that are lost, deletions of the PVC, failed calls
                    \*   and Jobs, crashes, minutes without a reconcile, restarts
                    \*   with another configuration

ASSUME ModelCacheAssumption == MaxModels \in Nat /\ MaxEvents \in Nat

UIDs == 1..MaxModels

VARIABLES
    model,     \* [uid, deleting, finalizer, tidy, files, loaded, cached, url];
               \*   uid 0: none
    uids,      \* UIDs used so far
    cm,        \* the ConfigMap: [owner, data]; owner 0: none
    pvc,       \* the PVC exists
    ann,       \* the UID in its annotation for the Model's name, or 0
    loadJob, evictJob,  \* [uid, url, state]; uid 0: none
    dir,       \* UID -> its directory in the cache: "none" | "partial" | a URL
    pods,      \* server Pods: [uid, cached, url]
    svc,       \* UIDs that have a headless Service
    config,    \* "missing": profiles of the Model; else the proxy mode
    queued, step, m,  \* the controller: m is the Model it has read
    events,    \* how many of MaxEvents there were
    \* history, sets of UIDs:
    raced,     \* their directory was evicted while it was loaded
    moved,     \* their URL was changed
    adopted,   \* a complete Job of a forerunner was taken for their own
    emptied,   \* the PVC was deleted between their load Job and their Pods
    inherited  \* the ConfigMap of a forerunner was updated for them

apiVars   == <<cm, pvc, ann, loadJob, evictJob, pods, svc>>
userVars  == <<uids, config>>
taken     == <<adopted, emptied, inherited>>
history   == <<raced, moved, taken>>
vars == <<model, uids, cm, pvc, ann, loadJob, evictJob, dir, pods, svc, config, queued,
          step, m, events, raced, moved, adopted, emptied, inherited>>

MayHappen == events < MaxEvents

\* tidy: labels and replicas are what applySelfLabels and
\* applyAutoscalingReplicaBounds make of them.  files: version of Spec.Files, 0
\* without any.  loaded: Status.Cache.Loaded.  cached: it has a cache profile.
NewModel(u, f) ==
    [uid |-> u, deleting |-> FALSE, finalizer |-> FALSE, tidy |-> FALSE, files |-> f,
     loaded |-> FALSE, cached |-> TRUE, url |-> "url1"]
NoModel == NewModel(0, 0)
NoJob   == [uid |-> 0, url |-> "url1", state |-> "none"]
NoMap   == [owner |-> 0, data |-> 0]

Init ==
    /\ model = NoModel /\ uids = 0 /\ m = NoModel
    /\ cm = NoMap /\ pvc = FALSE /\ ann = 0 /\ loadJob = NoJob /\ evictJob = NoJob
    /\ dir = [u \in UIDs |-> "none"] /\ pods = {} /\ svc = {}
    /\ config = "internal" /\ queued = FALSE /\ step = "idle" /\ events = 0
    /\ raced = {} /\ moved = {} /\ adopted = {} /\ emptied = {} /\ inherited = {}

-----------------------------------------------------------------------------
(* Reconcile, up to the branch on DeletionTimestamp *)

\* The end of a reconcile; again: it ended with an error, or wrote what it watches.
End(again) ==
    /\ step' = "idle" /\ m' = NoModel
    /\ queued' = (queued \/ again)

Goto(next) == step' = next /\ UNCHANGED <<m, queued>>

Get ==
    /\ step = "idle" /\ queued
    /\ queued' = FALSE
    /\ m' = model
    /\ step' = IF model.uid = 0 THEN "idle" ELSE "files"
    /\ UNCHANGED <<model, apiVars, dir, userVars, history, events>>

\* Mutated form of FilesMap: a ConfigMap that is there is not updated.
FilesMapOnce ==
    IF cm.owner = 0 THEN [owner |-> m.uid, data |-> m.files]
    ELSE IF m.files = 0 THEN NoMap ELSE cm

\* ensureModelFilesConfigMap: created also when empty, and then deleted the next
\* time; an update leaves the owner as it is.
FilesMap ==
    IF cm.owner = 0 THEN [owner |-> m.uid, data |-> m.files]
    ELSE IF m.files = 0 THEN NoMap ELSE [cm EXCEPT !.data = m.files]

EnsureFiles ==
    /\ step = "files"
    /\ cm' = FilesMap
    /\ inherited' = IF cm'.owner \in {0, m.uid} THEN inherited ELSE inherited \cup {m.uid}
    /\ Goto("tidy")
    /\ UNCHANGED <<model, pvc, ann, loadJob, evictJob, pods, svc, dir, userVars, events, raced,
                   moved, adopted, emptied>>

\* applySelfLabels or applyAutoscalingReplicaBounds changed the Model.
ShouldUpdate == ~m.tidy

\* The update ends the reconcile.
Tidy ==
    /\ step = "tidy"
    /\ \/ ~ShouldUpdate /\ Goto("config") /\ UNCHANGED model
       \/ /\ ShouldUpdate /\ model = m
          /\ model' = [model EXCEPT !.tidy = TRUE]
          /\ End(TRUE)
    /\ UNCHANGED <<apiVars, dir, userVars, history, events>>

\* getModelConfig: without the profiles nothing else is done, for a Model that
\* is being deleted neither.
GetModelConfig ==
    /\ step = "config"
    /\ \/ config = "missing" /\ End(TRUE)
       \/ config # "missing" /\ m.deleting /\ Goto("deletePods")
       \/ config # "missing" /\ ~m.deleting /\ Goto(IF m.cached THEN "pvc" ELSE "service")
    /\ UNCHANGED <<model, apiVars, dir, userVars, history, events>>

-----------------------------------------------------------------------------
(* finalizeCache *)

\* All Pods with the name of the Model in their label.  The cache is finalized
\* if the Model has a cache profile now.
DeletePods ==
    /\ step = "deletePods"
    /\ pods' = {}
    /\ IF m.cached THEN step' = "finalize" /\ queued' = (queued \/ pods # {}) /\ UNCHANGED m
       ELSE End(pods # {})
    /\ UNCHANGED <<model, cm, pvc, ann, loadJob, evictJob, svc, dir, userVars, history, events>>

\* No PVC: deleteAllCacheJobsAndPods first, then the finalizer.
FinalizeWithoutPVC ==
    /\ step = "finalize" /\ ~pvc
    /\ Goto("firstLoadJob")
    /\ UNCHANGED <<model, apiVars, dir, userVars, history, events>>

\* evictCacheJobForModel: it removes the directory of the UID.
EvictJob(u) == [uid |-> u, url |-> "url1", state |-> "active"]

\* A complete Job is looked at by its name, whoever it was made for.
Adopted(job) == IF job.uid = m.uid THEN adopted ELSE adopted \cup {m.uid}

\* Mutated form of Evict: the Job is made, and not waited for.
EvictAsync ==
    /\ step = "finalize" /\ pvc
    /\ evictJob' = IF evictJob.uid = 0 THEN EvictJob(m.uid) ELSE evictJob
    /\ ann' = 0 /\ Goto("removeFinalizer")
    /\ UNCHANGED <<model, cm, pvc, loadJob, pods, svc, dir, userVars, history, events>>

\* Make the evict Job, wait for it, remove the annotation.
Evict ==
    /\ step = "finalize" /\ pvc
    /\ \/ /\ evictJob.uid = 0
          /\ evictJob' = EvictJob(m.uid)
          /\ End(TRUE) /\ UNCHANGED ann
       \/ /\ evictJob.uid # 0 /\ evictJob.state # "complete"
          /\ End(FALSE) /\ UNCHANGED <<evictJob, ann>>
       \/ /\ evictJob.state = "complete"
          /\ ann' = 0 /\ Goto("removeFinalizer") /\ UNCHANGED evictJob
    /\ adopted' = IF step' = "removeFinalizer" THEN Adopted(evictJob) ELSE adopted
    /\ UNCHANGED <<model, cm, pvc, loadJob, pods, svc, dir, userVars, events, raced, moved,
                   emptied, inherited>>

\* The last finalizer of a Model that is being deleted: it is gone.
RemoveFinalizer ==
    /\ step \in {"removeFinalizer", "lastFinalizer"} /\ model = m
    /\ model' = NoModel
    /\ IF step = "lastFinalizer" THEN End(TRUE)
       ELSE step' = "deleteLoadJob" /\ queued' = TRUE /\ UNCHANGED m
    /\ UNCHANGED <<apiVars, dir, userVars, history, events>>

\* deleteAllCacheJobsAndPods, before the finalizer is removed or after it.
DeleteLoadJob ==
    /\ step \in {"firstLoadJob", "deleteLoadJob"}
    /\ loadJob' = NoJob
    /\ step' = IF step = "firstLoadJob" THEN "firstEvictJob" ELSE "deleteEvictJob"
    /\ queued' = (queued \/ loadJob.uid # 0)
    /\ UNCHANGED <<model, cm, pvc, ann, evictJob, pods, svc, dir, userVars, m, history, events>>

DeleteEvictJob ==
    /\ step \in {"firstEvictJob", "deleteEvictJob"}
    /\ evictJob' = NoJob
    /\ IF step = "deleteEvictJob" THEN End(evictJob.uid # 0)
       ELSE step' = "lastFinalizer" /\ queued' = (queued \/ evictJob.uid # 0) /\ UNCHANGED m
    /\ UNCHANGED <<model, cm, pvc, ann, loadJob, pods, svc, dir, userVars, history, events>>

-----------------------------------------------------------------------------
(* reconcileCache, and the rest of Reconcile *)

CreatePVC ==
    /\ step = "pvc"
    /\ pvc' = TRUE
    /\ Goto("addFinalizer")
    /\ UNCHANGED <<model, cm, ann, loadJob, evictJob, pods, svc, dir, userVars, history, events>>

\* The reconcile goes on with the updated Model.
AddFinalizer ==
    /\ step = "addFinalizer"
    /\ \/ m.finalizer /\ Goto("load") /\ UNCHANGED model
       \/ /\ ~m.finalizer /\ model = m
          /\ model' = [model EXCEPT !.finalizer = TRUE]
          /\ m' = model' /\ step' = "load" /\ queued' = TRUE
    /\ UNCHANGED <<apiVars, dir, userVars, history, events>>

\* Mutated form of IsJobCompleted: a Job that is finished, well or not.
IsJobFinished(job) == job.state \in {"complete", "failed"}

IsJobCompleted(job) == job.state = "complete"

\* loadCacheJobForModel: it fills the directory of the UID.
LoadJob(u, url) == [uid |-> u, url |-> url, state |-> "active"]

\* parsePVCModelAnnotation and updatePVCModelAnnotation
IsAnnotated == ann = m.uid
Annotate    == ann' = m.uid

\* Not annotated for this UID: make the load Job, wait for it, annotate.  The
\* status is set from the annotation as it was read, before the update.
Load ==
    /\ step = "load" /\ ~IsAnnotated
    /\ \/ /\ loadJob.uid = 0
          /\ loadJob' = LoadJob(m.uid, m.url)
          /\ End(TRUE) /\ UNCHANGED ann
       \/ /\ loadJob.uid # 0 /\ ~IsJobCompleted(loadJob)
          /\ End(FALSE) /\ UNCHANGED <<loadJob, ann>>
       \/ /\ loadJob.uid # 0 /\ IsJobCompleted(loadJob) /\ pvc
          /\ Annotate
          /\ m' = [m EXCEPT !.loaded = FALSE]
          /\ step' = "deleteJob" /\ UNCHANGED <<loadJob, queued>>
    /\ adopted' = IF step' = "deleteJob" THEN Adopted(loadJob) ELSE adopted
    /\ UNCHANGED <<model, cm, pvc, evictJob, pods, svc, dir, userVars, events, raced, moved,
                   emptied, inherited>>

Loaded ==
    /\ step = "load" /\ IsAnnotated
    /\ m' = [m EXCEPT !.loaded = TRUE]
    /\ step' = "deleteJob" /\ UNCHANGED queued
    /\ UNCHANGED <<model, apiVars, dir, userVars, history, events>>

\* The load Job is not needed any more.
DeleteJob ==
    /\ step = "deleteJob"
    /\ loadJob' = NoJob
    /\ step' = "service" /\ queued' = (queued \/ loadJob.uid # 0)
    /\ UNCHANGED <<model, cm, pvc, ann, evictJob, pods, svc, dir, userVars, m, history, events>>

\* reconcileHeadlessService: create it or make sure that there is none.
HeadlessServices == IF config = "external" THEN svc \cup {m.uid} ELSE svc \ {m.uid}

ReconcileService ==
    /\ step = "service"
    /\ svc' = HeadlessServices
    /\ step' = "pods" /\ queued' = (queued \/ svc' # svc)
    /\ UNCHANGED <<model, cm, pvc, ann, loadJob, evictJob, pods, dir, userVars, m, history, events>>

PodOf(mod) == [uid |-> mod.uid, cached |-> mod.cached, url |-> mod.url]

\* The Pod plan.
EnsurePods ==
    /\ step = "pods"
    /\ pods' = {p \in pods : p.uid # m.uid} \cup {PodOf(m)}
    /\ step' = "status" /\ queued' = (queued \/ pods' # pods)
    /\ UNCHANGED <<model, cm, pvc, ann, loadJob, evictJob, svc, dir, userVars, m, history, events>>

\* The deferred update of the status.  It runs on every way out (the comparison
\* is of a pointer with a value, and never equal), but changes nothing on the
\* others: they leave Loaded as it was read.
UpdateStatus ==
    /\ step = "status" /\ [model EXCEPT !.loaded = m.loaded] = m
    /\ model' = m
    /\ End(model # m)
    /\ UNCHANGED <<apiVars, dir, userVars, history, events>>

\* An update of the Model that has changed since it was read, or of a PVC that
\* is gone.
Conflict ==
    /\ \/ step = "tidy" /\ ShouldUpdate /\ model # m
       \/ step = "addFinalizer" /\ ~m.finalizer /\ model # m
       \/ step \in {"removeFinalizer", "lastFinalizer"} /\ model # m
       \/ step = "load" /\ ~IsAnnotated /\ IsJobCompleted(loadJob) /\ ~pvc
       \/ step = "status" /\ [model EXCEPT !.loaded = m.loaded] # m
    /\ End(TRUE)
    /\ UNCHANGED <<model, apiVars, dir, userVars, history, events>>

\* Mutated form of Fail: the Model is not queued again.
FailDropped ==
    /\ step # "idle" /\ MayHappen
    /\ events' = events + 1
    /\ End(FALSE)
    /\ UNCHANGED <<model, apiVars, dir, userVars, history>>

\* The next call fails, or the controller crashes before it.
Fail ==
    /\ step # "idle" /\ MayHappen
    /\ events' = events + 1
    /\ End(TRUE)
    /\ UNCHANGED <<model, apiVars, dir, userVars, history>>

-----------------------------------------------------------------------------
(* Jobs, garbage collection, Pods *)

LoadWrites ==
    /\ loadJob.state = "active" /\ pvc /\ dir[loadJob.uid] = "none"
    /\ dir' = [dir EXCEPT ![loadJob.uid] = "partial"]
    /\ UNCHANGED <<model, apiVars, userVars, queued, step, m, history, events>>

LoadDone ==
    /\ loadJob.state = "active" /\ pvc /\ dir[loadJob.uid] # "none"
    /\ dir' = [dir EXCEPT ![loadJob.uid] = loadJob.url]
    /\ loadJob' = [loadJob EXCEPT !.state = "complete"]
    /\ queued' = TRUE
    /\ UNCHANGED <<model, cm, pvc, ann, evictJob, pods, svc, userVars, step, m, history, events>>

\* The Pods of a Job have failed too often.
JobFails ==
    /\ MayHappen
    /\ events' = events + 1
    /\ \/ /\ loadJob.state = "active"
          /\ loadJob' = [loadJob EXCEPT !.state = "failed"] /\ UNCHANGED evictJob
       \/ /\ evictJob.state = "active"
          /\ evictJob' = [evictJob EXCEPT !.state = "failed"] /\ UNCHANGED loadJob
    /\ queued' = TRUE
    /\ UNCHANGED <<model, cm, pvc, ann, pods, svc, dir, userVars, step, m, history>>

EvictDone ==
    /\ evictJob.state = "active" /\ pvc
    /\ dir' = [dir EXCEPT ![evictJob.uid] = "none"]
    /\ raced' = IF loadJob.uid = evictJob.uid /\ loadJob.state = "active"
                THEN raced \cup {evictJob.uid} ELSE raced
    /\ evictJob' = [evictJob EXCEPT !.state = "complete"]
    /\ queued' = TRUE
    /\ UNCHANGED <<model, cm, pvc, ann, loadJob, pods, svc, userVars, step, m, moved, taken, events>>

\* TTLSecondsAfterFinished: a failed Job makes room for another one.
FailedJobExpires ==
    /\ \/ loadJob.state = "failed" /\ loadJob' = NoJob /\ UNCHANGED evictJob
       \/ evictJob.state = "failed" /\ evictJob' = NoJob /\ UNCHANGED loadJob
    /\ queued' = TRUE
    /\ UNCHANGED <<model, cm, pvc, ann, pods, svc, dir, userVars, step, m, history, events>>

\* And a complete one is gone if the controller does not look for a minute.
UnseenJobExpires ==
    /\ MayHappen
    /\ events' = events + 1
    /\ \/ loadJob.state = "complete" /\ loadJob' = NoJob /\ UNCHANGED evictJob
       \/ evictJob.state = "complete" /\ evictJob' = NoJob /\ UNCHANGED loadJob
    /\ queued' = TRUE
    /\ UNCHANGED <<model, cm, pvc, ann, pods, svc, dir, userVars, step, m, history>>

\* The garbage collector: the owner is gone.
CollectGarbage ==
    /\ \/ /\ loadJob.uid \notin {0, model.uid}
          /\ loadJob' = NoJob /\ queued' = TRUE /\ UNCHANGED <<evictJob, pods, svc, cm>>
       \/ /\ evictJob.uid \notin {0, model.uid}
          /\ evictJob' = NoJob /\ queued' = TRUE /\ UNCHANGED <<loadJob, pods, svc, cm>>
       \/ /\ \E p \in pods : p.uid # model.uid
          /\ pods' = {p \in pods : p.uid = model.uid} /\ queued' = TRUE
          /\ UNCHANGED <<loadJob, evictJob, svc, cm>>
       \/ /\ svc \ {model.uid} # {}
          /\ svc' = svc \cap {model.uid} /\ queued' = TRUE
          /\ UNCHANGED <<loadJob, evictJob, pods, cm>>
       \/ /\ cm.owner \notin {0, model.uid}
          /\ cm' = NoMap /\ UNCHANGED <<loadJob, evictJob, pods, svc, queued>>
    /\ UNCHANGED <<model, pvc, ann, dir, userVars, step, m, history, events>>

LosePod ==
    /\ MayHappen
    /\ events' = events + 1
    /\ \E p \in pods : pods' = pods \ {p}
    /\ queued' = TRUE
    /\ UNCHANGED <<model, cm, pvc, ann, loadJob, evictJob, svc, dir, uids, config,
                   step, m, history>>

-----------------------------------------------------------------------------
(* Users *)

CreateModel ==
    /\ model.uid = 0 /\ uids < MaxModels
    /\ uids' = uids + 1
    /\ \E f \in 0..1 : model' = NewModel(uids', f)
    /\ queued' = TRUE
    /\ UNCHANGED <<apiVars, dir, config, step, m, history, events>>

DeleteModel ==
    /\ model.uid # 0 /\ ~model.deleting
    /\ model' = IF model.finalizer THEN [model EXCEPT !.deleting = TRUE] ELSE NoModel
    /\ queued' = TRUE
    /\ UNCHANGED <<apiVars, dir, userVars, step, m, history, events>>

\* Other features, replica bounds and files; another cache profile or URL.
EditModel ==
    /\ model.uid # 0 /\ MayHappen
    /\ events' = events + 1
    /\ \/ \E f \in 0..2 : model' = [model EXCEPT !.tidy = FALSE, !.files = f]
       \/ \E c \in BOOLEAN, url \in {"url1", "url2"} :
            /\ model.cached => url = model.url
            /\ model' = [model EXCEPT !.cached = c, !.url = url]
    /\ moved' = IF model'.url # model.url THEN moved \cup {model.uid} ELSE moved
    /\ queued' = TRUE
    /\ UNCHANGED <<apiVars, dir, uids, config, step, m, raced, taken>>

\* A PVC that nothing uses; the controller does not hear of it.
DeletePVC ==
    /\ pvc /\ (\A p \in pods : ~p.cached) /\ MayHappen
    /\ loadJob.state # "active" /\ evictJob.state # "active"
    /\ events' = events + 1
    /\ pvc' = FALSE /\ ann' = 0 /\ dir' = [u \in UIDs |-> "none"]
    /\ emptied' = emptied \cup {u \in UIDs :
                        \/ loadJob.uid = u /\ loadJob.state = "complete"
                        \/ m.uid = u /\ m.cached /\ step \in {"deleteJob", "service", "pods"}}
    /\ UNCHANGED <<model, cm, loadJob, evictJob, pods, svc, uids, config, queued, step, m, raced,
                   moved, adopted, inherited>>

\* A new process with another configuration.
Reconfigure ==
    /\ MayHappen
    /\ events' = events + 1
    /\ config' \in {"missing", "internal", "external"} \ {config}
    /\ End(TRUE)
    /\ UNCHANGED <<model, apiVars, dir, uids, history>>

Reconcile ==
    \/ Get \/ EnsureFiles \/ Tidy \/ GetModelConfig
    \/ DeletePods \/ FinalizeWithoutPVC \/ Evict \/ RemoveFinalizer
    \/ DeleteLoadJob \/ DeleteEvictJob
    \/ CreatePVC \/ AddFinalizer \/ Load \/ Loaded \/ DeleteJob
    \/ ReconcileService \/ EnsurePods \/ UpdateStatus \/ Conflict

Jobs == LoadWrites \/ LoadDone \/ EvictDone

Next ==
    \/ Reconcile \/ Fail \/ Jobs \/ JobFails \/ FailedJobExpires \/ UnseenJobExpires
    \/ CollectGarbage \/ LosePod
    \/ CreateModel \/ DeleteModel \/ EditModel \/ DeletePVC \/ Reconfigure

Spec == Init /\ [][Next]_vars

\* The controller, the Jobs, the time to live and the garbage collector go on.
FairSpec ==
    /\ Spec
    /\ WF_vars(Reconcile) /\ WF_vars(LoadWrites) /\ WF_vars(LoadDone) /\ WF_vars(EvictDone)
    /\ WF_vars(FailedJobExpires) /\ WF_vars(CollectGarbage)

-----------------------------------------------------------------------------
(* Properties *)

\* The server Pods of the Model u find files in the cache, all of them.
CacheIsComplete(u) ==
    (u = model.uid /\ ~model.deleting) =>
        \A p \in pods : (p.uid = u /\ p.cached) => dir[u] \notin {"none", "partial"}

\* And they are the files they need.
CacheIsFilled(u) ==
    (u = model.uid /\ ~model.deleting) =>
        \A p \in pods : (p.uid = u /\ p.cached) => dir[u] = p.url

(* Server Pods are started on a cache that is completely loaded, and it stays
   so as long as the Model is not deleted: not after a Job that failed, expired
   or was deleted, not on the word of an annotation for another UID, not by
   a profile that is removed and set again, and not when the PVC is deleted and
   made anew.  It is loaded from their URL, unless that was changed in between
   (cache.go:76-124).  Left out are Models that took a complete Job of a
   forerunner for their own, and those whose PVC was deleted when their load
   Job was complete and their Pods were not yet there. *)
PodsHaveTheirCache ==
    \A u \in UIDs : u \notin adopted \cup emptied =>
        CacheIsComplete(u) /\ (u \notin moved => CacheIsFilled(u))

(* The finalizer keeps a Model until its files are evicted, wherever the
   reconcile was cut off, unless a load Job went on writing behind the back
   of the evictor, or the Model took a complete Job of a forerunner for its own
   (cache.go:67-74, 159-203). *)
EvictedBeforeGone ==
    [][\A u \in UIDs :
        (model.uid = u /\ model'.uid = 0 /\ u \notin adopted \cup raced)
            => dir[u] = "none"]_vars

(* The ConfigMap has the files of the Model, and is its own, when nothing is
   left to do, whatever was edited, failed or left by a forerunner (files.go:24-80).
   Left out are Models for which the ConfigMap of a forerunner was updated: it
   keeps its owner and goes with it, which no watch reports
   (model_controller.go:216-222). *)
FilesUpToDate ==
    (step = "idle" /\ ~queued /\ model.files # 0 /\ model.uid \notin inherited)
        => cm = [owner |-> model.uid, data |-> model.files]

(* The same for every Model that has its Pods: "ensureModelFilesConfigMap ensures
   that the ConfigMap for model files exists and is up to date" (files.go:23). *)
FilesAlwaysUpToDate ==
    (step = "idle" /\ ~queued /\ model.files # 0 /\ PodOf(model) \in pods)
        => cm.data = model.files

(* When users leave it alone and its profiles are configured, a Model is
   served, from the cache if it has a profile, with a headless Service in the
   external mode only, or it was deleted and is gone with its Jobs, whatever
   failed or raced before (model_controller.go:72-203, cache.go:30-208).  Left
   out are Models whose cache profile was removed before they were deleted. *)
Settles ==
    <>[](config # "missing") =>
        <>[](\/ model.uid = 0 /\ loadJob = NoJob /\ evictJob = NoJob
             \/ /\ model.uid # 0 /\ ~model.deleting /\ PodOf(model) \in pods
                /\ model.cached => model.loaded /\ ann = model.uid
                /\ model.uid \in svc <=> config = "external"
             \/ model.deleting /\ ~model.cached)

(* The same without the exception: "cache eviction (on deletion of the Model)"
   (docs/concepts/storage-caching.md:31), and "cacheProfile is immutable"
   (model_types.go:78): a Model that is deleted goes. *)
DeletedModelsGo == <>[](config # "missing") => <>[](~model.deleting)

(* "Run Job to populate PVC if not already downloaded" (cache.go:94), ".Spec.URL
   [is] immutable, so we don't need to check if [it has] changed in order to
   evict a stale cache" (cache.go:76): the Pods of any Model find its files. *)
AlwaysFilled == \A u \in UIDs : CacheIsFilled(u)

\* The same for Models whose PVC stays.
FilledOnItsPVC == \A u \in UIDs \ emptied : CacheIsFilled(u)

(* "It manages the full lifecycle of a cached model: loading, serving, and
   cache eviction (on deletion of the Model)" (docs/concepts/storage-caching.md:31):
   a Model that is gone, with its Jobs, leaves no files. *)
LeavesNoFiles ==
    (model.uid = 0 /\ loadJob = NoJob /\ evictJob = NoJob) =>
        \A u \in UIDs : dir[u] = "none"

=============================================================================

-------------------------- MODULE ModelCache_proofs --------------------------
(* Proofs of what the model controller promises of the cache and the files of  *)
(* a Model.                                                                     *)
EXTENDS ModelCache, TLAPS

-----------------------------------------------------------------------------
(* The inductive invariant. *)

URLs == {"url1", "url2"}

Model ==
    [uid : 0..MaxModels, deleting : BOOLEAN, finalizer : BOOLEAN, tidy : BOOLEAN,
     files : 0..2, loaded : BOOLEAN, cached : BOOLEAN, url : URLs]

Job == [uid : 0..MaxModels, url : URLs, state : {"none", "active", "complete", "failed"}]

DeleteSteps == {"deletePods", "finalize", "removeFinalizer",
                "firstLoadJob", "firstEvictJob", "lastFinalizer"}
CacheSteps  == {"pvc", "addFinalizer", "load", "deleteJob"}
PodSteps    == {"service", "pods", "status"}
GoneSteps   == {"deleteLoadJob", "deleteEvictJob"}
Steps == {"idle", "files", "tidy", "config"} \cup DeleteSteps \cup CacheSteps
            \cup PodSteps \cup GoneSteps

TypeOK ==
    /\ model \in Model /\ m \in Model
    /\ cm \in [owner : 0..MaxModels, data : 0..2]
    /\ loadJob \in Job /\ evictJob \in Job
    /\ dir \in [UIDs -> {"none", "partial"} \cup URLs]
    /\ pods \subseteq [uid : UIDs, cached : BOOLEAN, url : URLs]
    /\ step \in Steps
    /\ uids \in 0..MaxModels /\ ann \in 0..MaxModels
    /\ events \in Nat
    /\ step # "idle" => m.uid # 0

\* UIDs are used one after the other, and only by the Model that is there and by
\* what was made for it or for those before.
UIDInv ==
    /\ model.uid \in {0, uids} /\ (model.uid = 0 => model = NoModel)
    /\ m.uid <= uids /\ (step = "idle" => m = NoModel)
    /\ cm.owner <= uids /\ ann <= uids
    /\ loadJob.uid <= uids /\ (loadJob.state # "none" => loadJob.uid # 0)
    /\ evictJob.uid <= uids /\ (evictJob.state # "none" => evictJob.uid # 0)
    /\ \A p \in pods : p.uid <= uids
    /\ \A u \in UIDs : u > uids => dir[u] = "none"

\* What the controller has read of the Model: a deletion and a finalizer that it
\* has seen are still there, and with the finalizer so is the Model.
ReadInv ==
    /\ model.deleting => model.finalizer
    /\ m.deleting => m.finalizer
    /\ (m.uid = model.uid /\ m.deleting) => model.deleting
    /\ (m.uid = model.uid /\ m.finalizer) => model.finalizer
    /\ (m.finalizer /\ step \notin GoneSteps) => m.uid = model.uid
    /\ step \in DeleteSteps => m.deleting
    /\ step \in CacheSteps \cup PodSteps => ~m.deleting
    /\ step \in CacheSteps => m.cached
    /\ (step \in {"load", "deleteJob"} \cup PodSteps /\ m.cached) => m.finalizer

\* Jobs: one that loads has a Model with a finalizer, one that evicts a Model that
\* is being deleted, which the controller knows.
JobInv ==
    /\ step \in {"firstEvictJob", "lastFinalizer", "deleteEvictJob"} => loadJob.uid = 0
    /\ step = "lastFinalizer" => evictJob.uid = 0
    /\ (loadJob.uid # 0 /\ loadJob.uid = model.uid) => model.finalizer
    /\ (evictJob.uid # 0 /\ evictJob.uid = model.uid) => model.deleting
    /\ (evictJob.uid # 0 /\ evictJob.uid = m.uid) => m.deleting

\* No files in the directory of u, and nobody who writes any.
Clean(u) == dir[u] = "none" /\ ~(loadJob.uid = u /\ loadJob.state = "active")

\* A directory is clean without a PVC, without a finalizer, after its eviction
\* and when the finalizer is removed.
EvictInv ==
    /\ (model.uid # 0 /\ ~model.finalizer) => dir[model.uid] = "none"
    /\ ~pvc => \A u \in UIDs : dir[u] = "none"
    /\ step \in {"firstLoadJob", "firstEvictJob", "lastFinalizer"} => ~pvc
    /\ (evictJob.state = "complete" /\ evictJob.uid \notin raced) => Clean(evictJob.uid)
    /\ (step = "removeFinalizer" /\ m.uid \notin adopted \cup raced) => Clean(m.uid)

\* A URL is the first one unless it was changed.
URLInv ==
    /\ model.uid \notin moved => model.url = "url1"
    /\ m.uid \notin moved => m.url = "url1"
    /\ loadJob.uid \notin moved => loadJob.url = "url1"
    /\ \A p \in pods : p.uid \notin moved => p.url = "url1"

Filled(u) == dir[u] \notin {"none", "partial"} /\ (u \notin moved => dir[u] = "url1")

\* The annotation for a Model, and the complete Job before it, stand for a
\* directory that is filled; cached Pods, and the way to them, for the annotation.
CacheInv ==
    \A u \in UIDs :
        (u = model.uid /\ ~model.deleting /\ u \notin adopted /\ u \notin emptied) =>
            /\ ann = u => Filled(u)
            /\ (loadJob.uid = u /\ loadJob.state = "complete") => Filled(u)
            /\ \A p \in pods : (p.uid = u /\ p.cached) => ann = u
            /\ (m.uid = u /\ m.cached /\ step \in {"deleteJob", "service", "pods"}) => ann = u

\* As long as no event has come since, the controller has read the Model as it
\* is; past the first step the ConfigMap has its files, and is its own unless it
\* was inherited.
FilesInv ==
    /\ (step # "idle" /\ ~queued) => m.uid = model.uid /\ m.files = model.files
    /\ (step \notin {"idle", "files"} /\ ~queued /\ m.files # 0 /\ m.uid \notin inherited)
            => cm = [owner |-> m.uid, data |-> m.files]
    /\ FilesUpToDate

IInv ==
    /\ TypeOK /\ UIDInv /\ ReadInv /\ JobInv /\ EvictInv /\ URLInv /\ CacheInv /\ FilesInv

-----------------------------------------------------------------------------
(* Type correctness. *)

\* The values that writes are made from.
LEMMA Values ==
    /\ NoModel \in Model /\ NoJob \in Job
    /\ NoMap \in [owner : 0..MaxModels, data : 0..2]
    /\ \A u \in UIDs, f \in 0..1 : NewModel(u, f) \in Model
    /\ \A u \in UIDs : EvictJob(u) \in Job
    /\ \A u \in UIDs, url \in URLs : LoadJob(u, url) \in Job
    /\ \A mod \in Model :
        mod.uid # 0 => PodOf(mod) \in [uid : UIDs, cached : BOOLEAN, url : URLs]
<1> USE ModelCacheAssumption DEF URLs, UIDs
<1>1. \A u \in UIDs, f \in 0..1 : NewModel(u, f) \in Model
  BY DEF NewModel, Model
<1>2. NoModel \in Model
  BY DEF NoModel, NewModel, Model
<1>3. NoJob \in Job /\ NoMap \in [owner : 0..MaxModels, data : 0..2]
  BY DEF NoJob, NoMap, Job
<1>4. \A u \in UIDs : EvictJob(u) \in Job
  BY DEF EvictJob, Job
<1>5. \A u \in UIDs, url \in URLs : LoadJob(u, url) \in Job
  BY DEF LoadJob, Job
<1>6. ASSUME NEW mod \in Model, mod.uid # 0
      PROVE  PodOf(mod) \in [uid : UIDs, cached : BOOLEAN, url : URLs]
  BY <1>6 DEF PodOf, Model
<1> QED
  BY <1>1, <1>2, <1>3, <1>4, <1>5, <1>6

\* Every step of the controller keeps the types.
LEMMA ReconcileType == TypeOK /\ Reconcile => TypeOK'
<1> SUFFICES ASSUME TypeOK, Reconcile PROVE TypeOK'
  OBVIOUS
<1> USE ModelCacheAssumption, Values
    DEF TypeOK, apiVars, userVars, history, taken, Goto, End, Steps, DeleteSteps, CacheSteps, PodSteps,
        GoneSteps
<1>1. CASE Get \/ GetModelConfig \/ FinalizeWithoutPVC \/ Conflict \/ ReconcileService
  BY <1>1 DEF Get, GetModelConfig, FinalizeWithoutPVC, Conflict, ReconcileService
<1>2. CASE EnsureFiles
  <2>1. cm' \in [owner : 0..MaxModels, data : 0..2]
    BY <1>2 DEF EnsureFiles, FilesMap, Model
  <2> QED
    BY <1>2, <2>1 DEF EnsureFiles
<1>3. CASE Tidy \/ AddFinalizer
  <2>1. model' \in Model
    BY <1>3 DEF Tidy, AddFinalizer, Model
  <2>2. m' = m \/ m' = model' \/ (m' = NoModel /\ step' = "idle")
    BY <1>3 DEF Tidy, AddFinalizer
  <2> QED
    BY <1>3, <2>1, <2>2 DEF Tidy, AddFinalizer, Model
<1>4. CASE RemoveFinalizer \/ UpdateStatus
  BY <1>4 DEF RemoveFinalizer, UpdateStatus
<1>5. CASE DeletePods \/ DeleteLoadJob \/ DeleteEvictJob \/ CreatePVC \/ DeleteJob
  BY <1>5 DEF DeletePods, DeleteLoadJob, DeleteEvictJob, CreatePVC, DeleteJob
<1>6. CASE Evict
  <2>1. m.uid \in UIDs
    BY <1>6 DEF Evict, Model, UIDs
  <2> QED
    BY <1>6, <2>1 DEF Evict
<1>7. CASE Load \/ Loaded
  <2>1. m.uid \in UIDs /\ m.url \in URLs
    BY <1>7 DEF Load, Loaded, Model, UIDs
  <2>2. m' \in Model /\ (step' # "idle" => m'.uid # 0)
    BY <1>7 DEF Load, Loaded, Model
  <2>3. loadJob' \in Job /\ ann' \in 0..MaxModels
    BY <1>7, <2>1 DEF Load, Loaded, Annotate, UIDs
  <2> QED
    BY <1>7, <2>2, <2>3 DEF Load, Loaded
<1>8. CASE EnsurePods
  <2>1. PodOf(m) \in [uid : UIDs, cached : BOOLEAN, url : URLs]
    BY <1>8 DEF EnsurePods
  <2> QED
    BY <1>8, <2>1 DEF EnsurePods
<1> QED
  BY <1>1, <1>2, <1>3, <1>4, <1>5, <1>6, <1>7, <1>8 DEF Reconcile

\* Every step of the controller, of Jobs, of the garbage collector and of users
\* keeps the types.
LEMMA TypeStep == TypeOK /\ [Next]_vars => TypeOK'
<1> SUFFICES ASSUME TypeOK, [Next]_vars PROVE TypeOK'
  OBVIOUS
<1> USE ModelCacheAssumption, Values DEF TypeOK, apiVars, userVars, history, taken, End, Steps
<1>1. CASE Fail \/ Reconfigure
  BY <1>1 DEF Fail, Reconfigure
<1>2. CASE LoadWrites \/ LoadDone \/ EvictDone
  <2>1. dir' \in [UIDs -> {"none", "partial"} \cup URLs]
    BY <1>2 DEF LoadWrites, LoadDone, EvictDone, Job
  <2>2. loadJob' \in Job /\ evictJob' \in Job
    BY <1>2 DEF LoadWrites, LoadDone, EvictDone, Job
  <2> QED
    BY <1>2, <2>1, <2>2 DEF LoadWrites, LoadDone, EvictDone
<1>3. CASE JobFails \/ FailedJobExpires \/ UnseenJobExpires
  <2>1. loadJob' \in Job /\ evictJob' \in Job
    BY <1>3 DEF JobFails, FailedJobExpires, UnseenJobExpires, Job
  <2> QED
    BY <1>3, <2>1 DEF JobFails, FailedJobExpires, UnseenJobExpires
<1>4. CASE CollectGarbage \/ LosePod
  BY <1>4 DEF CollectGarbage, LosePod
<1>5. CASE CreateModel
  <2>1. uids' \in UIDs
    BY <1>5 DEF CreateModel, UIDs
  <2> QED
    BY <1>5, <2>1 DEF CreateModel, UIDs
<1>6. CASE DeleteModel \/ EditModel
  <2>1. model' \in Model
    <3>1. CASE DeleteModel
      <4>1. [model EXCEPT !.deleting = TRUE] \in Model
        BY DEF Model
      <4> QED
        BY <3>1, <4>1 DEF DeleteModel
    <3>2. CASE EditModel
      <4>1. \/ \E f \in 0..2 : model' = [model EXCEPT !.tidy = FALSE, !.files = f]
            \/ \E c \in BOOLEAN, url \in URLs : model' = [model EXCEPT !.cached = c, !.url = url]
        BY <3>2, Zenon DEF EditModel, URLs
      <4>2. ASSUME NEW f \in 0..2, model' = [model EXCEPT !.tidy = FALSE, !.files = f]
            PROVE  model' \in Model
        BY <4>2 DEF Model
      <4>3. ASSUME NEW c \in BOOLEAN, NEW url \in URLs,
                   model' = [model EXCEPT !.cached = c, !.url = url]
            PROVE  model' \in Model
        BY <4>3 DEF Model
      <4> QED
        BY <4>1, <4>2, <4>3, Zenon
    <3> QED
      BY <1>6, <3>1, <3>2
  <2>2. events' = events \/ events' = events + 1
    BY <1>6 DEF DeleteModel, EditModel
  <2>3. UNCHANGED <<apiVars, dir, uids, step, m>>
    BY <1>6 DEF DeleteModel, EditModel
  <2> QED
    BY <2>1, <2>2, <2>3
<1>7. CASE DeletePVC
  BY <1>7 DEF DeletePVC
<1>8. CASE UNCHANGED vars
  BY <1>8 DEF vars
<1> QED
  BY ReconcileType, <1>1, <1>2, <1>3, <1>4, <1>5, <1>6, <1>7, <1>8 DEF Next, Jobs

-----------------------------------------------------------------------------
(* What writes do to the fields that the invariant is about. *)

\* The fields of a record that has just been made.
LEMMA Fields ==
    /\ NoModel.uid = 0 /\ ~NoModel.deleting /\ ~NoModel.finalizer
    /\ NoModel.url = "url1" /\ NoModel.files = 0
    /\ NoJob.uid = 0 /\ NoJob.state = "none" /\ NoJob.url = "url1"
    /\ NoMap.owner = 0
    /\ \A u, f : /\ NewModel(u, f).uid = u /\ NewModel(u, f).files = f
                 /\ ~NewModel(u, f).deleting /\ ~NewModel(u, f).finalizer
                 /\ NewModel(u, f).url = "url1"
    /\ \A u : EvictJob(u).uid = u /\ EvictJob(u).state = "active"
    /\ \A u, url : /\ LoadJob(u, url).uid = u /\ LoadJob(u, url).state = "active"
                   /\ LoadJob(u, url).url = url
    /\ \A mod : /\ PodOf(mod).uid = mod.uid /\ PodOf(mod).cached = mod.cached
                /\ PodOf(mod).url = mod.url
BY DEF NoModel, NewModel, NoJob, NoMap, EvictJob, LoadJob, PodOf

\* The same fields but those that are named.
Same(a, b)    == a.uid = b.uid /\ a.url = b.url /\ a.cached = b.cached /\ a.files = b.files
SameAll(a, b) == Same(a, b) /\ a.deleting = b.deleting /\ a.finalizer = b.finalizer

\* Updates of a Model change what they say.
LEMMA ModelUpdates ==
    ASSUME NEW a \in Model
    PROVE  /\ SameAll([a EXCEPT !.tidy = TRUE], a)
           /\ \A b \in BOOLEAN : SameAll([a EXCEPT !.loaded = b], a)
           /\ /\ Same([a EXCEPT !.finalizer = TRUE], a)
              /\ [a EXCEPT !.finalizer = TRUE].deleting = a.deleting
              /\ [a EXCEPT !.finalizer = TRUE].finalizer
           /\ /\ Same([a EXCEPT !.deleting = TRUE], a)
              /\ [a EXCEPT !.deleting = TRUE].finalizer = a.finalizer
              /\ [a EXCEPT !.deleting = TRUE].deleting
<1>1. SameAll([a EXCEPT !.tidy = TRUE], a)
  BY DEF SameAll, Same, Model
<1>2. ASSUME NEW b \in BOOLEAN PROVE SameAll([a EXCEPT !.loaded = b], a)
  BY DEF SameAll, Same, Model
<1>3. /\ Same([a EXCEPT !.finalizer = TRUE], a)
      /\ [a EXCEPT !.finalizer = TRUE].deleting = a.deleting
      /\ [a EXCEPT !.finalizer = TRUE].finalizer
  BY DEF Same, Model
<1>4. /\ Same([a EXCEPT !.deleting = TRUE], a)
      /\ [a EXCEPT !.deleting = TRUE].finalizer = a.finalizer
      /\ [a EXCEPT !.deleting = TRUE].deleting
  BY DEF Same, Model
<1> QED
  BY <1>1, <1>2, <1>3, <1>4

\* Updates of the state of a Job leave its UID and its URL.
LEMMA JobUpdates ==
    ASSUME NEW j \in Job, NEW s
    PROVE  /\ [j EXCEPT !.state = s].uid = j.uid
           /\ [j EXCEPT !.state = s].url = j.url
           /\ [j EXCEPT !.state = s].state = s
BY DEF Job

\* Fields have their types.
LEMMA FieldTypes ==
    ASSUME TypeOK
    PROVE  /\ model.uid \in 0..MaxModels /\ m.uid \in 0..MaxModels
           /\ model.deleting \in BOOLEAN /\ m.deleting \in BOOLEAN
           /\ model.finalizer \in BOOLEAN /\ m.finalizer \in BOOLEAN
           /\ model.cached \in BOOLEAN /\ m.cached \in BOOLEAN
           /\ model.loaded \in BOOLEAN /\ m.loaded \in BOOLEAN
           /\ model.files \in 0..2 /\ m.files \in 0..2
           /\ model.url \in URLs /\ m.url \in URLs
           /\ loadJob.uid \in 0..MaxModels /\ evictJob.uid \in 0..MaxModels
           /\ loadJob.url \in URLs /\ cm.owner \in 0..MaxModels
           /\ \A p \in pods : p.uid \in UIDs /\ p.cached \in BOOLEAN /\ p.url \in URLs
           /\ UIDs \subseteq Nat /\ MaxModels \in Nat /\ UIDs = 1..MaxModels
BY ModelCacheAssumption DEF TypeOK, Model, Job, UIDs

\* Numbers are numbers, and UIDs that are not zero are UIDs.
LEMMA NumberTypes ==
    ASSUME TypeOK
    PROVE  /\ model.uid \in Nat /\ m.uid \in Nat /\ cm.owner \in Nat
           /\ loadJob.uid \in Nat /\ evictJob.uid \in Nat
           /\ uids \in Nat /\ ann \in Nat
           /\ model.uid \in UIDs \cup {0} /\ m.uid \in UIDs \cup {0}
           /\ loadJob.uid \in UIDs \cup {0} /\ evictJob.uid \in UIDs \cup {0}
           /\ \A p \in pods : p.uid \in Nat
           /\ dir \in [UIDs -> {"none", "partial"} \cup URLs]
           /\ step # "idle" => m.uid # 0
<1>1. /\ uids \in 0..MaxModels /\ ann \in 0..MaxModels
      /\ dir \in [UIDs -> {"none", "partial"} \cup URLs]
      /\ step # "idle" => m.uid # 0
  BY DEF TypeOK
<1>2. \A u \in 0..MaxModels : u \in Nat /\ u \in UIDs \cup {0}
  BY ModelCacheAssumption DEF UIDs
<1>3. \A p \in pods : p.uid \in Nat
  BY FieldTypes
<1> QED
  BY FieldTypes, <1>1, <1>2, <1>3

-----------------------------------------------------------------------------
(* The steps, as the invariant sees them: without the configuration, the       *)
(* headless Services and the counters that only bound the runs.                *)

others == <<uids, history>>
shared == <<cm, pvc, ann, loadJob, evictJob, dir, pods>>
mapped == <<cm, pvc, dir>>

Stop  == step' = "idle" /\ m' = NoModel
Kept  == queued' \/ ~queued

Stops ==
    /\ Stop
    /\ queued' \/ (~queued /\ step \notin {"idle", "files"})
    /\ UNCHANGED <<model, shared, others>>

Walks ==
    /\ \/ step = "tidy" /\ step' = "config"
       \/ step = "config" /\ step' = "deletePods" /\ m.deleting
       \/ step = "config" /\ step' = "pvc" /\ ~m.deleting /\ m.cached
       \/ step = "config" /\ step' = "service" /\ ~m.deleting /\ ~m.cached
       \/ step = "finalize" /\ step' = "firstLoadJob" /\ ~pvc
       \/ step = "addFinalizer" /\ step' = "load" /\ m.finalizer
       \/ step = "load" /\ step' = "deleteJob" /\ ann = m.uid
       \/ step = "service" /\ step' = "pods"
    /\ SameAll(m', m) /\ Kept
    /\ UNCHANGED <<model, shared, others>>

Reads ==
    /\ step = "idle" /\ queued /\ m' = model
    /\ (model.uid = 0 /\ step' = "idle") \/ (model.uid # 0 /\ step' = "files")
    /\ UNCHANGED <<model, shared, others>>

WritesMap ==
    /\ step = "files" /\ step' = "tidy" /\ Kept
    /\ cm'.owner \in {0, cm.owner, m.uid}
    /\ m.files # 0 =>
        cm' = [owner |-> m.uid, data |-> m.files] \/ m.uid \in inherited'
    /\ inherited \subseteq inherited'
    /\ UNCHANGED <<model, m, pvc, ann, loadJob, evictJob, dir, pods, uids, raced, moved, adopted,
                   emptied>>

WritesModel ==
    /\ step \in {"tidy", "status"} /\ Stop /\ model.uid # 0
    /\ queued' \/ (step = "status" /\ ~queued)
    /\ SameAll(model', model)
    /\ UNCHANGED <<shared, others>>

DeletesPods ==
    /\ step = "deletePods" /\ pods' = {} /\ Kept
    /\ Stop \/ (step' = "finalize" /\ UNCHANGED m)
    /\ UNCHANGED <<model, mapped, ann, loadJob, evictJob, others>>

MakesEvictJob ==
    /\ step = "finalize" /\ pvc /\ evictJob.uid = 0
    /\ evictJob'.uid = m.uid /\ evictJob'.state = "active"
    /\ Stop /\ queued'
    /\ UNCHANGED <<model, mapped, ann, loadJob, pods, others>>

HasEvicted ==
    /\ step = "finalize" /\ pvc /\ evictJob.state = "complete"
    /\ ann' = 0 /\ step' = "removeFinalizer" /\ Kept
    /\ adopted \subseteq adopted' /\ (evictJob.uid # m.uid => m.uid \in adopted')
    /\ UNCHANGED <<model, m, mapped, loadJob, evictJob, pods, uids, raced, moved, emptied,
                   inherited>>

RemovesFinalizer ==
    /\ model = m /\ model' = NoModel /\ queued'
    /\ \/ step = "lastFinalizer" /\ Stop
       \/ step = "removeFinalizer" /\ step' = "deleteLoadJob" /\ UNCHANGED m
    /\ UNCHANGED <<shared, others>>

DeletesLoadJob ==
    /\ \/ step = "firstLoadJob" /\ step' = "firstEvictJob"
       \/ step = "deleteLoadJob" /\ step' = "deleteEvictJob"
       \/ step = "deleteJob" /\ step' = "service"
    /\ loadJob' = NoJob /\ Kept
    /\ UNCHANGED <<model, m, mapped, ann, evictJob, pods, others>>

DeletesEvictJob ==
    /\ \/ step = "firstEvictJob" /\ step' = "lastFinalizer" /\ UNCHANGED m
       \/ step = "deleteEvictJob" /\ Stop
    /\ evictJob' = NoJob /\ Kept
    /\ UNCHANGED <<model, mapped, ann, loadJob, pods, others>>

CreatesPVC ==
    /\ step = "pvc" /\ step' = "addFinalizer" /\ pvc' /\ Kept
    /\ UNCHANGED <<model, m, cm, ann, loadJob, evictJob, dir, pods, others>>

AddsFinalizer ==
    /\ step = "addFinalizer" /\ ~m.finalizer /\ model = m
    /\ m' = model' /\ Same(m', m) /\ m'.deleting = m.deleting /\ m'.finalizer
    /\ step' = "load" /\ queued'
    /\ UNCHANGED <<shared, others>>

MakesLoadJob ==
    /\ step = "load" /\ ann # m.uid /\ loadJob.uid = 0
    /\ loadJob'.uid = m.uid /\ loadJob'.url = m.url /\ loadJob'.state = "active"
    /\ Stop /\ queued'
    /\ UNCHANGED <<model, mapped, ann, evictJob, pods, others>>

Annotates ==
    /\ step = "load" /\ loadJob.uid # 0 /\ loadJob.state = "complete"
    /\ ann' = m.uid /\ SameAll(m', m) /\ step' = "deleteJob" /\ Kept
    /\ adopted \subseteq adopted' /\ (loadJob.uid # m.uid => m.uid \in adopted')
    /\ UNCHANGED <<model, mapped, loadJob, evictJob, pods, uids, raced, moved, emptied,
                   inherited>>

MakesPods ==
    /\ step = "pods" /\ step' = "status" /\ Kept
    /\ pods' = {p \in pods : p.uid # m.uid} \cup {PodOf(m)}
    /\ UNCHANGED <<model, m, mapped, ann, loadJob, evictJob, others>>

\* A Job is gone or has failed.
Ended(j, k) == k = j \/ k = NoJob \/ (k.uid = j.uid /\ k.url = j.url /\ k.state = "failed"
                                        /\ j.state = "active")

JobsEnd ==
    /\ Ended(loadJob, loadJob') /\ Ended(evictJob, evictJob')
    /\ queued'
    /\ UNCHANGED <<model, m, step, mapped, ann, pods, others>>

PodsGo ==
    /\ pods' \subseteq pods /\ queued'
    /\ UNCHANGED <<model, m, step, mapped, ann, loadJob, evictJob, others>>

MapGoes ==
    /\ cm.owner \notin {0, model.uid} /\ cm' = NoMap
    /\ UNCHANGED <<model, m, step, queued, pvc, ann, loadJob, evictJob, dir, pods, others>>

StartsToLoad ==
    /\ loadJob.state = "active" /\ pvc /\ dir[loadJob.uid] = "none"
    /\ dir' = [dir EXCEPT ![loadJob.uid] = "partial"]
    /\ UNCHANGED <<model, m, step, queued, cm, pvc, ann, loadJob, evictJob, pods, others>>

HasLoaded ==
    /\ loadJob.state = "active" /\ pvc /\ dir[loadJob.uid] # "none"
    /\ dir' = [dir EXCEPT ![loadJob.uid] = loadJob.url]
    /\ loadJob'.uid = loadJob.uid /\ loadJob'.url = loadJob.url /\ loadJob'.state = "complete"
    /\ queued'
    /\ UNCHANGED <<model, m, step, cm, pvc, ann, evictJob, pods, others>>

Evicts ==
    /\ evictJob.state = "active" /\ pvc
    /\ dir' = [dir EXCEPT ![evictJob.uid] = "none"]
    /\ raced \subseteq raced'
    /\ (loadJob.uid = evictJob.uid /\ loadJob.state = "active") => evictJob.uid \in raced'
    /\ evictJob'.uid = evictJob.uid /\ evictJob'.state = "complete"
    /\ queued'
    /\ UNCHANGED <<model, m, step, cm, pvc, ann, loadJob, pods,
                   uids, moved, taken>>

Creates ==
    /\ model.uid = 0 /\ uids < MaxModels /\ uids' = uids + 1
    /\ model'.uid = uids' /\ model'.url = "url1" /\ ~model'.deleting /\ ~model'.finalizer
    /\ queued'
    /\ UNCHANGED <<m, step, shared, history>>

Deletes ==
    /\ model.uid # 0 /\ ~model.deleting /\ queued'
    /\ \/ model.finalizer /\ Same(model', model) /\ model'.finalizer /\ model'.deleting
       \/ ~model.finalizer /\ model' = NoModel
    /\ UNCHANGED <<m, step, shared, others>>

Edits ==
    /\ model.uid # 0 /\ model'.uid = model.uid
    /\ model'.deleting = model.deleting /\ model'.finalizer = model.finalizer
    /\ moved \subseteq moved'
    /\ model.uid \in moved' \/ (model'.url = model.url /\ moved' = moved)
    /\ queued'
    /\ UNCHANGED <<shared, m, step, uids, raced, taken>>

DeletesPVC ==
    /\ ~pvc' /\ ann' = 0 /\ dir' = [u \in UIDs |-> "none"]
    /\ \A p \in pods : ~p.cached
    /\ emptied \subseteq emptied'
    /\ \A u \in UIDs : loadJob.uid = u /\ loadJob.state = "complete" => u \in emptied'
    /\ \A u \in UIDs :
        m.uid = u /\ m.cached /\ step \in {"deleteJob", "service", "pods"} => u \in emptied'
    /\ UNCHANGED <<model, m, step, queued, cm, loadJob, evictJob, pods, uids, moved, raced, adopted,
                   inherited>>

Stutters == UNCHANGED <<model, m, step, queued, shared, others>>

ControllerWrites ==
    \/ WritesMap \/ WritesModel \/ DeletesPods \/ MakesEvictJob \/ HasEvicted \/ RemovesFinalizer
    \/ DeletesLoadJob \/ DeletesEvictJob \/ CreatesPVC \/ AddsFinalizer \/ MakesLoadJob
    \/ Annotates \/ MakesPods

OthersWrite ==
    \/ JobsEnd \/ PodsGo \/ MapGoes \/ StartsToLoad \/ HasLoaded \/ Evicts
    \/ Creates \/ Deletes \/ Edits \/ DeletesPVC

View == Stops \/ Walks \/ Reads \/ ControllerWrites \/ OthersWrite \/ Stutters

\* An edit changes neither the UID of a Model nor its deletion and finalizer; a
\* change of the URL is noted.
LEMMA EditFacts ==
    ASSUME TypeOK, EditModel
    PROVE  /\ model.uid # 0 /\ model'.uid = model.uid
           /\ model'.deleting = model.deleting /\ model'.finalizer = model.finalizer
           /\ moved \subseteq moved'
           /\ model.uid \in moved' \/ (model'.url = model.url /\ moved' = moved)
           /\ queued'
           /\ UNCHANGED <<cm, pvc, ann, loadJob, evictJob, pods, dir, uids, step, m, raced,
                          taken>>
<1>1. /\ model.uid # 0 /\ queued'
      /\ moved' = IF model'.url # model.url THEN moved \cup {model.uid} ELSE moved
      /\ UNCHANGED <<cm, pvc, ann, loadJob, evictJob, pods, dir, uids, step, m, raced, taken>>
  BY DEF EditModel, apiVars
<1>2. \/ \E f \in 0..2 : model' = [model EXCEPT !.tidy = FALSE, !.files = f]
      \/ \E c \in BOOLEAN, url \in URLs : model' = [model EXCEPT !.cached = c, !.url = url]
  BY Zenon DEF EditModel, URLs
<1>3. ASSUME NEW f \in 0..2, model' = [model EXCEPT !.tidy = FALSE, !.files = f]
      PROVE  /\ model'.uid = model.uid
             /\ model'.deleting = model.deleting /\ model'.finalizer = model.finalizer
  BY <1>3 DEF TypeOK, Model
<1>4. ASSUME NEW c \in BOOLEAN, NEW url \in URLs,
             model' = [model EXCEPT !.cached = c, !.url = url]
      PROVE  /\ model'.uid = model.uid
             /\ model'.deleting = model.deleting /\ model'.finalizer = model.finalizer
  BY <1>4 DEF TypeOK, Model
<1>5. /\ model'.uid = model.uid
      /\ model'.deleting = model.deleting /\ model'.finalizer = model.finalizer
  BY <1>2, <1>3, <1>4, Zenon
<1> QED
  BY <1>1, <1>5

\* How a reconcile ends.
LEMMA EndFacts ==
    /\ End(TRUE) => Stop /\ queued'
    /\ End(FALSE) => Stop /\ (queued' \/ ~queued)
BY DEF End, Stop

\* The steps of the controller are among these.
LEMMA ControllerView == TypeOK /\ Reconcile => View
<1> SUFFICES ASSUME TypeOK, Reconcile PROVE View
  OBVIOUS
<1> USE DEF others, history, taken, shared, mapped, apiVars, userVars, Goto, Kept, View, GoneSteps
<1>1. m \in Model /\ model \in Model
  BY DEF TypeOK
<1>2. CASE Get
  BY <1>2 DEF Get, Reads
<1>3. CASE EnsureFiles
  <2>1. cm'.owner \in {0, cm.owner, m.uid}
    BY <1>3, Fields DEF EnsureFiles, FilesMap, TypeOK
  <2>2. ASSUME m.files # 0
        PROVE  cm' = [owner |-> m.uid, data |-> m.files] \/ m.uid \in inherited'
    BY <1>3, <2>2, FieldTypes DEF EnsureFiles, FilesMap, TypeOK
  <2>3. WritesMap
    BY <1>3, <2>1, <2>2 DEF EnsureFiles, WritesMap
  <2> QED
    BY <2>3 DEF ControllerWrites
<1>4. CASE Tidy
  <2>1. CASE ~ShouldUpdate
    BY <1>4, <2>1 DEF Tidy, Walks, SameAll, Same
  <2>2. CASE ShouldUpdate
    <3>1. model' = [model EXCEPT !.tidy = TRUE] /\ End(TRUE)
      BY <1>4, <2>2 DEF Tidy
    <3>2. SameAll(model', model)
      BY <1>1, <3>1, ModelUpdates
    <3> QED
      BY <1>4, <2>2, <3>1, <3>2, EndFacts DEF Tidy, WritesModel, ControllerWrites, TypeOK
  <2> QED
    BY <2>1, <2>2
<1>5. CASE GetModelConfig
  <2>1. CASE config = "missing"
    BY <1>1, <1>5, <2>1, EndFacts DEF GetModelConfig, Stops
  <2>2. CASE config # "missing"
    BY <1>5, <2>2 DEF GetModelConfig, Walks, SameAll, Same
  <2> QED
    BY <2>1, <2>2
<1>6. CASE DeletePods
  BY <1>6 DEF DeletePods, DeletesPods, ControllerWrites, End, Stop
<1>7. CASE FinalizeWithoutPVC
  BY <1>7 DEF FinalizeWithoutPVC, Walks, SameAll, Same
<1>8. CASE Evict
  <2>1. CASE evictJob.uid = 0 /\ evictJob' = EvictJob(m.uid) /\ End(TRUE) /\ UNCHANGED ann
    BY <1>8, <2>1, Fields, EndFacts DEF Evict, MakesEvictJob, Stop, ControllerWrites
  <2>2. CASE End(FALSE) /\ UNCHANGED <<evictJob, ann>>
    BY <1>8, <1>1, <2>2, EndFacts DEF Evict, Stops, Stop
  <2>3. CASE /\ evictJob.state = "complete" /\ ann' = 0 /\ Goto("removeFinalizer")
                  /\ UNCHANGED evictJob
    BY <1>8, <2>3 DEF Evict, Adopted, HasEvicted, ControllerWrites
  <2> QED
    BY <1>8, <2>1, <2>2, <2>3 DEF Evict
<1>9. CASE RemoveFinalizer
  BY <1>9, EndFacts DEF RemoveFinalizer, RemovesFinalizer, ControllerWrites
<1>10. CASE DeleteLoadJob \/ DeleteJob
  BY <1>10 DEF DeleteLoadJob, DeleteJob, DeletesLoadJob, ControllerWrites
<1>11. CASE DeleteEvictJob
  BY <1>11 DEF DeleteEvictJob, DeletesEvictJob, ControllerWrites, End, Stop
<1>12. CASE CreatePVC
  BY <1>12 DEF CreatePVC, CreatesPVC, ControllerWrites
<1>13. CASE AddFinalizer
  <2>1. CASE m.finalizer /\ UNCHANGED model
    BY <1>13, <2>1 DEF AddFinalizer, Walks, SameAll, Same
  <2>2. CASE ~m.finalizer
    <3>1. model' = [m EXCEPT !.finalizer = TRUE]
      BY <1>13, <2>2 DEF AddFinalizer
    <3>2. Same(model', m) /\ model'.deleting = m.deleting /\ model'.finalizer
      BY <1>1, <3>1, ModelUpdates
    <3> QED
      BY <1>13, <2>2, <3>2 DEF AddFinalizer, AddsFinalizer, ControllerWrites, Same
  <2> QED
    BY <1>13, <2>1, <2>2 DEF AddFinalizer
<1>14. CASE Load
  <2>1. CASE /\ loadJob.uid = 0 /\ loadJob' = LoadJob(m.uid, m.url)
             /\ End(TRUE) /\ UNCHANGED ann
    BY <1>14, <2>1, Fields, EndFacts DEF Load, MakesLoadJob, Stop, ControllerWrites, IsAnnotated
  <2>2. CASE End(FALSE) /\ UNCHANGED <<loadJob, ann>>
    BY <1>14, <1>1, <2>2, EndFacts DEF Load, Stops, Stop
  <2>3. CASE /\ loadJob.uid # 0 /\ IsJobCompleted(loadJob) /\ Annotate
             /\ m' = [m EXCEPT !.loaded = FALSE]
             /\ step' = "deleteJob" /\ UNCHANGED <<loadJob, queued>>
    <3>1. SameAll(m', m)
      BY <1>1, <2>3, ModelUpdates
    <3> QED
      BY <1>14, <2>3, <3>1 DEF Load, Annotates, Annotate, Adopted, IsJobCompleted, ControllerWrites
  <2> QED
    BY <1>14, <2>1, <2>2, <2>3 DEF Load
<1>15. CASE Loaded
  <2>1. SameAll(m', m)
    BY <1>1, <1>15, ModelUpdates DEF Loaded
  <2> QED
    BY <1>15, <2>1 DEF Loaded, Walks, IsAnnotated
<1>16. CASE ReconcileService
  BY <1>16 DEF ReconcileService, Walks, SameAll, Same
<1>17. CASE EnsurePods
  BY <1>17 DEF EnsurePods, MakesPods, ControllerWrites
<1>18. CASE UpdateStatus
  <2>1. SameAll(model', model)
    <3>1. m.loaded \in BOOLEAN
      BY <1>1 DEF Model
    <3> QED
      BY <1>1, <1>18, <3>1, ModelUpdates DEF UpdateStatus
  <2> QED
    BY <1>18, <2>1 DEF UpdateStatus, WritesModel, ControllerWrites, End, Stop, TypeOK, SameAll, Same
<1>19. CASE Conflict
  BY <1>19, <1>1, EndFacts DEF Conflict, Stops
<1> QED
  BY <1>2, <1>3, <1>4, <1>5, <1>6, <1>7, <1>8, <1>9, <1>10, <1>11, <1>12, <1>13, <1>14,
     <1>15, <1>16, <1>17, <1>18, <1>19 DEF Reconcile

\* And so are all the others.
LEMMA NextView == TypeOK /\ [Next]_vars => View
<1> SUFFICES ASSUME TypeOK, [Next]_vars PROVE View
  OBVIOUS
<1> USE DEF others, history, taken, shared, mapped, apiVars, userVars, View
<1>1. /\ loadJob \in Job /\ evictJob \in Job /\ model \in Model
      /\ uids \in Nat /\ MaxModels \in Nat
  BY ModelCacheAssumption DEF TypeOK
<1>2. CASE Fail \/ Reconfigure
  <2>1. End(TRUE) /\ UNCHANGED <<model, shared, others>>
    BY <1>2 DEF Fail, Reconfigure
  <2> QED
    BY <1>1, <2>1, EndFacts DEF Stops
<1>3. CASE LoadWrites
  BY <1>3 DEF LoadWrites, StartsToLoad, OthersWrite
<1>4. CASE LoadDone
  <2>1. /\ loadJob'.uid = loadJob.uid /\ loadJob'.url = loadJob.url
        /\ loadJob'.state = "complete"
    BY <1>1, <1>4, JobUpdates DEF LoadDone
  <2> QED
    BY <1>4, <2>1 DEF LoadDone, HasLoaded, OthersWrite
<1>5. CASE EvictDone
  <2>1. evictJob'.uid = evictJob.uid /\ evictJob'.state = "complete"
    BY <1>1, <1>5, JobUpdates DEF EvictDone
  <2>2. /\ raced \subseteq raced'
        /\ (loadJob.uid = evictJob.uid /\ loadJob.state = "active") => evictJob.uid \in raced'
    BY <1>5 DEF EvictDone
  <2> QED
    BY <1>5, <2>1, <2>2 DEF EvictDone, Evicts, OthersWrite
<1>6. CASE JobFails \/ FailedJobExpires \/ UnseenJobExpires
  <2>1. Ended(loadJob, loadJob') /\ Ended(evictJob, evictJob')
    <3>1. CASE JobFails
      <4>1. \/ /\ loadJob.state = "active" /\ UNCHANGED evictJob
               /\ loadJob' = [loadJob EXCEPT !.state = "failed"]
            \/ /\ evictJob.state = "active" /\ UNCHANGED loadJob
               /\ evictJob' = [evictJob EXCEPT !.state = "failed"]
        BY <3>1 DEF JobFails
      <4>2. ASSUME NEW j \in Job, NEW k, j.state = "active", k = [j EXCEPT !.state = "failed"]
            PROVE  Ended(j, k)
        BY <4>2, JobUpdates DEF Ended
      <4> QED
        BY <1>1, <4>1, <4>2 DEF Ended
    <3>2. CASE FailedJobExpires \/ UnseenJobExpires
      BY <3>2 DEF FailedJobExpires, UnseenJobExpires, Ended
    <3> QED
      BY <1>6, <3>1, <3>2
  <2> QED
    BY <1>1, <1>6, <2>1 DEF JobFails, FailedJobExpires, UnseenJobExpires, JobsEnd, OthersWrite
<1>7. CASE CollectGarbage
  BY <1>1, <1>7 DEF CollectGarbage, JobsEnd, Ended, PodsGo, MapGoes, OthersWrite
<1>8. CASE LosePod
  BY <1>8 DEF LosePod, PodsGo, OthersWrite
<1>9. CASE CreateModel
  <2>1. /\ model'.uid = uids' /\ model'.url = "url1"
        /\ ~model'.deleting /\ ~model'.finalizer
    BY <1>9, Fields DEF CreateModel
  <2> QED
    BY <1>9, <2>1 DEF CreateModel, Creates, OthersWrite
<1>10. CASE DeleteModel
  <2>1. \/ model.finalizer /\ Same(model', model) /\ model'.finalizer /\ model'.deleting
        \/ ~model.finalizer /\ model' = NoModel
    BY <1>1, <1>10, ModelUpdates DEF DeleteModel
  <2> QED
    BY <1>10, <2>1 DEF DeleteModel, Deletes, OthersWrite
<1>11. CASE EditModel
  BY <1>11, EditFacts DEF Edits, OthersWrite
<1>12. CASE DeletePVC
  BY <1>12 DEF DeletePVC, DeletesPVC, OthersWrite
<1>13. CASE UNCHANGED vars
  BY <1>13 DEF vars, Stutters
<1> QED
  BY ControllerView, <1>2, <1>3, <1>4, <1>5, <1>6, <1>7, <1>8, <1>9, <1>10, <1>11, <1>12,
     <1>13 DEF Next, Jobs

\* The Pods of a plan are those of the Model that was read, and others.
LEMMA PodsMade ==
    ASSUME MakesPods
    PROVE  \A p \in pods' :
              \/ p \in pods
              \/ p.uid = m.uid /\ p.cached = m.cached /\ p.url = m.url
<1>1. ASSUME NEW p \in pods', p \notin pods PROVE p = PodOf(m)
  BY <1>1 DEF MakesPods
<1>2. PodOf(m).uid = m.uid /\ PodOf(m).cached = m.cached /\ PodOf(m).url = m.url
  BY DEF PodOf
<1> QED
  BY <1>1, <1>2, Zenon

-----------------------------------------------------------------------------
(* UIDs. *)

\* New UIDs are greater than those in use.
LEMMA UIDStep == TypeOK /\ TypeOK' /\ UIDInv /\ ReadInv /\ View => UIDInv'
<1> SUFFICES ASSUME TypeOK, TypeOK', UIDInv, ReadInv, View PROVE UIDInv'
  OBVIOUS
<1>1. /\ model.uid \in Nat /\ m.uid \in Nat /\ uids \in Nat /\ cm.owner \in Nat /\ ann \in Nat
      /\ loadJob.uid \in Nat /\ evictJob.uid \in Nat /\ UIDs \subseteq Nat
      /\ dir \in [UIDs -> {"none", "partial"} \cup URLs]
      /\ \A p \in pods : p.uid \in Nat
      /\ step # "idle" => m.uid # 0
  BY FieldTypes, NumberTypes
<1> USE <1>1, Fields DEF UIDInv, others, history, taken, shared, mapped, Stop, Same, SameAll
<1>2. CASE Stops \/ Walks \/ Reads \/ Stutters
  BY <1>2 DEF Stops, Walks, Reads, Stutters
<1>3. CASE WritesMap \/ WritesModel \/ DeletesPods
  BY <1>3 DEF WritesMap, WritesModel, DeletesPods
<1>4. CASE MakesEvictJob \/ HasEvicted \/ RemovesFinalizer
  BY <1>4 DEF MakesEvictJob, HasEvicted, RemovesFinalizer
<1>5. CASE DeletesLoadJob \/ DeletesEvictJob \/ CreatesPVC \/ AddsFinalizer
  BY <1>5 DEF DeletesLoadJob, DeletesEvictJob, CreatesPVC, AddsFinalizer
<1>6. CASE MakesLoadJob \/ Annotates
  <2>1. CASE MakesLoadJob
    BY <2>1 DEF MakesLoadJob
  <2>2. CASE Annotates
    BY <2>2 DEF Annotates
  <2> QED
    BY <1>6, <2>1, <2>2
<1>7. CASE MakesPods
  <2>1. \A p \in pods' : p.uid <= uids
    BY <1>7, PodsMade
  <2> QED
    BY <1>7, <2>1 DEF MakesPods
<1>8. CASE JobsEnd \/ PodsGo \/ MapGoes
  BY <1>8 DEF JobsEnd, PodsGo, MapGoes, Ended
<1>9. CASE StartsToLoad \/ HasLoaded \/ Evicts
  BY <1>9 DEF StartsToLoad, HasLoaded, Evicts
<1>10. CASE Creates \/ Deletes \/ Edits \/ DeletesPVC
  BY <1>10 DEF Creates, Deletes, Edits, DeletesPVC
<1> QED
  BY <1>2, <1>3, <1>4, <1>5, <1>6, <1>7, <1>8, <1>9, <1>10
  DEF View, ControllerWrites, OthersWrite

-----------------------------------------------------------------------------
(* What the controller has read. *)

\* The controller acts on a Model that is being deleted, or on one that is not,
\* until it has removed its last finalizer.
LEMMA ReadStep == TypeOK /\ TypeOK' /\ UIDInv /\ ReadInv /\ View => ReadInv'
<1> SUFFICES ASSUME TypeOK, TypeOK', UIDInv, ReadInv, View PROVE ReadInv'
  OBVIOUS
<1>1. /\ model.uid \in Nat /\ m.uid \in Nat /\ uids \in Nat
      /\ model.deleting \in BOOLEAN /\ m.deleting \in BOOLEAN
      /\ model.finalizer \in BOOLEAN /\ m.finalizer \in BOOLEAN
      /\ m.cached \in BOOLEAN
      /\ step # "idle" => m.uid # 0
      /\ model.uid \in {0, uids} /\ m.uid <= uids
      /\ model.uid = 0 => model = NoModel
      /\ step = "idle" => m = NoModel
  BY FieldTypes, NumberTypes DEF UIDInv
<1> USE <1>1, Fields DEF ReadInv, others, history, taken, shared, mapped, Stop, Same, SameAll,
        DeleteSteps, CacheSteps, PodSteps, GoneSteps
<1>2. CASE Stops \/ Walks \/ Reads \/ Stutters
  BY <1>2 DEF Stops, Walks, Reads, Stutters
<1>3. CASE WritesMap \/ WritesModel \/ DeletesPods
  BY <1>3 DEF WritesMap, WritesModel, DeletesPods
<1>4. CASE MakesEvictJob \/ HasEvicted \/ RemovesFinalizer
  BY <1>4 DEF MakesEvictJob, HasEvicted, RemovesFinalizer
<1>5. CASE DeletesLoadJob \/ DeletesEvictJob \/ CreatesPVC \/ AddsFinalizer
  BY <1>5 DEF DeletesLoadJob, DeletesEvictJob, CreatesPVC, AddsFinalizer
<1>6. CASE MakesLoadJob \/ Annotates
  BY <1>6 DEF MakesLoadJob, Annotates
<1>7. CASE MakesPods
  BY <1>7 DEF MakesPods
<1>8. CASE JobsEnd \/ PodsGo \/ MapGoes
  BY <1>8 DEF JobsEnd, PodsGo, MapGoes, Ended
<1>9. CASE StartsToLoad \/ HasLoaded \/ Evicts
  BY <1>9 DEF StartsToLoad, HasLoaded, Evicts
<1>10. CASE Creates \/ Deletes \/ Edits \/ DeletesPVC
  BY <1>10 DEF Creates, Deletes, Edits, DeletesPVC
<1> QED
  BY <1>2, <1>3, <1>4, <1>5, <1>6, <1>7, <1>8, <1>9, <1>10
  DEF View, ControllerWrites, OthersWrite

-----------------------------------------------------------------------------
(* Jobs. *)

\* Jobs are made for the Model that is there, by a controller that knows of its
\* finalizer and of its deletion.
LEMMA JobStep == TypeOK /\ TypeOK' /\ UIDInv /\ ReadInv /\ JobInv /\ View => JobInv'
<1> SUFFICES ASSUME TypeOK, TypeOK', UIDInv, ReadInv, JobInv, View PROVE JobInv'
  OBVIOUS
<1>1. /\ model.uid \in Nat /\ m.uid \in Nat /\ uids \in Nat
      /\ loadJob.uid \in Nat /\ evictJob.uid \in Nat
      /\ model.deleting \in BOOLEAN /\ m.deleting \in BOOLEAN
      /\ model.finalizer \in BOOLEAN /\ m.finalizer \in BOOLEAN
      /\ step # "idle" => m.uid # 0
      /\ model.uid \in {0, uids} /\ loadJob.uid <= uids /\ evictJob.uid <= uids
  BY FieldTypes, NumberTypes DEF UIDInv
<1> USE <1>1, Fields DEF ReadInv, JobInv, others, history, taken, shared, mapped, Stop, Same, SameAll,
        DeleteSteps, CacheSteps, PodSteps, GoneSteps
<1>2. CASE Stops \/ Walks \/ Reads \/ Stutters
  BY <1>2 DEF Stops, Walks, Reads, Stutters
<1>3. CASE WritesMap \/ WritesModel \/ DeletesPods
  BY <1>3 DEF WritesMap, WritesModel, DeletesPods
<1>4. CASE MakesEvictJob \/ HasEvicted \/ RemovesFinalizer
  BY <1>4 DEF MakesEvictJob, HasEvicted, RemovesFinalizer
<1>5. CASE DeletesLoadJob \/ DeletesEvictJob \/ CreatesPVC \/ AddsFinalizer
  BY <1>5 DEF DeletesLoadJob, DeletesEvictJob, CreatesPVC, AddsFinalizer
<1>6. CASE MakesLoadJob \/ Annotates
  BY <1>6 DEF MakesLoadJob, Annotates
<1>7. CASE MakesPods
  BY <1>7 DEF MakesPods
<1>8. CASE JobsEnd \/ PodsGo \/ MapGoes
  BY <1>8 DEF JobsEnd, PodsGo, MapGoes, Ended
<1>9. CASE StartsToLoad \/ HasLoaded \/ Evicts
  BY <1>9 DEF StartsToLoad, HasLoaded, Evicts
<1>10. CASE Creates \/ Deletes \/ Edits \/ DeletesPVC
  BY <1>10 DEF Creates, Deletes, Edits, DeletesPVC
<1> QED
  BY <1>2, <1>3, <1>4, <1>5, <1>6, <1>7, <1>8, <1>9, <1>10
  DEF View, ControllerWrites, OthersWrite

-----------------------------------------------------------------------------
(* Eviction. *)

\* What an evict Job has removed is not loaded again, unless a load Job was
\* still at work.
LEMMA EvictStep == TypeOK /\ TypeOK' /\ UIDInv /\ ReadInv /\ JobInv /\ EvictInv /\ View => EvictInv'
<1> SUFFICES ASSUME TypeOK, TypeOK', UIDInv, ReadInv, JobInv, EvictInv, View PROVE EvictInv'
  OBVIOUS
<1>1. /\ model.uid \in Nat /\ m.uid \in Nat /\ uids \in Nat
      /\ loadJob.uid \in Nat /\ evictJob.uid \in Nat /\ MaxModels \in Nat /\ UIDs = 1..MaxModels
      /\ model.deleting \in BOOLEAN /\ m.deleting \in BOOLEAN
      /\ model.finalizer \in BOOLEAN /\ m.finalizer \in BOOLEAN
      /\ step # "idle" => m.uid # 0
      /\ model.uid \in UIDs \cup {0}
      /\ loadJob.uid \in UIDs \cup {0} /\ evictJob.uid \in UIDs \cup {0} /\ m.uid \in UIDs \cup {0}
      /\ dir \in [UIDs -> {"none", "partial"} \cup URLs]
  BY FieldTypes, NumberTypes
<1> USE <1>1, Fields DEF UIDInv, ReadInv, JobInv, EvictInv, Clean, others, history, taken, shared, mapped,
        Stop, Same, SameAll, DeleteSteps, CacheSteps, PodSteps, GoneSteps
<1>2. CASE Stops \/ Walks \/ Reads \/ Stutters
  BY <1>2 DEF Stops, Walks, Reads, Stutters
<1>3. CASE WritesMap \/ WritesModel \/ DeletesPods
  BY <1>3 DEF WritesMap, WritesModel, DeletesPods
<1>4. CASE MakesEvictJob \/ HasEvicted \/ RemovesFinalizer
  BY <1>4 DEF MakesEvictJob, HasEvicted, RemovesFinalizer
<1>5. CASE DeletesLoadJob \/ DeletesEvictJob \/ CreatesPVC \/ AddsFinalizer
  BY <1>5 DEF DeletesLoadJob, DeletesEvictJob, CreatesPVC, AddsFinalizer
<1>6. CASE MakesLoadJob \/ Annotates
  BY <1>6 DEF MakesLoadJob, Annotates
<1>7. CASE MakesPods
  BY <1>7 DEF MakesPods
<1>8. CASE JobsEnd \/ PodsGo \/ MapGoes
  <2>1. CASE JobsEnd
    BY <2>1 DEF JobsEnd, Ended
  <2>2. CASE PodsGo
    BY <2>2 DEF PodsGo
  <2>3. CASE MapGoes
    BY <2>3 DEF MapGoes
  <2> QED
    BY <1>8, <2>1, <2>2, <2>3
<1>9. CASE StartsToLoad \/ HasLoaded \/ Evicts
  <2>1. CASE StartsToLoad
    BY <2>1 DEF StartsToLoad
  <2>2. CASE HasLoaded
    BY <2>2 DEF HasLoaded
  <2>3. CASE Evicts
    BY <2>3 DEF Evicts
  <2> QED
    BY <1>9, <2>1, <2>2, <2>3
<1>10. CASE Creates \/ Deletes \/ Edits \/ DeletesPVC
  <2>1. CASE Creates
    BY <2>1 DEF Creates
  <2>2. CASE Deletes
    BY <2>2 DEF Deletes
  <2>3. CASE Edits
    BY <2>3 DEF Edits
  <2>4. CASE DeletesPVC
    BY <2>4 DEF DeletesPVC
  <2> QED
    BY <1>10, <2>1, <2>2, <2>3, <2>4
<1> QED
  BY <1>2, <1>3, <1>4, <1>5, <1>6, <1>7, <1>8, <1>9, <1>10
  DEF View, ControllerWrites, OthersWrite

-----------------------------------------------------------------------------
(* URLs. *)

\* A URL is copied from the Model, by the controller that reads it, to the Job
\* and to the Pods.
LEMMA URLStep == TypeOK /\ TypeOK' /\ URLInv /\ View => URLInv'
<1> SUFFICES ASSUME TypeOK, TypeOK', URLInv, View PROVE URLInv'
  OBVIOUS
<1>1. /\ model.url \in URLs /\ m.url \in URLs /\ loadJob.url \in URLs
  BY FieldTypes
<1> USE <1>1, Fields DEF URLInv, others, history, taken, shared, mapped, Stop, Same, SameAll
<1>2. CASE Stops \/ Walks \/ Reads \/ Stutters
  BY <1>2 DEF Stops, Walks, Reads, Stutters
<1>3. CASE WritesMap \/ WritesModel \/ DeletesPods
  BY <1>3 DEF WritesMap, WritesModel, DeletesPods
<1>4. CASE MakesEvictJob \/ HasEvicted \/ RemovesFinalizer
  BY <1>4 DEF MakesEvictJob, HasEvicted, RemovesFinalizer
<1>5. CASE DeletesLoadJob \/ DeletesEvictJob \/ CreatesPVC \/ AddsFinalizer
  BY <1>5 DEF DeletesLoadJob, DeletesEvictJob, CreatesPVC, AddsFinalizer
<1>6. CASE MakesLoadJob \/ Annotates
  BY <1>6 DEF MakesLoadJob, Annotates
<1>7. CASE MakesPods
  BY <1>7, PodsMade DEF MakesPods
<1>8. CASE JobsEnd \/ PodsGo \/ MapGoes
  BY <1>8 DEF JobsEnd, PodsGo, MapGoes, Ended
<1>9. CASE StartsToLoad \/ HasLoaded \/ Evicts
  BY <1>9 DEF StartsToLoad, HasLoaded, Evicts
<1>10. CASE Creates \/ Deletes \/ Edits \/ DeletesPVC
  BY <1>10 DEF Creates, Deletes, Edits, DeletesPVC
<1> QED
  BY <1>2, <1>3, <1>4, <1>5, <1>6, <1>7, <1>8, <1>9, <1>10
  DEF View, ControllerWrites, OthersWrite

-----------------------------------------------------------------------------
(* The cache. *)

\* The annotation is written after the Job that has filled the directory, and
\* Pods are made after the annotation.
LEMMA CacheStep == TypeOK /\ TypeOK' /\ UIDInv /\ ReadInv /\ JobInv /\ URLInv /\ CacheInv /\ View => CacheInv'
<1> SUFFICES ASSUME TypeOK, TypeOK', UIDInv, ReadInv, JobInv, URLInv, CacheInv, View PROVE CacheInv'
  OBVIOUS
<1>1. /\ model.uid \in Nat /\ m.uid \in Nat /\ uids \in Nat
      /\ loadJob.uid \in Nat /\ evictJob.uid \in Nat /\ ann \in Nat
      /\ MaxModels \in Nat /\ UIDs = 1..MaxModels
      /\ model.deleting \in BOOLEAN /\ m.deleting \in BOOLEAN
      /\ model.finalizer \in BOOLEAN /\ m.finalizer \in BOOLEAN /\ m.cached \in BOOLEAN
      /\ loadJob.url \in URLs
      /\ step # "idle" => m.uid # 0
      /\ \A p \in pods : p.uid \in Nat /\ p.cached \in BOOLEAN
      /\ loadJob.uid \in UIDs \cup {0} /\ evictJob.uid \in UIDs \cup {0} /\ m.uid \in UIDs \cup {0}
      /\ dir \in [UIDs -> {"none", "partial"} \cup URLs]
  BY FieldTypes, NumberTypes
<1> USE <1>1, Fields DEF UIDInv, ReadInv, JobInv, URLInv, CacheInv, Filled, URLs, others, history, taken,
        shared, mapped, Stop, Same, SameAll, DeleteSteps, CacheSteps, PodSteps, GoneSteps
<1>2. CASE Stops \/ Walks \/ Reads \/ Stutters
  BY <1>2 DEF Stops, Walks, Reads, Stutters
<1>3. CASE WritesMap \/ WritesModel \/ DeletesPods
  BY <1>3 DEF WritesMap, WritesModel, DeletesPods
<1>4. CASE MakesEvictJob \/ HasEvicted \/ RemovesFinalizer
  BY <1>4 DEF MakesEvictJob, HasEvicted, RemovesFinalizer
<1>5. CASE DeletesLoadJob \/ DeletesEvictJob \/ CreatesPVC \/ AddsFinalizer
  BY <1>5 DEF DeletesLoadJob, DeletesEvictJob, CreatesPVC, AddsFinalizer
<1>6. CASE MakesLoadJob \/ Annotates
  <2>1. CASE MakesLoadJob
    BY <2>1 DEF MakesLoadJob
  <2>2. CASE Annotates
    BY <2>2 DEF Annotates
  <2> QED
    BY <1>6, <2>1, <2>2
<1>7. CASE MakesPods
  BY <1>7, PodsMade DEF MakesPods
<1>8. CASE JobsEnd \/ PodsGo \/ MapGoes
  <2>1. CASE JobsEnd
    BY <2>1 DEF JobsEnd, Ended
  <2>2. CASE PodsGo
    BY <2>2 DEF PodsGo
  <2>3. CASE MapGoes
    BY <2>3 DEF MapGoes
  <2> QED
    BY <1>8, <2>1, <2>2, <2>3
<1>9. CASE StartsToLoad \/ HasLoaded \/ Evicts
  <2>1. CASE StartsToLoad
    BY <2>1 DEF StartsToLoad
  <2>2. CASE HasLoaded
    BY <2>2 DEF HasLoaded
  <2>3. CASE Evicts
    BY <2>3 DEF Evicts
  <2> QED
    BY <1>9, <2>1, <2>2, <2>3
<1>10. CASE Creates \/ Deletes \/ Edits \/ DeletesPVC
  <2>1. CASE Creates
    BY <2>1 DEF Creates
  <2>2. CASE Deletes
    BY <2>2 DEF Deletes
  <2>3. CASE Edits
    BY <2>3 DEF Edits
  <2>4. CASE DeletesPVC
    BY <2>4 DEF DeletesPVC
  <2> QED
    BY <1>10, <2>1, <2>2, <2>3, <2>4
<1> QED
  BY <1>2, <1>3, <1>4, <1>5, <1>6, <1>7, <1>8, <1>9, <1>10
  DEF View, ControllerWrites, OthersWrite

-----------------------------------------------------------------------------
(* The ConfigMap of the files. *)

\* Whatever changes the files of a Model queues it, and the ConfigMap is written
\* before anything else.
LEMMA FilesStep == TypeOK /\ TypeOK' /\ UIDInv /\ FilesInv /\ View => FilesInv'
<1> SUFFICES ASSUME TypeOK, TypeOK', UIDInv, FilesInv, View PROVE FilesInv'
  OBVIOUS
<1>1. /\ model.uid \in Nat /\ m.uid \in Nat /\ uids \in Nat /\ cm.owner \in Nat
      /\ model.files \in 0..2 /\ m.files \in 0..2
      /\ step # "idle" => m.uid # 0
      /\ model.uid \in {0, uids} /\ cm.owner <= uids
      /\ model.uid = 0 => model.files = 0
  BY FieldTypes, NumberTypes, Fields DEF UIDInv
<1> USE <1>1, Fields DEF FilesInv, FilesUpToDate, others, history, taken, shared, mapped, Stop, Kept,
        Same, SameAll
<1>2. CASE Stops \/ Walks \/ Reads \/ Stutters
  <2>1. CASE Stops
    BY <2>1 DEF Stops
  <2>2. CASE Walks
    BY <2>2 DEF Walks
  <2>3. CASE Reads
    BY <2>3 DEF Reads
  <2>4. CASE Stutters
    BY <2>4 DEF Stutters
  <2> QED
    BY <1>2, <2>1, <2>2, <2>3, <2>4
<1>3. CASE WritesMap \/ WritesModel \/ DeletesPods
  BY <1>3 DEF WritesMap, WritesModel, DeletesPods
<1>4. CASE MakesEvictJob \/ HasEvicted \/ RemovesFinalizer
  BY <1>4 DEF MakesEvictJob, HasEvicted, RemovesFinalizer
<1>5. CASE DeletesLoadJob \/ DeletesEvictJob \/ CreatesPVC \/ AddsFinalizer
  BY <1>5 DEF DeletesLoadJob, DeletesEvictJob, CreatesPVC, AddsFinalizer
<1>6. CASE MakesLoadJob \/ Annotates
  BY <1>6 DEF MakesLoadJob, Annotates
<1>7. CASE MakesPods
  BY <1>7 DEF MakesPods
<1>8. CASE JobsEnd \/ PodsGo \/ MapGoes
  BY <1>8 DEF JobsEnd, PodsGo, MapGoes, Ended
<1>9. CASE StartsToLoad \/ HasLoaded \/ Evicts
  BY <1>9 DEF StartsToLoad, HasLoaded, Evicts
<1>10. CASE Creates \/ Deletes \/ Edits \/ DeletesPVC
  BY <1>10 DEF Creates, Deletes, Edits, DeletesPVC
<1> QED
  BY <1>2, <1>3, <1>4, <1>5, <1>6, <1>7, <1>8, <1>9, <1>10
  DEF View, ControllerWrites, OthersWrite

-----------------------------------------------------------------------------
(* The theorems. *)

\* Nothing is there at first.
LEMMA InitInv == Init => IInv
<1> SUFFICES ASSUME Init PROVE IInv
  OBVIOUS
<1> USE ModelCacheAssumption, Fields DEF Init
<1>1. TypeOK
  BY Values DEF TypeOK, Steps
<1>2. UIDInv /\ ReadInv /\ JobInv
  BY DEF UIDInv, ReadInv, JobInv, UIDs, DeleteSteps, CacheSteps, PodSteps, GoneSteps
<1>3. EvictInv /\ URLInv /\ CacheInv /\ FilesInv
  BY DEF EvictInv, URLInv, CacheInv, FilesInv, FilesUpToDate, UIDs, PodSteps
<1> QED
  BY <1>1, <1>2, <1>3 DEF IInv

\* Whatever the controller, the Jobs, the garbage collector and the users do, in
\* any order and with any failure, the UIDs in use are known, what was read of a
\* deletion holds, directories are clean after their eviction, and annotations
\* and Pods stand for directories that are filled (cache.go:30-208).
THEOREM Invariance == Spec => []IInv
<1>1. IInv /\ [Next]_vars => IInv'
  BY TypeStep, NextView, UIDStep, ReadStep, JobStep, EvictStep, URLStep, CacheStep, FilesStep
  DEF IInv
<1> QED
  BY InitInv, <1>1, PTL DEF Spec

\* Server Pods are started on a cache that is completely loaded, from their own
\* URL if it was not changed, and it stays so until the Model is deleted: for
\* any number of Models of the name and of failures, edits and deleted PVCs
\* (cache.go:76-124).  Only Models that took a complete Job of a forerunner for
\* their own, or lost the PVC between their load Job and their Pods, are left out.
THEOREM CacheOfPods == Spec => []PodsHaveTheirCache
<1>1. IInv => PodsHaveTheirCache
  BY FieldTypes DEF IInv, URLInv, CacheInv, Filled, PodsHaveTheirCache, CacheIsComplete,
     CacheIsFilled
<1> QED
  BY Invariance, <1>1, PTL

\* The ConfigMap has the files of the Model, and is its own, when the controller
\* has nothing left to do: for every Model of the name, but those for which the
\* ConfigMap of a forerunner was updated (files.go:24-80).
THEOREM FilesWhenIdle == Spec => []FilesUpToDate
<1>1. IInv => FilesUpToDate
  BY DEF IInv, FilesInv
<1> QED
  BY Invariance, <1>1, PTL

\* The finalizer keeps a Model until its directory is gone, wherever a reconcile
\* was cut off, unless it was still being loaded or the Model took a complete Job
\* of a forerunner for its own (cache.go:67-74, 159-203).
THEOREM EvictionBeforeRemoval == Spec => EvictedBeforeGone
<1>1. ASSUME IInv, IInv', [Next]_vars, NEW u \in UIDs,
             model.uid = u, model'.uid = 0, u \notin adopted \cup raced
      PROVE  dir[u] = "none"
  <2>1. View /\ model.uid # 0 /\ model'.uid # model.uid /\ TypeOK /\ EvictInv
    BY <1>1, NextView, FieldTypes DEF IInv
  <2>2. RemovesFinalizer \/ Deletes
    BY <2>1 DEF View, ControllerWrites, OthersWrite, Stops, Walks, Reads, Stutters, WritesMap,
       WritesModel, DeletesPods, MakesEvictJob, HasEvicted, DeletesLoadJob, DeletesEvictJob,
       CreatesPVC, AddsFinalizer, MakesLoadJob, Annotates, MakesPods, JobsEnd, PodsGo, MapGoes,
       StartsToLoad, HasLoaded, Evicts, Creates, Edits, DeletesPVC, Same, SameAll
  <2>3. CASE RemovesFinalizer
    BY <1>1, <2>1, <2>3 DEF RemovesFinalizer, EvictInv, Clean
  <2>4. CASE Deletes
    BY <1>1, <2>1, <2>4 DEF Deletes, EvictInv, Same
  <2> QED
    BY <2>2, <2>3, <2>4
<1>2. IInv /\ IInv' /\ [Next]_vars =>
        [\A u \in UIDs :
            (model.uid = u /\ model'.uid = 0 /\ u \notin adopted \cup raced)
                => dir[u] = "none"]_vars
  BY <1>1
<1> QED
  BY Invariance, <1>2, PTL DEF Spec, EvictedBeforeGone

=============================================================================

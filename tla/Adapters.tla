------------------------------ MODULE Adapters ------------------------------
(***************************************************************************)
(* Loading of LoRA adapters into the Pods of a Model: reconcileAdapters    *)
(* (internal/modelcontroller/adapters.go, pod_utils.go) against the model  *)
(* server and the loader container (internal/vllmclient).                  *)
(*                                                                         *)
(* A label of the Pod, adapter name -> hash of the URL, records that an    *)
(* adapter is loaded; the load balancer routes by it.  Loading is a        *)
(* download into the Pod, a call to the server and an update of the label, *)
(* three calls that may each fail, and unloading likewise.  A failed call  *)
(* ends the reconcile, which is then queued again, as after each event on  *)
(* the Model or one of its Pods.  A crash of the controller is the same.   *)
(***************************************************************************)
EXTENDS Integers, FiniteSets

CONSTANTS
    Pods,         \* the vLLM Pods that remain in the Pod plan
    Adapters,     \* names of adapters
    URLs,         \* their sources; the hash of a URL tells URLs apart
    Nested,       \* the Pods whose server replies {"error": {...}} to an unload that
                  \* finds nothing, the form that errorResponse decodes; the others
                  \* reply without that key, as the example at client.go:61 does
    MaxChanges,   \* bound: changes of Spec.Adapters
    MaxFailures,  \* bound: failed calls and crashes
    None

ASSUME AdaptersAssumption == None \notin Pods /\ None \notin URLs

VARIABLES
    spec,    \* adapter -> its URL in Spec.Adapters, or None
    label,   \* Pod -> adapter -> the URL whose hash is in the label, or None
    dir,     \* Pod -> adapter -> the URL of the files in adapterDir, or None
    served,  \* Pod -> adapter -> the URL the server has loaded, or None
    loader,  \* Pods whose loader container is ready
    queued,  \* the Model waits in the controller's queue
    left,    \* Pods of reconcileList the running reconcile has yet to visit
    pod,     \* the Pod it works on, None when it runs nowhere
    ensure,  \* Pod -> toEnsure, a set of <<adapter, URL>>
    remove,  \* Pod -> toRemoveIDs
    step,    \* the next call for the current adapter
    adapter, \* the current <<adapter, URL>>, or None
    changes, failures,
    touched  \* history: the adapters changed or removed after they were added

podVars  == <<label, dir, served>>
planVars == <<left, pod, ensure, remove, step, adapter>>
vars == <<spec, label, dir, served, loader, queued, left, pod, ensure, remove,
          step, adapter, changes, failures, touched>>

Nothing == [p \in Pods |-> {}]
Blank   == [p \in Pods |-> [a \in Adapters |-> None]]

Init ==
    /\ spec = [a \in Adapters |-> None]
    /\ label = Blank /\ dir = Blank /\ served = Blank
    /\ loader = {} /\ queued = TRUE
    /\ left = {} /\ pod = None /\ ensure = Nothing /\ remove = Nothing
    /\ step = "idle" /\ adapter = None
    /\ changes = 0 /\ failures = 0 /\ touched = {}

-----------------------------------------------------------------------------
(* reconcileAdapters: the plan *)

ToEnsure(p) == {<<a, spec[a]>> : a \in {b \in Adapters : spec[b] # None /\ label[p][b] # spec[b]}}

\* Labelled adapters that do not match: one whose URL changed is ensured and
\* removed in the same pass.
ToRemove(p) == {a \in Adapters : label[p][a] # None /\ label[p][a] # spec[a]}

Begin ==
    /\ step = "idle" /\ queued
    /\ queued' = FALSE
    /\ left' = Pods
    /\ ensure' = [p \in Pods |-> ToEnsure(p)]
    /\ remove' = [p \in Pods |-> ToRemove(p)]
    /\ step' = "next"
    /\ UNCHANGED <<spec, podVars, loader, pod, adapter, changes, failures, touched>>

\* Back to the queue's loop: the plan is gone.
Idle ==
    /\ left' = {} /\ pod' = None /\ ensure' = Nothing /\ remove' = Nothing
    /\ step' = "idle" /\ adapter' = None

PodDone == pod # None => (ensure[pod] = {} /\ remove[pod] = {})

NextPod(p) ==
    /\ step = "next" /\ PodDone /\ p \in left
    /\ p \in loader
    /\ pod' = p /\ left' = left \ {p}
    /\ UNCHANGED <<spec, podVars, loader, queued, ensure, remove, step, adapter,
                   changes, failures, touched>>

\* errReturnEarly: also for the Pods that come later.
LoaderNotReady(p) ==
    /\ step = "next" /\ PodDone /\ p \in left
    /\ p \notin loader
    /\ Idle
    /\ UNCHANGED <<spec, podVars, loader, queued, changes, failures, touched>>

Finish ==
    /\ step = "next" /\ PodDone /\ left = {}
    /\ Idle
    /\ UNCHANGED <<spec, podVars, loader, queued, changes, failures, touched>>

-----------------------------------------------------------------------------
(* The calls for one adapter *)

Set(f, a, u) == [f EXCEPT ![pod][a] = u]

\* Mutated form of ExecLoad: the label is written first.
ExecLoadLabelled ==
    /\ step = "next" /\ ~PodDone /\ ensure[pod] # {}
    /\ \E e \in ensure[pod] :
        /\ adapter' = e
        /\ dir' = Set(dir, e[1], e[2])
        /\ label' = Set(label, e[1], e[2])
    /\ step' = "load"
    /\ UNCHANGED <<spec, served, loader, queued, left, pod, ensure, remove, changes,
                   failures, touched>>

\* execAdapterLoad: the download overwrites what is in the directory.
ExecLoad ==
    /\ step = "next" /\ ~PodDone /\ ensure[pod] # {}
    /\ \E e \in ensure[pod] :
        /\ adapter' = e
        /\ dir' = Set(dir, e[1], e[2])
    /\ step' = "load"
    /\ UNCHANGED <<spec, label, served, loader, queued, left, pod, ensure, remove,
                   changes, failures, touched>>

\* Mutated form of Load: an adapter that is loaded already is an error.
LoadStrict ==
    /\ step = "load"
    /\ IF served[pod][adapter[1]] = None
       THEN /\ served' = Set(served, adapter[1], dir[pod][adapter[1]])
            /\ step' = "addLabel"
            /\ UNCHANGED <<queued, left, pod, ensure, remove, adapter>>
       ELSE Idle /\ queued' = TRUE /\ UNCHANGED served
    /\ UNCHANGED <<spec, label, dir, loader, changes, failures, touched>>

\* LoadLoraAdapter with IgnoreAlreadyLoaded: the server keeps what it has under
\* the name.
Load ==
    /\ step = "load"
    /\ served' = IF served[pod][adapter[1]] = None
                 THEN Set(served, adapter[1], dir[pod][adapter[1]]) ELSE served
    /\ step' = "addLabel"
    /\ UNCHANGED <<spec, label, dir, loader, queued, left, pod, ensure, remove, adapter,
                   changes, failures, touched>>

\* The update of the Pod is an event that queues the Model.
AddLabel ==
    /\ step = "addLabel"
    /\ label' = Set(label, adapter[1], adapter[2])
    /\ ensure' = [ensure EXCEPT ![pod] = @ \ {adapter}]
    /\ step' = "next" /\ adapter' = None /\ queued' = TRUE
    /\ UNCHANGED <<spec, dir, served, loader, left, pod, remove, changes, failures, touched>>

ExecUnload ==
    /\ step = "next" /\ ~PodDone /\ ensure[pod] = {}
    /\ \E a \in remove[pod] :
        /\ adapter' = <<a, None>>
        /\ dir' = Set(dir, a, None)
    /\ step' = "unload"
    /\ UNCHANGED <<spec, label, served, loader, queued, left, pod, ensure, remove,
                   changes, failures, touched>>

\* Mutated form of Unload: the call to the server is left out.
UnloadFilesOnly ==
    /\ step = "unload"
    /\ step' = "removeLabel"
    /\ UNCHANGED <<spec, podVars, loader, queued, left, pod, ensure, remove, adapter,
                   changes, failures, touched>>

\* UnloadLoraAdapter with IgnoreNotFound.  The reply of a server that does not
\* have the adapter is recognised only when its error is under "error".
Unload ==
    /\ step = "unload"
    /\ IF served[pod][adapter[1]] # None \/ pod \in Nested
       THEN /\ served' = Set(served, adapter[1], None)
            /\ step' = "removeLabel"
            /\ UNCHANGED <<queued, left, pod, ensure, remove, adapter>>
       ELSE Idle /\ queued' = TRUE /\ UNCHANGED served
    /\ UNCHANGED <<spec, label, dir, loader, changes, failures, touched>>

RemoveLabel ==
    /\ step = "removeLabel"
    /\ label' = Set(label, adapter[1], None)
    /\ remove' = [remove EXCEPT ![pod] = @ \ {adapter[1]}]
    /\ step' = "next" /\ adapter' = None /\ queued' = TRUE
    /\ UNCHANGED <<spec, dir, served, loader, left, pod, ensure, changes, failures, touched>>

\* Mutated form of Fail: the error of the call is logged and not returned.
FailSwallowed ==
    /\ step # "idle" /\ failures < MaxFailures
    /\ failures' = failures + 1
    /\ Idle
    /\ UNCHANGED <<spec, podVars, loader, queued, changes, touched>>

\* The next call fails, or the controller crashes before it.
Fail ==
    /\ step # "idle" /\ failures < MaxFailures
    /\ failures' = failures + 1
    /\ Idle /\ queued' = TRUE
    /\ UNCHANGED <<spec, podVars, loader, changes, touched>>

-----------------------------------------------------------------------------
(* Users and Pods *)

ChangeSpec ==
    /\ changes < MaxChanges
    /\ changes' = changes + 1
    /\ \E a \in Adapters, u \in URLs \cup {None} :
        /\ u # spec[a]
        /\ spec' = [spec EXCEPT ![a] = u]
        /\ touched' = touched \cup {b \in {a} : spec[b] # None}
    /\ queued' = TRUE
    /\ UNCHANGED <<podVars, loader, planVars, failures>>

LoaderReady(p) ==
    /\ p \notin loader
    /\ loader' = loader \cup {p} /\ queued' = TRUE
    /\ UNCHANGED <<spec, podVars, planVars, changes, failures, touched>>

Controller ==
    \/ Begin \/ Finish \/ ExecLoad \/ Load \/ AddLabel \/ ExecUnload \/ Unload \/ RemoveLabel
    \/ \E p \in Pods : NextPod(p) \/ LoaderNotReady(p)

Next == Controller \/ Fail \/ ChangeSpec \/ \E p \in Pods : LoaderReady(p)

Spec == Init /\ [][Next]_vars

\* The controller runs and loaders get ready; users need not change anything.
FairSpec == Spec /\ WF_vars(Controller) /\ \A p \in Pods : WF_vars(LoaderReady(p))

-----------------------------------------------------------------------------
(* Properties *)

\* Every Pod is labelled for the adapters of the Model, as they are now.
Labelled == \A p \in Pods : label[p] = spec

\* The servers have those adapters, from their present URLs.
Served == \A p \in Pods : \A a \in Adapters : spec[a] # None => served[p][a] = spec[a]

Quiet == step = "idle" /\ ~queued /\ loader = Pods

(* When nothing is queued and nothing runs, the labels by which requests are
   routed are those of the Model's adapters, whatever failed on the way: no
   event was needed that did not come (adapters.go:47-118). *)
QuietMeansLabelled == Quiet => Labelled

(* The servers then have every adapter that was added once and not changed or
   removed since, whatever failed on the way: an adapter whose label is on the
   Pod was loaded before, however often the calls were repeated
   (adapters.go:71-93). *)
QuietMeansServed ==
    Quiet => \A p \in Pods : \A a \in Adapters \ touched :
                 spec[a] # None => served[p][a] = spec[a]

(* As long as no call has failed, the servers and the disks then have the
   adapters of the Model, from their present URLs, and no others, also after a
   change of a URL in the middle of a pass (adapters.go:66-113). *)
QuietMeansClean ==
    (Quiet /\ failures = 0) => \A p \in Pods : served[p] = spec /\ dir[p] = spec

\* An adapter removed from the Model has been unloaded but has kept its label,
\* from a server whose reply to a second unload is not recognised.
Stranded ==
    \E p \in Pods \ Nested, a \in Adapters :
        label[p][a] # None /\ served[p][a] = None /\ spec[a] = None

(* Once users leave the Model alone and calls stop failing, the Pods get their
   labels, and their adapters if no call had failed, and stay so: the
   reconciles that label updates cause do not chase each other for ever
   (adapters.go:24-118, pod_utils.go:45-65).  The one exception is a Pod where
   the removal of a label had failed and the unload is then refused. *)
AdaptersConverge ==
    <>[](Labelled /\ (failures = 0 => Served)) \/ <>[](failures > 0 /\ Stranded)

(* "It is possible that the adapter is already unloaded, but updating the Pod
   labels failed.  In this case, we ignore the error and continue"
   (adapters.go:104-106): the Pods get their labels whatever failed. *)
AlwaysConverge == <>[]Labelled

(* "reconcileAdapters ensures that the specified adapters are loaded in the
   model server pods" (adapters.go:19): with nothing left to do, the servers
   have the adapters of the Model, whatever failed on the way. *)
ServedDespiteFailures == Quiet => Served

(* "Loaded adapters are identified by the presence of a Pod label with the
   adapter name and the hash of the adapter URL.  At request-time, the endpoint
   resolver will inspect these labels to determine which adapters are loaded
   in the pod" (adapters.go:19-23): no label without its adapter. *)
LabelledIsLoaded ==
    \A p \in Pods : \A a \in Adapters :
        label[p][a] # None => served[p][a] = label[p][a]

=============================================================================

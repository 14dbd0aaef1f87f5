-------------------------- MODULE Adapters_proofs ---------------------------
(* Proofs of what a quiet adapter controller promises. *)
EXTENDS Adapters, TLAPS

-----------------------------------------------------------------------------
(* The inductive invariant. *)

Loading   == {"load", "addLabel"}
Unloading == {"unload", "removeLabel"}
Contents  == [Pods -> [Adapters -> URLs \cup {None}]]

TypeOK ==
    /\ spec \in [Adapters -> URLs \cup {None}]
    /\ label \in Contents /\ dir \in Contents /\ served \in Contents
    /\ loader \subseteq Pods
    /\ queued \in BOOLEAN
    /\ left \subseteq Pods
    /\ pod \in Pods \cup {None}
    /\ ensure \in [Pods -> SUBSET (Adapters \X URLs)]
    /\ remove \in [Pods -> SUBSET Adapters]
    /\ step \in {"idle", "next"} \cup Loading \cup Unloading
    /\ step = "idle" => pod = None
    /\ step \in Loading \cup Unloading => pod \in Pods
    /\ failures \in Nat
    /\ touched \subseteq Adapters

\* The adapter in hand is one of the plan, and its files are as the plan says.
CallInv ==
    /\ step \in Loading => adapter \in ensure[pod] /\ dir[pod][adapter[1]] = adapter[2]
    /\ step \in Unloading => adapter[1] \in remove[pod] /\ dir[pod][adapter[1]] = None
    /\ step = "removeLabel" => served[pod][adapter[1]] = None

\* An adapter is to be loaded from one URL, and is labelled meanwhile only if it
\* is to be unloaded as well.
PlanInv ==
    \A p \in Pods : \A e \in ensure[p] :
        /\ \A f \in ensure[p] : f[1] = e[1] => f = e
        /\ e[1] \notin remove[p] => label[p][e[1]] = None

\* As long as nothing has happened since the plan was made, it is the plan for
\* the present state, and nothing was to be done for the Pods it has passed.
LabelInv ==
    (step # "idle" /\ ~queued) => \A p \in Pods :
        /\ ensure[p] = ToEnsure(p) /\ remove[p] = ToRemove(p)
        /\ (p \notin left /\ p # pod) => ensure[p] = {} /\ remove[p] = {}

\* Label, files and server agree on the adapter.
Settled(p, a) == label[p][a] = dir[p][a] /\ label[p][a] = served[p][a]

\* Without failures they agree on every adapter of every Pod, but for those of
\* the Pod at work that it will unload and the one it is loading.
SettledInv ==
    failures = 0 => \A p \in Pods : \A a \in Adapters :
        \/ Settled(p, a)
        \/ p = pod /\ a \in remove[p]
        \/ /\ p = pod /\ step \in Loading /\ a = adapter[1]
           /\ served[p][a] = IF step = "load" THEN None ELSE adapter[2]

\* What is to be unloaded is labelled, and without failures the server has it.
LoadedInv ==
    \A p \in Pods : \A a \in remove[p] :
        /\ label[p][a] # None
        /\ failures = 0 => \/ served[p][a] # None
                           \/ p = pod /\ step = "removeLabel" /\ a = adapter[1]

\* Whatever fails, an adapter that has had one URL at most is never planned to be
\* removed, has that URL wherever it has one, and is loaded before it is labelled.
OnceInv ==
    \A p \in Pods : \A a \in Adapters \ touched :
        /\ a \notin remove[p]
        /\ \A e \in ensure[p] : e[1] = a => e[2] = spec[a]
        /\ label[p][a] \in {None, spec[a]} /\ served[p][a] \in {None, spec[a]}
        /\ (p = pod /\ step = "addLabel" /\ adapter[1] = a) => served[p][a] # None
        /\ label[p][a] # None => served[p][a] # None

IInv ==
    /\ TypeOK /\ CallInv /\ PlanInv /\ LabelInv /\ QuietMeansLabelled
    /\ SettledInv /\ LoadedInv /\ OnceInv

-----------------------------------------------------------------------------
(* Operators. *)

\* Set changes one entry.
LEMMA SetEntry ==
    ASSUME NEW f \in Contents, pod \in Pods, NEW a \in Adapters, NEW u \in URLs \cup {None}
    PROVE  /\ Set(f, a, u) \in Contents
           /\ \A p \in Pods, b \in Adapters :
                Set(f, a, u)[p][b] = IF p = pod /\ b = a THEN u ELSE f[p][b]
  BY DEF Set, Contents

\* What is to be ensured: adapters of the Model, from one URL each.
LEMMA ToEnsureType ==
    ASSUME TypeOK, NEW p \in Pods
    PROVE  /\ ToEnsure(p) \in SUBSET (Adapters \X URLs)
           /\ \A e, f \in ToEnsure(p) : f[1] = e[1] => f = e
           /\ \A e \in ToEnsure(p) : e[1] \notin ToRemove(p) => label[p][e[1]] = None
<1>1. ASSUME NEW e \in ToEnsure(p)
      PROVE  /\ e = <<e[1], spec[e[1]]>> /\ e[1] \in Adapters /\ spec[e[1]] \in URLs
             /\ label[p][e[1]] # spec[e[1]]
  <2>1. PICK b \in Adapters : spec[b] # None /\ label[p][b] # spec[b] /\ e = <<b, spec[b]>>
    BY <1>1 DEF ToEnsure
  <2>2. e[1] = b
    BY <2>1
  <2> QED
    BY <2>1, <2>2 DEF TypeOK
<1>2. ToEnsure(p) \in SUBSET (Adapters \X URLs)
  BY <1>1
<1>3. \A e, f \in ToEnsure(p) : f[1] = e[1] => f = e
  BY <1>1
<1>4. \A e \in ToEnsure(p) : e[1] \notin ToRemove(p) => label[p][e[1]] = None
  BY <1>1 DEF ToRemove
<1> QED
  BY <1>2, <1>3, <1>4

\* A Pod for which nothing is to be done has the labels of the Model.
LEMMA NothingToDo ==
    ASSUME TypeOK, NEW p \in Pods, ToEnsure(p) = {}, ToRemove(p) = {}
    PROVE  label[p] = spec
<1>1. \A a \in Adapters : spec[a] # None => label[p][a] = spec[a]
  <2> SUFFICES ASSUME NEW a \in Adapters, spec[a] # None, label[p][a] # spec[a] PROVE FALSE
    OBVIOUS
  <2>1. <<a, spec[a]>> \in ToEnsure(p)
    BY DEF ToEnsure
  <2> QED
    BY <2>1
<1>2. \A a \in Adapters : label[p][a] # None => label[p][a] = spec[a]
  BY DEF ToRemove
<1>3. \A a \in Adapters : label[p][a] = spec[a]
  BY <1>1, <1>2
<1> QED
  BY <1>3 DEF TypeOK, Contents

\* The adapter in hand is an adapter, with a URL while it is loaded.
LEMMA InHand ==
    ASSUME TypeOK, CallInv
    PROVE  /\ step \in Loading => /\ pod \in Pods /\ adapter[1] \in Adapters
                                  /\ adapter[2] \in URLs /\ adapter \in ensure[pod]
           /\ step \in Unloading => pod \in Pods /\ adapter[1] \in Adapters
<1>1. ASSUME step \in Loading
      PROVE  /\ pod \in Pods /\ adapter[1] \in Adapters
             /\ adapter[2] \in URLs /\ adapter \in ensure[pod]
  <2>1. pod \in Pods /\ adapter \in ensure[pod] /\ adapter \in Adapters \X URLs
    BY <1>1 DEF TypeOK, CallInv
  <2> QED
    BY <2>1
<1>2. ASSUME step \in Unloading PROVE pod \in Pods /\ adapter[1] \in Adapters
  BY <1>2 DEF TypeOK, CallInv
<1> QED
  BY <1>1, <1>2

-----------------------------------------------------------------------------
(* Type correctness, and the adapter in hand. *)

\* At first nothing is labelled, loaded or planned.
LEMMA InitInv == Init => IInv
<1> SUFFICES ASSUME Init PROVE IInv
  OBVIOUS
<1>1. TypeOK
  BY DEF Init, TypeOK, Contents, Blank, Nothing, Loading, Unloading
<1>2. CallInv /\ PlanInv /\ LabelInv /\ QuietMeansLabelled
  BY DEF Init, CallInv, PlanInv, LabelInv, QuietMeansLabelled, Quiet, Nothing, Loading,
         Unloading
<1>3. SettledInv /\ LoadedInv /\ OnceInv
  BY DEF Init, SettledInv, LoadedInv, OnceInv, Settled, Blank, Nothing
<1> QED
  BY <1>1, <1>2, <1>3 DEF IInv

\* Every step of the controller, of the users and of the Pods keeps the types
\* and takes the adapter in hand from the plan.
LEMMA TypeStep == TypeOK /\ CallInv /\ [Next]_vars => TypeOK' /\ CallInv'
<1> SUFFICES ASSUME TypeOK, CallInv, [Next]_vars PROVE TypeOK' /\ CallInv'
  OBVIOUS
<1> USE AdaptersAssumption DEF podVars, planVars, Loading, Unloading
<1>1. CASE Begin
  <2>1. /\ ensure' \in [Pods -> SUBSET (Adapters \X URLs)]
        /\ remove' \in [Pods -> SUBSET Adapters]
    BY <1>1, ToEnsureType DEF Begin, ToRemove
  <2> QED
    BY <1>1, <2>1 DEF Begin, TypeOK, CallInv
<1>2. ASSUME Idle, UNCHANGED <<spec, podVars, loader, touched>>, queued' \in BOOLEAN,
             failures' \in Nat
      PROVE  TypeOK' /\ CallInv'
  BY <1>2 DEF Idle, Nothing, TypeOK, CallInv
<1>3. ASSUME NEW p \in Pods, NextPod(p) PROVE TypeOK' /\ CallInv'
  BY <1>3 DEF NextPod, TypeOK, CallInv
<1>4. CASE Finish \/ Fail \/ \E p \in Pods : LoaderNotReady(p)
  <2>1. Idle /\ UNCHANGED <<spec, podVars, loader, touched>>
    BY <1>4 DEF Finish, Fail, LoaderNotReady
  <2>2. UNCHANGED <<queued, failures>> \/ (queued' = TRUE /\ failures' = failures + 1)
    BY <1>4 DEF Finish, Fail, LoaderNotReady
  <2>3. queued' \in BOOLEAN
    BY <2>2 DEF TypeOK
  <2>4. failures' \in Nat
    BY <2>2 DEF TypeOK
  <2> QED
    BY <1>2, <2>1, <2>3, <2>4
<1>5. CASE ExecLoad
  <2>1. pod \in Pods
    BY <1>5 DEF ExecLoad, PodDone, TypeOK
  <2>2. PICK e \in ensure[pod] : adapter' = e /\ dir' = Set(dir, e[1], e[2])
    BY <1>5 DEF ExecLoad
  <2>3. e[1] \in Adapters /\ e[2] \in URLs
    BY <2>1, <2>2 DEF TypeOK
  <2>4. dir' \in Contents /\ dir'[pod][e[1]] = e[2]
    BY <2>1, <2>2, <2>3, SetEntry DEF TypeOK
  <2> QED
    BY <1>5, <2>1, <2>2, <2>4 DEF ExecLoad, TypeOK, CallInv
<1>6. CASE Load
  <2>1. /\ pod \in Pods /\ adapter[1] \in Adapters
        /\ dir[pod][adapter[1]] \in URLs \cup {None}
    BY <1>6, InHand DEF Load, TypeOK, Contents
  <2>2. served' \in Contents
    BY <1>6, <2>1, SetEntry DEF Load, TypeOK
  <2> QED
    BY <1>6, <2>2 DEF Load, TypeOK, CallInv
<1>7. CASE AddLabel
  <2>1. label' \in Contents
    BY <1>7, InHand, SetEntry DEF AddLabel, TypeOK
  <2> QED
    BY <1>7, <2>1 DEF AddLabel, TypeOK, CallInv
<1>8. CASE ExecUnload
  <2>1. pod \in Pods
    BY <1>8 DEF ExecUnload, PodDone, TypeOK
  <2>2. PICK a \in remove[pod] : adapter' = <<a, None>> /\ dir' = Set(dir, a, None)
    BY <1>8 DEF ExecUnload
  <2>3. a \in Adapters
    BY <2>1, <2>2 DEF TypeOK
  <2>4. dir' \in Contents /\ dir'[pod][a] = None
    BY <2>1, <2>2, <2>3, SetEntry DEF TypeOK
  <2> QED
    BY <1>8, <2>1, <2>2, <2>4 DEF ExecUnload, TypeOK, CallInv
<1>9. CASE Unload /\ ~Idle
  <2>1. served' \in Contents /\ served'[pod][adapter[1]] = None
    BY <1>9, InHand, SetEntry DEF Unload, TypeOK
  <2> QED
    BY <1>9, <2>1 DEF Unload, TypeOK, CallInv
<1>9a. CASE Unload /\ Idle
  <2>1. step' = "idle"
    BY <1>9a DEF Idle
  <2>2. UNCHANGED <<spec, podVars, loader, touched, failures>> /\ queued' = TRUE
    BY <1>9a, <2>1 DEF Unload
  <2> QED
    BY <1>2, <1>9a, <2>2 DEF TypeOK
<1>10. CASE RemoveLabel
  <2>1. label' \in Contents
    BY <1>10, InHand, SetEntry DEF RemoveLabel, TypeOK
  <2> QED
    BY <1>10, <2>1 DEF RemoveLabel, TypeOK, CallInv
<1>11. CASE ChangeSpec
  BY <1>11 DEF ChangeSpec, TypeOK, CallInv
<1>12. ASSUME NEW p \in Pods, LoaderReady(p) PROVE TypeOK' /\ CallInv'
  BY <1>12 DEF LoaderReady, TypeOK, CallInv
<1>13. CASE UNCHANGED vars
  BY <1>13 DEF vars, TypeOK, CallInv
<1> QED
  BY <1>1, <1>3, <1>4, <1>5, <1>6, <1>7, <1>8, <1>9, <1>9a, <1>10, <1>11, <1>12, <1>13
     DEF Next, Controller

-----------------------------------------------------------------------------
(* The plan and the labels. *)

\* The plan loses what is done, and a label changes only with it.
LEMMA PlanStep == TypeOK /\ CallInv /\ PlanInv /\ [Next]_vars => PlanInv'
<1> SUFFICES ASSUME TypeOK, CallInv, PlanInv, [Next]_vars, NEW p \in Pods, NEW e \in ensure'[p]
             PROVE  /\ \A f \in ensure'[p] : f[1] = e[1] => f = e
                    /\ e[1] \notin remove'[p] => label'[p][e[1]] = None
  BY DEF PlanInv
<1> USE AdaptersAssumption DEF podVars, planVars, Loading, Unloading
<1>1. CASE UNCHANGED <<label, ensure, remove>>
  BY <1>1 DEF PlanInv
<1>2. CASE Begin
  <2>1. UNCHANGED label /\ ensure'[p] = ToEnsure(p) /\ remove'[p] = ToRemove(p)
    BY <1>2 DEF Begin, podVars
  <2> QED
    BY <2>1, ToEnsureType
<1>3. CASE Idle
  BY <1>3 DEF Idle, Nothing
<1>4. CASE AddLabel
  <2>1. /\ pod \in Pods /\ adapter[1] \in Adapters /\ adapter[2] \in URLs
        /\ adapter \in ensure[pod]
    BY <1>4, InHand DEF AddLabel
  <2>2. e \in ensure[p] /\ \A f \in ensure'[p] : f \in ensure[p]
    BY <1>4 DEF AddLabel, TypeOK
  <2>3. \A f \in ensure'[p] : f[1] = e[1] => f = e
    BY <2>2 DEF PlanInv
  <2>4. e[1] \in Adapters
    BY <2>2 DEF TypeOK
  <2>5. ~(p = pod /\ e[1] = adapter[1])
    BY <1>4, <2>1, <2>2 DEF AddLabel, PlanInv, TypeOK
  <2>6. label'[p][e[1]] = label[p][e[1]]
    BY <1>4, <2>1, <2>4, <2>5, SetEntry DEF AddLabel, TypeOK
  <2> QED
    BY <1>4, <2>2, <2>3, <2>6 DEF AddLabel, PlanInv
<1>5. CASE RemoveLabel
  <2>1. pod \in Pods /\ adapter[1] \in Adapters
    BY <1>5, InHand DEF RemoveLabel
  <2>2. ensure' = ensure /\ e[1] \in Adapters
    BY <1>5 DEF RemoveLabel, TypeOK
  <2>3. label'[p][e[1]] = IF p = pod /\ e[1] = adapter[1] THEN None ELSE label[p][e[1]]
    BY <1>5, <2>1, <2>2, SetEntry DEF RemoveLabel, TypeOK
  <2>4. e[1] \notin remove'[p] => e[1] \notin remove[p] \/ (p = pod /\ e[1] = adapter[1])
    BY <1>5, <2>1 DEF RemoveLabel, TypeOK
  <2> QED
    BY <2>2, <2>3, <2>4 DEF PlanInv
<1> QED
  BY <1>1, <1>2, <1>3, <1>4, <1>5
     DEF Next, Controller, NextPod, LoaderNotReady, Finish, ExecLoad, Load, ExecUnload, Unload,
         Fail, ChangeSpec, LoaderReady, vars

\* A pass that ends without an event since its plan was made found nothing to do
\* for any of the Pods.
LEMMA LabelStep ==
    TypeOK /\ LabelInv /\ QuietMeansLabelled /\ [Next]_vars => LabelInv' /\ QuietMeansLabelled'
<1> SUFFICES ASSUME TypeOK, LabelInv, QuietMeansLabelled, [Next]_vars
             PROVE  LabelInv' /\ QuietMeansLabelled'
  OBVIOUS
<1> USE DEF podVars, planVars, Loading, Unloading
<1>1. CASE queued'
  BY <1>1 DEF LabelInv, QuietMeansLabelled, Quiet
<1>2. CASE UNCHANGED <<spec, label, loader, queued, left, pod, ensure, remove>>
           /\ (step = "idle" <=> step' = "idle")
  BY <1>2 DEF LabelInv, QuietMeansLabelled, Quiet, Labelled, ToEnsure, ToRemove
<1>3. CASE Begin
  BY <1>3 DEF Begin, LabelInv, QuietMeansLabelled, Quiet, ToEnsure, ToRemove
<1>4. ASSUME NEW p \in Pods, NextPod(p), ~queued' PROVE LabelInv' /\ QuietMeansLabelled'
  <2>1. \A q \in Pods :
            /\ ensure[q] = ToEnsure(q) /\ remove[q] = ToRemove(q)
            /\ (q \notin left /\ q # pod) => ensure[q] = {} /\ remove[q] = {}
    BY <1>4 DEF NextPod, LabelInv
  <2>2. pod \in Pods => ensure[pod] = {} /\ remove[pod] = {}
    BY <1>4, AdaptersAssumption DEF NextPod, PodDone
  <2>3. \A q \in Pods :
            /\ ensure'[q] = ToEnsure(q)' /\ remove'[q] = ToRemove(q)'
            /\ (q \notin left' /\ q # pod') => ensure'[q] = {} /\ remove'[q] = {}
    BY <1>4, <2>1, <2>2 DEF NextPod, ToEnsure, ToRemove
  <2> QED
    BY <1>4, <2>3 DEF NextPod, LabelInv, QuietMeansLabelled, Quiet
<1>5. CASE Finish /\ ~queued'
  <2>1. \A q \in Pods : ToEnsure(q) = {} /\ ToRemove(q) = {}
    BY <1>5, AdaptersAssumption DEF Finish, PodDone, LabelInv
  <2>2. Labelled
    BY <2>1, NothingToDo DEF Labelled
  <2> QED
    BY <1>5, <2>2 DEF Finish, Idle, LabelInv, QuietMeansLabelled, Labelled
<1>6. ASSUME NEW p \in Pods, LoaderNotReady(p) PROVE LabelInv' /\ QuietMeansLabelled'
  BY <1>6 DEF LoaderNotReady, Idle, LabelInv, QuietMeansLabelled, Quiet
<1>7. CASE ExecLoad \/ Load \/ ExecUnload \/ Unload \/ UNCHANGED vars
  BY <1>1, <1>2, <1>7 DEF ExecLoad, Load, ExecUnload, Unload, vars
<1>8. CASE AddLabel \/ RemoveLabel \/ Fail \/ ChangeSpec \/ \E p \in Pods : LoaderReady(p)
  BY <1>1, <1>8 DEF AddLabel, RemoveLabel, Fail, ChangeSpec, LoaderReady
<1> QED
  BY <1>1, <1>3, <1>4, <1>5, <1>6, <1>7, <1>8 DEF Next, Controller

-----------------------------------------------------------------------------
(* Labels, files and servers. *)

\* A Pod that is done has no adapter half way.
LEMMA DoneIsSettled ==
    ASSUME TypeOK, SettledInv, PodDone, step = "next", failures = 0,
           NEW p \in Pods, NEW a \in Adapters
    PROVE  Settled(p, a)
  BY AdaptersAssumption DEF SettledInv, PodDone, Loading

\* The calls for one adapter, taken together, change label, files and server in
\* the same way, unless the adapter is unloaded later in the pass.
LEMMA SettledStep ==
    TypeOK /\ CallInv /\ PlanInv /\ SettledInv /\ LoadedInv /\ [Next]_vars => SettledInv'
<1> SUFFICES ASSUME TypeOK, CallInv, PlanInv, SettledInv, LoadedInv, [Next]_vars, failures' = 0,
                    NEW p \in Pods, NEW a \in Adapters
             PROVE  (\/ Settled(p, a)
                     \/ p = pod /\ a \in remove[p]
                     \/ /\ p = pod /\ step \in Loading /\ a = adapter[1]
                        /\ served[p][a] = IF step = "load" THEN None ELSE adapter[2])'
  BY DEF SettledInv
<1> USE AdaptersAssumption DEF podVars, planVars, Loading, Unloading
<1>0. failures = 0
  <2>1. failures' = failures \/ failures' = failures + 1
    BY DEF Next, Controller, Begin, NextPod, LoaderNotReady, Finish, ExecLoad, Load, AddLabel,
           ExecUnload, Unload, RemoveLabel, Fail, ChangeSpec, LoaderReady, vars
  <2> QED
    BY <2>1 DEF TypeOK
<1>1. \/ Settled(p, a)
      \/ p = pod /\ a \in remove[p]
      \/ /\ p = pod /\ step \in Loading /\ a = adapter[1]
         /\ served[p][a] = IF step = "load" THEN None ELSE adapter[2]
  BY <1>0 DEF SettledInv
<1>2. CASE UNCHANGED <<podVars, planVars>>
  BY <1>1, <1>2 DEF Settled
<1>3. CASE Begin
  BY <1>1, <1>3 DEF Begin, TypeOK, Settled
<1>4. CASE Finish \/ \E q \in Pods : NextPod(q) \/ LoaderNotReady(q)
  <2>1. Settled(p, a)
    BY <1>0, <1>4, DoneIsSettled DEF Finish, NextPod, LoaderNotReady
  <2> QED
    BY <1>4, <2>1 DEF Finish, NextPod, LoaderNotReady, Settled
<1>5. CASE ExecLoad
  <2>1. pod \in Pods
    BY <1>5 DEF ExecLoad, PodDone, TypeOK
  <2>2. PICK e \in ensure[pod] : adapter' = e /\ dir' = Set(dir, e[1], e[2])
    BY <1>5 DEF ExecLoad
  <2>3. e[1] \in Adapters /\ e[2] \in URLs
    BY <2>1, <2>2 DEF TypeOK
  <2>4. dir'[p][a] = IF p = pod /\ a = e[1] THEN e[2] ELSE dir[p][a]
    BY <2>1, <2>2, <2>3, SetEntry DEF TypeOK
  <2>5. CASE p = pod /\ a = e[1] /\ a \notin remove[p]
    <3>1. Settled(p, a)
      BY <1>1, <1>5, <2>5 DEF ExecLoad
    <3>2. label[p][a] = None
      BY <2>2, <2>5 DEF PlanInv
    <3> QED
      BY <1>5, <2>2, <2>5, <3>1, <3>2 DEF ExecLoad, Settled
  <2>6. CASE ~(p = pod /\ a = e[1] /\ a \notin remove[p])
    BY <1>1, <1>5, <2>4, <2>6 DEF ExecLoad, Settled
  <2> QED
    BY <2>5, <2>6
<1>6. CASE Load
  <2>1. /\ pod \in Pods /\ adapter[1] \in Adapters /\ adapter[2] \in URLs
        /\ dir[pod][adapter[1]] = adapter[2]
    BY <1>6, InHand DEF Load, CallInv
  <2>2. served'[p][a] = IF p = pod /\ a = adapter[1] /\ served[pod][adapter[1]] = None
                        THEN adapter[2] ELSE served[p][a]
    BY <1>6, <2>1, SetEntry DEF Load, TypeOK
  <2> QED
    BY <1>1, <1>6, <2>1, <2>2 DEF Load, Settled
<1>7. CASE AddLabel
  <2>1. /\ pod \in Pods /\ adapter[1] \in Adapters /\ adapter[2] \in URLs
        /\ dir[pod][adapter[1]] = adapter[2]
    BY <1>7, InHand DEF AddLabel, CallInv
  <2>2. label'[p][a] = IF p = pod /\ a = adapter[1] THEN adapter[2] ELSE label[p][a]
    BY <1>7, <2>1, SetEntry DEF AddLabel, TypeOK
  <2> QED
    BY <1>1, <1>7, <2>1, <2>2 DEF AddLabel, Settled
<1>8. CASE ExecUnload
  <2>1. pod \in Pods
    BY <1>8 DEF ExecUnload, PodDone, TypeOK
  <2>2. PICK b \in remove[pod] : dir' = Set(dir, b, None)
    BY <1>8 DEF ExecUnload
  <2>3. b \in Adapters
    BY <2>1, <2>2 DEF TypeOK
  <2>4. dir'[p][a] = IF p = pod /\ a = b THEN None ELSE dir[p][a]
    BY <2>1, <2>2, <2>3, SetEntry DEF TypeOK
  <2> QED
    BY <1>1, <1>8, <2>2, <2>4 DEF ExecUnload, Settled
<1>9. CASE Unload
  <2>1. pod \in Pods /\ adapter[1] \in Adapters /\ adapter[1] \in remove[pod]
    BY <1>9, InHand DEF Unload, CallInv
  <2>2. CASE served[pod][adapter[1]] # None \/ pod \in Nested
    <3>1. served'[p][a] = IF p = pod /\ a = adapter[1] THEN None ELSE served[p][a]
      BY <1>9, <2>1, <2>2, SetEntry DEF Unload, TypeOK
    <3> QED
      BY <1>1, <1>9, <2>1, <2>2, <3>1 DEF Unload, Settled
  <2>3. CASE ~(served[pod][adapter[1]] # None \/ pod \in Nested)
    BY <1>0, <1>9, <2>1, <2>3 DEF Unload, LoadedInv
  <2> QED
    BY <2>2, <2>3
<1>10. CASE RemoveLabel
  <2>1. /\ pod \in Pods /\ adapter[1] \in Adapters
        /\ dir[pod][adapter[1]] = None /\ served[pod][adapter[1]] = None
    BY <1>10, InHand DEF RemoveLabel, CallInv
  <2>2. label'[p][a] = IF p = pod /\ a = adapter[1] THEN None ELSE label[p][a]
    BY <1>10, <2>1, SetEntry DEF RemoveLabel, TypeOK
  <2>3. (p = pod /\ a \in remove[p] /\ a # adapter[1]) => a \in remove'[p]
    BY <1>10 DEF RemoveLabel, TypeOK
  <2> QED
    BY <1>1, <1>10, <2>1, <2>2, <2>3 DEF RemoveLabel, Settled
<1>11. CASE Fail
  BY <1>0, <1>11 DEF Fail
<1>12. CASE ChangeSpec \/ (\E q \in Pods : LoaderReady(q)) \/ UNCHANGED vars
  BY <1>2, <1>12 DEF ChangeSpec, LoaderReady, vars
<1> QED
  BY <1>3, <1>4, <1>5, <1>6, <1>7, <1>8, <1>9, <1>10, <1>11, <1>12 DEF Next, Controller

\* An adapter to be unloaded is loaded until the call that unloads it.
LEMMA LoadedStep ==
    TypeOK /\ CallInv /\ SettledInv /\ LoadedInv /\ [Next]_vars => LoadedInv'
<1> SUFFICES ASSUME TypeOK, CallInv, SettledInv, LoadedInv, [Next]_vars,
                    NEW p \in Pods, NEW a \in remove'[p]
             PROVE  /\ label'[p][a] # None
                    /\ failures' = 0 => \/ served'[p][a] # None
                                        \/ p = pod' /\ step' = "removeLabel" /\ a = adapter'[1]
  BY DEF LoadedInv
<1> USE AdaptersAssumption DEF podVars, planVars, Loading, Unloading
<1>1. CASE Begin
  <2>1. a \in Adapters /\ label[p][a] # None
    BY <1>1 DEF Begin, ToRemove
  <2>2. failures = 0 => Settled(p, a)
    BY <1>1, <2>1 DEF Begin, TypeOK, SettledInv
  <2> QED
    BY <1>1, <2>1, <2>2 DEF Begin, Settled
<1>2. CASE Idle
  BY <1>2 DEF Idle, Nothing
<1>3. CASE ExecLoad \/ ExecUnload \/ \E q \in Pods : NextPod(q)
  BY <1>3 DEF ExecLoad, ExecUnload, NextPod, LoadedInv
<1>4. CASE Load
  <2>1. /\ pod \in Pods /\ adapter[1] \in Adapters /\ adapter[2] \in URLs
        /\ dir[pod][adapter[1]] = adapter[2] /\ a \in remove[p] /\ a \in Adapters
    BY <1>4, InHand DEF Load, CallInv, TypeOK
  <2>2. served[p][a] # None => served'[p][a] # None
    BY <1>4, <2>1, SetEntry DEF Load, TypeOK
  <2> QED
    BY <1>4, <2>1, <2>2 DEF Load, LoadedInv
<1>5. CASE AddLabel
  <2>1. /\ pod \in Pods /\ adapter[1] \in Adapters /\ adapter[2] \in URLs
        /\ a \in remove[p] /\ a \in Adapters
    BY <1>5, InHand DEF AddLabel, TypeOK
  <2>2. label[p][a] # None => label'[p][a] # None
    BY <1>5, <2>1, SetEntry DEF AddLabel, TypeOK
  <2> QED
    BY <1>5, <2>1, <2>2 DEF AddLabel, LoadedInv
<1>6. CASE Unload /\ ~Idle
  <2>1. /\ pod \in Pods /\ adapter[1] \in Adapters /\ a \in remove[p] /\ a \in Adapters
    BY <1>6, InHand DEF Unload, TypeOK
  <2>2. served'[p][a] = IF p = pod /\ a = adapter[1] THEN None ELSE served[p][a]
    BY <1>6, <2>1, SetEntry DEF Unload, TypeOK
  <2> QED
    BY <1>6, <2>1, <2>2 DEF Unload, LoadedInv
<1>7. CASE RemoveLabel
  <2>1. /\ pod \in Pods /\ adapter[1] \in Adapters /\ a \in remove[p] /\ a \in Adapters
        /\ ~(p = pod /\ a = adapter[1])
    BY <1>7, InHand DEF RemoveLabel, TypeOK
  <2>2. label'[p][a] = label[p][a]
    BY <1>7, <2>1, SetEntry DEF RemoveLabel, TypeOK
  <2> QED
    BY <1>7, <2>1, <2>2 DEF RemoveLabel, LoadedInv
<1>8. CASE ChangeSpec \/ (\E q \in Pods : LoaderReady(q)) \/ UNCHANGED vars
  BY <1>8 DEF ChangeSpec, LoaderReady, vars, LoadedInv
<1> QED
  BY <1>1, <1>2, <1>3, <1>4, <1>5, <1>6, <1>7, <1>8
     DEF Next, Controller, Finish, LoaderNotReady, Fail

\* An adapter that was added once and left alone since is only ever loaded: by
\* calls that may be repeated but never contradict each other.
LEMMA OnceStep == TypeOK /\ CallInv /\ OnceInv /\ [Next]_vars => OnceInv'
<1> SUFFICES ASSUME TypeOK, CallInv, OnceInv, [Next]_vars,
                    NEW p \in Pods, NEW a \in Adapters, a \notin touched'
             PROVE  (/\ a \notin remove[p]
                     /\ \A e \in ensure[p] : e[1] = a => e[2] = spec[a]
                     /\ label[p][a] \in {None, spec[a]} /\ served[p][a] \in {None, spec[a]}
                     /\ (p = pod /\ step = "addLabel" /\ adapter[1] = a) => served[p][a] # None
                     /\ label[p][a] # None => served[p][a] # None)'
  BY DEF OnceInv
<1> USE AdaptersAssumption DEF podVars, planVars, Loading, Unloading
<1>0. a \notin touched
  BY DEF Next, Controller, Begin, NextPod, LoaderNotReady, Finish, ExecLoad, Load, AddLabel,
         ExecUnload, Unload, RemoveLabel, Fail, ChangeSpec, LoaderReady, vars
<1>1. /\ a \notin remove[p]
      /\ \A e \in ensure[p] : e[1] = a => e[2] = spec[a]
      /\ label[p][a] \in {None, spec[a]} /\ served[p][a] \in {None, spec[a]}
      /\ (p = pod /\ step = "addLabel" /\ adapter[1] = a) => served[p][a] # None
      /\ label[p][a] # None => served[p][a] # None
  BY <1>0 DEF OnceInv
<1>2. CASE Begin
  BY <1>1, <1>2 DEF Begin, ToEnsure, ToRemove
<1>3. CASE Idle /\ UNCHANGED <<spec, podVars>>
  BY <1>1, <1>3 DEF Idle, Nothing
<1>4. CASE ExecLoad \/ ExecUnload \/ \E q \in Pods : NextPod(q)
  BY <1>1, <1>4 DEF ExecLoad, ExecUnload, NextPod
<1>5. CASE Load
  <2>1. /\ pod \in Pods /\ adapter[1] \in Adapters /\ adapter[2] \in URLs
        /\ adapter \in ensure[pod] /\ dir[pod][adapter[1]] = adapter[2]
    BY <1>5, InHand DEF Load, CallInv
  <2>2. served'[p][a] = IF p = pod /\ a = adapter[1] /\ served[pod][adapter[1]] = None
                        THEN adapter[2] ELSE served[p][a]
    BY <1>5, <2>1, SetEntry DEF Load, TypeOK
  <2>3. p = pod /\ a = adapter[1] => adapter[2] = spec[a]
    BY <1>1, <2>1
  <2> QED
    BY <1>1, <1>5, <2>1, <2>2, <2>3 DEF Load
<1>6. CASE AddLabel
  <2>1. /\ pod \in Pods /\ adapter[1] \in Adapters /\ adapter[2] \in URLs
        /\ adapter \in ensure[pod]
    BY <1>6, InHand DEF AddLabel
  <2>2. label'[p][a] = IF p = pod /\ a = adapter[1] THEN adapter[2] ELSE label[p][a]
    BY <1>6, <2>1, SetEntry DEF AddLabel, TypeOK
  <2>3. p = pod /\ a = adapter[1] => adapter[2] = spec[a]
    BY <1>1, <2>1
  <2>4. \A e \in ensure'[p] : e \in ensure[p]
    BY <1>6 DEF AddLabel, TypeOK
  <2> QED
    BY <1>1, <1>6, <2>1, <2>2, <2>3, <2>4 DEF AddLabel
<1>7. CASE Unload /\ ~Idle
  <2>1. pod \in Pods /\ adapter[1] \in Adapters /\ adapter[1] \in remove[pod]
    BY <1>7, InHand DEF Unload, CallInv
  <2>2. served'[p][a] = IF p = pod /\ a = adapter[1] THEN None ELSE served[p][a]
    BY <1>7, <2>1, SetEntry DEF Unload, TypeOK
  <2> QED
    BY <1>1, <1>7, <2>1, <2>2 DEF Unload
<1>8. CASE RemoveLabel
  <2>1. pod \in Pods /\ adapter[1] \in Adapters /\ adapter[1] \in remove[pod]
    BY <1>8, InHand DEF RemoveLabel, CallInv
  <2>2. label'[p][a] = IF p = pod /\ a = adapter[1] THEN None ELSE label[p][a]
    BY <1>8, <2>1, SetEntry DEF RemoveLabel, TypeOK
  <2>3. a \notin remove'[p]
    BY <1>1, <1>8 DEF RemoveLabel, TypeOK
  <2> QED
    BY <1>1, <1>8, <2>1, <2>2, <2>3 DEF RemoveLabel
<1>9. CASE ChangeSpec
  <2>1. PICK b \in Adapters, u \in URLs \cup {None} :
            /\ spec' = [spec EXCEPT ![b] = u]
            /\ touched' = touched \cup {c \in {b} : spec[c] # None}
    BY <1>9 DEF ChangeSpec
  <2>2. CASE a = b
    <3>1. spec[a] = None /\ \A e \in ensure[p] : e[2] \in URLs
      BY <2>1, <2>2 DEF TypeOK
    <3>2. \A e \in ensure[p] : e[1] # a
      BY <1>1, <3>1
    <3> QED
      BY <1>1, <1>9, <3>1, <3>2 DEF ChangeSpec
  <2>3. CASE a # b
    <3>1. spec'[a] = spec[a]
      BY <2>1, <2>3 DEF TypeOK
    <3> QED
      BY <1>1, <1>9, <3>1 DEF ChangeSpec
  <2> QED
    BY <2>2, <2>3
<1>10. CASE (\E q \in Pods : LoaderReady(q)) \/ UNCHANGED vars
  BY <1>1, <1>10 DEF LoaderReady, vars
<1>11. CASE Unload /\ Idle
  <2>1. step' = "idle"
    BY <1>11 DEF Idle
  <2> QED
    BY <1>3, <1>11, <2>1 DEF Unload
<1> QED
  BY <1>2, <1>3, <1>4, <1>5, <1>6, <1>7, <1>8, <1>9, <1>10, <1>11
     DEF Next, Controller, Finish, LoaderNotReady, Fail

-----------------------------------------------------------------------------
(* The theorems. *)

\* The inductive invariant holds in every reachable state, for any sets of Pods
\* and adapters and any number of changes and failures.
THEOREM Invariance == Spec => []IInv
<1>1. IInv /\ [Next]_vars => IInv'
  BY TypeStep, PlanStep, LabelStep, SettledStep, LoadedStep, OnceStep DEF IInv
<1> QED
  BY <1>1, InitInv, PTL DEF Spec

\* With nothing queued and every loader ready, the labels of all Pods are those
\* of the Model, whatever failed (adapters.go:47-118).
THEOREM LabelledWhenQuiet == Spec => []QuietMeansLabelled
<1>1. IInv => QuietMeansLabelled
  BY DEF IInv
<1> QED
  BY <1>1, Invariance, PTL

\* If no call failed, label, files and server are then the same, and so nothing
\* but the adapters of the Model is left anywhere (adapters.go:94-113).
THEOREM CleanWhenQuiet == Spec => []QuietMeansClean
<1>1. IInv => QuietMeansClean
  <2> SUFFICES ASSUME IInv, Quiet, failures = 0, NEW p \in Pods
               PROVE  served[p] = spec /\ dir[p] = spec
    BY DEF QuietMeansClean
  <2>1. label[p] = spec
    BY DEF IInv, QuietMeansLabelled, Labelled
  <2>2. \A a \in Adapters : Settled(p, a)
    BY AdaptersAssumption DEF IInv, SettledInv, TypeOK, Quiet
  <2>3. \A a \in Adapters : served[p][a] = spec[a] /\ dir[p][a] = spec[a]
    BY <2>1, <2>2 DEF Settled
  <2> QED
    BY <2>3 DEF IInv, TypeOK, Contents
<1> QED
  BY <1>1, Invariance, PTL

\* Whatever failed, the servers have the adapters that were added once and not
\* changed or removed since (adapters.go:71-93).
THEOREM ServedWhenQuiet == Spec => []QuietMeansServed
<1>1. IInv => QuietMeansServed
  <2> SUFFICES ASSUME IInv, Quiet, NEW p \in Pods, NEW a \in Adapters \ touched, spec[a] # None
               PROVE  served[p][a] = spec[a]
    BY DEF QuietMeansServed
  <2>1. label[p][a] = spec[a]
    BY DEF IInv, QuietMeansLabelled, Labelled
  <2> QED
    BY <2>1 DEF IInv, OnceInv
<1> QED
  BY <1>1, Invariance, PTL

=============================================================================

------------------------ MODULE LoadBalancer_proofs -------------------------
(***************************************************************************)
(* Proofs of what a quiet load balancer promises, of the hash ring of its  *)
(* groups, and of how the process that it is part of stops.                *)
(***************************************************************************)
EXTENDS LoadBalancer, HashRing, Manager, FiniteSetTheorems, WellFoundedInduction, TLAPS

-----------------------------------------------------------------------------
(* The load balancer: the inductive invariant. *)

Phases == {"none", "pending", "ready", "unready", "gone"}

PodState == [phase : Phases, ip : Nat, adapters : SUBSET Adapters, orphan : BOOLEAN]

PodsOf(m) == {p \in Pods : ModelOf[p] = m}

\* The endpoints of one Model: some of its Pods, each with an address and adapters.
IsEndpoints(e, m) ==
    /\ DOMAIN e \subseteq PodsOf(m)
    /\ \A p \in DOMAIN e : e[p] \in [ip : Nat, adapters : SUBSET Adapters]

WorkerType ==
    /\ worker.step \in {"idle", "list", "update"}
    /\ worker.step = "list" => worker.for \in AllPods
    /\ worker.step = "update" =>
        worker.for \in Pods /\ IsEndpoints(worker.observed, ModelOf[worker.for])

TypeOK ==
    /\ pod \in [AllPods -> PodState]
    /\ models \subseteq Models
    /\ queue \subseteq AllPods
    /\ DOMAIN groups = Models
    /\ \A m \in Models : IsEndpoints(groups[m], m)
    /\ WorkerType

\* A Pod that no deletion of a Model has orphaned has its Model.
OwnerInv == \A p \in Pods : Current(p) => ModelOf[p] \in models

\* The endpoints e say of p what is true of it now.
Agrees(e, p) ==
    /\ p \in DOMAIN e <=> IsReady(p)
    /\ p \in DOMAIN e => e[p].adapters = pod[p].adapters

InHand(p) == worker.step \in {"list", "update"} /\ worker.for = p

\* Of a Pod without an event in the queue, a list in the worker's hands is up to
\* date, and the group is, unless the worker is about to update it.
EventInv ==
    \A p \in Pods : (Current(p) /\ p \notin queue) =>
        /\ (worker.step = "update" /\ ModelOf[worker.for] = ModelOf[p])
             => Agrees(worker.observed, p)
        /\ InHand(p) \/ Agrees(groups[ModelOf[p]], p)

\* The same for the Pods of KubeAI.
SelfInv ==
    \A p \in SelfPods : (Exists(p) /\ p \notin queue) =>
        \/ InHand(p)
        \/ {s \in selfIPs : s[1] = p} = IF IsReady(p) THEN {<<p, pod[p].ip>>} ELSE {}

IInv == TypeOK /\ OwnerInv /\ EventInv /\ SelfInv

-----------------------------------------------------------------------------
(* Type correctness. *)

\* What is observed of a Model are endpoints of it, and they agree with its Pods.
LEMMA ObservedType ==
    ASSUME TypeOK, NEW m \in Models
    PROVE  /\ IsEndpoints(Observed(m), m)
           /\ \A p \in PodsOf(m) : Agrees(Observed(m), p)
  BY DEF TypeOK, IsEndpoints, Observed, PodsOf, PodState, AllPods, Agrees, IsReady

\* A group that is given a list has the endpoints of the list, with their adapters.
LEMMA ReconcileType ==
    ASSUME NEW m, NEW e, NEW o, IsEndpoints(e, m), IsEndpoints(o, m)
    PROVE  /\ IsEndpoints(ReconcileEndpoints(e, o), m)
           /\ \A p : Agrees(o, p) => Agrees(ReconcileEndpoints(e, o), p)
<1>1. IsEndpoints(ReconcileEndpoints(e, o), m)
  BY DEF IsEndpoints, ReconcileEndpoints
<1>2. ASSUME NEW p, Agrees(o, p) PROVE Agrees(ReconcileEndpoints(e, o), p)
  BY <1>2 DEF IsEndpoints, ReconcileEndpoints, Agrees
<1> QED
  BY <1>1, <1>2

\* Nothing exists at first.
LEMMA InitInv == Init => IInv
<1> SUFFICES ASSUME Init PROVE IInv
  OBVIOUS
<1>1. TypeOK
  BY DEF Init, TypeOK, PodState, Phases, WorkerType, Idle, IsEndpoints, NoEndpoints
<1>2. \A p \in AllPods : ~Exists(p)
  BY DEF Init, Exists
<1> QED
  BY <1>1, <1>2 DEF IInv, OwnerInv, EventInv, SelfInv, Current, AllPods

\* Every step of the worker and of the cluster keeps the types.
LEMMA TypeStep == TypeOK /\ [Next]_vars => TypeOK'
<1> SUFFICES ASSUME TypeOK, [Next]_vars PROVE TypeOK'
  OBVIOUS
<1> USE DEF TypeOK, WorkerType, clusterVars
<1>1. CASE UNCHANGED <<pod, models>> /\ (ListSelf \/ Fail \/ \E p \in AllPods : Get(p))
  BY <1>1 DEF ListSelf, Fail, Get, Idle, AllPods
<1>2. CASE List
  <2>1. worker.for \in Pods /\ ModelOf[worker.for] \in Models
    BY <1>2 DEF List, Models
  <2>2. IsEndpoints(Observed(ModelOf[worker.for]), ModelOf[worker.for])
    BY <2>1, ObservedType
  <2> QED
    BY <1>2, <2>1, <2>2 DEF List
<1>3. CASE Update
  <2>1. worker.for \in Pods /\ ModelOf[worker.for] \in Models
    BY <1>3 DEF Update, Models
  <2>2. IsEndpoints(ReconcileEndpoints(groups[ModelOf[worker.for]], worker.observed),
                    ModelOf[worker.for])
    BY <1>3, <2>1, ReconcileType DEF Update
  <2> QED
    BY <1>3, <2>1, <2>2 DEF Update, Idle
<1>4. CASE Cluster
  <2>1. pod' \in [AllPods -> PodState]
    <3>1. ASSUME NEW p \in AllPods, CreatePod(p) \/ PodUnready(p) \/ PodGone(p)
          PROVE  pod' \in [AllPods -> PodState]
      BY <3>1 DEF CreatePod, PodUnready, PodGone, Becomes, PodState, Phases
    <3>2. ASSUME NEW p \in AllPods, PodReady(p) PROVE pod' \in [AllPods -> PodState]
      BY <3>2 DEF PodReady, PodState, Phases
    <3>3. ASSUME NEW p \in Pods, Relabel(p) PROVE pod' \in [AllPods -> PodState]
      BY <3>3 DEF Relabel, PodState, AllPods
    <3>4. ASSUME NEW m \in Models, CreateModel(m) \/ DeleteModel(m)
          PROVE  pod' \in [AllPods -> PodState]
      <4>1. \A p \in AllPods : pod[p] \in PodState /\ [pod[p] EXCEPT !.orphan = TRUE] \in PodState
        BY DEF PodState
      <4> QED
        BY <3>4, <4>1 DEF CreateModel, DeleteModel
    <3> QED
      BY <1>4, <3>1, <3>2, <3>3, <3>4 DEF Cluster
  <2>2. /\ models' \subseteq Models /\ queue' \subseteq AllPods
        /\ UNCHANGED <<worker, groups>>
    BY <1>4 DEF Cluster, CreatePod, PodReady, PodUnready, PodGone, Relabel, Becomes,
                CreateModel, DeleteModel, AllPods
  <2> QED
    BY <2>1, <2>2
<1>5. CASE UNCHANGED vars
  BY <1>5 DEF vars
<1> QED
  BY <1>1, <1>2, <1>3, <1>4, <1>5 DEF Next, Worker, ListSelf, Fail, Get

-----------------------------------------------------------------------------
(* Events. *)

\* A step of the cluster that changes a Pod queues it; one that orphans it, or
\* creates or deletes a Model, leaves the rest of it alone.
LEMMA ClusterStep ==
    ASSUME TypeOK, Cluster, NEW p \in AllPods
    PROVE  /\ UNCHANGED <<worker, groups, selfIPs>>
           /\ queue \subseteq queue'
           /\ p \in queue' \/ \/ pod'[p] = pod[p]
                              \/ p \in Pods /\ pod'[p] = [pod[p] EXCEPT !.orphan = TRUE]
<1>1. ASSUME NEW q \in AllPods, CreatePod(q) \/ PodReady(q) \/ PodUnready(q) \/ PodGone(q)
      PROVE  /\ UNCHANGED <<worker, groups, selfIPs>>
             /\ queue \subseteq queue'
             /\ p \in queue' \/ pod'[p] = pod[p]
  BY <1>1 DEF TypeOK, CreatePod, PodReady, PodUnready, PodGone, Becomes
<1>2. ASSUME NEW q \in Pods, Relabel(q)
      PROVE  /\ UNCHANGED <<worker, groups, selfIPs>>
             /\ queue \subseteq queue'
             /\ p \in queue' \/ pod'[p] = pod[p]
  BY <1>2 DEF TypeOK, Relabel
<1>3. ASSUME NEW m \in Models, CreateModel(m) \/ DeleteModel(m)
      PROVE  /\ UNCHANGED <<worker, groups, selfIPs>>
             /\ queue \subseteq queue'
             /\ \/ pod'[p] = pod[p]
                \/ p \in Pods /\ pod'[p] = [pod[p] EXCEPT !.orphan = TRUE]
  BY <1>3 DEF TypeOK, CreateModel, DeleteModel
<1> QED
  BY <1>1, <1>2, <1>3 DEF Cluster

\* Only a Pod of a Model that is there is created, and the deletion of a Model
\* orphans its Pods.
LEMMA OwnerStep == TypeOK /\ OwnerInv /\ [Next]_vars => OwnerInv'
<1> SUFFICES ASSUME TypeOK, OwnerInv, [Next]_vars, NEW p \in Pods, Current(p)'
             PROVE  ModelOf[p] \in models'
  BY DEF OwnerInv
<1> USE DEF Current, Exists, clusterVars
<1>0. p \in AllPods /\ pod[p] \in PodState /\ (Current(p) => ModelOf[p] \in models)
  BY DEF OwnerInv, TypeOK, AllPods
<1>1. CASE UNCHANGED <<pod, models>>
  BY <1>0, <1>1
<1>2. ASSUME NEW q \in AllPods, CreatePod(q) \/ PodReady(q) \/ PodUnready(q) \/ PodGone(q)
      PROVE  ModelOf[p] \in models'
  BY <1>0, <1>2 DEF TypeOK, PodState, CreatePod, PodReady, PodUnready, PodGone, Becomes
<1>3. ASSUME NEW q \in Pods, Relabel(q) PROVE ModelOf[p] \in models'
  BY <1>0, <1>3 DEF TypeOK, PodState, Relabel
<1>4. ASSUME NEW m \in Models, CreateModel(m) PROVE ModelOf[p] \in models'
  BY <1>0, <1>4 DEF CreateModel
<1>5. ASSUME NEW m \in Models, DeleteModel(m) PROVE ModelOf[p] \in models'
  BY <1>0, <1>5 DEF TypeOK, PodState, DeleteModel
<1>6. CASE Worker \/ Fail \/ UNCHANGED vars
  BY <1>1, <1>6 DEF Worker, ListSelf, List, Update, Get, Fail, vars
<1> QED
  BY <1>2, <1>3, <1>4, <1>5, <1>6 DEF Next, Cluster

\* The last event of a Pod is followed by a list that sees it, and nothing
\* writes an older list to the group after that.
LEMMA EventStep == TypeOK /\ OwnerInv /\ EventInv /\ [Next]_vars => EventInv'
<1> SUFFICES ASSUME TypeOK, OwnerInv, EventInv, [Next]_vars,
                    NEW p \in Pods, Current(p)', p \notin queue'
             PROVE  /\ (worker'.step = "update" /\ ModelOf[worker'.for] = ModelOf[p])
                         => Agrees(worker.observed, p)'
                    /\ InHand(p)' \/ Agrees(groups[ModelOf[p]], p)'
  BY DEF EventInv
<1> USE DEF clusterVars
<1>0. /\ p \in AllPods /\ pod[p] \in PodState /\ ModelOf[p] \in Models /\ p \in PodsOf(ModelOf[p])
      /\ WorkerType
  BY DEF TypeOK, AllPods, Models, PodsOf
<1>1. (Current(p) /\ p \notin queue) =>
        /\ (worker.step = "update" /\ ModelOf[worker.for] = ModelOf[p])
             => Agrees(worker.observed, p)
        /\ InHand(p) \/ Agrees(groups[ModelOf[p]], p)
  BY DEF EventInv
<1>2. CASE UNCHANGED vars
  BY <1>1, <1>2 DEF vars, Current, Exists, IsReady, InHand, Agrees
<1>3. CASE Cluster
  <2>1. pod'[p] = pod[p] \/ pod'[p] = [pod[p] EXCEPT !.orphan = TRUE]
    BY <1>0, <1>3, ClusterStep
  <2>2. pod'[p] = pod[p]
    BY <1>0, <2>1 DEF Current, PodState
  <2>3. UNCHANGED <<worker, groups>> /\ p \notin queue
    BY <1>0, <1>3, ClusterStep
  <2> QED
    BY <1>1, <2>2, <2>3 DEF Current, Exists, IsReady, InHand, Agrees
<1>4. CASE UNCHANGED pod
  <2>1. Current(p) /\ ModelOf[p] \in models
    BY <1>4 DEF Current, Exists, OwnerInv
  <2>2. Exists(p)
    BY <2>1 DEF Current
  <2>3. ASSUME NEW q \in AllPods, Get(q)
        PROVE  /\ worker'.step # "update"
               /\ InHand(p)' \/ Agrees(groups[ModelOf[p]], p)'
    <3>1. CASE q = p
      BY <2>2, <2>3, <3>1 DEF Get, InHand
    <3>2. CASE q # p
      BY <1>0, <1>1, <1>4, <2>1, <2>3, <3>2 DEF Get, InHand, Agrees, IsReady, Idle
    <3> QED
      BY <2>3, <3>1, <3>2 DEF Get, Idle
  <2>4. CASE ListSelf
    BY <1>0, <1>1, <1>4, <2>1, <2>4, LoadBalancerAssumption
       DEF ListSelf, InHand, Agrees, IsReady, Idle
  <2>5. CASE List
    <3>1. worker.for \in Pods /\ ModelOf[worker.for] \in Models
      BY <2>5 DEF List, Models
    <3>2. ModelOf[worker.for] = ModelOf[p] => Agrees(Observed(ModelOf[worker.for]), p)
      BY <1>0, <3>1, ObservedType
    <3>3. InHand(p)' \/ Agrees(groups[ModelOf[p]], p)'
      BY <1>1, <1>4, <2>1, <2>5 DEF List, InHand, Agrees, IsReady
    <3>4. (worker'.step = "update" /\ ModelOf[worker'.for] = ModelOf[p])
             => Agrees(worker.observed, p)'
      BY <1>4, <2>5, <3>2 DEF List, Agrees, IsReady
    <3> QED
      BY <3>3, <3>4
  <2>6. CASE Update
    <3>0. worker'.step = "idle"
      BY <2>6 DEF Update, Idle
    <3>1. /\ worker.for \in Pods /\ ModelOf[worker.for] \in Models
          /\ IsEndpoints(worker.observed, ModelOf[worker.for])
          /\ p \notin queue
      BY <1>0, <2>6 DEF Update, WorkerType, Models
    <3>2. CASE ModelOf[worker.for] = ModelOf[p]
      <4> DEFINE m == ModelOf[p]
      <4>1. Agrees(worker.observed, p)
        BY <1>1, <2>1, <2>6, <3>1, <3>2 DEF Update
      <4>2. groups'[m] = ReconcileEndpoints(groups[m], worker.observed)
        BY <2>1, <2>6, <3>1, <3>2 DEF Update, TypeOK
      <4>3. IsEndpoints(groups[m], m) /\ IsEndpoints(worker.observed, m)
        BY <3>1, <3>2 DEF TypeOK
      <4>4. Agrees(ReconcileEndpoints(groups[m], worker.observed), p)
        <5> HIDE DEF m
        <5> QED BY <4>1, <4>3, ReconcileType
      <4>5. Agrees(groups[m], p)'
        BY <1>4, <4>2, <4>4 DEF Agrees, IsReady
      <4> QED
        BY <3>0, <4>5
    <3>3. CASE ModelOf[worker.for] # ModelOf[p]
      BY <1>0, <1>1, <1>4, <2>1, <2>6, <3>0, <3>1, <3>3 DEF Update, InHand, Agrees, IsReady, TypeOK
    <3> QED
      BY <3>2, <3>3
  <2>7. CASE Fail
    BY <1>0, <1>1, <1>4, <2>1, <2>7 DEF Fail, InHand, Agrees, IsReady, Idle, WorkerType
  <2> QED
    BY <1>2, <1>3, <2>3, <2>4, <2>5, <2>6, <2>7 DEF Next, Worker
<1> QED
  BY <1>2, <1>3, <1>4 DEF Next, Worker, ListSelf, List, Update, Get, Fail

\* A list of KubeAI's Pods is written in one step with its look at them.
LEMMA SelfStep == TypeOK /\ SelfInv /\ [Next]_vars => SelfInv'
<1> SUFFICES ASSUME TypeOK, SelfInv, [Next]_vars,
                    NEW p \in SelfPods, Exists(p)', p \notin queue'
             PROVE  \/ InHand(p)'
                    \/ {s \in selfIPs' : s[1] = p} =
                            IF IsReady(p)' THEN {<<p, pod'[p].ip>>} ELSE {}
  BY DEF SelfInv
<1> USE DEF clusterVars
<1>0. /\ p \in AllPods /\ p \notin Pods /\ pod[p] \in PodState
      /\ WorkerType
  BY LoadBalancerAssumption DEF TypeOK, AllPods
<1>1. (Exists(p) /\ p \notin queue) =>
        \/ InHand(p)
        \/ {s \in selfIPs : s[1] = p} = IF IsReady(p) THEN {<<p, pod[p].ip>>} ELSE {}
  BY DEF SelfInv
<1>2. CASE Cluster \/ UNCHANGED vars
  <2>1. pod'[p] = pod[p] /\ UNCHANGED <<worker, selfIPs>> /\ p \notin queue
    BY <1>0, <1>2, ClusterStep DEF vars
  <2> QED
    BY <1>1, <2>1 DEF Exists, IsReady, InHand
<1>3. ASSUME NEW q \in AllPods, Get(q)
      PROVE  \/ InHand(p)'
             \/ {s \in selfIPs' : s[1] = p} =
                    IF IsReady(p)' THEN {<<p, pod'[p].ip>>} ELSE {}
  <2>1. CASE q = p
    BY <1>3, <2>1 DEF Get, InHand, Exists
  <2>2. CASE q # p
    BY <1>1, <1>3, <2>2 DEF Get, InHand, Exists, IsReady, Idle
  <2> QED
    BY <2>1, <2>2
<1>4. CASE ListSelf
  <2>1. selfIPs' = {<<q, pod[q].ip>> : q \in {q \in SelfPods : IsReady(q)}}
    BY <1>4 DEF ListSelf
  <2>2. \A q : <<q, pod[q].ip>>[1] = q
    OBVIOUS
  <2>3. {s \in selfIPs' : s[1] = p} = IF IsReady(p) THEN {<<p, pod[p].ip>>} ELSE {}
    BY <2>1, <2>2
  <2> QED
    BY <1>4, <2>3 DEF ListSelf, IsReady
<1>5. CASE List \/ Update
  BY <1>0, <1>1, <1>5 DEF List, Update, WorkerType, InHand, Exists, IsReady, Idle
<1>6. CASE Fail
  BY <1>0, <1>1, <1>6 DEF Fail, WorkerType, InHand, Exists, IsReady, Idle
<1> QED
  BY <1>2, <1>3, <1>4, <1>5, <1>6 DEF Next, Worker

-----------------------------------------------------------------------------
(* The theorems. *)

\* The inductive invariant holds in every reachable state, for any set of Pods
\* and Models and any number of restarts, relabels and failed calls.
THEOREM Invariance == Spec => []IInv
<1>1. IInv /\ [Next]_vars => IInv'
  BY TypeStep, OwnerStep, EventStep, SelfStep DEF IInv
<1> QED
  BY <1>1, InitInv, PTL DEF Spec

\* With no event left, every ready Pod of a Model is an endpoint of its group,
\* with its adapters (load_balancer.go:53-137).
THEOREM Routed == Spec => []QuietMeansRouted
<1>1. IInv => QuietMeansRouted
  BY DEF IInv, EventInv, QuietMeansRouted, Quiet, InHand, Idle, Agrees
<1> QED
  BY <1>1, Invariance, PTL

\* With no event left, an endpoint whose Pod is there is ready
\* (load_balancer.go:97-103, 137).
THEOREM Ready == Spec => []QuietMeansReady
<1>1. IInv => QuietMeansReady
  <2> SUFFICES ASSUME IInv, Quiet, NEW m \in Models, NEW p \in DOMAIN groups[m], Current(p)
               PROVE  IsReady(p)
    BY DEF QuietMeansReady
  <2>1. p \in Pods /\ ModelOf[p] = m
    BY DEF IInv, TypeOK, IsEndpoints, PodsOf
  <2>2. Agrees(groups[m], p)
    BY <2>1 DEF IInv, EventInv, Quiet, InHand, Idle
  <2> QED
    BY <2>2 DEF Agrees
<1> QED
  BY <1>1, Invariance, PTL

\* With no event left, the addresses the autoscaler scrapes are those of the
\* ready Pods of KubeAI (load_balancer.go:68-83, autoscaler.go:122).
THEOREM Scraped == Spec => []QuietMeansScraped
<1>1. IInv => QuietMeansScraped
  BY DEF IInv, SelfInv, QuietMeansScraped, Quiet, InHand, Idle
<1> QED
  BY <1>1, Invariance, PTL

-----------------------------------------------------------------------------
(* The hash ring: sorting. *)

\* A non-empty set of naturals has a least element.
LEMMA Minimum ==
    ASSUME NEW S \in SUBSET Nat, S # {}
    PROVE  Least(S) \in S /\ \A y \in S : Least(S) <= y
<1>1. PICK x \in S : \A y \in S : ~(<<y, x>> \in OpToRel(<, Nat))
  BY NatLessThanWellFounded, WFMin, Zenon
<1>2. \A y \in S : ~(y < x)
  BY <1>1 DEF OpToRel
<1>3. \E z \in S : \A y \in S : z <= y
  BY <1>2
<1> QED
  BY <1>3 DEF Least


\* A sequence without repetitions, and how many of its elements are smaller
\* than one of them, or not greater.
LEMMA Ranks ==
    ASSUME NEW s \in Seq(Nat), IsInjective(s), NEW x \in Range(s), NEW y \in Range(s)
    PROVE  LET below(z) == Cardinality({j \in 1..Len(s) : s[j] < z})
               rank(z)  == Cardinality({j \in 1..Len(s) : s[j] <= z})
           IN  /\ rank(x) \in 1..Len(s) /\ below(x) = rank(x) - 1
               /\ x < y => rank(x) < rank(y)
<1> DEFINE n == Len(s)
           B(z) == {j \in 1..n : s[j] < z}
           R(z) == {j \in 1..n : s[j] <= z}
<1>1. n \in Nat /\ IsFiniteSet(1..n) /\ Cardinality(1..n) = n
  <2>1. n \in Nat
    OBVIOUS
  <2> HIDE DEF n
  <2> QED
    BY <2>1, FS_Interval
<1>2. \A z \in Nat : /\ IsFiniteSet(B(z)) /\ IsFiniteSet(R(z)) /\ B(z) \subseteq R(z)
             /\ Cardinality(R(z)) \in Nat /\ Cardinality(R(z)) <= n /\ Cardinality(B(z)) \in Nat
  <2> SUFFICES ASSUME NEW z \in Nat
               PROVE  /\ IsFiniteSet(B(z)) /\ IsFiniteSet(R(z)) /\ B(z) \subseteq R(z)
                      /\ Cardinality(R(z)) \in Nat /\ Cardinality(R(z)) <= n
                      /\ Cardinality(B(z)) \in Nat
    OBVIOUS
  <2>1. B(z) \in SUBSET (1..n) /\ R(z) \in SUBSET (1..n)
    OBVIOUS
  <2>2. B(z) \subseteq R(z)
    <3>1. \A j \in 1..n : s[j] \in Nat
      OBVIOUS
    <3> QED
      BY <3>1
  <2> HIDE DEF B, R
  <2>3. IsFiniteSet(B(z)) /\ IsFiniteSet(R(z)) /\ Cardinality(R(z)) <= Cardinality(1..n)
    BY <1>1, <2>1, FS_Subset
  <2> QED
    BY <1>1, <2>2, <2>3, FS_CardinalityType
<1>5. Range(s) \subseteq Nat
  BY DEF Range
<1>3. ASSUME NEW z \in Range(s)
      PROVE  Cardinality(B(z)) = Cardinality(R(z)) - 1
  <2>1. PICK k \in 1..n : s[k] = z
    BY DEF Range
  <2>2. \A j \in 1..n : s[j] = z => j = k
    BY <2>1 DEF IsInjective
  <2>3. B(z) = R(z) \ {k} /\ k \in R(z)
    <3>1. z \in Nat /\ \A j \in 1..n : s[j] \in Nat
      BY <2>1
    <3> QED
      BY <2>1, <2>2, <3>1
  <2> HIDE DEF B, R
  <2> QED
    BY <1>2, <1>5, <2>3, FS_RemoveElement
<1>4. ASSUME x < y
      PROVE  Cardinality(R(x)) < Cardinality(R(y))
  <2>1. R(x) \in SUBSET B(y)
    <3>1. x \in Nat /\ y \in Nat /\ \A j \in 1..n : s[j] \in Nat
      BY DEF Range
    <3> QED
      BY <1>4, <3>1
  <2> HIDE DEF B, R
  <2>2. Cardinality(R(x)) <= Cardinality(B(y))
    BY <1>2, <1>5, <2>1, FS_Subset
  <2>3. Cardinality(B(y)) = Cardinality(R(y)) - 1
    BY <1>3
  <2>4. /\ Cardinality(R(x)) \in Nat /\ Cardinality(R(y)) \in Nat
        /\ Cardinality(B(y)) \in Nat
    BY <1>2, <1>5
  <2> QED
    BY <2>2, <2>3, <2>4
<1>6. /\ Cardinality(R(x)) \in 1..n /\ Cardinality(B(x)) = Cardinality(R(x)) - 1
      /\ x < y => Cardinality(R(x)) < Cardinality(R(y))
  <2> HIDE DEF n, B, R
  <2>1. Cardinality(B(x)) = Cardinality(R(x)) - 1
    BY <1>3
  <2>2. /\ Cardinality(R(x)) \in Nat /\ Cardinality(R(x)) <= n
        /\ Cardinality(B(x)) \in Nat
    BY <1>2, <1>5
  <2> QED
    BY <1>1, <1>4, <2>1, <2>2
<1> QED
  BY <1>6

\* Sorting keeps what is there and puts it in order.
LEMMA SortedFacts ==
    ASSUME NEW s \in Seq(Nat), IsInjective(s)
    PROVE  /\ Sorted(s) \in Seq(Nat) /\ Len(Sorted(s)) = Len(s)
           /\ Ascending(Sorted(s)) /\ Range(Sorted(s)) = Range(s)
<1> DEFINE n == Len(s)
           below(z) == Cardinality({j \in 1..n : s[j] < z})
           rank(z)  == Cardinality({j \in 1..n : s[j] <= z})
           t == Sorted(s)
<1>1. \A x, y \in Range(s) : /\ rank(x) \in 1..n /\ below(x) = rank(x) - 1
                             /\ x < y => rank(x) < rank(y)
  BY Ranks
<1>2. n \in Nat /\ Range(s) \subseteq Nat
  BY DEF Range
<1>3. t = [i \in 1..n |-> CHOOSE x \in Range(s) : below(x) < i /\ i <= rank(x)]
  BY DEF Sorted
<1> HIDE DEF below, rank, t, n
<1>4. \A x, y \in Range(s) : rank(x) = rank(y) => x = y
  BY <1>1, <1>2
<1>5. \A i \in 1..n : \E x \in Range(s) : rank(x) = i
  <2> DEFINE r == [x \in Range(s) |-> rank(x)]
  <2>1. s \in Bijection(1..n, Range(s))
    BY DEF n, Bijection, Injection, Surjection, Range, IsInjective
  <2>2. IsFiniteSet(1..n) /\ Cardinality(1..n) = n
    BY <1>2, FS_Interval
  <2>3. IsFiniteSet(Range(s)) /\ Cardinality(Range(s)) = n
    BY <2>1, <2>2, FS_Bijection DEF ExistsBijection
  <2>4. r \in Injection(Range(s), 1..n)
    BY <1>1, <1>4 DEF Injection, IsInjective
  <2>5. r \in Surjection(Range(s), 1..n)
    BY <2>2, <2>3, <2>4, FS_Injection
  <2> QED
    BY <2>5 DEF Surjection
<1>6. \A i \in 1..n : t[i] \in Range(s) /\ rank(t[i]) = i
  <2> SUFFICES ASSUME NEW i \in 1..n PROVE t[i] \in Range(s) /\ rank(t[i]) = i
    OBVIOUS
  <2>1. \E x \in Range(s) : below(x) < i /\ i <= rank(x)
    <3>1. PICK x \in Range(s) : rank(x) = i
      BY <1>5
    <3>2. below(x) = i - 1 /\ i \in Nat
      BY <1>1, <1>2, <3>1
    <3> QED
      BY <3>1, <3>2
  <2>2. t[i] \in Range(s) /\ below(t[i]) < i /\ i <= rank(t[i])
    BY <1>3, <2>1
  <2> QED
    BY <1>1, <1>2, <2>2
<1>7. t \in Seq(Nat) /\ Len(t) = n /\ DOMAIN t = 1..n
  BY <1>2, <1>3, <1>6
<1>8. Ascending(t)
  <2> SUFFICES ASSUME NEW i \in 1..n, NEW j \in 1..n, i < j PROVE t[i] < t[j]
    BY <1>7 DEF Ascending
  <2>1. rank(t[i]) = i /\ rank(t[j]) = j /\ t[i] \in Nat /\ t[j] \in Nat
    BY <1>2, <1>6
  <2>2. t[j] < t[i] => rank(t[j]) < rank(t[i])
    BY <1>1, <1>6
  <2> QED
    BY <1>2, <2>1, <2>2
<1>9. Range(t) = Range(s)
  <2>1. \A i \in 1..n : t[i] \in Range(s)
    BY <1>6
  <2>2. \A x \in Range(s) : t[rank(x)] = x
    BY <1>1, <1>4, <1>6
  <2>3. \A x \in Range(s) : rank(x) \in DOMAIN t
    BY <1>1, <1>7
  <2>4. Range(t) = {t[i] : i \in 1..n}
    BY <1>7 DEF Range
  <2> QED
    BY <2>1, <2>2, <2>3, <2>4, <1>7
<1> QED
  BY <1>7, <1>8, <1>9 DEF t, n

-----------------------------------------------------------------------------
(* Deleting a hash. *)

\* In an ascending slice, places and hashes are in the same order.
LEMMA AscendingOrder ==
    ASSUME NEW s \in Seq(Nat), Ascending(s)
    PROVE  \A i, j \in 1..Len(s) :
              (s[i] < s[j] <=> i < j) /\ (s[i] = s[j] => i = j)
<1> SUFFICES ASSUME NEW i \in 1..Len(s), NEW j \in 1..Len(s)
             PROVE  (s[i] < s[j] <=> i < j) /\ (s[i] = s[j] => i = j)
  OBVIOUS
<1>1. s[i] \in Nat /\ s[j] \in Nat /\ i \in Nat /\ j \in Nat
  OBVIOUS
<1>2. (i < j => s[i] < s[j]) /\ (j < i => s[j] < s[i])
  BY DEF Ascending
<1>3. CASE i = j
  BY <1>1, <1>3
<1>4. CASE i # j
  <2> DEFINE x == s[i]
             y == s[j]
  <2>1. x \in Nat /\ y \in Nat /\ (i < j => x < y) /\ (j < i => y < x)
    BY <1>1, <1>2
  <2> HIDE DEF x, y
  <2>2. (i < j <=> x < y) /\ x # y
    BY <1>1, <1>4, <2>1
  <2> QED
    BY <1>1, <1>4, <2>2 DEF x, y
<1> QED
  BY <1>3, <1>4

\* One turn of the loop of the binary search, f being what the later turns give.
SearchStep(s, val, f, left, right) ==
    LET middle == (left + right) \div 2 IN
    IF left > right THEN 0
    ELSE IF s[middle] = val THEN middle
    ELSE IF s[middle] < val THEN f[<<middle + 1, right>>]
    ELSE f[<<left, middle - 1>>]

\* What it looks for: a place of val from left to right, 0 when there is none.
Found(s, val, left, right) ==
    LET S == {i \in left..right : s[i] = val} IN IF S = {} THEN 0 ELSE Least(S)

\* The middle of an interval is in it.
LEMMA Middle ==
    ASSUME NEW left \in Nat, NEW right \in Nat, left <= right
    PROVE  (left + right) \div 2 \in left..right
  OBVIOUS

\* A turn finds the place, if the turns after it would.
LEMMA SearchStepFacts ==
    ASSUME NEW s \in Seq(Nat), Ascending(s), NEW val \in Nat, NEW f,
           NEW left \in 1..(Len(s) + 1), NEW right \in 0..Len(s)
    PROVE  LET middle == (left + right) \div 2 IN
           (left <= right =>
              /\ f[<<middle + 1, right>>] = Found(s, val, middle + 1, right)
              /\ f[<<left, middle - 1>>] = Found(s, val, left, middle - 1))
           => SearchStep(s, val, f, left, right) = Found(s, val, left, right)
<1> DEFINE n == Len(s)
           middle == (left + right) \div 2
           In(a, b) == {i \in a..b : s[i] = val}
           Later == /\ f[<<middle + 1, right>>] = Found(s, val, middle + 1, right)
                    /\ f[<<left, middle - 1>>] = Found(s, val, left, middle - 1)
<1>1. n \in Nat /\ left \in 1..(n + 1) /\ right \in 0..n
  OBVIOUS
<1>2. \A i \in 1..n : s[i] \in Nat
  OBVIOUS
<1>3. \A i, j \in 1..n : (s[i] < s[j] <=> i < j) /\ (s[i] = s[j] => i = j)
  BY AscendingOrder
<1>4. \A a, b : Found(s, val, a, b) = IF In(a, b) = {} THEN 0 ELSE Least(In(a, b))
  BY DEF Found
<1> HIDE DEF n
<1>5. ASSUME left > right
      PROVE  SearchStep(s, val, f, left, right) = Found(s, val, left, right)
  <2>1. In(left, right) = {}
    BY <1>1, <1>5
  <2> QED
    BY <2>1, <1>5 DEF SearchStep, Found
<1>6. ASSUME left <= right, Later
      PROVE  SearchStep(s, val, f, left, right) = Found(s, val, left, right)
  <2>1. middle \in left..right
    <3>1. left \in Nat /\ right \in Nat /\ left <= right
      BY <1>1, <1>6
    <3> QED
      BY <3>1, Middle
  <2>2. middle \in 1..n
    <3> HIDE DEF middle
    <3> QED
      BY <1>1, <2>1
  <2>3. SearchStep(s, val, f, left, right) =
          IF s[middle] = val THEN middle
          ELSE IF s[middle] < val THEN f[<<middle + 1, right>>]
          ELSE f[<<left, middle - 1>>]
    BY <1>1, <1>6 DEF SearchStep
  <2> HIDE DEF middle
  <2>4. s[middle] \in Nat
    BY <1>2, <2>2
  <2>5. CASE s[middle] = val
    <3>1. middle \in In(left, right)
      BY <2>1, <2>5
    <3>2. \A i \in In(left, right) : i \in 1..n /\ s[i] = val
      BY <1>1
    <3> HIDE DEF In
    <3>3. \A i \in In(left, right) : i = middle
      BY <1>3, <2>2, <2>5, <3>2
    <3>4. In(left, right) = {middle}
      BY <3>1, <3>3
    <3>5. Least({middle}) = middle
      BY <2>1 DEF Least
    <3>6. Found(s, val, left, right) = middle
      BY <1>4, <3>4, <3>5
    <3> QED
      BY <2>3, <2>5, <3>6
  <2>6. CASE s[middle] < val
    <3>1. \A i \in 1..n : s[i] = val => i > middle
      BY <1>1, <1>3, <2>2, <2>6
    <3>2. \A i \in left..right : i \in 1..n /\ (i \in (middle + 1)..right <=> i > middle)
      BY <1>1, <2>2
    <3>3. (middle + 1)..right \subseteq left..right
      BY <1>1, <2>1
    <3>4. In(left, right) = In(middle + 1, right)
      BY <3>1, <3>2, <3>3
    <3>5. s[middle] # val
      BY <2>4, <2>6
    <3> HIDE DEF In
    <3> QED
      BY <1>4, <1>6, <2>3, <2>6, <3>4, <3>5
  <2>7. CASE val < s[middle]
    <3>1. \A i \in 1..n : s[i] = val => i < middle
      BY <1>1, <1>3, <2>2, <2>7
    <3>2. \A i \in left..right : i \in 1..n /\ (i \in left..(middle - 1) <=> i < middle)
      BY <1>1, <2>2
    <3>3. left..(middle - 1) \subseteq left..right
      BY <1>1, <2>1
    <3>4. In(left, right) = In(left, middle - 1)
      BY <3>1, <3>2, <3>3
    <3>5. s[middle] # val /\ ~(s[middle] < val)
      BY <2>4, <2>7
    <3> HIDE DEF In
    <3> QED
      BY <1>4, <1>6, <2>3, <2>7, <3>4, <3>5
  <2> QED
    BY <2>4, <2>5, <2>6, <2>7
<1>7. left > right \/ left <= right
  BY <1>1
<1> QED
  BY <1>5, <1>6, <1>7

\* The binary search finds the hash, by induction on the width of the interval.
LEMMA BinarySearchFacts ==
    ASSUME NEW s \in Seq(Nat), Ascending(s), NEW val \in Nat
    PROVE  BinarySearch(s, val) = Found(s, val, 1, Len(s))
<1> DEFINE n == Len(s)
           C == (1..(n + 1)) \X (0..n)
           Solves(f) == f = [c \in C |-> SearchStep(s, val, f, c[1], c[2])]
           g == [c \in C |-> Found(s, val, c[1], c[2])]
<1>1. n \in Nat
  OBVIOUS
<1>2. \A a \in 1..(n + 1), b \in 0..n :
         <<a, b>> \in C /\ <<a, b>>[1] = a /\ <<a, b>>[2] = b
  OBVIOUS
<1>3. \A c \in C : c[1] \in 1..(n + 1) /\ c[2] \in 0..n /\ c = <<c[1], c[2]>>
  OBVIOUS
<1>4. \A left \in 1..(n + 1), right \in 0..n : left <= right =>
        LET middle == (left + right) \div 2
        IN  middle \in left..right /\ middle + 1 \in 1..(n + 1) /\ middle - 1 \in 0..n
  BY <1>1
<1> HIDE DEF C, n
<1>5. \A a \in 1..(n + 1), b \in 0..n : g[<<a, b>>] = Found(s, val, a, b)
  BY <1>2
<1>6. Solves(g)
  <2>1. ASSUME NEW c \in C
        PROVE  SearchStep(s, val, g, c[1], c[2]) = Found(s, val, c[1], c[2])
    <3> DEFINE left == c[1]
               right == c[2]
               middle == (left + right) \div 2
    <3>1. left \in 1..(n + 1) /\ right \in 0..n
      BY <1>3
    <3>2. left <= right =>
             /\ g[<<middle + 1, right>>] = Found(s, val, middle + 1, right)
             /\ g[<<left, middle - 1>>] = Found(s, val, left, middle - 1)
      <4> HIDE DEF g
      <4> QED
        BY <1>4, <1>5, <3>1
    <3> HIDE DEF g, left, right
    <3>3. SearchStep(s, val, g, left, right) = Found(s, val, left, right)
      BY <3>1, <3>2, SearchStepFacts DEF n
    <3> QED
      BY <3>3 DEF left, right
  <2> QED
    BY <2>1
<1> DEFINE f == CHOOSE h : Solves(h)
<1>7. Solves(f) /\ BinarySearch(s, val) = f[<<1, n>>]
  <2>1. \E h : Solves(h)
    BY <1>6
  <2>2. Solves(f)
    <3> HIDE DEF Solves
    <3> QED
      BY <2>1
  <2> QED
    BY <2>2 DEF BinarySearch, SearchStep, n, C
<1>8. \A c \in C : f[c] = SearchStep(s, val, f, c[1], c[2])
  <2>1. Solves(f)
    BY <1>7
  <2> HIDE DEF f
  <2> QED
    BY <2>1
<1>9. \A a \in 1..(n + 1), b \in 0..n : f[<<a, b>>] = SearchStep(s, val, f, a, b)
  <2> SUFFICES ASSUME NEW a \in 1..(n + 1), NEW b \in 0..n
               PROVE f[<<a, b>>] = SearchStep(s, val, f, a, b)
    OBVIOUS
  <2>1. <<a, b>> \in C /\ <<a, b>>[1] = a /\ <<a, b>>[2] = b
    BY <1>2
  <2>2. f[<<a, b>>] = SearchStep(s, val, f, <<a, b>>[1], <<a, b>>[2])
    BY <1>8, <2>1
  <2> HIDE DEF f
  <2> QED
    BY <2>1, <2>2
<1> HIDE DEF f, Solves
<1> DEFINE width(a, b) == IF a > b THEN 0 ELSE b - a + 1
           wrong == {k \in Nat : \E a \in 1..(n + 1), b \in 0..n :
                       width(a, b) = k /\ f[<<a, b>>] # Found(s, val, a, b)}
<1>10. wrong = {}
  <2> SUFFICES ASSUME wrong # {} PROVE FALSE
    OBVIOUS
  <2> DEFINE k == Least(wrong)
  <2>1. k \in wrong /\ \A j \in wrong : k <= j
    BY Minimum, wrong \in SUBSET Nat
  <2>0. k \in Nat
    BY <2>1
  <2> HIDE DEF k
  <2>2. PICK left \in 1..(n + 1), right \in 0..n :
          width(left, right) = k /\ f[<<left, right>>] # Found(s, val, left, right)
    BY <2>1
  <2> DEFINE middle == (left + right) \div 2
  <2>3. ASSUME NEW a \in 1..(n + 1), NEW b \in 0..n, width(a, b) < k
        PROVE  f[<<a, b>>] = Found(s, val, a, b)
    <3>1. width(a, b) \in Nat
      BY <1>1
    <3>2. width(a, b) \notin wrong
      <4> HIDE DEF wrong, width
      <4> QED
        BY <2>1, <2>3, <3>1, <2>0
    <3> QED
      BY <3>1, <3>2
  <2>4. left <= right =>
           /\ f[<<middle + 1, right>>] = Found(s, val, middle + 1, right)
           /\ f[<<left, middle - 1>>] = Found(s, val, left, middle - 1)
    <3> SUFFICES ASSUME left <= right
                 PROVE  /\ f[<<middle + 1, right>>] = Found(s, val, middle + 1, right)
                        /\ f[<<left, middle - 1>>] = Found(s, val, left, middle - 1)
      OBVIOUS
    <3>1. middle \in left..right /\ middle + 1 \in 1..(n + 1) /\ middle - 1 \in 0..n
      BY <1>4
    <3> HIDE DEF middle
    <3>2. width(middle + 1, right) < k /\ width(left, middle - 1) < k
      BY <1>1, <2>2, <3>1
    <3> HIDE DEF width
    <3> QED
      BY <2>3, <3>1, <3>2
  <2>5. SearchStep(s, val, f, left, right) = Found(s, val, left, right)
    <3>1. left \in 1..(Len(s) + 1) /\ right \in 0..Len(s)
      BY DEF n
    <3> HIDE DEF n
    <3> QED
      BY <2>4, <3>1, SearchStepFacts
  <2> QED
    BY <1>9, <2>2, <2>5
<1> QED
  <2>1. 1 \in 1..(n + 1) /\ n \in 0..n /\ width(1, n) \in Nat
    BY <1>1
  <2>2. f[<<1, n>>] = Found(s, val, 1, n)
    BY <1>10, <2>1
  <2> QED
    BY <1>7, <2>2 DEF n

\* The elements of two slices, one behind the other.
LEMMA ConcatFacts ==
    ASSUME NEW a \in Seq(Nat), NEW b \in Seq(Nat)
    PROVE  /\ a \o b \in Seq(Nat) /\ Len(a \o b) = Len(a) + Len(b)
           /\ \A i \in 1..(Len(a) + Len(b)) :
                  (a \o b)[i] = IF i <= Len(a) THEN a[i] ELSE b[i - Len(a)]
  OBVIOUS

\* Deleting a hash leaves the other ones, in their order.
LEMMA DeleteFacts ==
    ASSUME NEW s \in Seq(Nat), Ascending(s), NEW val \in Nat
    PROVE  LET t == DeleteSortedHash(s, val)
           IN  t \in Seq(Nat) /\ Ascending(t) /\ Range(t) = Range(s) \ {val}
<1> DEFINE t == DeleteSortedHash(s, val)
           idx == BinarySearch(s, val)
           n == Len(s)
<1>1. n \in Nat /\ (\A i \in 1..n : s[i] \in Nat) /\ DOMAIN s = 1..n
  OBVIOUS
<1>2. t = IF idx = 0 THEN s ELSE SubSeq(s, 1, idx - 1) \o SubSeq(s, idx + 1, n)
  BY DEF DeleteSortedHash
<1>3. CASE \A i \in 1..n : s[i] # val
  <2>1. idx = 0
    <3>1. {i \in 1..n : s[i] = val} = {}
      BY <1>3
    <3> QED
      BY <3>1, BinarySearchFacts DEF Found
  <2>2. val \notin Range(s)
    BY <1>1, <1>3 DEF Range
  <2> QED
    BY <1>2, <2>1, <2>2
<1>4. CASE \E i \in 1..n : s[i] = val
  <2>1. idx \in 1..n /\ s[idx] = val
    <3> DEFINE S == {i \in 1..n : s[i] = val}
    <3>1. S \in SUBSET Nat /\ S # {}
      BY <1>4
    <3>2. idx = Least(S)
      BY <3>1, BinarySearchFacts DEF Found
    <3>3. Least(S) \in S
      BY <3>1, Minimum
    <3> QED
      BY <3>2, <3>3
  <2>2. \A i \in 1..n : s[i] = val => i = idx
    BY <2>1, AscendingOrder
  <2> DEFINE a == SubSeq(s, 1, idx - 1)
             b == SubSeq(s, idx + 1, n)
  <2> HIDE DEF idx, n
  <2>3. /\ a \in Seq(Nat) /\ Len(a) = idx - 1
        /\ \A i \in 1..(idx - 1) : a[i] = s[i]
    BY <2>1 DEF n
  <2>4. /\ b \in Seq(Nat) /\ Len(b) = n - idx
        /\ \A i \in 1..(n - idx) : b[i] = s[i + idx]
    BY <2>1 DEF n
  <2>5. t = a \o b
    <3>1. idx # 0
      BY <1>1, <2>1
    <3> QED
      BY <1>2, <3>1
  <2> HIDE DEF a, b, t
  <2> DEFINE from(i) == IF i < idx THEN i ELSE i + 1
  <2>6. t \in Seq(Nat) /\ Len(t) = n - 1 /\ DOMAIN t = 1..(n - 1)
    <3>1. t \in Seq(Nat) /\ Len(t) = Len(a) + Len(b)
      BY <2>3, <2>4, <2>5, ConcatFacts
    <3> QED
      BY <1>1, <2>1, <2>3, <2>4, <3>1
  <2>7. \A i \in 1..(n - 1) : from(i) \in 1..n /\ from(i) # idx /\ t[i] = s[from(i)]
    <3> SUFFICES ASSUME NEW i \in 1..(n - 1)
                 PROVE  from(i) \in 1..n /\ from(i) # idx /\ t[i] = s[from(i)]
      OBVIOUS
    <3>1. t[i] = IF i <= Len(a) THEN a[i] ELSE b[i - Len(a)]
      <4>1. i \in 1..(Len(a) + Len(b))
        BY <1>1, <2>1, <2>3, <2>4
      <4>2. a \in Seq(Nat) /\ b \in Seq(Nat)
        BY <2>3, <2>4
      <4> QED
        BY <2>5, <4>1, <4>2, ConcatFacts
    <3>2. CASE i < idx
      <4>1. i \in 1..(idx - 1) /\ i <= Len(a) /\ from(i) = i
        BY <1>1, <2>1, <2>3, <3>2
      <4> QED
        BY <1>1, <2>1, <2>3, <3>1, <3>2, <4>1
    <3>3. CASE i >= idx
      <4>1. /\ i - Len(a) \in 1..(n - idx) /\ ~(i <= Len(a))
            /\ from(i) = i + 1 /\ i - Len(a) + idx = i + 1
        BY <1>1, <2>1, <2>3, <3>3
      <4>2. t[i] = s[i + 1]
        BY <2>4, <3>1, <4>1
      <4> QED
        BY <1>1, <2>1, <3>3, <4>1, <4>2
    <3> QED
      BY <1>1, <2>1, <3>2, <3>3
  <2>8. Ascending(t)
    <3> SUFFICES ASSUME NEW i \in 1..(n - 1), NEW j \in 1..(n - 1), i < j
                 PROVE  t[i] < t[j]
      BY <2>6 DEF Ascending
    <3>1. from(i) < from(j) /\ from(i) \in 1..n /\ from(j) \in 1..n
      BY <1>1, <2>1, <2>7
    <3> HIDE DEF from
    <3>2. s[from(i)] < s[from(j)]
      BY <3>1, AscendingOrder DEF n
    <3> QED
      BY <2>7, <3>2
  <2>9. Range(t) = Range(s) \ {val}
    <3>1. \A i \in 1..(n - 1) : t[i] \in Range(s) /\ t[i] # val
      BY <1>1, <2>2, <2>7 DEF Range
    <3>2. ASSUME NEW k \in 1..n, s[k] # val
          PROVE  \E i \in 1..(n - 1) : t[i] = s[k]
      <4>1. k # idx
        BY <2>1, <3>2
      <4>2. CASE k < idx
        <5>1. k \in 1..(n - 1) /\ from(k) = k
          BY <1>1, <2>1, <4>2
        <5> QED
          BY <2>7, <5>1
      <4>3. CASE k > idx
        <5>1. k - 1 \in 1..(n - 1) /\ from(k - 1) = k
          BY <1>1, <2>1, <4>3
        <5> QED
          BY <2>7, <5>1
      <4> QED
        BY <1>1, <2>1, <4>1, <4>2, <4>3
    <3>3. Range(t) = {t[i] : i \in 1..(n - 1)} /\ Range(s) = {s[i] : i \in 1..n}
      BY <1>1, <2>6 DEF Range
    <3> QED
      BY <3>1, <3>2, <3>3
  <2>10. t \in Seq(Nat) /\ Ascending(t) /\ Range(t) = Range(s) \ {val}
    BY <2>6, <2>8, <2>9
  <2> QED
    BY <2>10 DEF t
<1> QED
  BY <1>3, <1>4

\* So does deleting one after the other, by induction on their number.
LEMMA DeleteAllFacts ==
    ASSUME NEW s \in Seq(Nat), Ascending(s), NEW vals \in Seq(Nat)
    PROVE  LET t == DeleteAll(s, vals)
           IN  t \in Seq(Nat) /\ Ascending(t) /\ Range(t) = Range(s) \ Range(vals)
<1> DEFINE m == Len(vals)
           Body(f, i) == IF i = 0 THEN s ELSE DeleteSortedHash(f[i - 1], vals[i])
           Solves(f, k) == f = [i \in 0..k |-> Body(f, i)]
           Left(t, i) == /\ t \in Seq(Nat) /\ Ascending(t)
                         /\ Range(t) = Range(s) \ {vals[j] : j \in 1..i}
<1>1. m \in Nat /\ \A i \in 1..m : vals[i] \in Nat
  OBVIOUS
<1> HIDE DEF m
<1> DEFINE unsolved == {k \in Nat : ~ \E f : Solves(f, k)}
<1>2. unsolved = {}
  <2> SUFFICES ASSUME unsolved # {} PROVE FALSE
    OBVIOUS
  <2>1. PICK k \in unsolved : \A j \in unsolved : k <= j
    BY Minimum, unsolved \in SUBSET Nat
  <2>2. k # 0
    <3> SUFFICES \E f : Solves(f, 0)
      BY <2>1
    <3> DEFINE f == [i \in 0..0 |-> s]
    <3>1. \A i \in 0..0 : i = 0
      OBVIOUS
    <3>2. Solves(f, 0)
      BY <3>1
    <3> QED
      BY <3>2
  <2>3. PICK f : Solves(f, k - 1)
    <3>0. k \in Nat /\ k - 1 \in Nat /\ ~(k <= k - 1)
      BY <2>1, <2>2
    <3>1. k - 1 \in Nat /\ k - 1 \notin unsolved
      <4> HIDE DEF unsolved
      <4> QED
        BY <2>1, <3>0
    <3> QED
      BY <3>1
  <2> DEFINE g == [i \in 0..k |-> IF i = k THEN DeleteSortedHash(f[k - 1], vals[k]) ELSE f[i]]
  <2>4. \A i \in 0..(k - 1) : f[i] = Body(f, i)
    BY <2>3
  <2>5. \A i \in 0..(k - 1) : g[i] = f[i]
    BY <2>1
  <2>6. g[k] = DeleteSortedHash(f[k - 1], vals[k])
    BY <2>1
  <2>7. \A i \in 0..k : g[i] = Body(g, i)
    <3> SUFFICES ASSUME NEW i \in 0..k PROVE g[i] = Body(g, i)
      OBVIOUS
    <3> HIDE DEF g
    <3>1. k \in Nat
      BY <2>1
    <3>2. CASE i = k
      <4>1. k - 1 \in 0..(k - 1)
        BY <2>2, <3>1
      <4> QED
        BY <2>2, <2>5, <2>6, <3>2, <4>1
    <3>3. CASE i = 0
      <4>1. 0 \in 0..(k - 1)
        BY <2>2, <3>1
      <4> QED
        BY <2>4, <2>5, <3>3, <4>1
    <3>4. CASE i # k /\ i # 0
      <4>1. i \in 0..(k - 1) /\ i - 1 \in 0..(k - 1)
        BY <3>1, <3>4
      <4> QED
        BY <2>4, <2>5, <3>4, <4>1
    <3> QED
      BY <3>2, <3>3, <3>4
  <2>8. Solves(g, k)
    <3>1. g = [i \in 0..k |-> g[i]]
      OBVIOUS
    <3> HIDE DEF g
    <3> QED
      BY <2>7, <3>1
  <2> QED
    BY <2>1, <2>8
<1> DEFINE f == CHOOSE h : Solves(h, m)
<1>3. Solves(f, m) /\ DeleteAll(s, vals) = f[m]
  <2>1. \E h : Solves(h, m)
    BY <1>1, <1>2
  <2>2. Solves(f, m)
    <3> HIDE DEF Solves
    <3> QED
      BY <2>1
  <2> QED
    BY <2>2 DEF DeleteAll, m
<1>4. \A i \in 0..m : f[i] = Body(f, i)
  <2>1. Solves(f, m)
    BY <1>3
  <2> HIDE DEF f
  <2> QED
    BY <2>1
<1> HIDE DEF f, Solves, unsolved
<1> DEFINE wrong == {i \in 0..m : ~Left(f[i], i)}
<1>5. wrong = {}
  <2> SUFFICES ASSUME wrong # {} PROVE FALSE
    OBVIOUS
  <2>1. PICK i \in wrong : \A j \in wrong : i <= j
    BY Minimum, wrong \in SUBSET Nat
  <2>2. CASE i = 0
    <3>1. f[i] = s /\ {vals[j] : j \in 1..i} = {}
      BY <1>4, <2>1, <2>2
    <3> QED
      BY <2>1, <3>1
  <2>3. CASE i # 0
    <3>0. i - 1 \in 0..m /\ i \in 1..m /\ ~(i <= i - 1)
      BY <1>1, <2>1, <2>3
    <3>1. i - 1 \in 0..m /\ i \in 1..m /\ i - 1 \notin wrong
      <4> HIDE DEF wrong
      <4> QED
        BY <2>1, <3>0
    <3>2. Left(f[i - 1], i - 1)
      BY <3>1
    <3>3. f[i] = DeleteSortedHash(f[i - 1], vals[i])
      BY <1>4, <2>1, <2>3
    <3>4. /\ f[i] \in Seq(Nat) /\ Ascending(f[i])
          /\ Range(f[i]) = Range(f[i - 1]) \ {vals[i]}
      <4>1. f[i - 1] \in Seq(Nat) /\ Ascending(f[i - 1]) /\ vals[i] \in Nat
        BY <1>1, <3>1, <3>2
      <4> DEFINE u == f[i - 1]
                 v == vals[i]
      <4>2. u \in Seq(Nat) /\ Ascending(u) /\ v \in Nat
        BY <4>1
      <4> HIDE DEF u, v
      <4>3. LET t == DeleteSortedHash(u, v)
            IN  t \in Seq(Nat) /\ Ascending(t) /\ Range(t) = Range(u) \ {v}
        BY <4>2, DeleteFacts
      <4>4. f[i] = DeleteSortedHash(u, v)
        BY <3>3 DEF u, v
      <4>5. f[i] \in Seq(Nat) /\ Ascending(f[i]) /\ Range(f[i]) = Range(u) \ {v}
        BY <4>3, <4>4
      <4> QED
        BY <4>5 DEF u, v
    <3>5. {vals[j] : j \in 1..i} = {vals[j] : j \in 1..(i - 1)} \cup {vals[i]}
      <4>1. 1..i = (1..(i - 1)) \cup {i}
        BY <1>1, <3>1
      <4> QED
        BY <4>1
    <3> QED
      BY <2>1, <3>2, <3>4, <3>5
  <2> QED
    BY <2>2, <2>3
<1>6. Left(f[m], m)
  <2>1. m \in 0..m
    BY <1>1
  <2> QED
    BY <1>5, <2>1
<1>7. Range(vals) = {vals[j] : j \in 1..m}
  BY DEF Range, m
<1> QED
  BY <1>3, <1>6, <1>7

-----------------------------------------------------------------------------
(* Looking up a key. *)

\* The least number is the one that is not above another.
LEMMA LeastIs ==
    ASSUME NEW S \in SUBSET Nat, NEW x \in S, \A y \in S : x <= y
    PROVE  Least(S) = x
<1>1. Least(S) \in S /\ Least(S) <= x /\ x <= Least(S)
  BY Minimum
<1>2. x \in Nat /\ Least(S) \in Nat
  BY <1>1
<1> QED
  BY <1>1, <1>2

\* The search for a key stops at the first hash that is not below it, or starts over.
LEMMA SearchFacts ==
    ASSUME NEW s \in Seq(Nat), Ascending(s), NEW key \in Nat, s # <<>>
    PROVE  /\ Search(s, key) \in 1..Len(s)
           /\ \/ /\ s[Search(s, key)] >= key
                 /\ \A i \in 1..Len(s) : i < Search(s, key) => s[i] < key
              \/ Search(s, key) = 1 /\ \A i \in 1..Len(s) : s[i] < key
<1> DEFINE n == Len(s)
           ahead == {i \in 1..n : s[i] >= key}
           i0 == Search(s, key)
<1>1. n \in Nat \ {0} /\ \A i \in 1..n : s[i] \in Nat
  OBVIOUS
<1>2. i0 = IF ahead = {} THEN 1 ELSE Least(ahead)
  BY DEF Search
<1> HIDE DEF i0, n
<1>3. CASE ahead = {}
  <2>1. \A i \in 1..n : s[i] < key
    BY <1>1, <1>3
  <2> QED
    BY <1>1, <1>2, <1>3, <2>1 DEF i0, n
<1>4. CASE ahead # {}
  <2>1. ahead \in SUBSET Nat
    BY <1>1
  <2>2. i0 \in ahead /\ \A i \in ahead : i0 <= i
    BY <1>2, <1>4, <2>1, Minimum
  <2>3. \A i \in 1..n : i < i0 => s[i] < key
    BY <1>1, <2>2
  <2> QED
    BY <1>1, <2>2, <2>3 DEF i0, n
<1> QED
  BY <1>3, <1>4

\* One lap around the ring.
LEMMA Modulo ==
    ASSUME NEW a \in Nat, NEW b \in Nat \ {0}
    PROVE  (a < b => a % b = a) /\ (b <= a /\ a < 2 * b => a % b = a - b)
  OBVIOUS

\* Each step of a walk is to the next hash of those that it has not met.
LEMMA WalkFacts ==
    ASSUME NEW s \in Seq(Nat), Ascending(s), NEW key \in Nat
    PROVE  /\ Len(Walk(s, key)) = Len(s)
           /\ \A k \in 1..Len(s) :
                /\ Walk(s, key)[k] \in Range(s)
                /\ Walk(s, key)[k] =
                      NextHash(key, Range(s) \ {Walk(s, key)[m] : m \in 1..(k - 1)})
<1> DEFINE n == Len(s)
           i0 == Search(s, key)
           w == Walk(s, key)
           at(k) == IF i0 + k - 1 <= n THEN i0 + k - 1 ELSE i0 + k - 1 - n
           turn(j) == IF i0 <= j THEN j - i0 + 1 ELSE j - i0 + 1 + n
<1>1. n \in Nat /\ \A i \in 1..n : s[i] \in Nat
  OBVIOUS
<1>2. w = [k \in 1..n |-> s[WalkIndex(s, i0, k - 1)]]
  BY DEF Walk
<1>3. Len(w) = n
  BY <1>1, <1>2
<1> SUFFICES ASSUME NEW k \in 1..n
             PROVE  /\ w[k] \in Range(s)
                    /\ w[k] = NextHash(key, Range(s) \ {w[m] : m \in 1..(k - 1)})
  BY <1>3
<1>4. /\ i0 \in 1..n
      /\ \/ s[i0] >= key /\ \A i \in 1..n : i < i0 => s[i] < key
         \/ i0 = 1 /\ \A i \in 1..n : s[i] < key
  <2>1. s # <<>>
    BY <1>1
  <2> QED
    BY <2>1, SearchFacts
<1>5. \A i, j \in 1..n : (s[i] < s[j] <=> i < j) /\ (s[i] = s[j] => i = j)
  BY AscendingOrder
<1>6. \A m \in 1..n : WalkIndex(s, i0, m - 1) = at(m) /\ at(m) \in 1..n
  <2> SUFFICES ASSUME NEW m \in 1..n
               PROVE  WalkIndex(s, i0, m - 1) = at(m) /\ at(m) \in 1..n
    OBVIOUS
  <2> DEFINE a == i0 - 1 + (m - 1)
  <2>1. WalkIndex(s, i0, m - 1) = (a % n) + 1
    BY DEF WalkIndex
  <2>0. i0 \in 1..n
    BY <1>4
  <2> HIDE DEF i0, n
  <2>2. a \in Nat /\ n \in Nat \ {0} /\ a < 2 * n
    BY <1>1, <2>0
  <2>3. a = i0 + m - 2
    BY <1>1, <2>0
  <2> HIDE DEF a
  <2>4. (a < n => a % n = a) /\ (n <= a => a % n = a - n)
    BY <2>2, Modulo
  <2>5. CASE a < n
    BY <1>1, <2>0, <2>1, <2>2, <2>3, <2>4, <2>5
  <2>6. CASE n <= a
    BY <1>1, <2>0, <2>1, <2>2, <2>3, <2>4, <2>6
  <2> QED
    BY <2>2, <2>5, <2>6
<1>7. \A m \in 1..n : w[m] = s[at(m)]
  BY <1>2, <1>6
<1> HIDE DEF n, i0, w
<1>8. \A j \in 1..n : turn(j) \in 1..n /\ at(turn(j)) = j
  BY <1>1, <1>4
<1>9. \A m \in 1..n : turn(at(m)) = m
  BY <1>1, <1>4
<1> DEFINE rest == Range(s) \ {w[m] : m \in 1..(k - 1)}
<1>10. \A x : x \in rest <=> \E j \in 1..n : turn(j) >= k /\ x = s[j]
  <2>1. Range(s) = {s[j] : j \in 1..n}
    BY DEF Range, n
  <2>2. ASSUME NEW j \in 1..n, turn(j) >= k
        PROVE  s[j] \in rest
    <3> SUFFICES ASSUME NEW m \in 1..(k - 1), w[m] = s[j] PROVE FALSE
      BY <2>1
    <3>1. m \in 1..n
      BY <1>1
    <3>2. at(m) = j
      BY <1>5, <1>6, <1>7, <3>1
    <3>3. turn(j) = m
      BY <1>9, <3>1, <3>2
    <3> QED
      BY <1>1, <2>2, <3>1, <3>3
  <2>3. ASSUME NEW j \in 1..n, s[j] \in rest
        PROVE  turn(j) >= k
    <3> SUFFICES ASSUME ~(turn(j) >= k) PROVE FALSE
      OBVIOUS
    <3>1. turn(j) \in 1..n /\ at(turn(j)) = j
      BY <1>8
    <3> HIDE DEF turn, at
    <3>2. turn(j) \in 1..(k - 1)
      BY <1>1, <3>1
    <3>3. w[turn(j)] = s[j]
      BY <1>7, <3>1
    <3> QED
      BY <2>3, <3>2, <3>3
  <2> HIDE DEF turn
  <2> QED
    BY <2>1, <2>2, <2>3
<1> HIDE DEF rest
<1>11. at(k) \in 1..n /\ turn(at(k)) = k /\ w[k] = s[at(k)]
  BY <1>6, <1>7, <1>9
<1>12. w[k] \in rest
  <2> HIDE DEF turn, at
  <2>1. turn(at(k)) >= k
    BY <1>1, <1>11
  <2> QED
    BY <1>10, <1>11, <2>1
<1>13. w[k] \in Range(s) /\ rest \in SUBSET Nat
  BY <1>1, <1>10, <1>12 DEF rest, Range, n
<1> DEFINE ahead == {x \in rest : x >= key}
<1>14. CASE ahead = {}
  <2>1. ~(s[at(k)] >= key)
    BY <1>11, <1>12, <1>14
  <2>2. ASSUME NEW j \in 1..n, turn(j) >= k
        PROVE  at(k) <= j
    <3>0. ~(i0 <= at(k)) \/ i0 = 1
      <4>1. s[i0] >= key /\ i0 <= at(k) => s[at(k)] >= key
        BY <1>1, <1>4, <1>5, <1>11
      <4> QED
        BY <1>4, <2>1, <4>1
    <3>1. CASE i0 = 1
      BY <1>1, <2>2, <3>1
    <3>2. CASE ~(i0 <= at(k))
      BY <1>1, <1>4, <2>2, <3>2
    <3> QED
      BY <3>0, <3>1, <3>2
  <2>3. \A x \in rest : s[at(k)] <= x
    <3> SUFFICES ASSUME NEW j \in 1..n, turn(j) >= k PROVE s[at(k)] <= s[j]
      BY <1>10
    <3>1. at(k) <= j
      BY <2>2
    <3> HIDE DEF at
    <3> QED
      BY <1>1, <1>5, <1>11, <3>1
  <2>4. Least(rest) = w[k]
    BY <1>11, <1>12, <1>13, <2>3, LeastIs
  <2> QED
    BY <1>13, <1>14, <2>4 DEF NextHash, rest
<1>15. CASE ahead # {}
  <2>1. ASSUME NEW j \in 1..n, turn(j) >= k, s[j] >= key
        PROVE  at(k) <= j /\ s[at(k)] >= key
    <3>1. s[i0] >= key /\ i0 <= j
      BY <1>1, <1>4, <2>1
    <3>2. at(k) <= j /\ i0 <= at(k)
      BY <1>1, <1>4, <2>1, <3>1
    <3> DEFINE x == s[at(k)]
               y == s[i0]
    <3>3. x \in Nat /\ y \in Nat /\ i0 \in Nat /\ at(k) \in Nat
      BY <1>1, <1>4, <1>11
    <3>4. at(k) # i0 => y < x
      <4> HIDE DEF at
      <4> QED
        BY <1>4, <1>5, <1>11, <3>2, <3>3
    <3>5. at(k) = i0 => y = x
      OBVIOUS
    <3> HIDE DEF x, y, at
    <3>6. x >= key
      BY <3>1, <3>3, <3>4, <3>5 DEF y
    <3> QED
      BY <3>2, <3>6 DEF x
  <2>2. w[k] \in ahead
    BY <1>10, <1>11, <1>12, <1>15, <2>1
  <2>3. \A x \in ahead : w[k] <= x
    <3> SUFFICES ASSUME NEW j \in 1..n, turn(j) >= k, s[j] >= key PROVE s[at(k)] <= s[j]
      BY <1>10, <1>11
    <3>1. at(k) <= j
      BY <2>1
    <3> HIDE DEF at
    <3> QED
      BY <1>1, <1>5, <1>11, <3>1
  <2>4. Least(ahead) = w[k]
    <3>1. ahead \in SUBSET Nat
      BY <1>13
    <3> HIDE DEF ahead
    <3> QED
      BY <2>2, <2>3, <3>1, LeastIs
  <2> QED
    BY <1>13, <1>15, <2>4 DEF NextHash, rest
<1> QED
  BY <1>14, <1>15

\* The next hash stays the next one when others are taken away.
LEMMA NextHashFacts ==
    ASSUME NEW T \in SUBSET Nat, T # {}, NEW S \in SUBSET T, NEW key \in Nat
    PROVE  /\ NextHash(key, T) \in T
           /\ NextHash(key, T) \in S => NextHash(key, S) = NextHash(key, T)
<1> DEFINE ahead(X) == {x \in X : x >= key}
           x == NextHash(key, T)
           choices(X) == IF ahead(X) = {} THEN X ELSE ahead(X)
<1>1. x = Least(choices(T)) /\ NextHash(key, S) = Least(choices(S))
  BY DEF NextHash
<1>2. choices(T) \in SUBSET Nat /\ choices(T) # {} /\ choices(S) \in SUBSET Nat
  OBVIOUS
<1> HIDE DEF x
<1>3. x \in choices(T) /\ \A y \in choices(T) : x <= y
  <2> HIDE DEF choices
  <2> QED
    BY <1>1, <1>2, Minimum
<1>4. ASSUME x \in S
      PROVE  x \in choices(S) /\ \A y \in choices(S) : x <= y
  BY <1>3, <1>4
<1>5. x \in S => Least(choices(S)) = x
  <2> HIDE DEF choices
  <2> QED
    BY <1>2, <1>4, LeastIs
<1> QED
  BY <1>1, <1>3, <1>5 DEF x

-----------------------------------------------------------------------------
(* What holds of the ring. *)

\* What holds of the ring between its steps: SliceMatchesMap, on the right values.
RingInv ==
    /\ members \subseteq Names
    /\ chwblSortedHashes \in Seq(Nat)
    /\ SliceMatchesMap

\* Where the ranges of two sequences are disjoint, nothing is twice in them.
LEMMA ConcatInjective ==
    ASSUME NEW a \in Seq(Nat), NEW b \in Seq(Nat), IsInjective(a), IsInjective(b),
           Range(a) \cap Range(b) = {}
    PROVE  /\ a \o b \in Seq(Nat) /\ IsInjective(a \o b)
           /\ Range(a \o b) = Range(a) \cup Range(b)
<1> DEFINE c == a \o b
           m == Len(a)
           n == Len(b)
<1>1. /\ m \in Nat /\ n \in Nat /\ DOMAIN a = 1..m /\ DOMAIN b = 1..n
      /\ c \in Seq(Nat) /\ DOMAIN c = 1..(m + n)
  BY ConcatFacts
<1>2. \A i \in 1..(m + n) : c[i] = IF i <= m THEN a[i] ELSE b[i - m]
  BY ConcatFacts
<1> HIDE DEF c, m, n
<1>3. Range(a) = {a[i] : i \in 1..m} /\ Range(b) = {b[i] : i \in 1..n}
      /\ Range(c) = {c[i] : i \in 1..(m + n)}
  BY <1>1 DEF Range
<1>4. \A i \in 1..m : i \in 1..(m + n) /\ c[i] = a[i]
  BY <1>1, <1>2
<1>5. \A i \in 1..n : i + m \in 1..(m + n) /\ c[i + m] = b[i]
  <2> SUFFICES ASSUME NEW i \in 1..n
               PROVE  i + m \in 1..(m + n) /\ c[i + m] = b[i]
    OBVIOUS
  <2>1. i + m \in 1..(m + n) /\ ~(i + m <= m) /\ i + m - m = i
    BY <1>1
  <2> DEFINE k == i + m
  <2> HIDE DEF k
  <2>2. k \in 1..(m + n) /\ ~(k <= m) /\ k - m = i
    BY <1>1, <2>1 DEF k
  <2>3. c[k] = b[i]
    BY <1>2, <2>2
  <2> QED
    BY <2>1, <2>3 DEF k
<1>6. \A i \in 1..(m + n) : \/ i \in 1..m /\ c[i] = a[i]
                            \/ i - m \in 1..n /\ c[i] = b[i - m]
  BY <1>1, <1>2
<1>7. Range(c) = Range(a) \cup Range(b)
  <2>1. \A i \in 1..m : a[i] \in Range(c)
    BY <1>3, <1>4
  <2>2. \A i \in 1..n : b[i] \in Range(c)
    BY <1>3, <1>5
  <2>3. \A i \in 1..(m + n) : c[i] \in Range(a) \cup Range(b)
    BY <1>3, <1>6
  <2>4. Range(a) \subseteq Range(c) /\ Range(b) \subseteq Range(c)
    BY <1>3, <2>1, <2>2
  <2>5. Range(c) \subseteq Range(a) \cup Range(b)
    BY <1>3, <2>3
  <2> QED
    BY <2>4, <2>5
<1>8. ASSUME NEW i \in 1..(m + n), NEW j \in 1..(m + n), c[i] = c[j]
      PROVE  i = j
  <2>1. CASE i \in 1..m /\ c[i] = a[i] /\ j \in 1..m /\ c[j] = a[j]
    BY <1>1, <1>8, <2>1 DEF IsInjective
  <2>2. CASE i - m \in 1..n /\ c[i] = b[i - m] /\ j - m \in 1..n /\ c[j] = b[j - m]
    <3>1. i - m = j - m
      BY <1>1, <1>8, <2>2 DEF IsInjective
    <3> QED
      BY <1>1, <3>1
  <2>3. CASE i \in 1..m /\ c[i] = a[i] /\ j - m \in 1..n /\ c[j] = b[j - m]
    BY <1>3, <1>8, <2>3
  <2>4. CASE j \in 1..m /\ c[j] = a[j] /\ i - m \in 1..n /\ c[i] = b[i - m]
    BY <1>3, <1>8, <2>4
  <2> QED
    BY <1>6, <2>1, <2>2, <2>3, <2>4
<1>9. IsInjective(c)
  BY <1>1, <1>8 DEF IsInjective
<1> QED
  BY <1>1, <1>7, <1>9 DEF c

\* A new endpoint has hashes of its own, and they are sorted in.
LEMMA RingAdd ==
    ASSUME RingInv, NEW n \in Names, AddEndpoint(n)
    PROVE  RingInv'
<1> DEFINE R == Replicas[n]
<1>1. /\ R \in Seq(Nat) /\ IsInjective(R)
      /\ \A h \in DOMAIN chwblHashes : h \notin Range(R)
  <2>1. ASSUME NEW h \in DOMAIN chwblHashes
        PROVE  h \notin Range(R)
    <3>1. chwblHashes[h] \in Names /\ chwblHashes[h] # n /\ h \in Range(Replicas[chwblHashes[h]])
      BY DEF RingInv, SliceMatchesMap, AddEndpoint
    <3> QED
      BY <3>1, ReplicasAssumption
  <2> QED
    BY <2>1, ReplicasAssumption
<1>2. IsInjective(chwblSortedHashes)
  BY AscendingOrder DEF RingInv, SliceMatchesMap, IsInjective
<1>3. Range(chwblSortedHashes) \cap Range(R) = {}
  BY <1>1 DEF RingInv, SliceMatchesMap
<1> DEFINE c == chwblSortedHashes \o R
<1>4. c \in Seq(Nat) /\ IsInjective(c) /\ Range(c) = DOMAIN chwblHashes \cup Range(R)
  BY <1>1, <1>2, <1>3, ConcatInjective DEF RingInv, SliceMatchesMap
<1>5. /\ chwblSortedHashes' \in Seq(Nat) /\ Ascending(chwblSortedHashes')
      /\ Range(chwblSortedHashes') = DOMAIN chwblHashes \cup Range(R)
  <2>1. chwblSortedHashes' = Sorted(c)
    BY DEF AddEndpoint, SortedWith
  <2> HIDE DEF c, R
  <2> QED
    BY <1>4, <2>1, SortedFacts
<1>6. /\ DOMAIN chwblHashes' = DOMAIN chwblHashes \cup Range(R)
      /\ \A h \in DOMAIN chwblHashes' :
            chwblHashes'[h] = IF h \in Range(R) THEN n ELSE chwblHashes[h]
      /\ members' = members \cup {n}
  BY DEF AddEndpoint
<1>7. /\ \A h \in DOMAIN chwblHashes :
            chwblHashes[h] \in members /\ h \in Range(Replicas[chwblHashes[h]])
      /\ \A m \in members : Range(Replicas[m]) \subseteq DOMAIN chwblHashes
      /\ members \subseteq Names
  BY DEF RingInv, SliceMatchesMap
<1>8. \A h \in DOMAIN chwblHashes' :
        chwblHashes'[h] \in members' /\ h \in Range(Replicas[chwblHashes'[h]])
  BY <1>6, <1>7
<1>9. \A m \in members' : Range(Replicas[m]) \subseteq DOMAIN chwblHashes'
  BY <1>6, <1>7
<1> QED
  BY <1>5, <1>6, <1>7, <1>8, <1>9 DEF RingInv, SliceMatchesMap, Ascending

\* An endpoint that goes takes all its hashes along, and no other.
LEMMA RingRemove ==
    ASSUME RingInv, NEW n \in Names, RemoveEndpoint(n)
    PROVE  /\ RingInv'
           /\ \A h \in DOMAIN chwblHashes : h \in Range(Replicas[n]) => chwblHashes[h] = n
<1> DEFINE R == Replicas[n]
<1>1. R \in Seq(Nat)
  BY ReplicasAssumption
<1>2. /\ chwblSortedHashes' \in Seq(Nat) /\ Ascending(chwblSortedHashes')
      /\ Range(chwblSortedHashes') = DOMAIN chwblHashes \ Range(R)
  BY <1>1, DeleteAllFacts DEF RemoveEndpoint, RingInv, SliceMatchesMap
<1>3. /\ DOMAIN chwblHashes' = DOMAIN chwblHashes \ Range(R)
      /\ \A h \in DOMAIN chwblHashes' : chwblHashes'[h] = chwblHashes[h]
      /\ members' = members \ {n}
  BY DEF RemoveEndpoint
<1>4. /\ \A h \in DOMAIN chwblHashes :
            chwblHashes[h] \in members /\ h \in Range(Replicas[chwblHashes[h]])
      /\ \A m \in members : Range(Replicas[m]) \subseteq DOMAIN chwblHashes
      /\ members \subseteq Names
  BY DEF RingInv, SliceMatchesMap
<1>5. \A h \in DOMAIN chwblHashes : h \in Range(R) => chwblHashes[h] = n
  BY <1>4, ReplicasAssumption
<1>6. \A h \in DOMAIN chwblHashes' :
        chwblHashes'[h] \in members' /\ h \in Range(Replicas[chwblHashes'[h]])
  BY <1>3, <1>4
<1>7. \A m \in members' : Range(Replicas[m]) \subseteq DOMAIN chwblHashes'
  <2> SUFFICES ASSUME NEW m \in members' PROVE Range(Replicas[m]) \subseteq DOMAIN chwblHashes'
    OBVIOUS
  <2>1. m \in members /\ m # n /\ m \in Names
    BY <1>3, <1>4
  <2>2. Range(Replicas[m]) \cap Range(R) = {}
    BY <2>1, ReplicasAssumption
  <2> QED
    BY <1>3, <1>4, <2>1, <2>2
<1> QED
  BY <1>2, <1>3, <1>4, <1>5, <1>6, <1>7 DEF RingInv, SliceMatchesMap, Ascending

\* The inductive invariant of the ring, for any endpoints and any replication.
THEOREM RingInvariance == RingSpec => []RingInv
<1>1. RingInit => RingInv
  <2> SUFFICES ASSUME RingInit PROVE RingInv
    OBVIOUS
  <2>1. /\ members = {} /\ chwblSortedHashes = <<>> /\ DOMAIN chwblHashes = {}
    BY DEF RingInit
  <2>2. Range(chwblSortedHashes) = {} /\ Ascending(chwblSortedHashes)
    BY <2>1 DEF Range, Ascending
  <2> QED
    BY <2>1, <2>2 DEF RingInv, SliceMatchesMap
<1>2. RingInv /\ [RingNext]_ringVars => RingInv'
  <2> SUFFICES ASSUME RingInv, [RingNext]_ringVars PROVE RingInv'
    OBVIOUS
  <2>1. CASE UNCHANGED ringVars
    BY <2>1 DEF ringVars, RingInv, SliceMatchesMap
  <2>2. ASSUME NEW n \in Names, AddEndpoint(n) PROVE RingInv'
    BY <2>2, RingAdd
  <2>3. ASSUME NEW n \in Names, RemoveEndpoint(n) PROVE RingInv'
    BY <2>3, RingRemove
  <2> QED
    BY <2>1, <2>2, <2>3 DEF RingNext
<1> QED
  BY <1>1, <1>2, PTL DEF RingSpec

\* The slice holds every hash of the map exactly once, in ascending order, and the
\* map leads to members only (balance_chwbl.go:86-138).
THEOREM RingMatches == RingSpec => []SliceMatchesMap
<1>1. RingInv => SliceMatchesMap
  BY DEF RingInv
<1> QED
  BY <1>1, RingInvariance, PTL

\* In such a ring every walk is clockwise.
LEMMA RingWalks == ASSUME RingInv PROVE WalkIsClockwise
<1> SUFFICES ASSUME NEW key \in KeyHashes,
                    NEW n \in 1..Len(Walk(chwblSortedHashes, key))
             PROVE  LET w == Walk(chwblSortedHashes, key)
                    IN  w[n] = NextHash(key, DOMAIN chwblHashes \ {w[m] : m \in 1..(n-1)})
  BY DEF WalkIsClockwise
<1>1. /\ chwblSortedHashes \in Seq(Nat) /\ Ascending(chwblSortedHashes)
      /\ Range(chwblSortedHashes) = DOMAIN chwblHashes
  BY DEF RingInv, SliceMatchesMap
<1>2. key \in Nat
  BY ReplicasAssumption
<1> QED
  BY <1>1, <1>2, WalkFacts

\* Every walk meets the hashes in clockwise order from the key, each once
\* (balance_chwbl.go:19-20, 36-37, 66-70, 108-117).
THEOREM RingIsWalkedClockwise == RingSpec => []WalkIsClockwise
BY RingWalks, RingInvariance, PTL

\* The walk starts at the next hash, so its first endpoint has that hash.
LEMMA RingOwner ==
    ASSUME RingInv, NEW key \in KeyHashes, chwblSortedHashes # <<>>
    PROVE  /\ DOMAIN chwblHashes # {} /\ DOMAIN chwblHashes \in SUBSET Nat
           /\ Owner(key) = chwblHashes[NextHash(key, DOMAIN chwblHashes)]
<1> DEFINE s == chwblSortedHashes
           w == Walk(s, key)
<1>1. s \in Seq(Nat) /\ Ascending(s) /\ Range(s) = DOMAIN chwblHashes
  BY DEF RingInv, SliceMatchesMap
<1>2. key \in Nat
  BY ReplicasAssumption
<1>3. 1 \in 1..Len(s) /\ Range(s) \in SUBSET Nat /\ s[1] \in Range(s)
  BY <1>1 DEF Range
<1>4. w[1] = NextHash(key, Range(s) \ {w[m] : m \in 1..(1 - 1)})
  BY <1>1, <1>2, <1>3, WalkFacts
<1>5. {w[m] : m \in 1..(1 - 1)} = {}
  OBVIOUS
<1> HIDE DEF w, s
<1>6. w[1] = NextHash(key, DOMAIN chwblHashes)
  BY <1>1, <1>4, <1>5
<1> QED
  BY <1>1, <1>3, <1>6 DEF Owner, w, s

\* Consistent hashing: a key changes its endpoint only to one that is added, or
\* because its own is removed (balance_chwbl.go:86-117).
THEOREM RingDisruption == RingSpec => MinimalDisruption
<1> DEFINE Keeps(key) ==
      (chwblSortedHashes # <<>> /\ chwblSortedHashes' # <<>> /\ Owner(key)' # Owner(key)) =>
            Owner(key)' \notin members \/ Owner(key) \notin members'
           Starts ==
         \A k \in KeyHashes : RingInv /\ chwblSortedHashes # <<>> =>
             /\ DOMAIN chwblHashes # {} /\ DOMAIN chwblHashes \in SUBSET Nat
             /\ Owner(k) = chwblHashes[NextHash(k, DOMAIN chwblHashes)]
<1>1. Starts
  BY RingOwner
<1>2. Starts'
  <2> HIDE DEF Starts
  <2> QED
    BY <1>1, PTL
<1>3. ASSUME RingInv, RingInv', RingNext, NEW key \in KeyHashes
      PROVE  Keeps(key)
  <2> SUFFICES ASSUME chwblSortedHashes # <<>>, chwblSortedHashes' # <<>>,
                      Owner(key)' # Owner(key)
               PROVE  Owner(key)' \notin members \/ Owner(key) \notin members'
    OBVIOUS
  <2> DEFINE D == DOMAIN chwblHashes
             E == DOMAIN chwblHashes'
             x == NextHash(key, D)
             y == NextHash(key, E)
  <2>1. D # {} /\ D \in SUBSET Nat /\ Owner(key) = chwblHashes[x]
    BY <1>3, RingOwner
  <2>2. E # {} /\ E \in SUBSET Nat /\ Owner(key)' = chwblHashes'[y]
    BY <1>3, <1>2 DEF NextHash
  <2>3. key \in Nat
    BY ReplicasAssumption
  <2>4. ASSUME NEW n \in Names, AddEndpoint(n)
        PROVE  Owner(key)' \notin members \/ Owner(key) \notin members'
    <3>1. /\ E = D \cup Range(Replicas[n]) /\ n \notin members
          /\ \A h \in E : chwblHashes'[h] = IF h \in Range(Replicas[n]) THEN n ELSE chwblHashes[h]
      BY <2>4 DEF AddEndpoint
    <3> HIDE DEF D, E
    <3>2. y \in E /\ (y \in D => x = y)
      BY <2>2, <2>3, <3>1, NextHashFacts
    <3> HIDE DEF x, y
    <3> QED
      BY <2>1, <2>2, <3>1, <3>2
  <2>5. ASSUME NEW n \in Names, RemoveEndpoint(n)
        PROVE  Owner(key)' \notin members \/ Owner(key) \notin members'
    <3>1. /\ E = D \ Range(Replicas[n]) /\ n \notin members'
          /\ \A h \in E : chwblHashes'[h] = chwblHashes[h]
      BY <2>5 DEF RemoveEndpoint
    <3>2. \A h \in D : h \in Range(Replicas[n]) => chwblHashes[h] = n
      BY <1>3, <2>5, RingRemove
    <3> HIDE DEF D, E
    <3>3. x \in D /\ (x \in E => x = y)
      BY <2>1, <2>3, <3>1, NextHashFacts
    <3> HIDE DEF x, y
    <3> QED
      BY <2>1, <2>2, <3>1, <3>2, <3>3
  <2> QED
    BY <1>3, <2>4, <2>5 DEF RingNext
<1>4. RingInv /\ RingInv' /\ [RingNext]_ringVars =>
        [\A key \in KeyHashes : Keeps(key)]_ringVars
  BY <1>3
<1> QED
  BY <1>4, RingInvariance, PTL DEF RingSpec, MinimalDisruption

-----------------------------------------------------------------------------
(* The process: how it starts and stops. *)

ControlPoints ==
    {"off", "wait", "tick", "new", "serve", "elect", "backoff", "receive", "acquire",
     "drain", "start", "shutdownAPI", "shutdownMetrics", "done"}

RunTypeOK ==
    /\ pc \in [Components -> ControlPoints]
    /\ req \in [Requests -> {"none", "wait", "proxy", "answered"}]

\* Nothing is started before Run starts it, and the API server not at all in
\* the external mode.
LaunchInv ==
    /\ phase \in {"load", "validate", "setup"} =>
          shut = {} /\ pc["api"] = "off" /\ pc["controllers"] = "off"
    /\ phase = "running" =>
          /\ pc["controllers"] # "off"
          /\ cfg.mode = "external" => pc["api"] = "off"
    /\ pc["api"] = "off" => InFlight = {}

\* The servers are shut down one after the other.
ShutdownInv ==
    /\ pc["controllers"] \in {"shutdownMetrics", "done"} =>
          InFlight = {} /\ ("api" \in shut \/ pc["api"] = "off")
    /\ "metrics" \in shut => pc["controllers"] = "done"
    /\ phase = "returned" => InFlight = {}

RunInv == RunTypeOK /\ LaunchInv /\ ShutdownInv

\* A process starts with nothing started.
LEMMA RunInitial == RunInit => RunInv
  BY DEF RunInit, RunInv, RunTypeOK, LaunchInv, ShutdownInv, InFlight, Components, ControlPoints

\* Type correctness.
LEMMA RunTypeStep == RunTypeOK /\ [RunNext]_runVars => RunTypeOK'
<1> SUFFICES ASSUME RunTypeOK, [RunNext]_runVars PROVE RunTypeOK'
  OBVIOUS
<1> USE DEF RunTypeOK
<1>1. CASE Start
  <2> USE <1>1 DEF ControlPoints, Components
  <2>1. CASE LoadConfig
    BY <2>1 DEF LoadConfig
  <2>2. CASE DefaultAndValidate
    BY <2>2 DEF DefaultAndValidate
  <2>3. CASE Launch
    <3>1. \A c \in Components : FirstPC[c] \in ControlPoints
      BY DEF FirstPC
    <3> QED
      BY <2>3, <3>1 DEF Launch
  <2> QED
    BY <2>1, <2>2, <2>3 DEF Start
<1>2. CASE Stop
  BY <1>2 DEF Stop, StopControllers, ShutdownAPI, ShutdownMetrics, Return, Move, ControlPoints
<1>3. CASE Tick \/ Autoscaled \/ LoseElection \/ Backoff
  BY <1>3 DEF Tick, Autoscaled, LoseElection, Backoff, Move, ControlPoints
<1>4. CASE Signal \/ Watch \/ \E c \in Components : ComponentFails(c)
  BY <1>4 DEF Signal, Watch, ComponentFails
<1>5. CASE \E s \in Servers : Listen(s) \/ ServerClosed(s)
  BY <1>5 DEF Listen, ServerClosed, Move, ControlPoints
<1>6. CASE \E r \in Requests : Accept(r) \/ Proxy(r) \/ Answer(r)
  BY <1>6 DEF Accept, Proxy, Answer
<1>7. CASE Receive \/ Acquire \/ Drain
  BY <1>7 DEF Receive, Acquire, Drain, Move, ControlPoints
<1>8. CASE \E h \in Handlers : Handle(h)
  BY <1>8 DEF Handle
<1>9. CASE UNCHANGED runVars
  BY <1>9 DEF runVars
<1> QED
  BY <1>1, <1>2, <1>3, <1>4, <1>5, <1>6, <1>7, <1>8, <1>9 DEF RunNext

\* A step of another component leaves the servers and the controllers alone.
LEMMA OthersStep ==
    ASSUME RunInv, UNCHANGED <<cfg, phase, shut, req>>,
           pc'["api"] = pc["api"], pc'["controllers"] = pc["controllers"]
    PROVE  LaunchInv' /\ ShutdownInv'
  BY DEF RunInv, LaunchInv, ShutdownInv, InFlight

\* Every step keeps the order in which things start and stop.
LEMMA RunStep == RunInv /\ [RunNext]_runVars => LaunchInv' /\ ShutdownInv'
<1> SUFFICES ASSUME RunInv, [RunNext]_runVars PROVE LaunchInv' /\ ShutdownInv'
  OBVIOUS
<1>0. RunTypeOK /\ LaunchInv /\ ShutdownInv
  BY DEF RunInv
<1>1. CASE LoadConfig \/ DefaultAndValidate
  BY <1>0, <1>1 DEF LoadConfig, DefaultAndValidate, LaunchInv, ShutdownInv, InFlight
<1>2. CASE Launch
  <2>1. CASE phase' = "exited" /\ UNCHANGED pc
    BY <1>0, <1>2, <2>1 DEF Launch, LaunchInv, ShutdownInv, InFlight
  <2>2. CASE pc' = [c \in Components |-> IF c \in Started THEN FirstPC[c] ELSE "off"]
    <3>1. pc'["controllers"] = "start" /\ (cfg.mode = "external" => pc'["api"] = "off")
      BY <2>2 DEF Components, Started, FirstPC
    <3>2. InFlight = {} /\ shut = {}
      BY <1>0, <1>2 DEF Launch, LaunchInv
    <3>3. phase' \in {"exited", "running"} /\ UNCHANGED <<cfg, shut, req>>
      BY <1>2 DEF Launch
    <3> QED
      BY <3>1, <3>2, <3>3 DEF LaunchInv, ShutdownInv, InFlight
  <2> QED
    BY <1>2, <2>1, <2>2 DEF Launch
<1>3. CASE StopControllers
  BY <1>0, <1>3 DEF StopControllers, At, Move, RunTypeOK, Components, LaunchInv, ShutdownInv,
                    InFlight
<1>4. CASE ShutdownAPI
  BY <1>0, <1>4 DEF ShutdownAPI, At, Move, RunTypeOK, Components, LaunchInv, ShutdownInv,
                    InFlight
<1>5. CASE ShutdownMetrics
  BY <1>0, <1>5 DEF ShutdownMetrics, At, Move, RunTypeOK, Components, LaunchInv, ShutdownInv,
                    InFlight
<1>6. CASE Return
  <2>1. pc["controllers"] = "done" /\ phase = "running"
    BY <1>0, <1>6 DEF Return, Components, LaunchInv
  <2> QED
    BY <1>0, <1>6, <2>1 DEF Return, LaunchInv, ShutdownInv, InFlight
<1>7. CASE Signal \/ \E c \in Components : ComponentFails(c)
  BY <1>0, <1>7 DEF Signal, ComponentFails, LaunchInv, ShutdownInv, InFlight
<1>8. CASE Tick \/ Autoscaled \/ LoseElection \/ Backoff \/ Watch \/ Receive \/ Acquire \/ Drain
  <2>1. /\ UNCHANGED <<cfg, phase, shut, req>>
        /\ pc'["api"] = pc["api"] /\ pc'["controllers"] = pc["controllers"]
    BY <1>0, <1>8 DEF RunTypeOK, Components, Tick, Autoscaled, LoseElection, Backoff, Watch,
                      Receive, Acquire, Drain, Move
  <2> QED
    BY <2>1, OthersStep
<1>9. ASSUME NEW s \in Servers, Listen(s) \/ ServerClosed(s)
      PROVE  LaunchInv' /\ ShutdownInv'
  <2>1. /\ UNCHANGED <<cfg, phase, shut, req>> /\ pc'["controllers"] = pc["controllers"]
        /\ phase = "running" /\ pc[s] # "off" /\ pc'[s] # "off"
        /\ \A c \in Servers \ {s} : pc'[c] = pc[c]
    BY <1>0, <1>9 DEF RunTypeOK, Components, Servers, Listen, ServerClosed, At, Move
  <2>2. CASE s = "api"
    <3>1. ServerClosed(s) => "api" \in shut
      BY <2>2 DEF ServerClosed
    <3>2. pc["controllers"] \in {"shutdownMetrics", "done"} => "api" \in shut
      BY <1>0, <2>1, <2>2 DEF ShutdownInv
    <3> QED
      BY <1>0, <2>1, <2>2, <3>2 DEF LaunchInv, ShutdownInv, InFlight
  <2>3. CASE s = "metrics"
    <3>1. pc'["api"] = pc["api"]
      BY <2>1, <2>3 DEF Servers
    <3> QED
      BY <2>1, <3>1, OthersStep
  <2> QED
    BY <2>2, <2>3 DEF Servers
<1>10. ASSUME NEW r \in Requests, Accept(r)
       PROVE  LaunchInv' /\ ShutdownInv'
  <2>1. /\ phase = "running" /\ pc["api"] = "serve" /\ "api" \notin shut
        /\ UNCHANGED <<cfg, phase, pc, shut>>
    BY <1>10 DEF Accept, At
  <2> QED
    BY <1>0, <2>1 DEF LaunchInv, ShutdownInv
<1>11. ASSUME NEW r \in Requests, Proxy(r) \/ Answer(r)
       PROVE  LaunchInv' /\ ShutdownInv'
  <2>1. UNCHANGED <<cfg, phase, pc, shut>> /\ InFlight' \subseteq InFlight
    BY <1>0, <1>11 DEF Proxy, Answer, InFlight, RunTypeOK
  <2> QED
    BY <1>0, <2>1 DEF LaunchInv, ShutdownInv
<1>12. CASE \E h \in Handlers : Handle(h)
  BY <1>12, OthersStep DEF Handle
<1>13. CASE UNCHANGED runVars
  BY <1>13, OthersStep DEF runVars
<1> QED
  BY <1>1, <1>2, <1>3, <1>4, <1>5, <1>6, <1>7, <1>8, <1>9, <1>10, <1>11, <1>12, <1>13
  DEF RunNext, Start, Stop

\* The inductive invariant of a process, for any requests and messages.
THEOREM RunInvariance == RunSpec => []RunInv
<1>1. RunInv /\ [RunNext]_runVars => RunInv'
  BY RunTypeStep, RunStep DEF RunInv
<1> QED
  BY <1>1, RunInitial, PTL DEF RunSpec

\* As long as a request is in flight the metrics are served, and Run does not return
\* (run.go:409-416).
THEOREM MetricsLast == RunSpec => []MetricsOutliveRequests
<1>1. RunInv => MetricsOutliveRequests
  BY DEF RunInv, ShutdownInv, MetricsOutliveRequests
<1> QED
  BY <1>1, RunInvariance, PTL

=============================================================================

---------------------------- MODULE Rollout_proofs ----------------------------
(* Proofs about the plans of a rollout: how many Pods they leave, and how many  *)
(* of the ready ones.  And about the Pods that are built: what patches and      *)
(* additions, each of which appends without a look at the others, make of them. *)
EXTENDS Rollout, FiniteSetTheorems, TLAPS

-----------------------------------------------------------------------------
(* Plans. *)

\* The smaller and the greater of two numbers.
LEMMA MinMaxOfTwo ==
    ASSUME NEW a \in Int, NEW b \in Int
    PROVE  /\ Min({a, b}) = IF a <= b THEN a ELSE b
           /\ Max({a, b}) = IF a <= b THEN b ELSE a
BY DEF Min, Max

\* A set of Pods that may come first has as many as were asked for and, in the
\* order of deletion, ready Pods only after all those that are not.
LEMMA FirstFacts ==
    ASSUME NEW k, NEW S, NEW h, NEW F \in First(k, S, h)
    PROVE  /\ F \subseteq S /\ Cardinality(F) = k
           /\ \A m \in F, n \in S \ F : view[m].ready => view[n].ready
BY DEF First, Before

\* What a plan may recreate: Pods that are out of date and not ready and, when as
\* many are ready as are desired, one of the ready ones.
LEMMA RecreatedFacts ==
    ASSUME NEW h, NEW R \in Recreated(h)
    PROVE  /\ R \subseteq OutOfDate(h)
           /\ \/ R \cap ReadyPods = {}
              \/ /\ AllReady(h) /\ OutOfDate(h) # {}
                 /\ Cardinality(R \cap ReadyPods) = 1
<1> DEFINE serving == OutOfDate(h) \cap ReadyPods
<1>1. PICK F \in IF AllReady(h) /\ serving # {} THEN First(1, serving, h) ELSE {{}} :
            R = (OutOfDate(h) \ ReadyPods) \cup F
  BY DEF Recreated
<1>2. CASE AllReady(h) /\ serving # {}
  <2>1. F \in First(1, serving, h)
    BY <1>1, <1>2
  <2>2. F \subseteq serving /\ Cardinality(F) = 1
    BY <2>1, FirstFacts
  <2>3. R \cap ReadyPods = F
    BY <1>1, <2>2
  <2> QED
    BY <1>1, <1>2, <2>2, <2>3
<1>3. CASE ~(AllReady(h) /\ serving # {})
  <2>1. F = {}
    BY <1>1, <1>3
  <2> QED
    BY <1>1, <2>1
<1> QED
  BY <1>2, <1>3

\* The numbers of a plan.
LEMMA Numbers ==
    ASSUME IsFiniteSet(All), replicas \in Nat, NEW h
    PROVE  /\ Cardinality(All) \in Nat
           /\ IsFiniteSet(ReadyPods) /\ ReadyPods \subseteq All /\ Cardinality(ReadyPods) \in Nat
           /\ IsFiniteSet(OutOfDate(h)) /\ OutOfDate(h) \subseteq All
           /\ Cardinality(OutOfDate(h)) \in Nat
           /\ Desired(h) \in replicas..(replicas + Surge)
           /\ Excess(h) \in Nat /\ Missing(h) \in Nat
           /\ Surge \in Nat
<1>1. ReadyPods \subseteq All /\ OutOfDate(h) \subseteq All
  BY DEF ReadyPods, OutOfDate
<1>2. IsFiniteSet(ReadyPods) /\ IsFiniteSet(OutOfDate(h))
  BY <1>1, FS_Subset
<1>3. /\ Cardinality(All) \in Nat /\ Cardinality(ReadyPods) \in Nat
      /\ Cardinality(OutOfDate(h)) \in Nat
  BY <1>2, FS_CardinalityType
<1>4. Desired(h) \in replicas..(replicas + Surge)
  BY RolloutAssumption DEF Desired
<1> QED
  BY <1>1, <1>2, <1>3, <1>4, RolloutAssumption DEF Excess, Missing

\* Of the ready Pods, scaling down takes only those beyond the desired number.
LEMMA ExcessSparesReady ==
    ASSUME IsFiniteSet(All), replicas \in Nat, NEW h, NEW D \in First(Excess(h), All, h)
    PROVE  /\ IsFiniteSet(D) /\ D \subseteq All /\ Cardinality(D) = Excess(h)
           /\ IsFiniteSet(ReadyPods \cap D) /\ Cardinality(ReadyPods \cap D) \in Nat
           /\ Cardinality(ReadyPods \cap D) <=
                IF Cardinality(ReadyPods) > Desired(h) THEN Cardinality(ReadyPods) - Desired(h) ELSE 0
<1> DEFINE unready == All \ ReadyPods
<1>1. /\ D \subseteq All /\ Cardinality(D) = Excess(h)
      /\ \A m \in D, n \in All \ D : view[m].ready => view[n].ready
  BY FirstFacts
<1>2. IsFiniteSet(D) /\ IsFiniteSet(ReadyPods \cap D) /\ Cardinality(ReadyPods \cap D) \in Nat
  <2>1. IsFiniteSet(D)
    BY <1>1, FS_Subset
  <2> QED
    BY <2>1, FS_Intersection, FS_CardinalityType
<1>3. CASE ReadyPods \cap D = {}
  BY <1>1, <1>2, <1>3, FS_EmptySet, Numbers
<1>4. CASE ReadyPods \cap D # {}
  <2>1. unready \subseteq D
    BY <1>1, <1>4 DEF ReadyPods
  <2>2. Cardinality(unready) = Cardinality(All) - Cardinality(ReadyPods)
    <3>1. Cardinality(All \ ReadyPods) = Cardinality(All) - Cardinality(All \cap ReadyPods)
      BY FS_Difference
    <3>2. All \cap ReadyPods = ReadyPods
      BY DEF ReadyPods
    <3> QED
      BY <3>1, <3>2
  <2>3. Cardinality(D \ ReadyPods) = Cardinality(D) - Cardinality(ReadyPods \cap D)
    <3>1. Cardinality(D \ ReadyPods) = Cardinality(D) - Cardinality(D \cap ReadyPods)
      BY <1>2, FS_Difference
    <3>2. D \cap ReadyPods = ReadyPods \cap D
      OBVIOUS
    <3> QED
      BY <3>1, <3>2
  <2>4. D \ ReadyPods = unready
    BY <1>1, <2>1
  <2>5. Cardinality(D) = Cardinality(All) - Desired(h)
    <3>1. Cardinality(D) # 0
      BY <1>2, <1>4, FS_EmptySet
    <3> QED
      BY <1>1, <3>1 DEF Excess
  <2>6. Cardinality(ReadyPods \cap D) = Cardinality(ReadyPods) - Desired(h)
    <3> HIDE DEF unready
    <3> QED
      BY <1>2, <2>2, <2>3, <2>4, <2>5, Numbers
  <2> QED
    BY <1>1, <1>2, <2>6, Numbers
<1> QED
  BY <1>3, <1>4

\* Scale-down and rollout together leave the replicas ready, if there is a surge
\* and as many were.
LEMMA PlanKeepsReady ==
    ASSUME IsFiniteSet(All), replicas \in Nat, Surge > 0,
           NEW h, NEW D \in First(Excess(h), All, h), NEW R \in Recreated(h)
    PROVE  Cardinality(ReadyPods \ (D \cup R)) >= Min({Cardinality(ReadyPods), replicas})
<1> DEFINE r == Cardinality(ReadyPods)
           d == Cardinality(ReadyPods \cap D)
<1>1. /\ r \in Nat /\ IsFiniteSet(ReadyPods)
      /\ Desired(h) \in replicas..(replicas + Surge) /\ Surge \in Nat
  BY Numbers
<1>2. /\ d \in Nat /\ d <= IF r > Desired(h) THEN r - Desired(h) ELSE 0
      /\ IsFiniteSet(ReadyPods \cap D)
  BY ExcessSparesReady
<1>3. Min({r, replicas}) = IF r <= replicas THEN r ELSE replicas
  BY <1>1, MinMaxOfTwo
<1>4. CASE R \cap ReadyPods = {}
  <2>1. ReadyPods \ (D \cup R) = ReadyPods \ D
    BY <1>4
  <2>2. Cardinality(ReadyPods \ D) = r - d
    BY <1>1, FS_Difference
  <2>3. r - d >= Min({r, replicas})
    <3> HIDE DEF r, d
    <3> QED
      BY <1>1, <1>2, <1>3
  <2> QED
    BY <2>1, <2>2, <2>3
<1>5. CASE AllReady(h) /\ OutOfDate(h) # {} /\ Cardinality(R \cap ReadyPods) = 1
  <2>1. r = Desired(h) /\ Desired(h) = replicas + Surge
    BY <1>5 DEF AllReady, Desired
  <2>2. ReadyPods \cap D = {}
    BY <1>1, <1>2, <2>1, FS_EmptySet
  <2>3. ReadyPods \ (D \cup R) = ReadyPods \ R
    BY <2>2
  <2>4. Cardinality(ReadyPods \ R) = r - 1
    <3>1. Cardinality(ReadyPods \ R) = Cardinality(ReadyPods) - Cardinality(ReadyPods \cap R)
      BY <1>1, FS_Difference
    <3>2. ReadyPods \cap R = R \cap ReadyPods
      OBVIOUS
    <3>3. Cardinality(ReadyPods \cap R) = 1
      BY <1>5, <3>2
    <3> QED
      BY <3>1, <3>3
  <2>5. r - 1 >= Min({r, replicas})
    <3> HIDE DEF r
    <3> QED
      BY <1>1, <1>3, <2>1
  <2> QED
    BY <2>3, <2>4, <2>5
<1> QED
  BY <1>4, <1>5, RecreatedFacts

\* What is recreated is replaced at most.
LEMMA ReplacementsFacts ==
    ASSUME IsFiniteSet(All), replicas \in Nat, NEW h, NEW R \in Recreated(h)
    PROVE  /\ R \subseteq All /\ IsFiniteSet(R) /\ Cardinality(R) \in Nat
           /\ Replacements(R, h) \in Nat /\ Replacements(R, h) <= Cardinality(R)
<1> DEFINE k == Cardinality(R)
<1>1. R \subseteq All /\ IsFiniteSet(R) /\ k \in Nat
  <2>1. R \subseteq All
    BY RecreatedFacts, Numbers
  <2>2. IsFiniteSet(R)
    BY <2>1, FS_Subset
  <2> QED
    BY <2>1, <2>2, FS_CardinalityType
<1>2. Replacements(R, h) \in Nat /\ Replacements(R, h) <= k
  <2> DEFINE limit == Cardinality(OutOfDate(h)) - Surge
  <2>1. limit \in Int
    BY Numbers
  <2>2. Min({k, limit}) = IF k <= limit THEN k ELSE limit
    BY <1>1, <2>1, MinMaxOfTwo
  <2>3. Replacements(R, h) = IF limit < 0 THEN 0 ELSE Min({k, limit})
    BY DEF Replacements
  <2> HIDE DEF limit, k
  <2> QED
    BY <1>1, <2>1, <2>2, <2>3
<1> QED
  BY <1>1, <1>2

\* What is created replaces what is deleted, or is missing.
LEMMA PlanDoesNotGrow ==
    ASSUME IsFiniteSet(All), replicas \in Nat,
           NEW h, NEW D \in First(Excess(h), All, h), NEW R \in Recreated(h)
    PROVE  Cardinality(All \ (D \cup R)) + Missing(h) + Replacements(R, h)
              <= Max({Cardinality(All), replicas + Surge})
<1> DEFINE n == Cardinality(All)
           k == Cardinality(R)
<1>1. /\ n \in Nat /\ Desired(h) \in replicas..(replicas + Surge) /\ Surge \in Nat
      /\ Missing(h) \in Nat /\ Cardinality(OutOfDate(h)) \in Nat
  BY Numbers
<1>2. /\ R \subseteq All /\ IsFiniteSet(R) /\ k \in Nat
      /\ Replacements(R, h) \in Nat /\ Replacements(R, h) <= k
  BY ReplacementsFacts
<1>4. Cardinality(All \ R) = n - k
  <2>1. All \cap R = R
    BY <1>2
  <2> QED
    BY <2>1, FS_Difference
<1>5. IsFiniteSet(All \ R) /\ Cardinality(All \ (D \cup R)) <= n - k
  <2>1. IsFiniteSet(All \ R)
    BY FS_Difference
  <2>2. All \ (D \cup R) \in SUBSET (All \ R)
    OBVIOUS
  <2>3. Cardinality(All \ (D \cup R)) <= Cardinality(All \ R)
    BY <2>1, <2>2, FS_Subset
  <2> QED
    BY <1>4, <2>1, <2>3
<1>6. Cardinality(All \ (D \cup R)) \in Nat
  <2>1. IsFiniteSet(All \ (D \cup R))
    BY FS_Difference
  <2> QED
    BY <2>1, FS_CardinalityType
<1>7. Max({n, replicas + Surge}) = IF n <= replicas + Surge THEN replicas + Surge ELSE n
  <2> DEFINE m == replicas + Surge
  <2>1. n \in Int /\ m \in Int
    BY <1>1
  <2> HIDE DEF n, m
  <2>2. Max({n, m}) = IF n <= m THEN m ELSE n
    BY <2>1, MinMaxOfTwo
  <2> QED
    BY <2>2 DEF m
<1>8. Missing(h) = IF n < Desired(h) THEN Desired(h) - n ELSE 0
  BY DEF Missing
<1> HIDE DEF n, k
<1> QED
  BY <1>1, <1>2, <1>5, <1>6, <1>7, <1>8 DEF n

-----------------------------------------------------------------------------
(* The invariant: what the cache shows is of the kind of what there is, and the *)
(* plan that is carried out makes Pods of the kind the Models have.             *)

PodsOK(p) == DOMAIN p \subseteq PodNames /\ \A n \in DOMAIN p : p[n] \in PodState

PlanInv == plans \in Nat /\ (running => PodHash(template) \in Hashes)

IInv == TypeOK /\ PodsOK(view) /\ PlanInv

\* Pods of the right kind are so in the cache as well, whether it lags or not.
LEMMA PodsSet ==
    ASSUME IInv, NEW p, PodsOK(p), SetPods(p)
    PROVE  PodsOK(pods') /\ PodsOK(view')
BY DEF SetPods, IInv

\* The parts of TypeOK that are about the Pods.
LEMMA TypeOfPods ==
    TypeOK <=> /\ replicas \in 0..MaxReplicas /\ model \in Models /\ stale \in BOOLEAN
               /\ PodsOK(pods) /\ DOMAIN view \subseteq PodNames
               /\ toDelete \subseteq PodNames /\ toCreate \in Nat /\ running \in BOOLEAN
BY DEF TypeOK, PodsOK, All

\* The ages of Pods are finitely many.
LEMMA FiniteAges ==
    ASSUME NEW p, PodsOK(p)
    PROVE  IsFiniteSet({p[n].created : n \in DOMAIN p})
<1> DEFINE f == [n \in DOMAIN p |-> p[n].created]
           T == {p[n].created : n \in DOMAIN p}
<1>1. IsFiniteSet(DOMAIN p)
  BY FS_Subset, RolloutAssumption DEF PodsOK
<1>2. f \in Surjection(DOMAIN p, T)
  BY DEF Surjection
<1> HIDE DEF f, T
<1>3. IsFiniteSet(T)
  BY <1>1, <1>2, FS_Surjection
<1> QED
  BY <1>3 DEF T

\* Ages stay numbers when they are renumbered.
LEMMA Renumbered ==
    ASSUME IInv, Renumber
    PROVE  PodsOK(pods') /\ PodsOK(view') /\ plans' \in Nat
<1> DEFINE ages == {pods[n].created : n \in DOMAIN pods} \cup {view[n].created : n \in All}
           age(c) == Cardinality({a \in ages : a <= c})
<1>1. PodsOK(pods) /\ PodsOK(view)
  BY TypeOfPods DEF IInv
<1>2. IsFiniteSet(ages)
  BY <1>1, FiniteAges, FS_Union DEF All
<1>3. \A c : age(c) \in Nat
  <2> HIDE DEF ages
  <2> SUFFICES ASSUME NEW c PROVE age(c) \in Nat
    OBVIOUS
  <2>1. IsFiniteSet({a \in ages : a <= c})
    BY <1>2, FS_Subset
  <2> QED
    BY <2>1, FS_CardinalityType
<1>4. /\ pods' = [n \in DOMAIN pods |-> [pods[n] EXCEPT !.created = age(pods[n].created)]]
      /\ view' = [n \in DOMAIN view |-> [view[n] EXCEPT !.created = age(view[n].created)]]
      /\ plans' = Cardinality(ages)
  BY DEF Renumber
<1>5. plans' \in Nat
  BY <1>2, <1>4, FS_CardinalityType
<1> HIDE DEF age
<1> QED
  BY <1>1, <1>3, <1>4, <1>5 DEF PodsOK, PodState

\* Of the Pods that are listed there are finitely many.
LEMMA Snapshot == IInv => IsFiniteSet(All) /\ replicas \in Nat
<1> SUFFICES ASSUME IInv PROVE IsFiniteSet(All) /\ replicas \in Nat
  OBVIOUS
<1>1. All \in SUBSET PodNames /\ replicas \in 0..MaxReplicas
  BY TypeOfPods DEF IInv, All
<1> QED
  BY <1>1, FS_Subset, RolloutAssumption

\* What Plan does, as far as it matters here.
LEMMA PlanFacts ==
    ASSUME Plan
    PROVE  \E h, D, R : /\ D \in First(Excess(h), All, h) /\ R \in Recreated(h)
                        /\ toDelete' = D \cup R
                        /\ toCreate' = Missing(h) + Replacements(R, h)
BY DEF Plan

\* The invariant holds at first.
LEMMA InitInv == Init => IInv
<1> SUFFICES ASSUME Init PROVE IInv
  OBVIOUS
<1>1. /\ replicas \in 0..MaxReplicas /\ model \in Models /\ stale = FALSE
      /\ DOMAIN pods = {} /\ view = pods /\ toDelete = {} /\ toCreate = 0
      /\ running = FALSE /\ plans = 0
  BY RolloutAssumption DEF Init
<1>2. PodsOK(pods) /\ PodsOK(view) /\ DOMAIN view \subseteq PodNames
  BY <1>1 DEF PodsOK
<1> QED
  BY <1>1, <1>2, TypeOfPods DEF IInv, PlanInv

\* Making a plan and carrying it out keeps the invariant.
LEMMA PlanStep ==
    ASSUME IInv, Plan \/ Delete \/ Create \/ Finish \/ Fail
    PROVE  IInv'
<1>1. /\ replicas \in 0..MaxReplicas /\ model \in Models /\ stale \in BOOLEAN
      /\ PodsOK(pods) /\ PodsOK(view) /\ DOMAIN view \subseteq PodNames
      /\ toDelete \subseteq PodNames /\ toCreate \in Nat /\ running \in BOOLEAN
      /\ plans \in Nat /\ (running => PodHash(template) \in Hashes)
  BY TypeOfPods DEF IInv, PlanInv
<1> SUFFICES
      /\ (replicas \in 0..MaxReplicas /\ model \in Models /\ stale \in BOOLEAN)'
      /\ PodsOK(pods') /\ PodsOK(view')
      /\ (toDelete \subseteq PodNames /\ toCreate \in Nat /\ running \in BOOLEAN)'
      /\ (plans \in Nat /\ (running => PodHash(template) \in Hashes))'
  BY TypeOfPods DEF IInv, PlanInv, PodsOK, TypeOK, All
<1>2. CASE Plan
  <2>1. /\ UNCHANGED <<replicas, model, pods, view, stale, plans>> /\ running' = TRUE
        /\ template' \in BuiltPods[model]
    BY <1>2 DEF Plan
  <2>2. PICK h, D, R : /\ D \in First(Excess(h), All, h) /\ R \in Recreated(h)
                       /\ toDelete' = D \cup R
                       /\ toCreate' = Missing(h) + Replacements(R, h)
    BY <1>2, PlanFacts
  <2>3. IsFiniteSet(All) /\ replicas \in Nat
    BY Snapshot
  <2>4. D \subseteq All /\ R \subseteq All /\ toCreate' \in Nat
    BY <2>2, <2>3, FirstFacts, ReplacementsFacts, Numbers
  <2>5. PodHash(template') \in Hashes
    BY <1>1, <2>1 DEF Hashes
  <2> QED
    BY <1>1, <2>1, <2>2, <2>4, <2>5 DEF All
<1>3. CASE Delete
  <2>1. PICK n \in toDelete : /\ SetPods([m \in DOMAIN pods \ {n} |-> pods[m]])
                              /\ toDelete' = toDelete \ {n}
    BY <1>3 DEF Delete
  <2>2. PodsOK([m \in DOMAIN pods \ {n} |-> pods[m]])
    BY <1>1 DEF PodsOK
  <2>3. PodsOK(pods') /\ PodsOK(view')
    BY <2>1, <2>2, PodsSet
  <2> QED
    BY <1>1, <1>3, <2>1, <2>3 DEF Delete
<1>4. CASE Create
  <2> DEFINE n == CHOOSE m \in FreeNames : TRUE
             pod == [hash |-> PodHash(template), ready |-> FALSE,
                     scheduled |-> FALSE, created |-> plans + 1]
             p == [m \in DOMAIN pods \cup {n} |-> IF m = n THEN pod ELSE pods[m]]
  <2>1. running /\ toCreate > 0 /\ toCreate' = toCreate - 1 /\ FreeNames # {} /\ SetPods(p)
    BY <1>4 DEF Create
  <2>2. n \in PodNames
    BY <2>1 DEF FreeNames
  <2>3. pod \in PodState
    BY <1>1, <2>1 DEF PodState
  <2>4. PodsOK(p)
    <3> HIDE DEF n, pod
    <3> QED
      BY <1>1, <2>2, <2>3 DEF PodsOK
  <2>5. PodsOK(pods') /\ PodsOK(view')
    BY <2>1, <2>4, PodsSet
  <2> HIDE DEF p
  <2> QED
    BY <1>1, <1>4, <2>1, <2>5 DEF Create
<1>5. CASE Finish \/ Fail
  <2>1. EndPlan /\ Renumber /\ UNCHANGED <<replicas, model, stale>>
    BY <1>5 DEF Finish, Fail
  <2>2. PodsOK(pods') /\ PodsOK(view') /\ plans' \in Nat
    BY <2>1, Renumbered
  <2> QED
    BY <1>1, <2>1, <2>2 DEF EndPlan
<1> QED
  BY <1>2, <1>3, <1>4, <1>5

\* So does everything around it: users, the autoscaler, the cluster, the cache.
LEMMA WorldStep ==
    ASSUME IInv,
           \/ ChangeSpec \/ Scale \/ Lag \/ Sync \/ UNCHANGED vars
           \/ \E n \in PodNames : Schedule(n) \/ GetReady(n) \/ GetUnready(n)
    PROVE  IInv' /\ (running' => running)
<1>1. /\ replicas \in 0..MaxReplicas /\ model \in Models /\ stale \in BOOLEAN
      /\ PodsOK(pods) /\ PodsOK(view) /\ DOMAIN view \subseteq PodNames
      /\ toDelete \subseteq PodNames /\ toCreate \in Nat /\ running \in BOOLEAN
      /\ plans \in Nat /\ (running => PodHash(template) \in Hashes)
  BY TypeOfPods DEF IInv, PlanInv
<1> SUFFICES
      /\ (replicas \in 0..MaxReplicas /\ model \in Models /\ stale \in BOOLEAN)'
      /\ PodsOK(pods') /\ PodsOK(view')
      /\ UNCHANGED <<planVars, plans>>
  BY <1>1, TypeOfPods DEF IInv, PlanInv, PodsOK, TypeOK, All, planVars
<1>2. CASE ChangeSpec \/ Scale \/ Lag \/ UNCHANGED vars
  BY <1>1, <1>2 DEF ChangeSpec, Scale, Lag, vars, planVars
<1>3. CASE Sync
  BY <1>1, <1>3 DEF Sync
<1>4. ASSUME NEW n \in PodNames, Schedule(n) \/ GetReady(n) \/ GetUnready(n)
      PROVE  PodsOK(pods') /\ PodsOK(view') /\ UNCHANGED <<replicas, model, stale, planVars, plans>>
  <2>1. CASE Schedule(n)
    <3>1. PodsOK([pods EXCEPT ![n].scheduled = TRUE])
      BY <1>1, <2>1 DEF Schedule, PodsOK, PodState
    <3> QED
      BY <2>1, <3>1, PodsSet DEF Schedule
  <2>2. CASE GetReady(n)
    <3>1. PodsOK([pods EXCEPT ![n].ready = TRUE])
      BY <1>1, <2>2 DEF GetReady, PodsOK, PodState
    <3> QED
      BY <2>2, <3>1, PodsSet DEF GetReady
  <2>3. CASE GetUnready(n)
    <3>1. PodsOK([pods EXCEPT ![n].ready = FALSE])
      BY <1>1, <2>3 DEF GetUnready, PodsOK, PodState
    <3> QED
      BY <2>3, <3>1, PodsSet DEF GetUnready
  <2> QED
    BY <1>4, <2>1, <2>2, <2>3
<1> QED
  BY <1>1, <1>2, <1>3, <1>4

\* Every step keeps the invariant.
LEMMA NextInv == IInv /\ [Next]_vars => IInv'
BY PlanStep, WorldStep DEF Next

\* Pods, plan and what the cache shows keep their kinds, for any Models, surge and
\* number of Pods (pod_plan.go:28-217).
THEOREM Invariance == Spec => []IInv
BY InitInv, NextInv, PTL DEF Spec

\* Every variable keeps its type: a plan never creates a negative number of Pods
\* and deletes Pods only that there can be (pod_plan.go:90-165).
THEOREM TypeCorrect == Spec => []TypeOK
<1>1. IInv => TypeOK
  BY DEF IInv
<1> QED
  BY Invariance, <1>1, PTL

\* A reconcile starts its work with a plan.
LEMMA PlanStarts ==
    ASSUME [Next]_vars, IInv, ~running, running'
    PROVE  Plan
<1>1. Plan \/ ~(Delete \/ Create \/ Finish \/ Fail)
  BY DEF Delete, Create, Finish, Fail
<1> QED
  BY <1>1, WorldStep DEF Next

\* With a surge of any size, no plan made from the present Pods takes the ready ones
\* below the replicas, or further below them (pod_plan.go:27-28, 97-151).
THEOREM ReadyPodsAreKept == Spec => PlansKeepReadyPods
<1>1. ASSUME IInv, [Next]_vars, Planned, Surge > 0
      PROVE  Cardinality(ReadyPods \ toDelete') >= Min({Cardinality(ReadyPods), replicas})
  <2>1. Plan
    BY <1>1, PlanStarts DEF Planned
  <2> QED
    BY <1>1, <2>1, PlanFacts, Snapshot, PlanKeepsReady
<1>2. IInv /\ [Next]_vars =>
        [(Planned /\ Surge > 0) =>
            Cardinality(ReadyPods \ toDelete') >= Min({Cardinality(ReadyPods), replicas})]_vars
  BY <1>1
<1> QED
  BY <1>2, Invariance, PTL DEF Spec, PlansKeepReadyPods

\* A plan leaves at most as many Pods as there were, or as the Model calls for with
\* the surge, whatever is out of date, unready or in excess (pod_plan.go:90-151).
THEOREM PodsAreBounded == Spec => PlansDoNotGrow
<1>1. ASSUME IInv, [Next]_vars, Planned
      PROVE  Cardinality(All \ toDelete') + toCreate' <= Max({Cardinality(All), replicas + Surge})
  <2>1. PICK h, D, R : /\ D \in First(Excess(h), All, h) /\ R \in Recreated(h)
                       /\ toDelete' = D \cup R
                       /\ toCreate' = Missing(h) + Replacements(R, h)
    BY <1>1, PlanStarts, PlanFacts DEF Planned
  <2>2. IsFiniteSet(All) /\ replicas \in Nat
    BY <1>1, Snapshot
  <2>3. /\ Cardinality(All \ (D \cup R)) \in Nat /\ Missing(h) \in Nat
        /\ Replacements(R, h) \in Nat
    <3>1. IsFiniteSet(All \ (D \cup R))
      BY <2>2, FS_Difference
    <3> QED
      BY <2>1, <2>2, <3>1, FS_CardinalityType, Numbers, ReplacementsFacts
  <2>4. Cardinality(All \ (D \cup R)) + Missing(h) + Replacements(R, h)
            <= Max({Cardinality(All), replicas + Surge})
    BY <2>1, <2>2, PlanDoesNotGrow
  <2>5. Cardinality(All \ toDelete') + toCreate'
            = Cardinality(All \ (D \cup R)) + Missing(h) + Replacements(R, h)
    BY <2>1, <2>3
  <2> QED
    BY <2>4, <2>5
<1> QED
  BY <1>1, Invariance, PTL DEF Spec, PlansDoNotGrow

-----------------------------------------------------------------------------
(* The hash of the Pods of a Model does not depend on the order the map of its  *)
(* environment is iterated in.                                                  *)

\* An iteration of a map meets every key of it.
LEMMA IterationIsComplete ==
    ASSUME NEW keys, keys \subseteq Range(EnvKeys), NEW order \in Iterations(keys)
    PROVE  Range(order) = keys
<1> DEFINE S == DOMAIN EnvKeys
           n == Cardinality(keys)
<1>1. IsFiniteSet(keys)
  <2>1. S = 1..Len(EnvKeys) /\ Len(EnvKeys) \in Nat
    BY PodSpecAssumption
  <2>2. IsFiniteSet(S)
    BY <2>1, FS_Interval
  <2>3. EnvKeys \in Surjection(S, Range(EnvKeys))
    BY PodSpecAssumption DEF Surjection, Range
  <2>4. IsFiniteSet(Range(EnvKeys))
    BY <2>2, <2>3, FS_Surjection
  <2> QED
    BY <2>4, FS_Subset
<1>2. n \in Nat
  BY <1>1, FS_CardinalityType
<1>3. order \in Injection(1..n, keys)
  BY DEF Iterations, IsInjective, Injection
<1>4. Cardinality(1..n) = n
  BY <1>2, FS_Interval
<1>5. order \in Surjection(1..n, keys)
  BY <1>1, <1>3, <1>4, FS_Injection
<1> QED
  BY <1>5 DEF Surjection, Range

\* So the names are in the same order in every Pod, and there is one Pod.
LEMMA OnePodPerModel ==
    ASSUME NEW m \in Models, NEW p \in BuiltPods[m], NEW q \in BuiltPods[m]
    PROVE  p = q
<1>1. m.env \subseteq Range(EnvKeys)
  BY RolloutAssumption DEF Model
<1>2. ASSUME NEW o \in Iterations(m.env), NEW r \in Iterations(m.env)
      PROVE  PodForModel(m, o) = PodForModel(m, r)
  <2>1. EnvOf(o) = EnvOf(r)
    BY <1>1, IterationIsComplete DEF EnvOf
  <2> QED
    BY <2>1 DEF PodForModel, vLLMPodForModel, oLlamaPodForModel, infinityPodForModel,
                fasterWhisperPodForModel, patchServerAdapterLoader
<1> QED
  BY <1>2 DEF BuiltPods, AllPods

\* A Pod that is built for the Model tells no running Pod out of date, then.
LEMMA NothingToPlan ==
    ASSUME IInv, view = pods, NEW pod \in BuiltPods[model],
           NEW q \in BuiltPods[model], UpToDate(q),
           NEW D \in First(Excess(PodHash(pod)), All, PodHash(pod)),
           NEW R \in Recreated(PodHash(pod))
    PROVE  D \cup R = {} /\ Missing(PodHash(pod)) = 0
<1> DEFINE h == PodHash(pod)
<1>1. IsFiniteSet(All) /\ replicas \in Nat /\ model \in Models
  BY Snapshot DEF IInv, TypeOK
<1>2. Cardinality(All) = replicas
  BY DEF UpToDate, All
<1>3. OutOfDate(h) = {}
  <2>1. q = pod
    BY <1>1, OnePodPerModel
  <2> QED
    BY <2>1 DEF UpToDate, OutOfDate, All
<1>4. Desired(h) = replicas
  BY <1>3 DEF Desired
<1>5. Excess(h) = 0 /\ Missing(h) = 0
  BY <1>1, <1>2, <1>4 DEF Excess, Missing
<1>6. D = {}
  <2>1. IsFiniteSet(D) /\ Cardinality(D) = 0
    BY <1>1, <1>5, ExcessSparesReady
  <2> QED
    BY <2>1, FS_EmptySet
<1>7. R = {}
  BY <1>3, RecreatedFacts
<1> QED
  BY <1>5, <1>6, <1>7

\* For any Models and environment, a Model whose Pods are as many as its replicas and
\* up to date is left alone: sorting the names makes the hash the same in every
\* reconcile, and nothing else in the plan starts a rollout (pod_plan.go:28-165,
\* engine_vllm.go:54-63).
THEOREM UpToDateStays == Spec => UpToDateIsLeftAlone
<1>1. ASSUME IInv, [Next]_vars, Planned, NEW q \in BuiltPods[model], UpToDate(q)
      PROVE  FALSE
  <2>1. Plan /\ view = pods
    BY <1>1, PlanStarts DEF Planned
  <2>2. PICK pod \in BuiltPods[model] :
            \E D \in First(Excess(PodHash(pod)), All, PodHash(pod)),
            R \in Recreated(PodHash(pod)) :
                D \cup R # {} \/ Missing(PodHash(pod)) > 0
    BY <2>1 DEF Plan
  <2>3. PICK D \in First(Excess(PodHash(pod)), All, PodHash(pod)), R \in Recreated(PodHash(pod)) :
            D \cup R # {} \/ Missing(PodHash(pod)) > 0
    BY <2>2
  <2> QED
    BY <1>1, <2>1, <2>3, NothingToPlan
<1>2. IInv /\ [Next]_vars => [Planned => \A pod \in BuiltPods[model] : ~UpToDate(pod)]_vars
  BY <1>1
<1> QED
  BY <1>2, Invariance, PTL DEF Spec, UpToDateIsLeftAlone

-----------------------------------------------------------------------------
(* The Pods that are built.  Built says of a Pod under construction what the    *)
(* later patches need to know of the earlier ones.                              *)

\* The volumes and the paths of the patches, the additions and the files.
Words == {"dshm", "/dev/shm", "model-files", "models", "cacheDir",
          "model", "/model", "adapters", "/adapters",
          "gcp-credentials", "/secrets/gcp-credentials"} \cup UserPaths

\* Mounts.
MountRec == [volume : Words, path : Words]

\* Containers and Pods.  E is a set of whatever their other parts are: nothing is
\* asked of these.
Container(E) == [name : E, load : E, args : E, env : E, mounts : Seq(MountRec), startup : E]
PodRec(E) == [containers : Seq(Container(E)), volumes : Seq(Words),
              pullSecrets : E, patches : E]

\* Additions of these volumes and mounts, of whatever else.
Brings(a, vs, ms) ==
    a.volumes = vs /\ a.mounts = ms /\ vs \in Seq(Words) /\ ms \in Seq(MountRec)

\* A sequence over a set is one over a greater set.
LEMMA SeqSub ==
    ASSUME NEW S, NEW T, S \subseteq T, NEW s \in Seq(S)
    PROVE s \in Seq(T)
OBVIOUS

\* And so with Pods.
LEMMA Wider ==
    ASSUME NEW E, NEW F, E \subseteq F, NEW pod \in PodRec(E)
    PROVE pod \in PodRec(F)
<1>1. Container(E) \subseteq Container(F)
  BY DEF Container
<1>2. pod.containers \in Seq(Container(E))
  BY DEF PodRec
<1>3. pod.containers \in Seq(Container(F))
  BY <1>1, <1>2, SeqSub
<1> QED BY <1>3 DEF PodRec

\* A Pod, whatever its other parts are.
IsPod(pod) == \E E : pod \in PodRec(E)

\* q is pod with these volumes and, in container i, these mounts appended.
Longer(q, pod, i, vs, ms) ==
     /\ IsPod(q) /\ Len(q.containers) = Len(pod.containers)
     /\ q.volumes = pod.volumes \o vs
     /\ q.containers[i].mounts = pod.containers[i].mounts \o ms
     /\ q.containers[i].load = pod.containers[i].load
     /\ q.containers[i].args = pod.containers[i].args
     /\ \A j \in 1..Len(pod.containers) : j # i => q.containers[j] = pod.containers[j]

\* Extended keeps a Pod a Pod, appends to its volumes and to the mounts of one
\* container, and leaves load and arguments, and the other containers, alone.
LEMMA ExtendedFacts ==
    ASSUME NEW E, NEW pod \in PodRec(E), NEW a, NEW vs, NEW ms, Brings(a, vs, ms),
           NEW i \in 1..Len(pod.containers),
           pod.containers[i].env \o a.env \in E, pod.pullSecrets \o a.pullSecrets \in E
    PROVE  Longer(Extended(pod, i, a), pod, i, vs, ms)
<1> DEFINE c == pod.containers[i]
    d == [name |-> c.name, load |-> c.load, args |-> c.args, env |-> c.env \o a.env,
          mounts |-> c.mounts \o a.mounts, startup |-> c.startup]
    cs == [pod.containers EXCEPT ![i] = d]
<1>0. pod.containers \in Seq(Container(E)) /\ pod.volumes \in Seq(Words) /\ pod.patches \in E
  BY DEF PodRec
<1>1. c \in Container(E)
  BY <1>0
<1>1a. a.volumes = vs /\ a.mounts = ms /\ vs \in Seq(Words) /\ ms \in Seq(MountRec)
  BY DEF Brings
<1>1c. c.mounts \o a.mounts \in Seq(MountRec)
  BY <1>1, <1>1a DEF Container
<1>2. d \in Container(E)
  BY <1>1, <1>1c DEF Container
<1>3. cs \in Seq(Container(E)) /\ Len(cs) = Len(pod.containers) /\ cs[i] = d
      /\ \A j \in 1..Len(pod.containers) : j # i => cs[j] = pod.containers[j]
  <2> HIDE DEF d
  <2> QED BY <1>0, <1>2
<1> DEFINE q == [containers |-> cs, volumes |-> pod.volumes \o a.volumes,
        pullSecrets |-> pod.pullSecrets \o a.pullSecrets, patches |-> pod.patches]
<1>5. q = Extended(pod, i, a)
  BY DEF Extended
<1>6. q.containers = cs /\ q.volumes = pod.volumes \o a.volumes
  OBVIOUS
<1>7. d.mounts = c.mounts \o a.mounts /\ d.load = c.load /\ d.args = c.args
  OBVIOUS
<1>8. pod.volumes \o a.volumes \in Seq(Words)
  BY <1>0, <1>1a
<1> HIDE DEF cs, d
<1>9. q \in PodRec(E)
  BY <1>0, <1>3, <1>8 DEF PodRec
<1> HIDE DEF q
<1>10. IsPod(q)
  BY <1>9 DEF IsPod
<1>11. Longer(q, pod, i, vs, ms)
  BY <1>1a, <1>3, <1>6, <1>7, <1>10 DEF Longer
<1> QED
  BY <1>5, <1>11

LEMMA ExtendedPod ==
    ASSUME NEW pod, IsPod(pod), NEW a, NEW vs, NEW ms, Brings(a, vs, ms),
           NEW i \in 1..Len(pod.containers)
    PROVE Longer(Extended(pod, i, a), pod, i, vs, ms)
<1>1. PICK E : pod \in PodRec(E)
  BY DEF IsPod
<1> DEFINE F == E \cup {pod.containers[i].env \o a.env, pod.pullSecrets \o a.pullSecrets}
<1>2. pod \in PodRec(F)
  <2>1. E \subseteq F
    OBVIOUS
  <2> HIDE DEF F
  <2> QED BY <1>1, <2>1, Wider
<1>3. pod.containers[i].env \o a.env \in F /\ pod.pullSecrets \o a.pullSecrets \in F
  OBVIOUS
<1> HIDE DEF F
<1> QED
  BY <1>2, <1>3, ExtendedFacts

\* What a Pod consists of.
LEMMA PodFacts ==
    ASSUME NEW pod, IsPod(pod)
    PROVE /\ pod.volumes \in Seq(Words) /\ DOMAIN pod.containers = 1..Len(pod.containers)
          /\ Len(pod.containers) \in Nat
          /\ \A i \in 1..Len(pod.containers) : pod.containers[i].mounts \in Seq(MountRec)
<1>1. PICK E : pod \in PodRec(E)
  BY DEF IsPod
<1>2. pod.containers \in Seq(Container(E)) /\ pod.volumes \in Seq(Words)
  BY <1>1 DEF PodRec
<1>3. DOMAIN pod.containers = 1..Len(pod.containers) /\ Len(pod.containers) \in Nat
      /\ \A i \in 1..Len(pod.containers) : pod.containers[i] \in Container(E)
  BY <1>2
<1> QED BY <1>2, <1>3 DEF Container

\* Where mounts are, and whether they are in different places.
Places(ms) == {mount.path : mount \in Range(ms)}
Apart(ms)  == \A j, k \in DOMAIN ms : ms[j].path = ms[k].path => j = k

\* The elements of a sequence that is appended to another come after its own.
LEMMA JoinedAt ==
    ASSUME NEW S, NEW s \in Seq(S), NEW t \in Seq(S)
    PROVE  LET u == s \o t
               k == Len(s)
               l == Len(t)
           IN  /\ u \in Seq(S) /\ k \in Nat /\ l \in Nat
               /\ DOMAIN s = 1..k /\ DOMAIN t = 1..l /\ DOMAIN u = 1..(k + l)
               /\ \A j \in 1..k : j \in DOMAIN u /\ u[j] = s[j]
               /\ \A j \in 1..l : k + j \in DOMAIN u /\ u[k + j] = t[j]
               /\ \A j \in DOMAIN u : j \in 1..k \/ \E h \in 1..l : j = k + h
<1> DEFINE u == s \o t
           k == Len(s)
           l == Len(t)
<1>1. /\ u \in Seq(S) /\ k \in Nat /\ l \in Nat
      /\ DOMAIN s = 1..k /\ DOMAIN t = 1..l /\ DOMAIN u = 1..(k + l)
      /\ \A j \in 1..k : u[j] = s[j]
      /\ \A j \in 1..l : u[k + j] = t[j]
  OBVIOUS
<1> HIDE DEF u, k, l
<1>2. /\ \A j \in 1..k : j \in 1..(k + l)
      /\ \A j \in 1..l : k + j \in 1..(k + l)
  BY <1>1
<1>3. ASSUME NEW j \in 1..(k + l), j \notin 1..k PROVE \E h \in 1..l : j = k + h
  <2>1. j - k \in 1..l /\ j = k + (j - k)
    BY <1>1, <1>3
  <2> QED BY <2>1
<1> QED
  BY <1>1, <1>2, <1>3 DEF u, k, l

LEMMA JoinedRange ==
    ASSUME NEW S, NEW s \in Seq(S), NEW t \in Seq(S)
    PROVE  Range(s \o t) = Range(s) \cup Range(t)
<1> DEFINE u == s \o t
           k == Len(s)
           l == Len(t)
<1>1. /\ DOMAIN s = 1..k /\ DOMAIN t = 1..l
      /\ \A j \in 1..k : j \in DOMAIN u /\ u[j] = s[j]
      /\ \A j \in 1..l : k + j \in DOMAIN u /\ u[k + j] = t[j]
      /\ \A j \in DOMAIN u : j \in 1..k \/ \E h \in 1..l : j = k + h
  BY JoinedAt
<1> HIDE DEF u, k, l
<1>2. ASSUME NEW j \in DOMAIN u PROVE u[j] \in Range(s) \cup Range(t)
  BY <1>1, <1>2 DEF Range
<1>3. ASSUME NEW j \in 1..k PROVE s[j] \in Range(u)
  BY <1>1, <1>3 DEF Range
<1>4. ASSUME NEW j \in 1..l PROVE t[j] \in Range(u)
  <2>1. k + j \in DOMAIN u /\ u[k + j] = t[j]
    BY <1>1
  <2> QED BY <2>1 DEF Range
<1>5. Range(u) \subseteq Range(s) \cup Range(t)
  BY <1>2 DEF Range
<1>6. Range(s) \subseteq Range(u) /\ Range(t) \subseteq Range(u)
  BY <1>1, <1>3, <1>4 DEF Range
<1> QED
  BY <1>5, <1>6 DEF u

\* Different things appended to different ones.
LEMMA JoinedInjective ==
    ASSUME NEW S, NEW s \in Seq(S), NEW t \in Seq(S), IsInjective(s), IsInjective(t),
           Range(s) \cap Range(t) = {}
    PROVE  IsInjective(s \o t)
<1> DEFINE u == s \o t
           k == Len(s)
           l == Len(t)
<1>1. /\ DOMAIN s = 1..k /\ DOMAIN t = 1..l
      /\ \A j \in 1..k : j \in DOMAIN u /\ u[j] = s[j]
      /\ \A j \in 1..l : k + j \in DOMAIN u /\ u[k + j] = t[j]
      /\ \A j \in DOMAIN u : j \in 1..k \/ \E h \in 1..l : j = k + h
  BY JoinedAt
<1>2. \A g \in 1..k, h \in 1..l : s[g] # t[h]
  <2> HIDE DEF k, l
  <2> QED BY <1>1 DEF Range
<1> HIDE DEF u, k, l
<1>3. SUFFICES ASSUME NEW i \in DOMAIN u, NEW j \in DOMAIN u, u[i] = u[j] PROVE i = j
  BY DEF IsInjective, u
<1>4. CASE i \in 1..k /\ j \in 1..k
  BY <1>1, <1>3, <1>4 DEF IsInjective
<1>5. CASE i \in 1..k /\ j \notin 1..k
  BY <1>1, <1>2, <1>3, <1>5
<1>6. CASE i \notin 1..k /\ j \in 1..k
  BY <1>1, <1>2, <1>3, <1>6
<1>7. CASE i \notin 1..k /\ j \notin 1..k
  <2>1. PICK g \in 1..l : i = k + g
    BY <1>1, <1>7
  <2>2. PICK h \in 1..l : j = k + h
    BY <1>1, <1>7
  <2>3. t[g] = t[h]
    BY <1>1, <1>3, <2>1, <2>2
  <2>4. g = h
    BY <1>1, <2>3 DEF IsInjective
  <2> QED BY <2>1, <2>2, <2>4
<1> QED
  BY <1>4, <1>5, <1>6, <1>7

\* Mounts appended in other places.
LEMMA JoinedMounts ==
    ASSUME NEW s \in Seq(MountRec), NEW t \in Seq(MountRec), Apart(s), Apart(t),
           Places(s) \cap Places(t) = {}
    PROVE  Apart(s \o t)
<1> DEFINE u == s \o t
           k == Len(s)
           l == Len(t)
<1>1. /\ DOMAIN s = 1..k /\ DOMAIN t = 1..l
      /\ \A j \in 1..k : j \in DOMAIN u /\ u[j] = s[j]
      /\ \A j \in 1..l : k + j \in DOMAIN u /\ u[k + j] = t[j]
      /\ \A j \in DOMAIN u : j \in 1..k \/ \E h \in 1..l : j = k + h
  BY JoinedAt
<1>2. \A g \in 1..k, h \in 1..l : s[g].path # t[h].path
  <2> HIDE DEF k, l
  <2> SUFFICES ASSUME NEW g \in 1..k, NEW h \in 1..l PROVE s[g].path # t[h].path
    OBVIOUS
  <2>1. s[g] \in Range(s) /\ t[h] \in Range(t)
    BY <1>1 DEF Range
  <2>2. s[g].path \in Places(s) /\ t[h].path \in Places(t)
    BY <2>1 DEF Places
  <2> QED BY <2>2
<1> HIDE DEF u, k, l
<1>3. SUFFICES ASSUME NEW i \in DOMAIN u, NEW j \in DOMAIN u, u[i].path = u[j].path PROVE i = j
  BY DEF Apart, u
<1>4. CASE i \in 1..k /\ j \in 1..k
  BY <1>1, <1>3, <1>4 DEF Apart
<1>5. CASE i \in 1..k /\ j \notin 1..k
  BY <1>1, <1>2, <1>3, <1>5
<1>6. CASE i \notin 1..k /\ j \in 1..k
  BY <1>1, <1>2, <1>3, <1>6
<1>7. CASE i \notin 1..k /\ j \notin 1..k
  <2>1. PICK g \in 1..l : i = k + g
    BY <1>1, <1>7
  <2>2. PICK h \in 1..l : j = k + h
    BY <1>1, <1>7
  <2>3. t[g].path = t[h].path
    BY <1>1, <1>3, <2>1, <2>2
  <2>4. g = h
    BY <1>1, <2>3 DEF Apart
  <2> QED BY <2>1, <2>2, <2>4
<1> QED
  BY <1>4, <1>5, <1>6, <1>7

\* ValidPod, container by container.
Proper(ms, V) == Apart(ms) /\ \A mount \in Range(ms) : mount.volume \in V

LEMMA ValidParts ==
    ASSUME NEW pod
    PROVE  ValidPod(pod) <=>
             /\ IsInjective(pod.volumes)
             /\ \A i \in DOMAIN pod.containers :
                    Proper(pod.containers[i].mounts, Range(pod.volumes))
BY DEF ValidPod, Proper, Apart, Range

\* Volumes and mounts that go with these: other names, other places, and mounts of
\* the new volumes only.
Fits(vs, ms, V, P) ==
    /\ IsInjective(vs) /\ Range(vs) \cap V = {}
    /\ Proper(ms, Range(vs)) /\ Places(ms) \cap P = {}

\* What Extended does to volumes and mounts, as sets.
LEMMA GrownParts ==
    ASSUME NEW pod, IsPod(pod), NEW a, NEW vs, NEW ms, Brings(a, vs, ms),
           NEW i \in 1..Len(pod.containers)
    PROVE  LET q == Extended(pod, i, a)
               s == pod.containers[i].mounts
               t == q.containers[i].mounts
           IN  /\ Longer(q, pod, i, vs, ms)
               /\ Range(q.volumes) = Range(pod.volumes) \cup Range(vs)
               /\ Range(t) = Range(s) \cup Range(ms)
               /\ Places(t) = Places(s) \cup Places(ms)
<1> DEFINE q == Extended(pod, i, a)
           s == pod.containers[i].mounts
           t == q.containers[i].mounts
<1>1. Longer(q, pod, i, vs, ms)
  BY ExtendedPod
<1> HIDE DEF q
<1>2. q.volumes = pod.volumes \o vs /\ t = s \o ms
  BY <1>1 DEF Longer
<1>3. /\ pod.volumes \in Seq(Words) /\ vs \in Seq(Words)
      /\ s \in Seq(MountRec) /\ ms \in Seq(MountRec)
  BY PodFacts DEF Brings
<1> HIDE DEF s, t
<1>4. Range(q.volumes) = Range(pod.volumes) \cup Range(vs)
  BY <1>2, <1>3, JoinedRange
<1>5. Range(t) = Range(s) \cup Range(ms)
  BY <1>2, <1>3, JoinedRange
<1>6. Places(t) = Places(s) \cup Places(ms)
  BY <1>5 DEF Places
<1> QED
  BY <1>1, <1>4, <1>5, <1>6 DEF q, s, t

\* A valid Pod stays valid when volumes and mounts are added that fit
\* (applyToPodSpec and the patches append without looking).
LEMMA GrownValid ==
    ASSUME NEW pod, IsPod(pod), ValidPod(pod), NEW a, NEW vs, NEW ms, Brings(a, vs, ms),
           NEW i \in 1..Len(pod.containers),
           Fits(vs, ms, Range(pod.volumes), Places(pod.containers[i].mounts))
    PROVE  ValidPod(Extended(pod, i, a))
<1> DEFINE q == Extended(pod, i, a)
           s == pod.containers[i].mounts
           t == q.containers[i].mounts
           V == Range(pod.volumes)
           W == Range(q.volumes)
<1>1. /\ Longer(q, pod, i, vs, ms) /\ W = V \cup Range(vs)
      /\ Range(t) = Range(s) \cup Range(ms)
  BY GrownParts
<1>2. /\ pod.volumes \in Seq(Words) /\ vs \in Seq(Words)
      /\ s \in Seq(MountRec) /\ ms \in Seq(MountRec)
      /\ DOMAIN pod.containers = 1..Len(pod.containers)
  BY PodFacts DEF Brings
<1> HIDE DEF q
<1>3. /\ IsPod(q) /\ Len(q.containers) = Len(pod.containers)
      /\ q.volumes = pod.volumes \o vs /\ t = s \o ms
      /\ \A j \in 1..Len(pod.containers) : j # i => q.containers[j] = pod.containers[j]
  BY <1>1 DEF Longer
<1>4. DOMAIN q.containers = DOMAIN pod.containers
  BY <1>2, <1>3, PodFacts
<1>5. IsInjective(pod.volumes) /\ \A j \in DOMAIN pod.containers : Proper(pod.containers[j].mounts, V)
  BY ValidParts
<1>6. Proper(s, V)
  BY <1>2, <1>5
<1>7. /\ IsInjective(vs) /\ V \cap Range(vs) = {} /\ Proper(ms, Range(vs))
      /\ Places(s) \cap Places(ms) = {}
  BY DEF Fits
<1>8. IsInjective(q.volumes)
  <2> HIDE DEF s, t
  <2> QED BY <1>2, <1>3, <1>5, <1>7, JoinedInjective
<1> HIDE DEF V, W, s
<1>9. Proper(t, W)
  <2> HIDE DEF t
  <2>1. Apart(t)
    BY <1>2, <1>3, <1>6, <1>7, JoinedMounts DEF Proper
  <2> QED BY <1>1, <1>6, <1>7, <2>1 DEF Proper
<1>10. ASSUME NEW j \in DOMAIN q.containers PROVE Proper(q.containers[j].mounts, W)
  <2>1. CASE j = i
    BY <1>9, <2>1
  <2>2. CASE j # i
    BY <1>1, <1>2, <1>3, <1>4, <1>5, <1>10, <2>2 DEF Proper
  <2> QED BY <2>1, <2>2
<1> QED
  BY <1>8, <1>10, ValidParts DEF q, W

\* Nothing stands in the way of a valid Pod for m.
Clear(m) == ~SecretTwice(m) /\ ~FileInTheWay(m)

\* The Pod with these added to the server.
ServerWith(pod, a) == Extended(pod, 1, a)

\* The mounts of the server.
Mounts(pod) == Range(pod.containers[1].mounts)

\* A Pod with a server that has these load and arguments.  It is valid, and there are
\* no other volumes, and mounts of the server in no other places than these, if
\* nothing stands in the way.
Built(pod, m, V, P, load, args) ==
    /\ IsPod(pod) /\ 1 \in 1..Len(pod.containers)
    /\ pod.containers[1].load = load /\ pod.containers[1].args = args
    /\ Clear(m) => /\ ValidPod(pod) /\ Range(pod.volumes) \subseteq V
                   /\ Places(pod.containers[1].mounts) \subseteq P

\* The bounds may be raised.
LEMMA BuiltWider ==
    ASSUME NEW pod, NEW m, NEW V, NEW P, NEW W, NEW Q, NEW load, NEW args,
           Built(pod, m, V, P, load, args), V \subseteq W, P \subseteq Q
    PROVE  Built(pod, m, W, Q, load, args)
BY DEF Built

\* What fits with much fits with less.
LEMMA FitsLess ==
    ASSUME NEW vs, NEW ms, NEW V, NEW P, NEW W, NEW Q, Fits(vs, ms, V, P),
           W \subseteq V, Q \subseteq P
    PROVE  Fits(vs, ms, W, Q)
BY DEF Fits

\* Volumes and mounts are added to the server: what was mounted stays mounted, and
\* the Pod stays valid if they fit.
LEMMA BuiltGrown ==
    ASSUME NEW pod, NEW m, NEW V, NEW P, NEW load, NEW args, Built(pod, m, V, P, load, args),
           NEW a, NEW vs, NEW ms, Brings(a, vs, ms), Clear(m) => Fits(vs, ms, V, P)
    PROVE  LET q == ServerWith(pod, a)
           IN  /\ Built(q, m, V \cup Range(vs), P \cup Places(ms), load, args)
               /\ Mounts(q) = Mounts(pod) \cup Range(ms)
               /\ Len(q.containers) = Len(pod.containers)
               /\ Range(vs) \subseteq Range(q.volumes)
<1> DEFINE i == 1
           q == Extended(pod, i, a)
<1>1. /\ IsPod(pod) /\ i \in 1..Len(pod.containers)
      /\ pod.containers[i].load = load /\ pod.containers[i].args = args
      /\ Clear(m) => /\ ValidPod(pod) /\ Range(pod.volumes) \subseteq V
                     /\ Places(pod.containers[i].mounts) \subseteq P
  BY DEF Built
<1> HIDE DEF i
<1>2. /\ Longer(q, pod, i, vs, ms)
      /\ Range(q.volumes) = Range(pod.volumes) \cup Range(vs)
      /\ Range(q.containers[i].mounts) = Range(pod.containers[i].mounts) \cup Range(ms)
      /\ Places(q.containers[i].mounts) = Places(pod.containers[i].mounts) \cup Places(ms)
  BY <1>1, GrownParts
<1>3. ASSUME Clear(m) PROVE ValidPod(q)
  <2>1. Fits(vs, ms, Range(pod.volumes), Places(pod.containers[i].mounts))
    BY <1>1, <1>3, FitsLess
  <2> HIDE DEF q
  <2> QED BY <1>1, <1>3, <2>1, GrownValid DEF q
<1> HIDE DEF q
<1>4. /\ IsPod(q) /\ Len(q.containers) = Len(pod.containers)
      /\ q.containers[i].load = load /\ q.containers[i].args = args
  BY <1>1, <1>2 DEF Longer
<1>5. Clear(m) => /\ ValidPod(q) /\ Range(q.volumes) \subseteq V \cup Range(vs)
                  /\ Places(q.containers[i].mounts) \subseteq P \cup Places(ms)
  BY <1>1, <1>2, <1>3
<1>6. i \in 1..Len(q.containers)
  BY <1>1, <1>4
<1>7. Built(q, m, V \cup Range(vs), P \cup Places(ms), load, args)
  BY <1>4, <1>5, <1>6 DEF Built, i
<1> QED
  BY <1>2, <1>4, <1>7 DEF q, i, Mounts, ServerWith

\* Volumes and mounts are added to the container beside the server.
LEMMA BuiltBeside ==
    ASSUME NEW pod, NEW m, NEW V, NEW P, NEW load, NEW args, Built(pod, m, V, P, load, args),
           Len(pod.containers) = 2, NEW a, NEW vs, NEW ms, Brings(a, vs, ms),
           Clear(m) => Fits(vs, ms, V, Places(pod.containers[2].mounts))
    PROVE  Built(Extended(pod, 2, a), m, V \cup Range(vs), P, load, args)
<1> DEFINE i == 2
           j == 1
           q == Extended(pod, i, a)
<1>1. /\ IsPod(pod) /\ i \in 1..Len(pod.containers) /\ j \in 1..Len(pod.containers) /\ j # i
      /\ pod.containers[j].load = load /\ pod.containers[j].args = args
      /\ Clear(m) => /\ ValidPod(pod) /\ Range(pod.volumes) \subseteq V
                     /\ Places(pod.containers[j].mounts) \subseteq P
      /\ Clear(m) => Fits(vs, ms, V, Places(pod.containers[i].mounts))
  BY DEF Built
<1> HIDE DEF i, j
<1>2. Longer(q, pod, i, vs, ms) /\ Range(q.volumes) = Range(pod.volumes) \cup Range(vs)
  <2>1. IsPod(pod) /\ i \in 1..Len(pod.containers)
    BY <1>1
  <2> QED BY <2>1, GrownParts
<1>3. ASSUME Clear(m) PROVE ValidPod(q)
  <2>1. Fits(vs, ms, Range(pod.volumes), Places(pod.containers[i].mounts))
    BY <1>1, <1>3, FitsLess
  <2> HIDE DEF q
  <2> QED BY <1>1, <1>3, <2>1, GrownValid DEF q
<1> HIDE DEF q
<1>4. /\ IsPod(q) /\ Len(q.containers) = Len(pod.containers)
      /\ q.containers[j] = pod.containers[j]
  BY <1>1, <1>2 DEF Longer
<1>5. j \in 1..Len(q.containers)
  BY <1>1, <1>4
<1>6. Built(q, m, V \cup Range(vs), P, load, args)
  BY <1>1, <1>2, <1>3, <1>4, <1>5 DEF Built, j
<1> QED BY <1>6 DEF q, i

\* A second element after the first.
LEMMA TwoOf ==
    ASSUME NEW S, NEW s \in Seq(S), Len(s) = 1, NEW x \in S
    PROVE LET t == Append(s, x) IN
       t \in Seq(S) /\ Len(t) = 2 /\ DOMAIN t = 1..2 /\ t[1] = s[1] /\ t[2] = x
<1> DEFINE n == Len(s)
<1>1. Append(s, x) \in Seq(S) /\ Len(Append(s, x)) = n + 1 /\ Append(s, x)[n + 1] = x
      /\ \A j \in 1..n : Append(s, x)[j] = s[j]
  OBVIOUS
<1>2. DOMAIN Append(s, x) = 1..Len(Append(s, x))
  BY <1>1
<1>3. n = 1
  OBVIOUS
<1> HIDE DEF n
<1> QED BY <1>1, <1>2, <1>3

\* A sequence of one element.
LEMMA OneOf ==
    ASSUME NEW S, NEW x \in S
    PROVE LET t == <<x>> IN
       t \in Seq(S) /\ Len(t) = 1 /\ DOMAIN t = {1} /\ t[1] = x /\ Range(t) = {x} /\ IsInjective(t)
    BY DEF Range, IsInjective

\* A container is added that mounts volumes the Pod has.
LEMMA BuiltWith ==
    ASSUME NEW pod, NEW m, NEW V, NEW P, NEW load, NEW args, Built(pod, m, V, P, load, args),
           Len(pod.containers) = 1, NEW E, NEW c \in Container(E),
           Proper(c.mounts, Range(pod.volumes))
    PROVE  LET q == WithContainer(pod, c)
           IN  /\ Built(q, m, V, P, load, args) /\ Mounts(q) = Mounts(pod)
               /\ Len(q.containers) = 2 /\ q.containers[2] = c
<1> DEFINE q == WithContainer(pod, c)
           s == pod.containers[1]
<1>0. /\ IsPod(pod) /\ 1 \in 1..Len(pod.containers)
      /\ s.load = load /\ s.args = args
      /\ Clear(m) => /\ ValidPod(pod) /\ Range(pod.volumes) \subseteq V
                     /\ Places(s.mounts) \subseteq P
  BY DEF Built
<1>1. PICK F : pod \in PodRec(F)
  BY <1>0 DEF IsPod
<1> DEFINE G == E \cup F
<1>2. pod \in PodRec(G) /\ c \in Container(G)
  <2>1. F \subseteq G /\ E \subseteq G
    OBVIOUS
  <2> HIDE DEF G
  <2>2. Container(E) \subseteq Container(G)
    BY <2>1 DEF Container
  <2> QED BY <1>1, <2>1, <2>2, Wider
<1> HIDE DEF G
<1>3. /\ q.containers = Append(pod.containers, c) /\ q.volumes = pod.volumes
      /\ q.pullSecrets = pod.pullSecrets /\ q.patches = pod.patches
      /\ q = [containers |-> q.containers, volumes |-> q.volumes,
              pullSecrets |-> q.pullSecrets, patches |-> q.patches]
  BY DEF WithContainer
<1> HIDE DEF q
<1>4. pod.containers \in Seq(Container(G)) /\ pod.volumes \in Seq(Words)
      /\ pod.pullSecrets \in G /\ pod.patches \in G
  BY <1>2 DEF PodRec
<1>5. /\ q.containers \in Seq(Container(G)) /\ Len(q.containers) = 2
      /\ DOMAIN q.containers = 1..2
      /\ q.containers[1] = s /\ q.containers[2] = c
  <2>1. Len(pod.containers) = 1
    OBVIOUS
  <2> QED BY <1>2, <1>3, <1>4, <2>1, TwoOf
<1>6. IsPod(q)
  <2>1. q \in PodRec(G)
    BY <1>3, <1>4, <1>5 DEF PodRec
  <2> QED BY <2>1 DEF IsPod
<1>7. ASSUME Clear(m) PROVE ValidPod(q)
  <2>1. IsInjective(pod.volumes) /\ \A i \in DOMAIN pod.containers :
            Proper(pod.containers[i].mounts, Range(pod.volumes))
    BY <1>0, <1>7, ValidParts
  <2>2. 1 \in DOMAIN pod.containers
    BY <1>0, PodFacts
  <2>3. Proper(s.mounts, Range(q.volumes)) /\ Proper(c.mounts, Range(q.volumes))
    BY <1>3, <2>1, <2>2
  <2>4. \A i \in DOMAIN q.containers : q.containers[i] = s \/ q.containers[i] = c
    BY <1>5
  <2> HIDE DEF s
  <2>5. \A i \in DOMAIN q.containers : Proper(q.containers[i].mounts, Range(q.volumes))
    BY <2>3, <2>4
  <2> QED BY <1>3, <2>1, <2>5, ValidParts
<1>8. Built(q, m, V, P, load, args)
  BY <1>0, <1>3, <1>5, <1>6, <1>7 DEF Built
<1> QED BY <1>5, <1>8 DEF q, Mounts

\* The parts of a mount.
LEMMA MountFacts ==
    ASSUME NEW v \in Words, NEW p \in Words
    PROVE  Mount(v, p) \in MountRec /\ Mount(v, p).volume = v /\ Mount(v, p).path = p
BY DEF Mount, MountRec

\* One volume that is mounted in one place.
LEMMA OneMount ==
    ASSUME NEW v \in Words, NEW p \in Words, NEW vs, NEW ms, vs = <<v>>, ms = <<Mount(v, p)>>
    PROVE  /\ vs \in Seq(Words) /\ ms \in Seq(MountRec)
           /\ Range(vs) = {v} /\ Range(ms) = {Mount(v, p)} /\ Places(ms) = {p}
           /\ Apart(ms) /\ IsInjective(vs)
           /\ \A V : v \in V => Proper(ms, V)
           /\ \A V, P : v \notin V /\ p \notin P => Fits(vs, ms, V, P)
<1> DEFINE x == Mount(v, p)
<1>1. x \in MountRec /\ x.volume = v /\ x.path = p
  BY MountFacts
<1> HIDE DEF x
<1>2. /\ vs \in Seq(Words) /\ Range(vs) = {v} /\ IsInjective(vs)
      /\ ms \in Seq(MountRec) /\ Range(ms) = {x} /\ DOMAIN ms = {1}
  BY <1>1, OneOf DEF x
<1>3. Places(ms) = {p}
  BY <1>1, <1>2 DEF Places
<1>4. Apart(ms)
  BY <1>2 DEF Apart
<1>5. \A V : v \in V => Proper(ms, V)
  BY <1>1, <1>2, <1>4 DEF Proper
<1>6. \A V, P : v \notin V /\ p \notin P => Fits(vs, ms, V, P)
  BY <1>2, <1>3, <1>5 DEF Fits
<1> QED
  BY <1>2, <1>3, <1>4, <1>5, <1>6 DEF x

\* The Pod all engines start from.
LEMMA BaseBuilt ==
    ASSUME NEW m, NEW load, NEW args, NEW env, NEW startup
    PROVE  LET q == BasePod(load, args, env, startup)
           IN  Built(q, m, {"dshm"}, {"/dev/shm"}, load, args) /\ Len(q.containers) = 1
<1> DEFINE q == BasePod(load, args, env, startup)
           v == "dshm"
           p == "/dev/shm"
           n == "server"
           F == {n, load, args, env, startup, PullSecrets, {}}
           vs == <<v>>
           ms == <<Mount(v, p)>>
           s == [name |-> n, load |-> load, args |-> args, env |-> env,
                 mounts |-> ms, startup |-> startup]
<1>1. /\ q.containers = <<s>> /\ q.volumes = vs /\ q.pullSecrets = PullSecrets
      /\ q.patches = {} /\ q = [containers |-> q.containers, volumes |-> q.volumes,
              pullSecrets |-> q.pullSecrets, patches |-> q.patches]
  BY DEF BasePod
<1>2. n \in F /\ load \in F /\ args \in F /\ env \in F /\ startup \in F /\ PullSecrets \in F /\ {} \in F
  <2> HIDE DEF n
  <2> QED OBVIOUS
<1>3. v \in Words /\ p \in Words
  BY DEF Words
<1> HIDE DEF v, p, n, F
<1>4. /\ vs \in Seq(Words) /\ Range(vs) = {v} /\ IsInjective(vs)
      /\ ms \in Seq(MountRec) /\ Places(ms) = {p} /\ Proper(ms, {v})
  BY <1>3, OneMount
<1> HIDE DEF vs, ms
<1>5. s.mounts = ms /\ s.load = load /\ s.args = args
  OBVIOUS
<1>6. s \in Container(F)
  BY <1>2, <1>4 DEF Container
<1> HIDE DEF q, s
<1>7. DOMAIN q.containers = {1} /\ q.containers[1] = s /\ Len(q.containers) = 1
      /\ q.containers \in Seq(Container(F))
  BY <1>1, <1>6, OneOf
<1>8. IsPod(q)
  <2>1. q \in PodRec(F)
    BY <1>1, <1>2, <1>4, <1>7 DEF PodRec
  <2> QED BY <2>1 DEF IsPod
<1>9. ValidPod(q)
  BY <1>1, <1>4, <1>5, <1>7, ValidParts
<1>10. Built(q, m, {v}, {p}, load, args)
  BY <1>1, <1>4, <1>5, <1>7, <1>8, <1>9 DEF Built
<1> QED BY <1>7, <1>10 DEF q, v, p

\* A patch, or a source, adds one volume and mounts it into the server.
LEMMA MountedBuilt ==
    ASSUME NEW pod, NEW m, NEW V, NEW P, NEW load, NEW args, Built(pod, m, V, P, load, args),
           NEW v \in Words, NEW p \in Words, NEW a, Brings(a, <<v>>, <<Mount(v, p)>>),
           NEW W, NEW Q, V \subseteq W, v \in W, P \subseteq Q, p \in Q,
           Clear(m) => v \notin V /\ p \notin P
    PROVE  LET q == ServerWith(pod, a)
           IN  /\ Built(q, m, W, Q, load, args)
               /\ Mount(v, p) \in Mounts(q) /\ Mounts(pod) \subseteq Mounts(q)
               /\ Len(q.containers) = Len(pod.containers) /\ v \in Range(q.volumes)
<1> DEFINE vs == <<v>>
           ms == <<Mount(v, p)>>
           q == ServerWith(pod, a)
<1>1. /\ Range(vs) = {v} /\ Range(ms) = {Mount(v, p)} /\ Places(ms) = {p}
      /\ \A U, R : v \notin U /\ p \notin R => Fits(vs, ms, U, R)
  BY OneMount
<1>2. Brings(a, vs, ms)
  OBVIOUS
<1> HIDE DEF vs, ms
<1>3. Clear(m) => Fits(vs, ms, V, P)
  BY <1>1
<1> DEFINE U == V \cup Range(vs)
           R == P \cup Places(ms)
<1>4. /\ Built(q, m, U, R, load, args)
      /\ Mounts(q) = Mounts(pod) \cup Range(ms)
      /\ Len(q.containers) = Len(pod.containers)
      /\ Range(vs) \subseteq Range(q.volumes)
  BY <1>2, <1>3, BuiltGrown
<1>5. U \subseteq W /\ R \subseteq Q
  BY <1>1
<1> HIDE DEF q, U, R
<1>6. Built(q, m, W, Q, load, args)
  BY <1>4, <1>5, BuiltWider
<1> QED BY <1>1, <1>4, <1>6 DEF q

\* The additions of the patches.
LEMMA MountedFacts ==
    ASSUME NEW v \in Words, NEW p \in Words
    PROVE  Brings(Mounted(v, p), <<v>>, <<Mount(v, p)>>)
<1> DEFINE vs == <<v>>
           ms == <<Mount(v, p)>>
<1>1. Mounted(v, p).volumes = vs /\ Mounted(v, p).mounts = ms
  BY DEF Mounted, Additions
<1>2. vs \in Seq(Words) /\ ms \in Seq(MountRec)
  BY OneMount
<1> HIDE DEF vs, ms
<1>3. Brings(Mounted(v, p), vs, ms)
  BY <1>1, <1>2 DEF Brings
<1> QED BY <1>3 DEF vs, ms

\* The volumes, and the places of the server's mounts, there may be after each patch.
WithFiles == {"dshm", "model-files"}
FilePaths(m) == {"/dev/shm"} \cup Range(m.files)
AdapterVolumes(m) ==
    {"dshm", "model-files", "adapters"} \cup (IF m.adapters THEN {"gcp-credentials"} ELSE {})
AdapterPaths(m) == FilePaths(m) \cup (IF m.adapters THEN {"/adapters"} ELSE {})
CacheVolumes(m) == AdapterVolumes(m) \cup {"models"}
CachePaths(m) == AdapterPaths(m) \cup (IF m.cached THEN {"cacheDir"} ELSE {})

\* Files are listed once, at paths.
LEMMA FilesFacts ==
    ASSUME NEW m \in Model
    PROVE  m.files \in Seq(UserPaths) /\ IsInjective(m.files)
<1>1. m.files \in FileLists
  BY DEF Model
<1>2. PICK S \in SUBSET UserPaths : m.files \in Iterations(S)
  BY <1>1 DEF FileLists
<1>3. Cardinality(S) \in Nat
  BY PodSpecAssumption, FS_Subset, FS_CardinalityType
<1>4. m.files \in [1..Cardinality(S) -> S] /\ IsInjective(m.files)
  BY <1>2 DEF Iterations
<1>5. m.files \in Seq(S)
  BY <1>3, <1>4
<1>6. m.files \in Seq(UserPaths)
  BY <1>5, SeqSub
<1> QED BY <1>4, <1>6

\* patchFileVolumes: one volume, and a mount for each file.
LEMMA FilesBuilt ==
    ASSUME NEW m \in Model, NEW pod, NEW load, NEW args,
           Built(pod, m, {"dshm"}, {"/dev/shm"}, load, args)
    PROVE  LET q == patchFileVolumes(pod, m)
           IN  /\ Built(q, m, WithFiles, FilePaths(m), load, args)
               /\ Len(q.containers) = Len(pod.containers)
<1> DEFINE v == "model-files"
           V == {"dshm"}
           P == {"/dev/shm"}
           vs == <<v>>
           ms == [j \in DOMAIN m.files |-> Mount(v, m.files[j])]
           a == Additions(<<>>, vs, ms, <<>>)
           q == ServerWith(pod, a)
<1>1. m.files \in Seq(UserPaths) /\ IsInjective(m.files)
  BY FilesFacts
<1>2. v \in Words /\ UserPaths \subseteq Words /\ v \notin V
  BY DEF Words
<1>3. /\ V \cup {v} \subseteq WithFiles /\ P \cup Range(m.files) \subseteq FilePaths(m)
      /\ Clear(m) => P \cap Range(m.files) = {}
  BY DEF WithFiles, FilePaths, Clear, FileInTheWay, Taken
<1>4. patchFileVolumes(pod, m) = IF m.files = <<>> THEN pod ELSE q
  BY DEF patchFileVolumes, ServerWith
<1>5. a.volumes = vs /\ a.mounts = ms
  BY DEF Additions
<1> HIDE DEF v, V, P, a
<1>6. \A j \in DOMAIN m.files : /\ m.files[j] \in Words /\ Mount(v, m.files[j]) \in MountRec
                                /\ Mount(v, m.files[j]).volume = v
                                /\ Mount(v, m.files[j]).path = m.files[j]
  <2>1. \A j \in DOMAIN m.files : m.files[j] \in UserPaths
    BY <1>1
  <2> QED BY <1>2, <2>1, MountFacts
<1>7. ms \in Seq(MountRec) /\ DOMAIN ms = DOMAIN m.files
  <2>1. DOMAIN m.files = 1..Len(m.files) /\ Len(m.files) \in Nat
    BY <1>1
  <2> QED BY <1>6, <2>1
<1>8. \A j \in DOMAIN ms : ms[j].volume = v /\ ms[j].path = m.files[j]
  BY <1>6
<1>9. vs \in Seq(Words) /\ Range(vs) = {v} /\ IsInjective(vs)
  BY <1>2, OneOf
<1> HIDE DEF vs, ms
<1>10. Places(ms) = Range(m.files)
  BY <1>7, <1>8 DEF Places, Range
<1>11. Proper(ms, Range(vs))
  <2>1. Apart(ms)
    BY <1>1, <1>7, <1>8 DEF Apart, IsInjective
  <2> QED BY <1>8, <1>9, <2>1 DEF Proper, Range
<1>12. Clear(m) => Fits(vs, ms, V, P)
  BY <1>2, <1>3, <1>9, <1>10, <1>11 DEF Fits
<1>13. Brings(a, vs, ms)
  BY <1>5, <1>7, <1>9 DEF Brings
<1>14. Built(pod, m, V, P, load, args)
  BY DEF V, P
<1>15. V \cup Range(vs) \subseteq WithFiles /\ P \cup Places(ms) \subseteq FilePaths(m)
  BY <1>3, <1>9, <1>10
<1>16. /\ Built(q, m, WithFiles, FilePaths(m), load, args)
       /\ Len(q.containers) = Len(pod.containers)
  <2> DEFINE U == V \cup Range(vs)
             R == P \cup Places(ms)
  <2>1. /\ Built(q, m, U, R, load, args)
        /\ Mounts(q) = Mounts(pod) \cup Range(ms)
        /\ Len(q.containers) = Len(pod.containers)
        /\ Range(vs) \subseteq Range(q.volumes)
    BY <1>12, <1>13, <1>14, BuiltGrown
  <2> HIDE DEF q, U, R
  <2>2. U \subseteq WithFiles /\ R \subseteq FilePaths(m)
    BY <1>15 DEF U, R
  <2> QED BY <2>1, <2>2, BuiltWider
<1>17. Built(pod, m, WithFiles, FilePaths(m), load, args)
  BY <1>3, <1>14, BuiltWider
<1> HIDE DEF q
<1> QED BY <1>4, <1>16, <1>17

\* Nothing appended, before or after.
LEMMA EmptyParts ==
    ASSUME NEW S, NEW s \in Seq(S)
    PROVE  s \o <<>> = s /\ <<>> \o s = s
OBVIOUS

\* The credentials for Google Cloud come with a volume and a mount, alone and among
\* the credentials of all sources.
LEMMA SecretMounted ==
    LET v == "gcp-credentials"
        p == "/secrets/gcp-credentials"
    IN  /\ Brings(authForGCS, <<v>>, <<Mount(v, p)>>)
        /\ Brings(modelAuthCredentialsForAllSources, <<v>>, <<Mount(v, p)>>)
<1> DEFINE v == "gcp-credentials"
           p == "/secrets/gcp-credentials"
           vs == <<v>>
           ms == <<Mount(v, p)>>
           e == <<>>
<1>1. v \in Words /\ p \in Words
  BY DEF Words
<1>2. authForGCS.volumes = vs /\ authForGCS.mounts = ms
  BY DEF authForGCS, Additions
<1>3. /\ modelAuthCredentialsForAllSources.volumes = ((e \o vs) \o e) \o e
      /\ modelAuthCredentialsForAllSources.mounts = ((e \o ms) \o e) \o e
  BY DEF modelAuthCredentialsForAllSources, authForHuggingfaceHub, authForGCS,
         authForOSS, authForS3, Joined, Additions
<1> HIDE DEF v, p
<1>4. vs \in Seq(Words) /\ ms \in Seq(MountRec)
  BY <1>1, OneMount
<1> HIDE DEF vs, ms
<1>5. ((e \o vs) \o e) \o e = vs /\ ((e \o ms) \o e) \o e = ms
  BY <1>4, EmptyParts
<1>6. Brings(authForGCS, vs, ms) /\ Brings(modelAuthCredentialsForAllSources, vs, ms)
  BY <1>2, <1>3, <1>4, <1>5 DEF Brings
<1> QED BY <1>6 DEF v, p, vs, ms

\* patchServerAdapterLoader: the credentials of all sources bring a volume into the
\* Pod.
LEMMA AdaptersBuilt ==
    ASSUME NEW pod, NEW load, NEW args, NEW m, NEW order,
           Built(pod, m, WithFiles, FilePaths(m), load, args), Len(pod.containers) = 1
    PROVE  Built(patchServerAdapterLoader(pod, m, order), m, AdapterVolumes(m), AdapterPaths(m),
                 load, args)
<1>1. CASE ~m.adapters
  <2>1. patchServerAdapterLoader(pod, m, order) = pod
    BY <1>1 DEF patchServerAdapterLoader
  <2>2. WithFiles \subseteq AdapterVolumes(m) /\ FilePaths(m) \subseteq AdapterPaths(m)
    BY DEF WithFiles, AdapterVolumes, AdapterPaths
  <2> QED BY <2>1, <2>2, BuiltWider
<1>2. CASE m.adapters
  <2> DEFINE v == "adapters"
             p == "/adapters"
             g == "gcp-credentials"
             s == "/secrets/gcp-credentials"
             a == modelAuthCredentialsForAllSources
             W == {"dshm", "model-files", "adapters"}
             n == "loader"
             o == "nothing"
             x == ServerWith(pod, Mounted(v, p))
             ms == <<Mount(v, p)>>
             c == [name |-> n, load |-> o, args |-> <<>>, env |-> EnvOf(order),
                   mounts |-> ms, startup |-> <<>>]
             E == {n, o, <<>>, EnvOf(order)}
             y == WithContainer(x, c)
             q == Extended(y, 2, a)
             vs == <<g>>
             ss == <<Mount(g, s)>>
  <2>1. patchServerAdapterLoader(pod, m, order) = q
    BY <1>2 DEF patchServerAdapterLoader, applyToPodSpec, ServerWith
  <2>2. /\ v \in Words /\ p \in Words /\ g \in Words /\ s \in Words
        /\ v \notin WithFiles /\ WithFiles \subseteq W /\ v \in W
        /\ Clear(m) => p \notin FilePaths(m)
        /\ FilePaths(m) \subseteq AdapterPaths(m) /\ p \in AdapterPaths(m) /\ g \notin W /\ s # p
        /\ W \subseteq AdapterVolumes(m) /\ g \in AdapterVolumes(m)
    BY <1>2 DEF WithFiles, FilePaths, AdapterVolumes, AdapterPaths, Words, Clear, FileInTheWay,
                Taken
  <2>3. Brings(a, vs, ss)
    BY SecretMounted
  <2>4. n \in E /\ o \in E /\ <<>> \in E /\ EnvOf(order) \in E
    <3> HIDE DEF n, o
    <3> QED OBVIOUS
  <2> HIDE DEF v, p, g, s, a, W, n, o, E, x
  <2>5. Built(x, m, W, AdapterPaths(m), load, args) /\ Len(x.containers) = 1 /\ v \in Range(x.volumes)
    <3>1. Brings(Mounted(v, p), <<v>>, <<Mount(v, p)>>)
      BY <2>2, MountedFacts
    <3>2. Clear(m) => v \notin WithFiles /\ p \notin FilePaths(m)
      BY <2>2
    <3> DEFINE b == Mounted(v, p)
    <3> HIDE DEF b
    <3> QED BY <2>2, <3>1, <3>2, MountedBuilt DEF x, b
  <2>6. ms \in Seq(MountRec) /\ Places(ms) = {p} /\ Proper(ms, Range(x.volumes))
      <3>1. /\ ms \in Seq(MountRec) /\ Places(ms) = {p}
          /\ \A U : v \in U => Proper(ms, U)
      <4> USE DEF ms
      <4>1. ms = <<Mount(v, p)>>
        OBVIOUS
      <4> DEFINE us == <<v>>
      <4>2. us = <<v>>
        OBVIOUS
      <4> HIDE DEF ms, us
      <4> QED BY <2>2, <4>1, <4>2, OneMount
    <3> HIDE DEF ms
    <3> QED BY <2>5, <3>1
  <2>7. /\ vs \in Seq(Words) /\ Range(vs) = {g}
        /\ \A V, P : g \notin V /\ s \notin P => Fits(vs, ss, V, P)
    BY <2>2, OneMount
  <2> HIDE DEF ms, vs, ss
  <2>8. c \in Container(E) /\ c.mounts = ms
    BY <2>4, <2>6 DEF Container
  <2> HIDE DEF c, y, q
  <2>9. Built(y, m, W, AdapterPaths(m), load, args) /\ Len(y.containers) = 2 /\ y.containers[2] = c
    BY <2>5, <2>6, <2>8, BuiltWith DEF y
  <2>10. Fits(vs, ss, W, Places(y.containers[2].mounts)) /\ W \cup Range(vs) \subseteq AdapterVolumes(m)
    BY <2>2, <2>6, <2>7, <2>8, <2>9
  <2> DEFINE U == W \cup Range(vs)
  <2>11. Built(q, m, U, AdapterPaths(m), load, args)
    BY <2>3, <2>9, <2>10, BuiltBeside DEF q
  <2> HIDE DEF U
  <2>12. Built(q, m, AdapterVolumes(m), AdapterPaths(m), load, args)
    BY <2>10, <2>11, BuiltWider DEF U
  <2> QED BY <2>1, <2>12
<1> QED BY <1>1, <1>2

\* What becomes of a Pod in the end.
Outcome(q, m, load, args) ==
    /\ Clear(m) => ValidPod(q)
    /\ q.containers[1].load = load /\ q.containers[1].args = args
    /\ m.cached => Mount("models", "cacheDir") \in Mounts(q)
    /\ m.scheme \in {"pvc", "oci"} => Mount("model", "/model") \in Mounts(q)

\* patchServerCacheVolumes
LEMMA CacheBuilt ==
    ASSUME NEW pod, NEW load, NEW args, NEW m,
           Built(pod, m, AdapterVolumes(m), AdapterPaths(m), load, args)
    PROVE  LET q == patchServerCacheVolumes(pod, m)
           IN  /\ Built(q, m, CacheVolumes(m), CachePaths(m), load, args)
               /\ m.cached => Mount("models", "cacheDir") \in Mounts(q)
<1>1. CASE ~m.cached
  <2>1. patchServerCacheVolumes(pod, m) = pod
    BY <1>1 DEF patchServerCacheVolumes
  <2>2. AdapterVolumes(m) \subseteq CacheVolumes(m) /\ AdapterPaths(m) \subseteq CachePaths(m)
    BY DEF CacheVolumes, CachePaths
  <2> QED BY <1>1, <2>1, <2>2, BuiltWider
<1>2. CASE m.cached
  <2> DEFINE v == "models"
             p == "cacheDir"
             q == ServerWith(pod, Mounted(v, p))
  <2>1. patchServerCacheVolumes(pod, m) = q
    BY <1>2 DEF patchServerCacheVolumes, ServerWith
  <2>2. /\ v \in Words /\ p \in Words /\ v \notin AdapterVolumes(m)
        /\ Clear(m) => p \notin AdapterPaths(m)
        /\ AdapterVolumes(m) \subseteq CacheVolumes(m) /\ v \in CacheVolumes(m)
        /\ AdapterPaths(m) \subseteq CachePaths(m) /\ p \in CachePaths(m)
    BY <1>2 DEF CacheVolumes, CachePaths, AdapterVolumes, AdapterPaths, FilePaths, Words, Clear,
                FileInTheWay, Taken
  <2> HIDE DEF v, p
  <2>3. Brings(Mounted(v, p), <<v>>, <<Mount(v, p)>>)
    BY <2>2, MountedFacts
  <2>4. Built(q, m, CacheVolumes(m), CachePaths(m), load, args) /\ Mount(v, p) \in Mounts(q)
    BY <2>2, <2>3, MountedBuilt
  <2> HIDE DEF q
  <2> QED BY <2>1, <2>4 DEF v, p
<1> QED BY <1>1, <1>2

\* The end of all engines: the cache, then the source.  Only the credentials for
\* Google Cloud can come twice, and only with adapters.
LEMMA FinishedOutcome ==
    ASSUME NEW pod, NEW load, NEW args, NEW m,
           Built(pod, m, AdapterVolumes(m), AdapterPaths(m), load, args)
    PROVE  Outcome(Finished(pod, m), m, load, args)
<1> DEFINE x == patchServerCacheVolumes(pod, m)
           a == SourceAdditions(m)
           q == ServerWith(x, a)
           V == CacheVolumes(m)
           P == CachePaths(m)
           cache == Mount("models", "cacheDir")
<1>1. Finished(pod, m) = q
  BY DEF Finished, applyToPodSpec, ServerWith
<1>2. Built(x, m, V, P, load, args) /\ (m.cached => cache \in Mounts(x))
  BY CacheBuilt
<1> HIDE DEF x, V, P, cache
<1>3. CASE m.scheme \in {"pvc", "oci"}
  <2> DEFINE v == "model"
             p == "/model"
  <2>1. /\ v \in Words /\ p \in Words /\ v \notin V /\ (Clear(m) => p \notin P)
    BY <1>3 DEF V, P, CacheVolumes, CachePaths, AdapterVolumes, AdapterPaths, FilePaths, Words,
                Clear, FileInTheWay, Taken
  <2>2. a.volumes = <<v>> /\ a.mounts = <<Mount(v, p)>>
    BY <1>3 DEF SourceAdditions, pvcPodAdditions, ociPodAdditions, Additions
  <2> HIDE DEF v, p, a
  <2>3. Brings(a, <<v>>, <<Mount(v, p)>>)
    BY <2>1, <2>2, OneMount DEF Brings
  <2> DEFINE W == V \cup {v}
             Q == P \cup {p}
  <2> HIDE DEF q
  <2>4. /\ Built(q, m, W, Q, load, args) /\ Mount(v, p) \in Mounts(q)
        /\ Mounts(x) \subseteq Mounts(q)
    <3>1. V \subseteq W /\ v \in W /\ P \subseteq Q /\ p \in Q
      OBVIOUS
    <3> HIDE DEF W, Q
    <3> QED BY <1>2, <2>1, <2>3, <3>1, MountedBuilt DEF q
  <2> HIDE DEF q
  <2>5. Outcome(q, m, load, args)
    BY <1>2, <2>4 DEF Outcome, Built, v, p, cache
  <2> QED BY <1>1, <2>5
<1>4. CASE m.scheme = "gs"
  <2> DEFINE v == "gcp-credentials"
             p == "/secrets/gcp-credentials"
  <2>1. v \in Words /\ p \in Words /\ (Clear(m) => v \notin V /\ p \notin P)
    BY <1>4 DEF V, P, CacheVolumes, CachePaths, AdapterVolumes, AdapterPaths, FilePaths, Words,
                Clear, FileInTheWay, SecretTwice, Taken
  <2>2. a = authForGCS
    BY <1>4 DEF SourceAdditions
  <2>3. Brings(a, <<v>>, <<Mount(v, p)>>)
    BY <2>2, SecretMounted
  <2> HIDE DEF v, p, a
  <2> DEFINE W == V \cup {v}
             Q == P \cup {p}
  <2> HIDE DEF q
  <2>4. Built(q, m, W, Q, load, args) /\ Mounts(x) \subseteq Mounts(q)
    <3>1. V \subseteq W /\ v \in W /\ P \subseteq Q /\ p \in Q
      OBVIOUS
    <3> HIDE DEF W, Q
    <3> QED BY <1>2, <2>1, <2>3, <3>1, MountedBuilt DEF q
  <2> HIDE DEF q
  <2>5. Outcome(q, m, load, args)
    BY <1>2, <1>4, <2>4 DEF Outcome, Built, cache
  <2> QED BY <1>1, <2>5
<1>5. CASE m.scheme \notin {"pvc", "oci", "gs"}
  <2> DEFINE e == <<>>
  <2>1. a.volumes = e /\ a.mounts = e
    BY <1>5 DEF SourceAdditions, authForOSS, authForS3, authForHuggingfaceHub, Additions
  <2>2. e \in Seq(Words) /\ e \in Seq(MountRec) /\ DOMAIN e = {}
    OBVIOUS
  <2> HIDE DEF e, a
  <2>3. Brings(a, e, e)
    BY <2>1, <2>2 DEF Brings
  <2>4. Range(e) = {} /\ Places(e) = {} /\ Fits(e, e, V, P)
    BY <2>2 DEF Range, Places, Fits, Proper, Apart, IsInjective
  <2> DEFINE W == V \cup Range(e)
             Q == P \cup Places(e)
  <2>5. Clear(m) => Fits(e, e, V, P)
    BY <2>4
  <2>6. /\ Built(q, m, W, Q, load, args)
        /\ Mounts(q) = Mounts(x) \cup Range(e)
        /\ Len(q.containers) = Len(x.containers)
        /\ Range(e) \subseteq Range(q.volumes)
    BY <1>2, <2>3, <2>5, BuiltGrown
  <2> HIDE DEF W, Q
  <2> HIDE DEF q
  <2>7. Outcome(q, m, load, args)
    BY <1>2, <1>5, <2>4, <2>6 DEF Outcome, Built, cache
  <2> QED BY <1>1, <2>7
<1> QED BY <1>3, <1>4, <1>5

\* The Pod all engines start from, with and without the patch for adapters.
LEMMA ServerOutcome ==
    ASSUME NEW m \in Model, NEW load, NEW args, NEW env, NEW startup, NEW order
    PROVE  LET pod == patchFileVolumes(BasePod(load, args, env, startup), m)
           IN  /\ Outcome(Finished(pod, m), m, load, args)
               /\ Outcome(Finished(patchServerAdapterLoader(pod, m, order), m), m, load, args)
<1> DEFINE b == BasePod(load, args, env, startup)
           pod == patchFileVolumes(b, m)
           x == patchServerAdapterLoader(pod, m, order)
<1>1. Built(b, m, {"dshm"}, {"/dev/shm"}, load, args) /\ Len(b.containers) = 1
  BY BaseBuilt
<1> HIDE DEF b
<1>2. Built(pod, m, WithFiles, FilePaths(m), load, args) /\ Len(pod.containers) = 1
  BY <1>1, FilesBuilt
<1> HIDE DEF pod
<1>3. Built(x, m, AdapterVolumes(m), AdapterPaths(m), load, args)
  BY <1>2, AdaptersBuilt
<1>4. WithFiles \subseteq AdapterVolumes(m) /\ FilePaths(m) \subseteq AdapterPaths(m)
  BY DEF WithFiles, AdapterVolumes, AdapterPaths
<1>5. Built(pod, m, AdapterVolumes(m), AdapterPaths(m), load, args)
  BY <1>2, <1>4, BuiltWider
<1> HIDE DEF x
<1>6. Outcome(Finished(pod, m), m, load, args) /\ Outcome(Finished(x, m), m, load, args)
  BY <1>3, <1>5, FinishedOutcome
<1> QED BY <1>6 DEF b, pod, x

\* Where a server is told to look, and the weights are.
Right(m, load, args) ==
    \/ load = "cacheDir" /\ m.cached
    \/ load = "/model" /\ m.scheme \in {"pvc", "oci"}
    \/ load = "ref" /\ m.scheme = "hf"
    \/ load = "url" /\ m.scheme = "s3" /\ "runai_streamer" \in Range(args)

\* The Models whose weights are not found by a server other than OLlama.
Lost(m) == m.scheme = "ollama" \/ (m.engine # "VLLM" /\ ~m.cached /\ m.scheme # "hf")

\* A good Pod, as far as one is promised.
Good(q, m) ==
    \E load, args : /\ Outcome(q, m, load, args)
                    /\ (m.engine # "OLlama" /\ ~Lost(m)) => Right(m, load, args)

\* The first of several arguments is among them.
LEMMA FirstIn ==
    ASSUME NEW A, NEW x \in A, NEW y \in A, NEW s \in Seq(A)
    PROVE x \in Range((<<x>> \o <<y>>) \o s)
<1> DEFINE t == (<<x>> \o <<y>>) \o s
<1>1. t \in Seq(A) /\ Len(t) = 2 + Len(s) /\ t[1] = x
  OBVIOUS
<1>2. Len(s) \in Nat
  OBVIOUS
<1> HIDE DEF t
<1>3. 1 \in DOMAIN t
  BY <1>1, <1>2
<1>4. x \in Range(t)
  BY <1>1, <1>3 DEF Range
<1> QED BY <1>4 DEF t

\* vLLMPodForModel: flag and mounts, computed apart, agree.
LEMMA VLLMGood ==
    ASSUME NEW m \in Model, Admitted(m), m.engine = "VLLM", NEW order
    PROVE Good(vLLMPodForModel(m, order), m)
<1> DEFINE streamer == IF ~m.cached /\ m.scheme = "s3" THEN <<"runai_streamer">> ELSE <<>>
           lora == IF m.adapters THEN <<"enable-lora">> ELSE <<>>
           loraEnv == IF m.adapters THEN <<"VLLM_ALLOW_RUNTIME_LORA_UPDATING">> ELSE <<>>
           load == vLLMModelFlag(m)
           args == streamer \o <<m.args>> \o lora
           env == loraEnv \o EnvOf(order)
           startup == <<"/health">>
           pod == patchFileVolumes(BasePod(load, args, env, startup), m)
           q == Finished(patchServerAdapterLoader(pod, m, order), m)
<1>1. vLLMPodForModel(m, order) = q
  BY DEF vLLMPodForModel
<1>2. Outcome(q, m, load, args)
  <2> HIDE DEF load, args, env, startup
  <2> QED BY ServerOutcome
<1>3. (m.scheme = "s3" /\ ~m.cached) => "runai_streamer" \in Range(args)
  <2> SUFFICES ASSUME m.scheme = "s3", ~m.cached PROVE "runai_streamer" \in Range(args)
    OBVIOUS
  <2> DEFINE x == "runai_streamer"
             z == "enable-lora"
             A == {x, z, m.args}
  <2>1. streamer = <<x>>
    OBVIOUS
  <2>2. lora \in Seq(A)
    <3>1. z \in A
      <4> HIDE DEF x, z
      <4> QED OBVIOUS
    <3>2. lora = <<z>> \/ lora = <<>>
      OBVIOUS
    <3> HIDE DEF x, z, A, lora
    <3>3. <<z>> \in Seq(A) /\ <<>> \in Seq(A)
      BY <3>1
    <3> QED BY <3>2, <3>3
  <2>3. x \in A /\ m.args \in A
    OBVIOUS
  <2> HIDE DEF x, z, A, lora, streamer
  <2>4. x \in Range((<<x>> \o <<m.args>>) \o lora)
    BY <2>2, <2>3, FirstIn
  <2>5. args = (<<x>> \o <<m.args>>) \o lora
    BY <2>1
  <2> HIDE DEF args
  <2>6. x \in Range(args)
    BY <2>4, <2>5
  <2> QED BY <2>6 DEF x
<1>4. m.scheme \in Schemes
  BY DEF Model
<1> HIDE DEF q, args
<1>5. ~Lost(m) => Right(m, load, args)
  BY <1>3, <1>4 DEF Lost, Right, vLLMModelFlag, Schemes, Admitted
<1> HIDE DEF load
<1> QED BY <1>1, <1>2, <1>5 DEF Good

\* The other engines are not told of a mounted directory.
LEMMA OtherGood ==
    ASSUME NEW m \in Model, NEW load, NEW args, NEW env, NEW startup, m.engine # "VLLM",
           m.engine # "OLlama" => load = IF m.cached THEN "cacheDir" ELSE "ref"
    PROVE Good(Finished(patchFileVolumes(BasePod(load, args, env, startup), m), m), m)
<1>1. Outcome(Finished(patchFileVolumes(BasePod(load, args, env, startup), m), m), m, load, args)
  BY ServerOutcome
<1>2. (m.engine # "OLlama" /\ ~Lost(m)) => Right(m, load, args)
  BY DEF Lost, Right
<1> QED BY <1>1, <1>2 DEF Good

\* PodForModel, for all engines.
LEMMA PodGood ==
    ASSUME NEW m \in Model, Admitted(m), NEW order
    PROVE Good(PodForModel(m, order), m)
<1> DEFINE pod == CASE m.engine = "OLlama"        -> oLlamaPodForModel(m, order)
                    [] m.engine = "FasterWhisper" -> fasterWhisperPodForModel(m, order)
                    [] m.engine = "Infinity"      -> infinityPodForModel(m, order)
                    [] OTHER                      -> vLLMPodForModel(m, order)
           q == PodForModel(m, order)
<1>0. m.engine \in Engines
  BY DEF Model
<1>1. Good(pod, m)
  <2>1. CASE m.engine = "OLlama"
    <3> DEFINE models == IF m.scheme = "pvc" THEN <<"OLLAMA_MODELS">> ELSE <<>>
               args == <<m.args>>
               env == <<"OLLAMA_HOST", "OLLAMA_KEEP_ALIVE">> \o models \o EnvOf(order)
               startup == <<"bash", "-c">> \o ollamaStartupProbeScript(m)
               load == "ref"
               x == Finished(patchFileVolumes(BasePod(load, args, env, startup), m), m)
    <3>1. oLlamaPodForModel(m, order) = x
      BY DEF oLlamaPodForModel
    <3>2. pod = oLlamaPodForModel(m, order)
      BY <2>1, Zenon
    <3>3. m.engine # "VLLM"
      BY <2>1
    <3> HIDE DEF load, args, env, startup, pod
    <3>4. Good(x, m)
      BY <2>1, <3>3, OtherGood
    <3> QED BY <3>1, <3>2, <3>4
  <2>2. CASE m.engine = "FasterWhisper"
    <3> DEFINE args == <<m.args>>
               env == <<"WHISPER__MODEL", "ENABLE_UI">> \o EnvOf(order)
               startup == <<"/health">>
               load == IF m.cached THEN "cacheDir" ELSE "ref"
               x == Finished(patchFileVolumes(BasePod(load, args, env, startup), m), m)
    <3>1. fasterWhisperPodForModel(m, order) = x
      BY DEF fasterWhisperPodForModel
    <3>2. pod = fasterWhisperPodForModel(m, order)
      BY <2>2
    <3>3. m.engine # "VLLM" /\ (m.engine # "OLlama" => load = IF m.cached THEN "cacheDir" ELSE "ref")
      BY <2>2
    <3> HIDE DEF load, args, env, startup, pod
    <3>4. Good(x, m)
      BY <3>3, OtherGood
    <3> QED BY <3>1, <3>2, <3>4
  <2>3. CASE m.engine = "Infinity"
    <3> DEFINE args == <<"v2", m.args>>
               env == <<"INFINITY_MODEL_ID", "INFINITY_SERVED_MODEL_NAME", "INFINITY_URL_PREFIX",
                         "INFINITY_ENGINE", "INFINITY_PORT">> \o EnvOf(order)
               startup == <<"/health">>
               load == IF m.cached THEN "cacheDir" ELSE "ref"
               x == Finished(patchFileVolumes(BasePod(load, args, env, startup), m), m)
    <3>1. infinityPodForModel(m, order) = x
      BY DEF infinityPodForModel
    <3>2. pod = infinityPodForModel(m, order)
      BY <2>3
    <3>3. m.engine # "VLLM" /\ (m.engine # "OLlama" => load = IF m.cached THEN "cacheDir" ELSE "ref")
      BY <2>3
    <3> HIDE DEF load, args, env, startup, pod
    <3>4. Good(x, m)
      BY <3>3, OtherGood
    <3> QED BY <3>1, <3>2, <3>4
  <2>4. CASE m.engine = "VLLM"
    <3>1. pod = vLLMPodForModel(m, order)
      BY <2>4
    <3> HIDE DEF pod
    <3> QED BY <2>4, <3>1, VLLMGood
  <2> QED BY <1>0, <2>1, <2>2, <2>3, <2>4 DEF Engines
<1>2. q.containers = pod.containers /\ q.volumes = pod.volumes
  BY DEF PodForModel
<1> HIDE DEF q, pod
<1>3. \A load, args : Outcome(pod, m, load, args) => Outcome(q, m, load, args)
  BY <1>2 DEF Outcome, ValidPod, Mounts
<1>4. Good(q, m)
  BY <1>1, <1>3 DEF Good
<1> QED BY <1>4 DEF q

\* No Pod of a Model that passes validation is refused if nothing stands in the way,
\* and none lacks its weights, but those that are Lost.
LEMMA NoFault ==
    ASSUME NEW m \in Model, Admitted(m)
    PROVE /\ "refused" \in Faults(m) => ~Clear(m)
          /\ "lost" \in Faults(m) => m.engine # "OLlama" /\ Lost(m)
<1>1. ASSUME NEW pod \in AllPods(m)
      PROVE /\ Clear(m) => ValidPod(pod)
            /\ (m.engine # "OLlama" /\ ~Lost(m)) => Finds(m, pod.containers[1])
  <2>1. PICK order \in Iterations(m.env) : pod = PodForModel(m, order)
    BY DEF AllPods
  <2>2. Good(pod, m)
    BY <2>1, PodGood
  <2>3. PICK load, args : /\ Outcome(pod, m, load, args)
                          /\ (m.engine # "OLlama" /\ ~Lost(m)) => Right(m, load, args)
    BY <2>2 DEF Good
  <2>4. /\ Mount("models", "cacheDir").path = "cacheDir" /\ Mount("models", "cacheDir").volume = "models"
        /\ Mount("model", "/model").path = "/model" /\ Mount("model", "/model").volume = "model"
    BY DEF Mount
  <2>5. Right(m, load, args) => Finds(m, pod.containers[1])
    BY <2>3, <2>4 DEF Right, Outcome, Finds, Mounts
  <2> QED BY <2>3, <2>5 DEF Outcome
<1>2. ASSUME NEW f \in Faults(m)
      PROVE \E pod \in AllPods(m) : \/ f = "refused" /\ ~ValidPod(pod)
                                    \/ f = "lost" /\ m.engine # "OLlama" /\ ~Finds(m, pod.containers[1])
                                    \/ f = "unprobed"
  BY DEF Faults
<1> QED BY <1>1, <1>2

\* Whatever a user changes the Model to, with files in any order at any paths, and in
\* whatever order the map of its environment is iterated, the API server takes the
\* Pod: no two volumes have a name, no two mounts of a container a path, and all
\* mounts have a volume, though engines, sources, files, adapters and cache add theirs
\* in five files without looking at each other's (engine_vllm.go:161-164, files.go:84,
\* model_source.go).  But with a bucket of Google Cloud and adapters, and with a file
\* where one of the others has its mount.
THEOREM PodsValid == Spec => []PodsAreValid
<1>1. PodsAreValid
  <2> SUFFICES ASSUME NEW c \in Broken, c.fault = "refused"
               PROVE  SecretTwice(c) \/ FileInTheWay(c)
    BY DEF PodsAreValid, Clashing
  <2>1. PICK m \in Model : Admitted(m) /\ \E f \in Faults(m) :
           c = [engine |-> m.engine, scheme |-> m.scheme, cached |-> m.cached,
                adapters |-> m.adapters, files |-> m.files, fault |-> f]
    BY DEF Broken
  <2>2. /\ "refused" \in Faults(m)
        /\ c.scheme = m.scheme /\ c.adapters = m.adapters /\ c.cached = m.cached
        /\ c.files = m.files
    BY <2>1
  <2>3. ~Clear(m)
    BY <2>1, <2>2, NoFault
  <2> QED BY <2>2, <2>3 DEF Clear, SecretTwice, FileInTheWay, Taken
<1> QED BY <1>1, PTL

\* And the server is told to load the model from where the weights are: the mount of
\* the source or of the cache, the hub, or a bucket that is streamed, whatever files
\* there are (engine_vllm.go, model_source.go, cache.go).
THEOREM WeightsFound == Spec => []ServerFindsModel
<1>1. ServerFindsModel
  <2> SUFFICES ASSUME NEW c \in Broken, c.fault = "lost"
               PROVE Unsupported(c)
    BY DEF ServerFindsModel, Misled
  <2>1. PICK m \in Model : Admitted(m) /\ \E f \in Faults(m) :
           c = [engine |-> m.engine, scheme |-> m.scheme, cached |-> m.cached,
                adapters |-> m.adapters, files |-> m.files, fault |-> f]
    BY DEF Broken
  <2>2. "lost" \in Faults(m) /\ c.scheme = m.scheme /\ c.engine = m.engine /\ c.cached = m.cached
    BY <2>1
  <2> QED BY <2>1, <2>2, NoFault DEF Lost, Unsupported
<1> QED BY <1>1, PTL

=============================================================================

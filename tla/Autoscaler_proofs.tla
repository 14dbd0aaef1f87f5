-------------------------- MODULE Autoscaler_proofs --------------------------
(* Proofs about the delay of scale-downs, over the leaders that count for it.  *)
EXTENDS Autoscaler, FiniteSetTheorems, TLAPS

-----------------------------------------------------------------------------
(* The inductive invariant.  Averages and replicas are left out: whatever     *)
(* number a tick asks for, what counts is how it compares with what was read. *)

Ticks == {"idle", "listed", "scraped", "scaled"}

TypeOK ==
    /\ disabled \in BOOLEAN
    /\ isLeader \in [Instances -> BOOLEAN] /\ tick \in [Instances -> Ticks]
    /\ DOMAIN listed = Instances /\ \A i \in Instances : listed[i].disabled \in BOOLEAN
    /\ consecutiveScaleDowns \in [Instances -> Nat] /\ downTicks \in Nat
    /\ restarts \in Nat /\ handovers \in Nat /\ toggles \in Nat

HasRead(i) == tick[i] \in {"listed", "scraped"}

\* An instance that has not ticked.
Fresh(i) == tick[i] = "idle" /\ consecutiveScaleDowns[i] = 0

\* One that does not scale any more: autoscaling is switched off.
Spent(i) == disabled /\ (HasRead(i) => listed[i].disabled)

\* What it has counted has happened.
Counted(i) == consecutiveScaleDowns[i] <= downTicks \/ Spent(i)

\* The conditions of DelayedScaleDown.
OffOnce     == toggles <= 1
Undisturbed == Cardinality(Instances) = 1 \/ restarts + handovers <= 1

OneLeader == \A i, j \in Instances : isLeader[i] /\ isLeader[j] => i = j

\* What was switched off once is not on again.
SwitchInv ==
    OffOnce => /\ toggles = 0 => ~disabled
               /\ \A i \in Instances : HasRead(i) /\ listed[i].disabled => disabled

\* Only leaders tick: before the first disturbance the others are fresh, and
\* while nobody leads all but the last leader are.
FreshInv ==
    /\ restarts + handovers = 0 => \A i \in Instances : ~isLeader[i] => Fresh(i)
    /\ (Undisturbed /\ \A i \in Instances : ~isLeader[i]) =>
            \A i, j \in Instances : i = j \/ Fresh(i) \/ Fresh(j)

\* The counter of an instance that is not superseded never runs ahead.  The last
\* leader's tick may still find autoscaling switched off and end the row: the
\* leader has found it off as well then.
CountInv ==
    OffOnce /\ Undisturbed =>
        /\ \A i \in Instances : ~Superseded(i) => Counted(i)
        /\ \A i, j \in Instances :
            (i # j /\ isLeader[j] /\ HasRead(i) /\ listed[i].disabled) => Spent(j)

IInv == TypeOK /\ OneLeader /\ SwitchInv /\ FreshInv /\ CountInv

-----------------------------------------------------------------------------
(* The arithmetic of the delay. *)

\* As many ticks as the counter asks for last as long as the delay, and no fewer.
LEMMA DelayInTicks ==
    /\ RequiredDowns \in Nat
    /\ \A d \in Nat : d >= RequiredDowns <=> d * Interval >= ScaleDownDelay
<1> DEFINE q == (ScaleDownDelay + Interval - 1) \div Interval
<1>1. Interval \in Nat /\ Interval > 0 /\ ScaleDownDelay \in Nat
  BY AutoscalerAssumption
<1>2. /\ q \in Int /\ q >= 0
      /\ q * Interval <= ScaleDownDelay + Interval - 1
      /\ ScaleDownDelay + Interval - 1 < (q + 1) * Interval
  BY <1>1
<1> QED
  BY <1>1, <1>2 DEF RequiredDowns, CeilDiv

-----------------------------------------------------------------------------
(* The steps, as the invariant sees them. *)

seen    == <<disabled, isLeader, tick, listed, consecutiveScaleDowns, downTicks, boundVars>>
leaders == <<isLeader, restarts, handovers>>
switch  == <<disabled, toggles>>
counts  == <<consecutiveScaleDowns, downTicks>>

Lists(i) ==
    /\ tick[i] = "idle" /\ isLeader[i]
    /\ tick' = [tick EXCEPT ![i] = "listed"]
    /\ DOMAIN listed' = DOMAIN listed /\ listed'[i].disabled = disabled
    /\ \A j \in Instances \ {i} : listed'[j] = listed[j]
    /\ UNCHANGED <<leaders, switch, counts>>

Scrapes(i) ==
    /\ tick[i] = "listed" /\ tick' = [tick EXCEPT ![i] = "scraped"]
    /\ UNCHANGED <<listed, leaders, switch, counts>>

\* What i has read does not count any more.
Cleared(i) ==
    /\ DOMAIN listed' = Instances /\ listed'[i].disabled \in BOOLEAN
    /\ \A j \in Instances \ {i} : listed'[j] = listed[j]

\* A tick is over or has failed.
Ends(i) ==
    /\ tick' = [tick EXCEPT ![i] = "idle"] /\ Cleared(i)
    /\ UNCHANGED <<leaders, switch, counts>>

\* A tick asks for fewer, or does not.
Asks(i) ==
    /\ tick[i] = "scraped" /\ ~listed[i].disabled
    /\ tick' = [tick EXCEPT ![i] = "scaled"]
    /\ \E fewer \in BOOLEAN :
        /\ consecutiveScaleDowns' = [consecutiveScaleDowns EXCEPT ![i] =
              IF fewer THEN IF @ < RequiredDowns THEN @ + 1 ELSE @ ELSE 0]
        /\ downTicks' = IF Superseded(i) THEN downTicks
                        ELSE IF fewer THEN IF downTicks < RequiredDowns THEN downTicks + 1
                                           ELSE downTicks
                        ELSE 0
    /\ UNCHANGED <<listed, leaders, switch>>

Skips(i) ==
    /\ tick[i] = "scraped" /\ listed[i].disabled
    /\ tick' = [tick EXCEPT ![i] = "scaled"] /\ downTicks' = 0
    /\ UNCHANGED <<listed, consecutiveScaleDowns, leaders, switch>>

Elects(i) ==
    /\ \A j \in Instances : ~isLeader[j]
    /\ isLeader' = [isLeader EXCEPT ![i] = TRUE]
    /\ UNCHANGED <<tick, listed, restarts, handovers, switch, counts>>

Stops(i) ==
    /\ isLeader[i] /\ isLeader' = [isLeader EXCEPT ![i] = FALSE]
    /\ handovers' = handovers + 1
    /\ UNCHANGED <<tick, listed, restarts, switch, counts>>

Restarts(i) ==
    /\ isLeader' = [isLeader EXCEPT ![i] = FALSE]
    /\ tick' = [tick EXCEPT ![i] = "idle"]
    /\ consecutiveScaleDowns' = [consecutiveScaleDowns EXCEPT ![i] = 0]
    /\ restarts' = restarts + 1
    /\ Cleared(i)
    /\ UNCHANGED <<handovers, switch, downTicks>>

Switches ==
    /\ toggles' = toggles + 1 /\ disabled' \in BOOLEAN
    /\ UNCHANGED <<tick, listed, leaders, counts>>

Ticking(i) == Lists(i) \/ Scrapes(i) \/ Ends(i) \/ Asks(i) \/ Skips(i)
Leading(i) == Elects(i) \/ Stops(i) \/ Restarts(i)

View ==
    \/ UNCHANGED seen
    \/ Switches
    \/ \E i \in Instances : Ticking(i) \/ Leading(i)

\* A tick asks for fewer if that is less than what was read, and never on behalf
\* of requests or Pods.
LEMMA AverageView ==
    ASSUME TypeOK, NEW i \in Instances, NEW desired, Average(i, desired)
    PROVE  Asks(i)
<1> DEFINE fewer == listed[i].replicas > desired
<1>1. downTicks * Interval < ScaleDownDelay <=> downTicks < RequiredDowns
  BY DelayInTicks, AutoscalerAssumption DEF TypeOK
<1>2. consecutiveScaleDowns' = [consecutiveScaleDowns EXCEPT ![i] =
        IF fewer THEN IF consecutiveScaleDowns[i] < RequiredDowns
                      THEN consecutiveScaleDowns[i] + 1 ELSE consecutiveScaleDowns[i]
        ELSE 0]
  BY DEF Average, NextDowns
<1>3. downTicks' = IF Superseded(i) THEN downTicks
                   ELSE IF fewer THEN IF downTicks < RequiredDowns THEN downTicks + 1
                                      ELSE downTicks
                   ELSE 0
  BY <1>1 DEF Average
<1>4. /\ tick[i] = "scraped" /\ ~listed[i].disabled
      /\ tick' = [tick EXCEPT ![i] = "scaled"]
      /\ UNCHANGED <<listed, leaders, switch>>
  BY DEF Average, boundVars, leaders, switch
<1>5. CASE fewer
  BY <1>2, <1>3, <1>4, <1>5 DEF Asks
<1>6. CASE ~fewer
  BY <1>2, <1>3, <1>4, <1>6 DEF Asks
<1> QED
  BY <1>5, <1>6

\* At the end of a tick.
LEMMA ListedCleared ==
    ASSUME TypeOK, NEW i \in Instances,
           listed' = [listed EXCEPT ![i] = [replicas |-> 0, disabled |-> FALSE]]
    PROVE  Cleared(i)
<1>1. listed'[i] = [replicas |-> 0, disabled |-> FALSE]
  BY DEF TypeOK
<1> QED
  BY <1>1 DEF TypeOK, Cleared

\* Every step is one of these.
LEMMA NextView == TypeOK /\ [Next]_vars => View
<1> SUFFICES ASSUME TypeOK, [Next]_vars PROVE View
  OBVIOUS
<1> USE DEF specVars, tickVars, avgVars, boundVars, seen, leaders, switch, counts
<1>1. ASSUME NEW r \in Requests, Request(r) PROVE UNCHANGED seen
  BY <1>1 DEF Request, Arrive, ScaleGet, ScaleUpdate, ScaleErrors, Serve, Cancel
<1>2. CASE PodReady \/ PodsGone \/ UNCHANGED vars
  BY <1>2 DEF PodReady, PodsGone, vars, View
<1>3. ASSUME NEW i \in Instances, Tick(i) PROVE Ticking(i)
  <2>1. CASE List(i)
    BY <2>1 DEF List, Lists, Ticking, TypeOK
  <2>2. CASE Scrape(i)
    BY <2>2 DEF Scrape, Scrapes, Ticking
  <2>3. CASE ScrapeFails(i) \/ Save(i) \/ SaveFails(i)
    <3>1. CASE ScrapeFails(i)
      BY <3>1 DEF ScrapeFails, Ends, Ticking, TypeOK, Cleared
    <3>2. CASE Save(i) \/ SaveFails(i)
      <4>1. listed' = [listed EXCEPT ![i] = [replicas |-> 0, disabled |-> FALSE]]
        BY <3>2 DEF Save, SaveFails
      <4>2. Cleared(i)
        BY <4>1, ListedCleared
      <4> QED
        BY <3>2, <4>2 DEF Save, SaveFails, Ends, Ticking
    <3> QED
      BY <2>3, <3>1, <3>2
  <2>4. CASE Scale(i) \/ ScaleFails(i)
    BY <2>4, AverageView DEF Scale, ScaleFails, Ticking
  <2>5. CASE Skip(i)
    BY <2>5 DEF Skip, Skips, Ticking
  <2> QED
    BY <1>3, <2>1, <2>2, <2>3, <2>4, <2>5 DEF Tick
<1>4. ASSUME NEW i \in Instances, Elect(i) \/ StopLeading(i) \/ Restart(i) PROVE Leading(i)
  <2>1. CASE Elect(i) \/ StopLeading(i)
    BY <1>4, <2>1 DEF Elect, StopLeading, Elects, Stops, Leading
  <2>2. CASE Restart(i)
    <3>1. listed' = [listed EXCEPT ![i] = [replicas |-> 0, disabled |-> FALSE]]
      BY <2>2 DEF Restart
    <3>2. Cleared(i)
      BY <3>1, ListedCleared
    <3> QED
      BY <2>2, <3>2 DEF Restart, Restarts, Leading
  <2> QED
    BY <1>4, <2>1, <2>2
<1>5. CASE ToggleAutoscaling
  BY <1>5 DEF ToggleAutoscaling, Switches, View
<1> QED
  BY <1>1, <1>2, <1>3, <1>4, <1>5 DEF Next, View

-----------------------------------------------------------------------------
(* The invariant is kept. *)

\* Types, and that at most one instance leads.
LEMMA TypeStep == TypeOK /\ OneLeader /\ View => TypeOK' /\ OneLeader'
<1> SUFFICES ASSUME TypeOK, OneLeader, View PROVE TypeOK' /\ OneLeader'
  OBVIOUS
<1> USE DEF TypeOK, OneLeader, Ticks, seen, boundVars, leaders, switch, counts
<1>1. CASE UNCHANGED seen \/ Switches
  BY <1>1 DEF Switches
<1>2. ASSUME NEW i \in Instances, Lists(i) \/ Scrapes(i) \/ Ends(i) \/ Skips(i)
      PROVE  TypeOK' /\ OneLeader'
  BY <1>2 DEF Lists, Scrapes, Ends, Skips, Cleared
<1>3. ASSUME NEW i \in Instances, Asks(i) PROVE TypeOK' /\ OneLeader'
  BY <1>3, DelayInTicks DEF Asks
<1>4. ASSUME NEW i \in Instances, Elects(i) \/ Stops(i) PROVE TypeOK' /\ OneLeader'
  <2>1. CASE Elects(i)
    BY <2>1 DEF Elects
  <2>2. CASE Stops(i)
    BY <2>2 DEF Stops
  <2> QED
    BY <1>4, <2>1, <2>2
<1>5. ASSUME NEW i \in Instances, Restarts(i) PROVE TypeOK' /\ OneLeader'
  BY <1>5 DEF Restarts, Cleared
<1> QED
  BY <1>1, <1>2, <1>3, <1>4, <1>5 DEF View, Ticking, Leading

\* A tick that is under way and has read that autoscaling is off knows it.
LEMMA SwitchStep == TypeOK /\ TypeOK' /\ SwitchInv /\ View => SwitchInv'
<1> SUFFICES ASSUME TypeOK, TypeOK', SwitchInv, View PROVE SwitchInv'
  OBVIOUS
<1> USE DEF TypeOK, SwitchInv, OffOnce, HasRead, seen, boundVars, leaders, switch, counts
<1>1. CASE UNCHANGED seen \/ Switches
  BY <1>1 DEF Switches
<1>2. ASSUME NEW i \in Instances, Lists(i) \/ Scrapes(i) \/ Ends(i) PROVE SwitchInv'
  BY <1>2 DEF Lists, Scrapes, Ends, Cleared
<1>3. ASSUME NEW i \in Instances, Asks(i) \/ Skips(i) PROVE SwitchInv'
  BY <1>3 DEF Asks, Skips
<1>4. ASSUME NEW i \in Instances, Elects(i) \/ Stops(i) \/ Restarts(i) PROVE SwitchInv'
  BY <1>4 DEF Elects, Stops, Restarts, Cleared
<1> QED
  BY <1>1, <1>2, <1>3, <1>4 DEF View, Ticking, Leading

\* With one instance, no two.
LEMMA OneInstance ==
    ASSUME Cardinality(Instances) = 1
    PROVE  \A i, j \in Instances : i = j
<1>1. PICK i : Instances = {i}
  BY FS_Singleton, AutoscalerAssumption
<1> QED
  BY <1>1

\* Instances that have not led yet are fresh.
LEMMA FreshStep == TypeOK /\ TypeOK' /\ OneLeader /\ FreshInv /\ View => FreshInv'
<1> SUFFICES ASSUME TypeOK, TypeOK', OneLeader, FreshInv, View PROVE FreshInv'
  OBVIOUS
<1> USE OneInstance
    DEF TypeOK, OneLeader, FreshInv, Fresh, Undisturbed, seen, boundVars, leaders, switch, counts
<1>1. CASE UNCHANGED seen \/ Switches
  <2>1. UNCHANGED <<isLeader, restarts, handovers, tick, consecutiveScaleDowns>>
    BY <1>1 DEF Switches
  <2> QED
    BY <2>1
<1>2. ASSUME NEW i \in Instances, Lists(i) \/ Scrapes(i) \/ Ends(i) PROVE FreshInv'
  <2>1. CASE Lists(i)
    BY <2>1 DEF Lists
  <2>2. CASE Scrapes(i)
    BY <2>2 DEF Scrapes
  <2>3. CASE Ends(i)
    BY <2>3 DEF Ends
  <2> QED
    BY <1>2, <2>1, <2>2, <2>3
<1>3. ASSUME NEW i \in Instances, Asks(i) \/ Skips(i) PROVE FreshInv'
  <2>1. tick[i] # "idle" /\ \A j \in Instances : Fresh(j) => Fresh(j)'
    <3>1. CASE Asks(i)
      BY <3>1 DEF Asks
    <3>2. CASE Skips(i)
      BY <3>2 DEF Skips
    <3> QED
      BY <1>3, <3>1, <3>2
  <2>2. UNCHANGED leaders
    BY <1>3 DEF Asks, Skips
  <2> HIDE DEF Fresh
  <2> QED
    BY <2>1, <2>2
<1>4. ASSUME NEW i \in Instances, Elects(i) PROVE FreshInv'
  BY <1>4 DEF Elects
<1>5. ASSUME NEW i \in Instances, Stops(i) PROVE FreshInv'
  BY <1>5 DEF Stops
<1>6. ASSUME NEW i \in Instances, Restarts(i) PROVE FreshInv'
  <2>1. \A j \in Instances : Fresh(j) \/ j = i => Fresh(j)'
    BY <1>6 DEF Restarts
  <2>2. CASE isLeader[i]
    BY <1>6, <2>1, <2>2 DEF Restarts
  <2>3. CASE ~isLeader[i]
    BY <1>6, <2>1, <2>3 DEF Restarts
  <2> QED
    BY <2>2, <2>3
<1> QED
  BY <1>1, <1>2, <1>3, <1>4, <1>5, <1>6 DEF View, Ticking, Leading

\* The counter of an instance that scales is no more than the row it stands for.
LEMMA CountStep ==
    TypeOK /\ TypeOK' /\ OneLeader /\ SwitchInv /\ FreshInv /\ CountInv /\ View => CountInv'
<1> SUFFICES ASSUME TypeOK, TypeOK', OneLeader, SwitchInv, FreshInv, CountInv, View,
                    OffOnce', Undisturbed'
             PROVE  /\ \A i \in Instances : ~Superseded(i)' => Counted(i)'
                    /\ \A i, j \in Instances :
                        (i # j /\ isLeader'[j] /\ HasRead(i)' /\ listed'[i].disabled) => Spent(j)'
  BY DEF CountInv
<1> USE OneInstance
    DEF TypeOK, OneLeader, SwitchInv, FreshInv, CountInv, Fresh, Undisturbed, OffOnce, Counted,
        Spent, HasRead, Superseded, seen, boundVars, leaders, switch, counts
<1> DEFINE Goal == /\ \A i \in Instances : ~Superseded(i)' => Counted(i)'
                   /\ \A i, j \in Instances :
                        (i # j /\ isLeader'[j] /\ HasRead(i)' /\ listed'[i].disabled) => Spent(j)'
<1>1. CASE UNCHANGED seen \/ Switches
  BY <1>1 DEF Switches
<1>2. ASSUME NEW k \in Instances, Lists(k) \/ Scrapes(k) \/ Ends(k) PROVE Goal
  <2>1. CASE Lists(k)
    BY <2>1 DEF Lists
  <2>2. CASE Scrapes(k)
    BY <2>2 DEF Scrapes
  <2>3. CASE Ends(k)
    BY <2>3 DEF Ends, Cleared
  <2> QED
    BY <1>2, <2>1, <2>2, <2>3
<1>3. ASSUME NEW k \in Instances, Asks(k) PROVE Goal
  BY <1>3, DelayInTicks DEF Asks
<1>4. ASSUME NEW k \in Instances, Skips(k) PROVE Goal
  BY <1>4 DEF Skips
<1>5. ASSUME NEW k \in Instances, Elects(k) PROVE Goal
  BY <1>5 DEF Elects
<1>6. ASSUME NEW k \in Instances, Stops(k) PROVE Goal
  BY <1>6 DEF Stops
<1>7. ASSUME NEW k \in Instances, Restarts(k) PROVE Goal
  BY <1>7 DEF Restarts, Cleared
<1> QED
  BY <1>1, <1>2, <1>3, <1>4, <1>5, <1>6, <1>7 DEF View, Ticking, Leading

-----------------------------------------------------------------------------
(* The theorems. *)

\* Nobody leads, and nothing is counted, at first.
LEMMA InitInv == Init => IInv
<1> SUFFICES ASSUME Init PROVE IInv
  OBVIOUS
<1>1. TypeOK
  BY DEF Init, TypeOK, Ticks
<1>2. /\ ~disabled /\ \A i \in Instances : ~isLeader[i] /\ tick[i] = "idle"
      /\ \A i \in Instances : consecutiveScaleDowns[i] = 0
      /\ downTicks = 0
  BY DEF Init
<1>3. OneLeader /\ SwitchInv /\ FreshInv /\ CountInv
  BY <1>2 DEF OneLeader, SwitchInv, FreshInv, Fresh, CountInv, Counted, HasRead
<1> QED
  BY <1>1, <1>3 DEF IInv

\* Every step keeps the invariant.
LEMMA NextInv == IInv /\ [Next]_vars => IInv'
BY NextView, TypeStep, SwitchStep, FreshStep, CountStep DEF IInv

\* Whatever number of instances, requests, restarts and handovers there are: one
\* instance leads at most, and a counter that can still scale down is the length
\* of a row of ticks that asked for it (scale.go:56-73).
THEOREM Invariance == Spec => []IInv
BY InitInv, NextInv, PTL DEF Spec

\* A tick scales down only after ticks in a row have asked for it for as long as
\* the delay, for every interval and delay: rounding the delay up to ticks never
\* shortens it (scale.go:56-73, config/system.go:161-163).
THEOREM ScaleDownIsDelayed == Spec => DelayedScaleDown
<1>1. ASSUME IInv, [Next]_vars, NEW i \in Instances,
             tick[i] = "scraped", tick'[i] = "scaled",
             replicas' # replicas, replicas' < listed[i].replicas,
             ~Superseded(i), toggles <= 1,
             Cardinality(Instances) = 1 \/ restarts + handovers <= 1
      PROVE  downTicks * Interval >= ScaleDownDelay
  <2>1. TypeOK /\ Counted(i)
    BY <1>1 DEF IInv, CountInv, OffOnce, Undisturbed
  <2>2. Scale(i)
    <3>1. ASSUME NEW r \in Requests, Request(r) PROVE UNCHANGED tick
      BY <3>1 DEF Request, Arrive, ScaleGet, ScaleUpdate, ScaleErrors, Serve, Cancel, tickVars
    <3>2. CASE PodReady \/ PodsGone \/ ToggleAutoscaling \/ UNCHANGED vars
      BY <1>1, <3>2 DEF PodReady, PodsGone, ToggleAutoscaling, vars, tickVars
    <3>3. ASSUME NEW k \in Instances, Elect(k) \/ StopLeading(k) \/ Restart(k)
          PROVE  UNCHANGED replicas
      BY <3>3 DEF Elect, StopLeading, Restart, specVars
    <3>4. ASSUME NEW k \in Instances, Tick(k), ~Scale(k) PROVE UNCHANGED replicas
      BY <3>4 DEF Tick, List, Scrape, ScrapeFails, ScaleFails, Skip, Save, SaveFails, specVars
    <3>5. ASSUME NEW k \in Instances, Scale(k) PROVE k = i
      <4>1. tick' = [tick EXCEPT ![k] = "scaled"]
        BY <3>5 DEF Scale, Average
      <4> QED
        BY <1>1, <2>1, <4>1 DEF TypeOK
    <3> QED
      BY <1>1, <3>1, <3>2, <3>3, <3>4, <3>5 DEF Next
  <2> DEFINE desired == Desired(Calculate(NextHistory(i)))
  <2>3. /\ ~listed[i].disabled
        /\ replicas' = IF Delayed(i, desired) \/ listed[i].replicas = desired
                       THEN replicas ELSE desired
    BY <2>2 DEF Scale, Average
  <2>4. listed[i].replicas > desired /\ ~Delayed(i, desired)
    <3> HIDE DEF desired
    <3> QED
      BY <1>1, <2>3
  <2>5. consecutiveScaleDowns[i] >= RequiredDowns
    <3> HIDE DEF desired
    <3> QED
      BY <2>1, <2>4, DelayInTicks DEF Delayed, TypeOK
  <2>6. consecutiveScaleDowns[i] <= downTicks
    BY <1>1, <2>1, <2>3 DEF Counted, Spent, HasRead
  <2> QED
    BY <2>1, <2>5, <2>6, DelayInTicks DEF TypeOK
<1>2. IInv /\ [Next]_vars =>
        [\A i \in Instances :
            (/\ tick[i] = "scraped" /\ tick'[i] = "scaled"
             /\ replicas' # replicas /\ replicas' < listed[i].replicas
             /\ ~Superseded(i) /\ toggles <= 1
             /\ Cardinality(Instances) = 1 \/ restarts + handovers <= 1)
                => downTicks * Interval >= ScaleDownDelay]_vars
  BY <1>1
<1> QED
  BY Invariance, <1>2, PTL DEF Spec, DelayedScaleDown

=============================================================================

----------------------------- MODULE Autoscaler -----------------------------
(***************************************************************************)
(* Autoscaling of one Model by the instances of KubeAI                     *)
(* (internal/modelautoscaler, internal/movingaverage, internal/modelclient *)
(* scale.go, internal/leader) together with the requests that drive it:    *)
(* the proxy counts a request as active and scales the Model from zero     *)
(* (internal/modelproxy/handler.go), the leader's ticks read the active    *)
(* counts of all instances and scale the Model.                            *)
(*                                                                         *)
(* Every write of the replicas is an unconditional update of the scale     *)
(* subresource computed from an earlier read, so reads and writes are      *)
(* separate steps.  A tick is four steps: list the Models, scrape the      *)
(* metrics, scale, save the state in the ConfigMap.                        *)
(*                                                                         *)
(* Averages are kept in units of 1/Unit requests, which makes the halves   *)
(* and quarters that averaging and reloading produce integers.             *)
(***************************************************************************)
EXTENDS Integers, Sequences, FiniteSets, SequencesExt

CONSTANTS
    Instances,        \* running copies of KubeAI
    Requests,         \* requests that may be active at the same time
    Via,              \* Via[r]: the instance that proxies r
    AdapterRequests,  \* the requests that name an adapter of the Model
    Interval,         \* ModelAutoscaling.Interval: the time between two ticks
    TimeWindow,       \* ModelAutoscaling.TimeWindow, in the same unit of time
    ScaleDownDelay,   \* Spec.ScaleDownDelaySeconds
    Target,           \* Spec.TargetRequests
    MinReplicas, MaxReplicas,
    Unit,
    MaxRestarts,      \* bound: restarts of instances
    MaxHandovers,     \* bound: leaders that stop leading while running
    MaxToggles,       \* bound: changes of Spec.AutoscalingDisabled
    MaxEvents,        \* bound: all three together
    None

CeilDiv(a, b) == (a + b - 1) \div b

\* AverageWindowCount
Window == CeilDiv(TimeWindow, Interval)

\* RequiredConsecutiveScaleDowns
RequiredDowns == CeilDiv(ScaleDownDelay, Interval)

ASSUME AutoscalerAssumption ==
    /\ Interval \in Nat \ {0} /\ TimeWindow \in Nat \ {0} /\ ScaleDownDelay \in Nat
    /\ Target \in Nat \ {0}
    /\ MinReplicas \in Nat /\ MaxReplicas \in Nat \ {0} /\ MinReplicas <= MaxReplicas
    /\ AdapterRequests \subseteq Requests /\ IsFiniteSet(Instances)
    /\ Unit \in Nat \ {0} /\ Unit % (Window ^ (MaxRestarts + 1)) = 0  \* exact averages

VARIABLES
    replicas,     \* Spec.Replicas
    disabled,     \* Spec.AutoscalingDisabled
    ready,        \* some Pod of the Model is ready
    saved,        \* the average in the state ConfigMap, or None
    reqState,     \* request -> "none" | "active" | "zero" | "waiting"
    isLeader,     \* instance -> IsLeader flag
    tick,         \* instance -> "idle" | "listed" | "scraped" | "scaled"
    listed,       \* instance -> [replicas, disabled] read by ListAllModels
    scraped,      \* instance -> active requests the tick counted
    history,      \* instance -> movingaverage.Simple: its values, oldest first
    consecutiveScaleDowns,  \* instance -> its counter for the Model
    downTicks,    \* history: latest ticks in a row that asked for fewer, but those of
                  \* an instance while another one leads
    restarts, handovers, toggles

specVars == <<replicas, disabled>>
tickVars == <<tick, listed, scraped>>
avgVars  == <<history, consecutiveScaleDowns>>
boundVars == <<restarts, handovers, toggles>>
vars == <<replicas, disabled, ready, saved, reqState, isLeader, tick, listed, scraped,
          history, consecutiveScaleDowns, downTicks, restarts, handovers, toggles>>

MayHappen == restarts + handovers + toggles < MaxEvents

\* newPrefilledFloat64Slice, and the zeroed slice of a new moving average.
Prefilled(value) == [i \in 1..Window |-> value]

Init ==
    /\ replicas \in MinReplicas..MaxReplicas /\ disabled = FALSE /\ ready = FALSE /\ saved = None
    /\ reqState = [r \in Requests |-> "none"]
    /\ isLeader = [i \in Instances |-> FALSE]
    /\ tick = [i \in Instances |-> "idle"]
    /\ listed = [i \in Instances |-> [replicas |-> 0, disabled |-> FALSE]]
    /\ scraped = [i \in Instances |-> 0]
    /\ history = [i \in Instances |-> Prefilled(0)]
    /\ consecutiveScaleDowns = [i \in Instances |-> 0]
    /\ downTicks = 0 /\ restarts = 0 /\ handovers = 0 /\ toggles = 0

-----------------------------------------------------------------------------
(* Requests: ServeHTTP up to the wait for an endpoint. *)

\* Parsed; InferenceRequestsActive is incremented.
Arrive(r) ==
    /\ reqState[r] = "none"
    /\ reqState' = [reqState EXCEPT ![r] = "active"]
    /\ UNCHANGED <<specVars, ready, saved, isLeader, tickVars, avgVars, downTicks, boundVars>>

\* ScaleAtLeastOneReplica: the read of the Model.
ScaleGet(r) ==
    /\ reqState[r] = "active"
    /\ reqState' = [reqState EXCEPT ![r] =
                       IF ~disabled /\ replicas = 0 THEN "zero" ELSE "waiting"]
    /\ UNCHANGED <<specVars, ready, saved, isLeader, tickVars, avgVars, downTicks, boundVars>>

\* ScaleAtLeastOneReplica: the update, which carries no resource version.
ScaleUpdate(r) ==
    /\ reqState[r] = "zero"
    /\ replicas' = 1
    /\ reqState' = [reqState EXCEPT ![r] = "waiting"]
    /\ UNCHANGED <<disabled, ready, saved, isLeader, tickVars, avgVars, downTicks, boundVars>>

\* The read or the update fails: the request is answered with an error.
ScaleErrors(r) ==
    /\ reqState[r] \in {"active", "zero"}
    /\ reqState' = [reqState EXCEPT ![r] = "none"]
    /\ UNCHANGED <<specVars, ready, saved, isLeader, tickVars, avgVars, downTicks, boundVars>>

\* An endpoint is there, the request is served and no longer active.
Serve(r) ==
    /\ reqState[r] = "waiting" /\ ready
    /\ reqState' = [reqState EXCEPT ![r] = "none"]
    /\ UNCHANGED <<specVars, ready, saved, isLeader, tickVars, avgVars, downTicks, boundVars>>

\* The client gives up.
Cancel(r) ==
    /\ reqState[r] = "waiting"
    /\ reqState' = [reqState EXCEPT ![r] = "none"]
    /\ UNCHANGED <<specVars, ready, saved, isLeader, tickVars, avgVars, downTicks, boundVars>>

\* The model controller and the cluster bring the Pods in line with the replicas.
PodReady ==
    /\ ~ready /\ replicas > 0
    /\ ready' = TRUE
    /\ UNCHANGED <<specVars, saved, reqState, isLeader, tickVars, avgVars, downTicks, boundVars>>

PodsGone ==
    /\ ready /\ replicas = 0
    /\ ready' = FALSE
    /\ UNCHANGED <<specVars, saved, reqState, isLeader, tickVars, avgVars, downTicks, boundVars>>

-----------------------------------------------------------------------------
(* A tick of Autoscaler.Start. *)

List(i) ==
    /\ tick[i] = "idle" /\ isLeader[i]
    /\ listed' = [listed EXCEPT ![i] = [replicas |-> replicas, disabled |-> disabled]]
    /\ tick' = [tick EXCEPT ![i] = "listed"]
    /\ UNCHANGED <<specVars, ready, saved, reqState, isLeader, scraped, avgVars,
                   downTicks, boundVars>>

\* Mutated form of ActiveRequests: held requests are not counted.
ActiveRequestsForwarded ==
    {r \in Requests \ AdapterRequests : reqState[r] = "active"}

\* The series of the request_model label that is the Model's name.  The proxy
\* labels a request for an adapter with "<model>_<adapter>".
ActiveRequests ==
    {r \in Requests \ AdapterRequests : reqState[r] # "none"}

Scrape(i) ==
    /\ tick[i] = "listed"
    /\ scraped' = [scraped EXCEPT ![i] = Cardinality(ActiveRequests)]
    /\ tick' = [tick EXCEPT ![i] = "scraped"]
    /\ UNCHANGED <<specVars, ready, saved, reqState, isLeader, listed, avgVars,
                   downTicks, boundVars>>

\* No addresses, or an instance that cannot be scraped: the tick is skipped.
ScrapeFails(i) ==
    /\ tick[i] = "listed"
    /\ tick' = [tick EXCEPT ![i] = "idle"]
    /\ UNCHANGED <<specVars, ready, saved, reqState, isLeader, listed, scraped, avgVars,
                   downTicks, boundVars>>

\* movingaverage.Simple: Next overwrites the oldest value, the first one here.
NextHistory(i) == Append(Tail(history[i]), scraped[i] * Unit)
Calculate(h)   == FoldLeft(+, 0, h) \div Window

EnforceReplicaBounds(n) ==
    IF n > MaxReplicas THEN MaxReplicas
    ELSE IF n < MinReplicas THEN MinReplicas ELSE n

\* int32(math.Ceil(avg / target)), within the bounds.
Desired(avg) == EnforceReplicaBounds(CeilDiv(avg, Target * Unit))

\* Mutated form of NextDowns: a tick that scales up does not reset the counter.
NextDownsKept(i, desired) ==
    IF listed[i].replicas > desired
    THEN IF consecutiveScaleDowns[i] < RequiredDowns
         THEN consecutiveScaleDowns[i] + 1 ELSE consecutiveScaleDowns[i]
    ELSE consecutiveScaleDowns[i]

\* The counter after Scale: incremented up to the delay, reset by any other tick.
NextDowns(i, desired) ==
    IF listed[i].replicas > desired
    THEN IF consecutiveScaleDowns[i] < RequiredDowns
         THEN consecutiveScaleDowns[i] + 1 ELSE consecutiveScaleDowns[i]
    ELSE 0

\* ModelClient.Scale returns early while the scale-down is delayed.
Delayed(i, desired) ==
    listed[i].replicas > desired /\ consecutiveScaleDowns[i] < RequiredDowns

\* Another instance leads while the tick of i goes on.
Superseded(i) == \E j \in Instances \ {i} : isLeader[j]

\* What a tick does for an enabled Model, but for the update of the replicas.
Average(i, desired) ==
    /\ tick[i] = "scraped" /\ ~listed[i].disabled
    /\ consecutiveScaleDowns' = [consecutiveScaleDowns EXCEPT ![i] = NextDowns(i, desired)]
    /\ downTicks' = IF Superseded(i) THEN downTicks
                    ELSE IF listed[i].replicas > desired
                    THEN IF downTicks * Interval < ScaleDownDelay THEN downTicks + 1 ELSE downTicks
                    ELSE 0
    /\ history' = [history EXCEPT ![i] = NextHistory(i)]
    /\ tick' = [tick EXCEPT ![i] = "scaled"]
    /\ UNCHANGED <<disabled, ready, saved, reqState, isLeader, listed, scraped, boundVars>>

Scale(i) ==
    LET desired == Desired(Calculate(NextHistory(i))) IN
    /\ Average(i, desired)
    /\ replicas' = IF Delayed(i, desired) \/ listed[i].replicas = desired
                   THEN replicas ELSE desired

\* The update is refused; Start drops the error that Scale returns.
ScaleFails(i) ==
    LET desired == Desired(Calculate(NextHistory(i))) IN
    /\ Average(i, desired)
    /\ ~Delayed(i, desired) /\ listed[i].replicas # desired
    /\ UNCHANGED replicas

\* AutoscalingDisabled: the Model is skipped.
Skip(i) ==
    /\ tick[i] = "scraped" /\ listed[i].disabled
    /\ downTicks' = 0
    /\ tick' = [tick EXCEPT ![i] = "scaled"]
    /\ UNCHANGED <<specVars, ready, saved, reqState, isLeader, listed, scraped, avgVars,
                   boundVars>>

\* saveTotalModelState replaces the state of all models: a skipped one is lost.
Save(i) ==
    /\ tick[i] = "scaled"
    /\ saved' = IF listed[i].disabled THEN None ELSE Calculate(history[i])
    /\ tick' = [tick EXCEPT ![i] = "idle"]
    /\ listed' = [listed EXCEPT ![i] = [replicas |-> 0, disabled |-> FALSE]]
    /\ scraped' = [scraped EXCEPT ![i] = 0]
    /\ UNCHANGED <<specVars, ready, reqState, isLeader, avgVars, downTicks, boundVars>>

\* The ConfigMap cannot be patched: the state of an earlier tick stays there.
SaveFails(i) ==
    /\ tick[i] = "scaled"
    /\ tick' = [tick EXCEPT ![i] = "idle"]
    /\ listed' = [listed EXCEPT ![i] = [replicas |-> 0, disabled |-> FALSE]]
    /\ scraped' = [scraped EXCEPT ![i] = 0]
    /\ UNCHANGED <<specVars, ready, saved, reqState, isLeader, avgVars, downTicks, boundVars>>

-----------------------------------------------------------------------------
(* Leadership, restarts, users. *)

Elect(i) ==
    /\ \A j \in Instances : ~isLeader[j]
    /\ isLeader' = [isLeader EXCEPT ![i] = TRUE]
    /\ UNCHANGED <<specVars, ready, saved, reqState, tickVars, avgVars, downTicks, boundVars>>

\* OnStoppedLeading: a tick that runs goes on.
StopLeading(i) ==
    /\ isLeader[i] /\ handovers < MaxHandovers /\ MayHappen
    /\ handovers' = handovers + 1
    /\ isLeader' = [isLeader EXCEPT ![i] = FALSE]
    /\ UNCHANGED <<specVars, ready, saved, reqState, tickVars, avgVars, downTicks,
                   restarts, toggles>>

\* The instance dies, with its requests, and New() loads the saved state.
Restart(i) ==
    /\ restarts < MaxRestarts /\ MayHappen
    /\ restarts' = restarts + 1
    /\ reqState' = [r \in Requests |-> IF Via[r] = i THEN "none" ELSE reqState[r]]
    /\ isLeader' = [isLeader EXCEPT ![i] = FALSE]
    /\ tick' = [tick EXCEPT ![i] = "idle"]
    /\ listed' = [listed EXCEPT ![i] = [replicas |-> 0, disabled |-> FALSE]]
    /\ scraped' = [scraped EXCEPT ![i] = 0]
    /\ history' = [history EXCEPT ![i] = Prefilled(IF saved = None THEN 0 ELSE saved)]
    /\ consecutiveScaleDowns' = [consecutiveScaleDowns EXCEPT ![i] = 0]
    /\ UNCHANGED <<specVars, ready, saved, downTicks, handovers, toggles>>

ToggleAutoscaling ==
    /\ toggles < MaxToggles /\ MayHappen
    /\ toggles' = toggles + 1
    /\ disabled' = ~disabled
    /\ UNCHANGED <<replicas, ready, saved, reqState, isLeader, tickVars, avgVars,
                   downTicks, restarts, handovers>>

Tick(i) ==
    \/ List(i) \/ Scrape(i) \/ ScrapeFails(i)
    \/ Scale(i) \/ ScaleFails(i) \/ Skip(i) \/ Save(i) \/ SaveFails(i)

Request(r) ==
    \/ Arrive(r) \/ ScaleGet(r) \/ ScaleUpdate(r) \/ ScaleErrors(r)
    \/ Serve(r) \/ Cancel(r)

Next ==
    \/ \E r \in Requests : Request(r)
    \/ PodReady \/ PodsGone
    \/ \E i \in Instances : Tick(i) \/ Elect(i) \/ StopLeading(i) \/ Restart(i)
    \/ ToggleAutoscaling

Spec == Init /\ [][Next]_vars

\* The ticker of the leader fires again and again, neither scraping nor the API
\* fails for ever, a leader is elected when there is none, Pods that are wanted get ready,
\* and the goroutine of a request runs.
Fairness ==
    /\ WF_vars(\E i \in Instances : Elect(i) \/ List(i) \/ Save(i) \/ SaveFails(i))
    /\ SF_vars(\E i \in Instances : Scrape(i))
    /\ SF_vars(\E i \in Instances : Scale(i) \/ Skip(i))
    /\ WF_vars(PodReady \/ PodsGone)
    /\ \A r \in Requests : WF_vars(ScaleGet(r) \/ ScaleUpdate(r) \/ Serve(r))

FairSpec == Spec /\ Fairness

-----------------------------------------------------------------------------
(* Properties *)

(* "ScaleDownDelay is the minimum time before a deployment is scaled down
   after the autoscaling algorithm determines that it should be scaled down"
   (model_types.go:120-121): a tick writes fewer replicas than it has read only
   when ticks in a row, none in between that found otherwise, have asked for
   fewer for as long as the delay (scale.go:56-73, 158; config/system.go:161-163).
   Restarts, lost leadership, failed calls, another leader whose tick goes on,
   and requests that scale from zero may come in between.  Left out are that
   tick of the last leader; a leader that comes back after another one, with
   the count it had; and autoscaling that is switched on again. *)
DelayedScaleDown ==
    [][\A i \in Instances :
        (/\ tick[i] = "scraped" /\ tick'[i] = "scaled"
         /\ replicas' # replicas /\ replicas' < listed[i].replicas
         /\ ~Superseded(i) /\ toggles <= 1
         /\ Cardinality(Instances) = 1 \/ restarts + handovers <= 1)
            => downTicks * Interval >= ScaleDownDelay]_vars

(* The same for the ticks of all instances at all times. *)
AlwaysDelayed ==
    [][\A i \in Instances :
        (tick[i] = "scraped" /\ tick'[i] = "scaled" /\ replicas' < replicas)
            => downTicks * Interval >= ScaleDownDelay]_vars

(* The same promise for the write of a request: scaling from zero never takes
   replicas away (scale.go:29-36). *)
RequestsOnlyScaleUp ==
    [][\A r \in Requests :
        (reqState[r] = "zero" /\ reqState'[r] = "waiting") => replicas' >= replicas]_vars

(* "KubeAI will hold the request, scale up a Pod and forward the request when
   the Pod is ready" (docs/concepts/autoscaling.md): no held request waits for
   ever, although the autoscaler may take the Pod away under it. *)
HeldRequestIsServed ==
    \A r \in Requests : reqState[r] = "active" ~> (reqState[r] = "none" \/ disabled)

=============================================================================

----------------------------- MODULE ModelProxy -----------------------------
(***************************************************************************)
(* The HTTP handler that proxies requests to model servers, with retries   *)
(* (internal/modelproxy/handler.go), on top of what an endpoint group      *)
(* promises (EndpointLeases, implemented by EndpointGroup).                *)
(*                                                                         *)
(* A retry is a recursive call of proxyHTTP out of the error handler of    *)
(* the reverse proxy: the frames of the failed attempts stay on the stack, *)
(* each with its lease, until the last attempt has answered.  Attempt a of *)
(* request r is the call <<r, a>> of the endpoint group.                   *)
(***************************************************************************)
EXTENDS Integers, FiniteSets

CONSTANTS
    Requests,    \* requests that are served at once, all for one Model
    Adapter,     \* Adapter[r]: the adapter r asks for, or NoAdapter
    MaxRetries,  \* Handler.maxRetries
    Names, Adapters, NoAdapter, Counters, None

ASSUME ProxyAssumption ==
    /\ MaxRetries \in Nat /\ IsFiniteSet(Requests)
    /\ Adapter \in [Requests -> Adapters \cup {NoAdapter}]
    /\ None \notin Counters

Attempts == Requests \X (0..MaxRetries)

VARIABLES
    members, load, want, held,  \* the endpoint group (EndpointLeases)
    pc,         \* request -> control point
    attempt,    \* request -> proxyRequest.attempt
    cancelled,  \* requests whose context is done
    active,     \* InferenceRequestsActive of the Model
    answers     \* request -> codes written to the client, a set of <<attempt, code>>

groupVars == <<members, load, want, held>>
proxyVars == <<pc, attempt, active, answers>>
vars == <<members, load, want, held, pc, attempt, cancelled, active, answers>>

Group == INSTANCE EndpointLeases WITH Calls <- Attempts

Init ==
    /\ Group!Init
    /\ pc = [r \in Requests |-> "new"]
    /\ attempt = [r \in Requests |-> 0]
    /\ cancelled = {} /\ active = 0
    /\ answers = [r \in Requests |-> {}]

Goto(r, label) == pc' = [pc EXCEPT ![r] = label]
Current(r) == <<r, attempt[r]>>

\* The status line of an answer goes out when the handler first writes.
Answer(r, code) == answers' = [answers EXCEPT ![r] = @ \cup {<<attempt[r], code>>}]

-----------------------------------------------------------------------------
(* ServeHTTP *)

\* What ParseRequest may end in: a body it cannot read; LookupModel finds no
\* Model, or one without the adapter or the labels; the lookup itself fails.
BodyErrors   == {"400"}
LookupErrors == {"404", "500"}

\* Nothing was counted yet.
ParseFails(r) ==
    /\ pc[r] = "new"
    /\ \E code \in BodyErrors \cup LookupErrors : Answer(r, code)
    /\ Goto(r, "done")
    /\ UNCHANGED <<groupVars, attempt, cancelled, active>>

Parse(r) ==
    /\ pc[r] = "new"
    /\ active' = active + 1
    /\ Goto(r, "scale")
    /\ UNCHANGED <<groupVars, attempt, cancelled, answers>>

\* ScaleAtLeastOneReplica (see Autoscaler).
ScaleFails(r) ==
    /\ pc[r] = "scale"
    /\ Answer(r, "500")
    /\ Goto(r, "return")
    /\ UNCHANGED <<groupVars, attempt, cancelled, active>>

Scale(r) ==
    /\ pc[r] = "scale"
    /\ Goto(r, "ask")
    /\ UNCHANGED <<groupVars, attempt, cancelled, active, answers>>

\* The deferred decrement of the metric, and the return of the handler.
Return(r) ==
    /\ pc[r] = "return"
    /\ active' = active - 1
    /\ Goto(r, "done")
    /\ UNCHANGED <<groupVars, attempt, cancelled, answers>>

-----------------------------------------------------------------------------
(* proxyHTTP *)

AwaitBestAddress(r) ==
    /\ pc[r] = "ask"
    /\ Group!Ask(Current(r)) /\ want'[Current(r)] = Adapter[r]
    /\ Goto(r, "await")
    /\ UNCHANGED <<attempt, cancelled, active, answers>>

\* Mutated form of AwaitFails: the wait does not get the request's context.
AwaitIgnoresContext(r) == FALSE /\ UNCHANGED vars

\* The context ended the wait; this frame has no lease, the ones below do.
AwaitFails(r) ==
    /\ pc[r] = "await" /\ r \in cancelled
    /\ Group!GiveUp(Current(r))
    /\ Answer(r, "noHost")
    /\ Goto(r, "unwind")
    /\ UNCHANGED <<attempt, cancelled, active>>

Granted(r) ==
    /\ pc[r] = "await"
    /\ Group!Grant(Current(r))
    /\ Goto(r, "proxy")
    /\ UNCHANGED <<attempt, cancelled, active, answers>>

\* Mutated form of ResponseAccepted: off by one in the count of retries.
ResponseAcceptedEarly(r) ==
    /\ pc[r] = "proxy"
    /\ \/ Answer(r, "ok")
       \/ attempt[r] + 1 >= MaxRetries /\ Answer(r, "retryable")
    /\ Goto(r, "unwind")
    /\ UNCHANGED <<groupVars, attempt, cancelled, active>>

\* ModifyResponse accepts the response of the backend: any code that is not
\* retried, or a retried one when there are no retries left.
ResponseAccepted(r) ==
    /\ pc[r] = "proxy"
    /\ \/ Answer(r, "ok")
       \/ attempt[r] >= MaxRetries /\ Answer(r, "retryable")
    /\ Goto(r, "unwind")
    /\ UNCHANGED <<groupVars, attempt, cancelled, active>>

\* The condition of ErrorHandler.
Retryable(r) == r \notin cancelled /\ attempt[r] < MaxRetries

\* ErrorHandler, after ErrRetry or a failed connection: proxyHTTP again, with
\* this frame and its lease still there.
Retry(r) ==
    /\ pc[r] = "proxy" /\ Retryable(r)
    /\ attempt' = [attempt EXCEPT ![r] = @ + 1]
    /\ Goto(r, "ask")
    /\ UNCHANGED <<groupVars, cancelled, active, answers>>

\* ErrorHandler, after a failed connection: no retry.
ConnectionFails(r) ==
    /\ pc[r] = "proxy" /\ ~Retryable(r)
    /\ Answer(r, "502")
    /\ Goto(r, "unwind")
    /\ UNCHANGED <<groupVars, attempt, cancelled, active>>

\* ErrorHandler, after ErrRetry: the client went away meanwhile and nothing is
\* written.
RetryAbandoned(r) ==
    /\ pc[r] = "proxy" /\ ~Retryable(r) /\ attempt[r] < MaxRetries
    /\ Goto(r, "unwind")
    /\ UNCHANGED <<groupVars, attempt, cancelled, active, answers>>

Frames(r) == {a \in 0..MaxRetries : held[<<r, a>>] # None}

\* Mutated form of Unwind: ErrorHandler does not return after the retry.
UnwindAnswers(r) ==
    /\ pc[r] = "unwind"
    /\ \E a \in Frames(r) :
        /\ \A b \in Frames(r) : b <= a
        /\ Group!Return(<<r, a>>)
        /\ answers' = [answers EXCEPT ![r] = IF a < attempt[r] THEN @ \cup {<<a, "502">>} ELSE @]
    /\ UNCHANGED <<pc, attempt, cancelled, active>>

\* The deferred decrementInflight of the topmost frame that has one.
Unwind(r) ==
    /\ pc[r] = "unwind"
    /\ \E a \in Frames(r) :
        /\ \A b \in Frames(r) : b <= a
        /\ Group!Return(<<r, a>>)
    /\ UNCHANGED <<pc, attempt, cancelled, active, answers>>

\* Mutated form of Unwound: only the last attempt's lease is given back.
UnwoundEarly(r) ==
    /\ pc[r] = "unwind" /\ attempt[r] \notin Frames(r)
    /\ Goto(r, "return")
    /\ UNCHANGED <<groupVars, attempt, cancelled, active, answers>>

Unwound(r) ==
    /\ pc[r] = "unwind" /\ Frames(r) = {}
    /\ Goto(r, "return")
    /\ UNCHANGED <<groupVars, attempt, cancelled, active, answers>>

-----------------------------------------------------------------------------
(* The client and the endpoints *)

Cancel(r) ==
    /\ pc[r] \notin {"new", "done"} /\ r \notin cancelled
    /\ cancelled' = cancelled \cup {r}
    /\ UNCHANGED <<groupVars, proxyVars>>

\* Endpoints come and go.  Update constrains the new members only.
EndpointMaps ==
    UNION {[N -> [counter : Counters, adapters : SUBSET Adapters]] : N \in SUBSET Names}

UpdateEndpoints ==
    /\ members' \in EndpointMaps
    /\ \A m, n \in DOMAIN members' : members'[m].counter = members'[n].counter => m = n
    /\ Group!Update
    /\ UNCHANGED <<cancelled, proxyVars>>

\* What the goroutine of a request does by itself.
Step(r) ==
    \/ ParseFails(r) \/ Parse(r) \/ ScaleFails(r) \/ Scale(r) \/ Return(r)
    \/ AwaitBestAddress(r) \/ AwaitFails(r) \/ Granted(r)
    \/ ResponseAccepted(r) \/ Retry(r) \/ ConnectionFails(r) \/ RetryAbandoned(r)
    \/ Unwind(r) \/ Unwound(r)

Next == UpdateEndpoints \/ \E r \in Requests : Step(r) \/ Cancel(r)

Spec == Init /\ [][Next]_vars

\* The goroutines run, backends answer or their connections fail.
FairSpec == Spec /\ \A r \in Requests : WF_vars(Step(r))

-----------------------------------------------------------------------------
(* Properties *)

\* Requests between the two updates of the metric.
Counted == {r \in Requests : pc[r] \notin {"new", "done"}}

(* When a handler returns, whatever failed on the way, every lease of every
   attempt has been given back and the metric that drives the autoscaler
   counts exactly the requests still inside (handler.go:80-81, 114). *)
NothingLeaks ==
    /\ active = Cardinality(Counted)
    /\ \A r \in Requests : pc[r] = "done" => Frames(r) = {}
    /\ \A k \in Counters : load[k] = Cardinality({c \in Attempts : held[c] = k})

(* The client gets one answer: never a second one on top of the first, out of
   a frame that is unwound, and one at least unless it went away
   (handler.go:100-112, 140-155). *)
OneAnswer ==
    \A r \in Requests :
        /\ Cardinality(answers[r]) <= 1
        /\ (pc[r] = "done" /\ r \notin cancelled) => answers[r] # {}

(* A retryable code or a failed connection reaches a client that is still
   there only after MaxRetries retries (handler.go:127-155). *)
RetriesAreUsed ==
    \A r \in Requests : \A a \in answers[r] :
        (a[2] \in {"retryable", "502"} /\ r \notin cancelled) => a[1] = MaxRetries

(* The handler returns and the leases go back, unless the request waits for an
   endpoint: a retry waits while it holds the leases of the failed attempts
   (handler.go:96-114). *)
HandlerReturns ==
    \A r \in Requests :
        (pc[r] \notin {"new", "done"})
            ~> (pc[r] = "done" \/ (pc[r] = "await" /\ r \notin cancelled))

=============================================================================

------------------------------ MODULE Manager -------------------------------
(***************************************************************************)
(* One KubeAI process: the configuration, the components that Run starts,  *)
(* each in a goroutine of one WaitGroup, and how they stop                 *)
(* (internal/manager/run.go, cmd/main.go, internal/config/system.go).      *)
(*                                                                         *)
(* What a component does is in the modules of its own; here is how it      *)
(* starts, what makes it end, and whom it keeps from ending: requests of   *)
(* the API server and handlers of the messenger wait for an endpoint,      *)
(* endpoints come from a controller, and the servers are shut down when    *)
(* the controllers have stopped.                                           *)
(***************************************************************************)
EXTENDS Integers

CONSTANTS
    Requests,     \* requests to the API server
    MaxHandlers,  \* bound: MessageStream.MaxHandlers
    MaxMsgs       \* bound: messages received

ASSUME ManagerAssumption == MaxHandlers \in Nat /\ MaxMsgs \in Nat

Components == {"autoscaler", "api", "metrics", "election", "messenger", "controllers"}
Servers == {"api", "metrics"}
Handlers == 1..MaxHandlers

VARIABLES
    cfg,       \* [mode, maxHandlers, complete]
    phase,     \* "load" | "validate" | "setup" | "running" | "returned" | "exited"
    ctxDone,   \* SIGTERM
    pc,        \* component -> control point; "off": not started, "done": ended
    shut,      \* servers whose Shutdown was called
    endpoint,  \* the load balancer has a ready endpoint
    req,       \* request -> "none" | "wait" | "proxy" | "answered"
    hnd,       \* handler of the messenger -> "free" | "wait" | "call"
    msgs       \* messages received

runVars == <<cfg, phase, ctxDone, pc, shut, endpoint, req, hnd, msgs>>

\* complete: all other fields that are required are there.
Configs ==
    [mode : {"", "internal", "external", "other"}, maxHandlers : -1..MaxHandlers,
     complete : BOOLEAN]

RunInit ==
    /\ cfg \in Configs /\ phase = "load" /\ ctxDone = FALSE
    /\ pc = [c \in Components |-> "off"] /\ shut = {} /\ endpoint = FALSE
    /\ req = [r \in Requests |-> "none"] /\ hnd = [h \in Handlers |-> "free"] /\ msgs = 0

-----------------------------------------------------------------------------
(* Start *)

\* LoadConfigFile; a file that cannot be read or parsed ends the process.
LoadConfig ==
    /\ phase = "load"
    /\ phase' \in {"validate", "exited"}
    /\ UNCHANGED <<cfg, ctxDone, pc, shut, endpoint, req, hnd, msgs>>

\* Mutated form of Defaulted: no default for the handlers.
DefaultedMode(c) == [c EXCEPT !.mode = IF @ = "" THEN "internal" ELSE @]

Defaulted(c) ==
    [c EXCEPT !.mode = IF @ = "" THEN "internal" ELSE @,
              !.maxHandlers = IF @ = 0 THEN 1 ELSE @]

\* The tag of MaxHandlers is not looked at: the field of the streams has no "dive".
Valid(c) == c.complete /\ c.mode \in {"internal", "external"}

DefaultAndValidate ==
    /\ phase = "validate"
    /\ cfg' = Defaulted(cfg)
    /\ phase' = IF Valid(cfg') THEN "setup" ELSE "exited"
    /\ UNCHANGED <<ctxDone, pc, shut, endpoint, req, hnd, msgs>>

\* The components of the mode.
Started ==
    IF cfg.mode = "external" THEN {"metrics", "election", "controllers"} ELSE Components

FirstPC ==
    [autoscaler |-> "wait", api |-> "new", metrics |-> "new", election |-> "elect",
     messenger |-> "receive", controllers |-> "start"]

\* Everything is set up, which may fail, before the first goroutine is started.
\* A channel of negative size is a panic in the messenger's goroutine.
Launch ==
    /\ phase = "setup"
    /\ \/ phase' = "exited" /\ UNCHANGED pc
       \/ /\ phase' = IF "messenger" \in Started /\ cfg.maxHandlers < 0
                      THEN "exited" ELSE "running"
          /\ pc' = [c \in Components |-> IF c \in Started THEN FirstPC[c] ELSE "off"]
    /\ UNCHANGED <<cfg, ctxDone, shut, endpoint, req, hnd, msgs>>

\* The signal handler is there before Run; the second signal ends the process.
Signal ==
    /\ phase \in {"validate", "setup", "running"}
    /\ ctxDone' = TRUE
    /\ phase' = IF ctxDone THEN "exited" ELSE phase
    /\ UNCHANGED <<cfg, pc, shut, endpoint, req, hnd, msgs>>

-----------------------------------------------------------------------------
(* The components *)

At(c, here) == phase = "running" /\ pc[c] = here
Move(c, there) == pc' = [pc EXCEPT ![c] = there]

\* Autoscaler.Start looks at the context once in an interval.
Tick ==
    /\ At("autoscaler", "wait")
    /\ Move("autoscaler", IF ctxDone THEN "done" ELSE "tick")
    /\ UNCHANGED <<cfg, phase, ctxDone, shut, endpoint, req, hnd, msgs>>

Autoscaled ==
    /\ At("autoscaler", "tick")
    /\ Move("autoscaler", "wait")
    /\ UNCHANGED <<cfg, phase, ctxDone, shut, endpoint, req, hnd, msgs>>

\* Election.Start: RunOrDie returns when the lease is lost, and is called again.
LoseElection ==
    /\ At("election", "elect")
    /\ Move("election", "backoff")
    /\ UNCHANGED <<cfg, phase, ctxDone, shut, endpoint, req, hnd, msgs>>

Backoff ==
    /\ At("election", "backoff")
    /\ Move("election", IF ctxDone THEN "done" ELSE "elect")
    /\ UNCHANGED <<cfg, phase, ctxDone, shut, endpoint, req, hnd, msgs>>

\* ListenAndServe; after Shutdown it returns ErrServerClosed, at once or before
\* it has listened.
Listen(s) ==
    /\ At(s, "new") /\ s \notin shut
    /\ Move(s, "serve")
    /\ UNCHANGED <<cfg, phase, ctxDone, shut, endpoint, req, hnd, msgs>>

ServerClosed(s) ==
    /\ At(s, "new") \/ At(s, "serve")
    /\ s \in shut
    /\ Move(s, "done")
    /\ UNCHANGED <<cfg, phase, ctxDone, shut, endpoint, req, hnd, msgs>>

\* A port in use, a subscription that cannot be opened again, a lost lease of
\* the controllers or some that do not stop in time: os.Exit(1).
ComponentFails(c) ==
    /\ phase = "running" /\ pc[c] \in {"new", "serve", "receive", "start"} /\ c \notin shut
    /\ phase' = "exited"
    /\ UNCHANGED <<cfg, ctxDone, pc, shut, endpoint, req, hnd, msgs>>

\* The load balancer's controller sees Pods come and go.
Watch ==
    /\ At("controllers", "start") /\ endpoint' = ~endpoint
    /\ UNCHANGED <<cfg, phase, ctxDone, pc, shut, req, hnd, msgs>>

\* mgr.Start returns.
StopControllers ==
    /\ At("controllers", "start") /\ ctxDone
    /\ Move("controllers", IF cfg.mode = "external" THEN "shutdownMetrics" ELSE "shutdownAPI")
    /\ UNCHANGED <<cfg, phase, ctxDone, shut, endpoint, req, hnd, msgs>>

InFlight == {r \in Requests : req[r] \in {"wait", "proxy"}}

\* Mutated form of ShutdownAPI: Close, which does not wait.
CloseAPI ==
    /\ At("controllers", "shutdownAPI")
    /\ shut' = shut \cup {"api"}
    /\ Move("controllers", "shutdownMetrics")
    /\ UNCHANGED <<cfg, phase, ctxDone, endpoint, req, hnd, msgs>>

\* Shutdown closes the listener, and returns when no request is in flight.
ShutdownAPI ==
    /\ At("controllers", "shutdownAPI")
    /\ shut' = shut \cup {"api"}
    /\ IF "api" \in shut /\ InFlight = {} THEN Move("controllers", "shutdownMetrics")
       ELSE UNCHANGED pc
    /\ UNCHANGED <<cfg, phase, ctxDone, endpoint, req, hnd, msgs>>

ShutdownMetrics ==
    /\ At("controllers", "shutdownMetrics")
    /\ shut' = shut \cup {"metrics"}
    /\ Move("controllers", "done")
    /\ UNCHANGED <<cfg, phase, ctxDone, endpoint, req, hnd, msgs>>

\* wg.Wait
Return ==
    /\ phase = "running" /\ \A c \in Components : pc[c] \in {"off", "done"}
    /\ phase' = "returned"
    /\ UNCHANGED <<cfg, ctxDone, pc, shut, endpoint, req, hnd, msgs>>

-----------------------------------------------------------------------------
(* Requests of the API server, in the context of the process *)

Accept(r) ==
    /\ At("api", "serve") /\ "api" \notin shut /\ req[r] = "none"
    /\ req' = [req EXCEPT ![r] = "wait"]
    /\ UNCHANGED <<cfg, phase, ctxDone, pc, shut, endpoint, hnd, msgs>>

Proxy(r) ==
    /\ phase = "running" /\ req[r] = "wait" /\ endpoint
    /\ req' = [req EXCEPT ![r] = "proxy"]
    /\ UNCHANGED <<cfg, phase, ctxDone, pc, shut, endpoint, hnd, msgs>>

\* Mutated form of Waits: a base context of the server's own.
WaitsForEndpoint(r) == req[r] = "wait"

\* AwaitBestAddress returns when the context is done.
Waits(r) == req[r] = "wait" /\ ~ctxDone

Answer(r) ==
    /\ phase = "running" /\ r \in InFlight /\ ~Waits(r)
    /\ req' = [req EXCEPT ![r] = "answered"]
    /\ UNCHANGED <<cfg, phase, ctxDone, pc, shut, endpoint, hnd, msgs>>

-----------------------------------------------------------------------------
(* Messenger.Start and its handlers, in a context of their own *)

Slots == 1..cfg.maxHandlers

Receive ==
    /\ At("messenger", "receive")
    /\ \/ msgs < MaxMsgs /\ msgs' = msgs + 1 /\ Move("messenger", "acquire")
       \/ ctxDone /\ Move("messenger", "done") /\ UNCHANGED msgs
    /\ UNCHANGED <<cfg, phase, ctxDone, shut, endpoint, req, hnd>>

Acquire ==
    /\ At("messenger", "acquire")
    /\ \/ /\ \E h \in Slots : hnd[h] = "free" /\ hnd' = [hnd EXCEPT ![h] = "wait"]
          /\ Move("messenger", "receive")
       \/ ctxDone /\ Move("messenger", "drain") /\ UNCHANGED hnd
    /\ UNCHANGED <<cfg, phase, ctxDone, shut, endpoint, req, msgs>>

Drain ==
    /\ At("messenger", "drain") /\ \A h \in Slots : hnd[h] = "free"
    /\ Move("messenger", "done")
    /\ UNCHANGED <<cfg, phase, ctxDone, shut, endpoint, req, hnd, msgs>>

Handle(h) ==
    /\ phase = "running"
    /\ \/ hnd[h] = "wait" /\ endpoint /\ hnd' = [hnd EXCEPT ![h] = "call"]
       \/ hnd[h] = "call" /\ hnd' = [hnd EXCEPT ![h] = "free"]
    /\ UNCHANGED <<cfg, phase, ctxDone, pc, shut, endpoint, req, msgs>>

-----------------------------------------------------------------------------
Start == LoadConfig \/ DefaultAndValidate \/ Launch
Stop  == StopControllers \/ ShutdownAPI \/ ShutdownMetrics \/ Return

RunNext ==
    \/ Start \/ Signal \/ Tick \/ Autoscaled \/ LoseElection \/ Backoff \/ Watch \/ Stop
    \/ \E s \in Servers : Listen(s) \/ ServerClosed(s)
    \/ \E c \in Components : ComponentFails(c)
    \/ \E r \in Requests : Accept(r) \/ Proxy(r) \/ Answer(r)
    \/ Receive \/ Acquire \/ Drain
    \/ \E h \in Handlers : Handle(h)

RunSpec == RunInit /\ [][RunNext]_runVars

\* The goroutines run, RunOrDie returns when the context is done, and servers
\* answer.
FairSpec ==
    /\ RunSpec
    /\ WF_runVars(Start) /\ WF_runVars(Stop) /\ WF_runVars(Tick) /\ WF_runVars(Autoscaled)
    /\ WF_runVars(LoseElection /\ ctxDone) /\ WF_runVars(Backoff)
    /\ \A s \in Servers : WF_runVars(Listen(s)) /\ WF_runVars(ServerClosed(s))
    /\ \A r \in Requests : WF_runVars(Answer(r))
    /\ WF_runVars(Receive /\ ctxDone) /\ WF_runVars(Acquire) /\ WF_runVars(Drain)
    /\ \A h \in Handlers : WF_runVars(Handle(h))

-----------------------------------------------------------------------------
(* Properties *)

Ended == phase \in {"returned", "exited"}

\* The messenger drains, and a handler waits for an endpoint that no controller
\* can report any more.
Undrainable ==
    /\ pc["messenger"] = "drain" /\ \E h \in Slots : hnd[h] = "wait"
    /\ pc["controllers"] # "start" /\ ~endpoint

(* "Run starts all components of the system and blocks until they complete.
   The context is used to signal the system to stop.  [...] Exits the program
   if any of the components stop with an error" (run.go:74-77): after a signal,
   in the middle of whatever, or when a component has ended, all of them end.
   Left out is the one case in which they do not. *)
RunReturns ==
    (ctxDone \/ \E c \in Components : pc[c] = "done") ~> (Ended \/ Undrainable)

(* The same without the exception. *)
RunAlwaysReturns == (ctxDone \/ \E c \in Components : pc[c] = "done") ~> Ended

(* As long as the API server has a request in flight the metrics are served
   that tell the autoscalers of it, and Run does not return
   (run.go:409-416). *)
MetricsOutliveRequests ==
    ("metrics" \in shut \/ phase = "returned") => InFlight = {}

(* A messenger that has received a message gets a slot for it, if there is an
   endpoint long enough for its handlers, whatever number of handlers is
   configured (system.go:63-67, messenger.go:131-138). *)
MessengerProceeds ==
    [](pc["messenger"] = "acquire" => <>(pc["messenger"] # "acquire" \/ Ended \/ ~endpoint))

=============================================================================

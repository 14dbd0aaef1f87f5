----------------------------- MODULE Messenger ------------------------------
(***************************************************************************)
(* One messenger: the receive loop with its semaphore, and the handlers    *)
(* that turn request messages into requests to a model server and send the *)
(* answers to the responses topic (internal/messenger/messenger.go).       *)
(*                                                                         *)
(* The broker is external: it delivers every message at least once, and    *)
(* delivers it again when it is nacked or when no ack comes in time, also  *)
(* while a handler still works on it.  An ack that comes too late is lost, *)
(* and so are the acks and nacks of a subscription that is shut down.      *)
(***************************************************************************)
EXTENDS Integers, FiniteSets

CONSTANTS
    Msgs,
    Handlers,            \* the slots of sem: MaxHandlers of them
    Nackable,            \* the messages that can be nacked
    MaxRestartAttempts,  \* maxRestartAttempts
    MaxFailures,         \* bound: failures of Receive, OpenSubscription and Send
    MaxExpiries,         \* bound: ack deadlines that pass
    MaxStops,            \* bound: SIGTERMs
    None

ASSUME MessengerAssumption ==
    /\ MaxRestartAttempts \in Nat /\ Nackable \subseteq Msgs
    /\ IsFiniteSet(Handlers)

VARIABLES
    broker,   \* message -> "queued" | "delivered" | "acked"
    loop,     \* Start: "receive" | "acquire" | "started" | "drain" | "returned"
    cur,      \* the message Start holds, or None
    restartAttempt,
    drained,  \* slots of sem that the end of Start has taken
    ctxDone,
    hpc,      \* handler -> control point of handleRequest, "free" without one
    hmsg,     \* handler -> its message, or None
    orphans,  \* the handlers whose message came from a subscription since shut down
    hresp,    \* handler -> its answer: "unparsed" | "success" | "error", a status of 300
              \*   or more | "notJSON", which cannot be marshalled; or None
    active,   \* InferenceRequestsActive, of messages
    sent,     \* message -> the kinds of answers sent: "body", "empty"
    failures, expiries, stops

loopVars == <<loop, cur, restartAttempt, drained, ctxDone>>
boundVars == <<failures, expiries, stops>>
hVars == <<hpc, hmsg, hresp, orphans>>
vars == <<broker, loop, cur, restartAttempt, drained, ctxDone, hpc, hmsg, hresp,
          orphans, active, sent, failures, expiries, stops>>

Init ==
    /\ broker = [m \in Msgs |-> "queued"]
    /\ loop = "receive" /\ cur = None /\ restartAttempt = 0 /\ drained = {} /\ ctxDone = FALSE
    /\ hpc = [h \in Handlers |-> "free"]
    /\ hmsg = [h \in Handlers |-> None]
    /\ hresp = [h \in Handlers |-> None] /\ orphans = {}
    /\ active = 0
    /\ sent = [m \in Msgs |-> {}]
    /\ failures = 0 /\ expiries = 0 /\ stops = 0

-----------------------------------------------------------------------------
(* Start *)

Receive ==
    /\ loop = "receive"
    /\ \E m \in Msgs : /\ broker[m] = "queued"
                       /\ broker' = [broker EXCEPT ![m] = "delivered"]
                       /\ cur' = m
    /\ restartAttempt' = 0
    /\ loop' = "acquire"
    /\ UNCHANGED <<drained, ctxDone, hVars, active, sent, boundVars>>

Busy == {h \in Handlers : hpc[h] \notin {"free", "drained"}}

\* Receive fails: too often in a row, or the subscription is shut down, under the
\* handlers that hold messages of it, and opened again, which may fail too.
ReceiveFails ==
    /\ loop = "receive" /\ failures < MaxFailures
    /\ failures' = failures + 1
    /\ IF restartAttempt > MaxRestartAttempts
       THEN loop' = "returned" /\ UNCHANGED <<orphans, restartAttempt>>
       ELSE /\ orphans' = Busy
            /\ \/ restartAttempt' = restartAttempt + 1 /\ UNCHANGED loop
               \/ loop' = "returned" /\ UNCHANGED restartAttempt
    /\ UNCHANGED <<broker, cur, drained, ctxDone, hpc, hmsg, hresp, active, sent,
                   expiries, stops>>

\* context.Canceled out of Receive.
ReceiveCanceled ==
    /\ loop = "receive" /\ ctxDone
    /\ loop' = "returned"
    /\ UNCHANGED <<broker, cur, restartAttempt, drained, ctxDone, hVars, active,
                   sent, boundVars>>

\* sem <- struct{}{}, and the goroutine of the handler.
Acquire ==
    /\ loop = "acquire"
    /\ \E h \in Handlers : /\ hpc[h] = "free"
                           /\ hpc' = [hpc EXCEPT ![h] = "parse"]
                           /\ hmsg' = [hmsg EXCEPT ![h] = cur]
    /\ cur' = None /\ loop' = "started"
    /\ UNCHANGED <<broker, restartAttempt, drained, ctxDone, hresp, orphans,
                   active, sent, boundVars>>

\* break recvLoop: the message in hand is neither acked nor nacked.
AcquireCanceled ==
    /\ loop = "acquire" /\ ctxDone
    /\ cur' = None /\ loop' = "drain"
    /\ UNCHANGED <<broker, restartAttempt, drained, ctxDone, hVars, active, sent,
                   boundVars>>

\* The sleep after consecutive errors, if there are any; their number is only
\* its length.
Backoff ==
    /\ loop = "started"
    /\ loop' = "receive"
    /\ UNCHANGED <<broker, cur, restartAttempt, drained, ctxDone, hVars, active,
                   sent, boundVars>>

Drain ==
    /\ loop = "drain"
    /\ \/ /\ drained = Handlers /\ loop' = "returned" /\ UNCHANGED <<drained, hpc>>
       \/ \E h \in Handlers \ drained :
            /\ hpc[h] = "free"
            /\ drained' = drained \cup {h}
            /\ hpc' = [hpc EXCEPT ![h] = "drained"]
            /\ UNCHANGED loop
    /\ UNCHANGED <<broker, cur, restartAttempt, ctxDone, hmsg, hresp, orphans,
                   active, sent, boundVars>>

-----------------------------------------------------------------------------
(* handleRequest *)

Goto(h, label) == hpc' = [hpc EXCEPT ![h] = label]
Respond(h, r) == Goto(h, "respond") /\ hresp' = [hresp EXCEPT ![h] = r]

ParseFails(h) ==
    /\ hpc[h] = "parse"
    /\ Respond(h, "unparsed")
    /\ UNCHANGED <<broker, loopVars, hmsg, orphans, active, sent, boundVars>>

\* Counted; a failed ScaleAtLeastOneReplica goes unnoticed.
Parse(h) ==
    /\ hpc[h] = "parse"
    /\ active' = active + 1
    /\ Goto(h, "await")
    /\ UNCHANGED <<broker, loopVars, hmsg, hresp, orphans, sent, boundVars>>

\* AwaitBestAddress, which nothing cancels.
Granted(h) ==
    /\ hpc[h] = "await"
    /\ Goto(h, "backend")
    /\ UNCHANGED <<broker, loopVars, hmsg, hresp, orphans, active, sent, boundVars>>

\* No address, or no answer from it.
BackendFails(h) ==
    /\ hpc[h] \in {"await", "backend"}
    /\ Respond(h, "error")
    /\ UNCHANGED <<broker, loopVars, hmsg, orphans, active, sent, boundVars>>

\* A status below 300 or not; a body that is JSON or not.
BackendAnswers(h) ==
    /\ hpc[h] = "backend"
    /\ \E r \in {"success", "error", "notJSON"} : Respond(h, r)
    /\ UNCHANGED <<broker, loopVars, hmsg, orphans, active, sent, boundVars>>

\* Ack and Nack, which the broker heeds in time and from an open subscription.
Settle(h, status) ==
    broker' = IF broker[hmsg[h]] = "delivered" /\ h \notin orphans
              THEN [broker EXCEPT ![hmsg[h]] = status] ELSE broker

\* The answer is sent, without a body when it cannot be marshalled, then the
\* message is acked.
AckAfterSend(h) ==
    /\ sent' = [sent EXCEPT ![hmsg[h]] =
                   @ \cup {IF hresp[h] = "notJSON" THEN "empty" ELSE "body"}]
    /\ Settle(h, "acked")

SendResponse(h) ==
    /\ hpc[h] = "respond"
    /\ AckAfterSend(h)
    /\ Goto(h, "finish")
    /\ UNCHANGED <<loopVars, hmsg, hresp, orphans, active, boundVars>>

\* Mutated form of SendFails: no return after the Nack.
SendFailsAcked(h) ==
    /\ hpc[h] = "respond" /\ failures < MaxFailures
    /\ failures' = failures + 1
    /\ IF hmsg[h] \in Nackable THEN UNCHANGED broker ELSE Settle(h, "acked")
    /\ Goto(h, "finish")
    /\ UNCHANGED <<loopVars, hmsg, hresp, orphans, active, sent, expiries, stops>>

\* Nack, or wait for the ack deadline.
SendFails(h) ==
    /\ hpc[h] = "respond" /\ failures < MaxFailures
    /\ failures' = failures + 1
    /\ IF hmsg[h] \in Nackable THEN Settle(h, "queued") ELSE UNCHANGED broker
    /\ Goto(h, "finish")
    /\ UNCHANGED <<loopVars, hmsg, hresp, orphans, active, sent, expiries, stops>>

Free(h) ==
    /\ hpc' = [hpc EXCEPT ![h] = "free"]
    /\ hmsg' = [hmsg EXCEPT ![h] = None]
    /\ hresp' = [hresp EXCEPT ![h] = None]
    /\ orphans' = orphans \ {h}

\* Mutated form of Uncount: the decrement is deferred before the message is parsed.
UncountAlways(h) == active' = active - 1

\* The deferred decrement of the metric; an unparsed message was not counted.
Uncount(h) == active' = IF hresp[h] = "unparsed" THEN active ELSE active - 1

\* Mutated form of Finish: the slot of the semaphore is not given back.
FinishKeepsSlot(h) ==
    /\ hpc[h] = "finish"
    /\ Goto(h, "lost") /\ Uncount(h)
    /\ UNCHANGED <<broker, loopVars, hmsg, hresp, orphans, sent, boundVars>>

\* The deferred calls, and the slot of the semaphore.
Finish(h) ==
    /\ hpc[h] = "finish"
    /\ Free(h) /\ Uncount(h)
    /\ UNCHANGED <<broker, loopVars, sent, boundVars>>

-----------------------------------------------------------------------------
(* The process and the broker *)

Stop ==
    /\ stops < MaxStops /\ ~ctxDone
    /\ stops' = stops + 1
    /\ ctxDone' = TRUE
    /\ UNCHANGED <<broker, loop, cur, restartAttempt, drained, hVars, active,
                   sent, failures, expiries>>

\* Start has returned: the process exits, with the handlers that still run, and
\* a new one starts.
Restart ==
    /\ loop = "returned"
    /\ loop' = "receive" /\ cur' = None /\ restartAttempt' = 0 /\ drained' = {}
    /\ ctxDone' = FALSE /\ active' = 0
    /\ hpc' = [h \in Handlers |-> "free"]
    /\ hmsg' = [h \in Handlers |-> None]
    /\ hresp' = [h \in Handlers |-> None] /\ orphans' = {}
    /\ UNCHANGED <<broker, sent, boundVars>>

InHand(m) == cur = m \/ \E h \in Handlers : hmsg[h] = m

\* No ack in time, and nobody works on the message any more.
Redeliver(m) ==
    /\ broker[m] = "delivered" /\ ~InHand(m)
    /\ broker' = [broker EXCEPT ![m] = "queued"]
    /\ UNCHANGED <<loopVars, hVars, active, sent, boundVars>>

\* No ack in time, although somebody does.
Expire(m) ==
    /\ broker[m] = "delivered" /\ InHand(m) /\ expiries < MaxExpiries
    /\ expiries' = expiries + 1
    /\ broker' = [broker EXCEPT ![m] = "queued"]
    /\ UNCHANGED <<loopVars, hVars, active, sent, failures, stops>>

Start == Receive \/ ReceiveCanceled \/ Acquire \/ AcquireCanceled \/ Backoff \/ Drain

Handle(h) ==
    \/ ParseFails(h) \/ Parse(h) \/ Granted(h) \/ BackendFails(h) \/ BackendAnswers(h)
    \/ SendResponse(h) \/ Finish(h)

Next ==
    \/ Start \/ ReceiveFails \/ Stop \/ Restart
    \/ \E h \in Handlers : Handle(h) \/ SendFails(h)
    \/ \E m \in Msgs : Redeliver(m) \/ Expire(m)

Spec == Init /\ [][Next]_vars

\* Goroutines run, endpoints are there, backends answer, the process is started
\* again and the broker redelivers.
FairSpec ==
    /\ Spec
    /\ WF_vars(Start) /\ WF_vars(Restart)
    /\ \A h \in Handlers : WF_vars(Handle(h))
    /\ \A m \in Msgs : WF_vars(Redeliver(m))

-----------------------------------------------------------------------------
(* Properties *)

(* No message is acked without an answer on the responses topic, whatever
   fails, expires, is handled twice or is cut off by an exit
   (messenger.go:327-347). *)
AckedIsAnswered == \A m \in Msgs : broker[m] = "acked" => sent[m] # {}

(* The metric that drives the autoscaler counts the messages in the hands of
   handlers past the parser, on all of their ways out (messenger.go:196-213). *)
ActiveIsExact ==
    active = Cardinality({h \in Handlers :
                \/ hpc[h] \in {"await", "backend"}
                \/ hpc[h] \in {"respond", "finish"} /\ hresp[h] # "unparsed"})

(* Every message is answered and acked in the end, also when the receive loop
   restarts its subscription, stops, or the process is replaced: no slot of
   the semaphore is lost (messenger.go:91-167). *)
EveryMessageIsAcked == \A m \in Msgs : <>(broker[m] = "acked")

(* "We're no longer receiving messages. Wait to finish handling any
   unacknowledged messages by totally acquiring the semaphore"
   (messenger.go:163-164): when Start returns, no handler is at work. *)
DrainedAtReturn ==
    loop = "returned" => \A h \in Handlers : hpc[h] \in {"free", "drained"}

(* "If a response cant be sent, the message should be redelivered"
   (messenger.go:336): a message is not acked before an answer with a body has
   been sent. *)
AckedHasBody ==
    \A m \in Msgs : broker[m] = "acked" => "body" \in sent[m]

=============================================================================

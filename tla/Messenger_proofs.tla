-------------------------- MODULE Messenger_proofs --------------------------
(* Proofs of the safety properties of Messenger. *)
EXTENDS Messenger, FiniteSetTheorems, TLAPS

-----------------------------------------------------------------------------
(* The inductive invariant. *)

\* The control points of a goroutine that works on a message.
Working == {"parse", "await", "backend", "respond", "finish"}

Answers == {"unparsed", "error", "success", "notJSON"}

\* The handlers the metric is to count.
Counted == {h \in Handlers :
                \/ hpc[h] \in {"await", "backend"}
                \/ hpc[h] \in {"respond", "finish"} /\ hresp[h] # "unparsed"}

TypeOK ==
    /\ broker \in [Msgs -> {"queued", "delivered", "acked"}]
    /\ loop \in {"receive", "acquire", "started", "drain", "returned"}
    /\ cur \in Msgs \cup {None}
    /\ hpc \in [Handlers -> Working \cup {"free", "drained"}]
    /\ hmsg \in [Handlers -> Msgs \cup {None}]
    /\ hresp \in [Handlers -> Answers \cup {None}]
    /\ active \in Int
    /\ sent \in [Msgs -> SUBSET {"body", "empty"}]

\* Whoever works on a message has one, and whoever answers has an answer.
InHandInv ==
    /\ loop = "acquire" => cur \in Msgs
    /\ \A h \in Handlers :
        /\ hpc[h] \in Working => hmsg[h] \in Msgs
        /\ hpc[h] \in {"respond", "finish"} => hresp[h] \in Answers

IInv == TypeOK /\ InHandInv /\ AckedIsAnswered /\ ActiveIsExact

-----------------------------------------------------------------------------
(* Type correctness. *)

\* A messenger starts well typed, with nobody at work.
LEMMA TypeInit == Init => TypeOK /\ InHandInv
  BY MessengerAssumption DEF Init, TypeOK, InHandInv, Working, Answers

\* Every step of Start, of a handler, of the process and of the broker keeps the
\* types, and gives a handler that works a message and one that answers an answer.
LEMMA TypeStep == TypeOK /\ InHandInv /\ [Next]_vars => TypeOK' /\ InHandInv'
<1> SUFFICES ASSUME TypeOK, InHandInv, [Next]_vars PROVE TypeOK' /\ InHandInv'
  OBVIOUS
<1> USE MessengerAssumption DEF TypeOK, InHandInv, Working, Answers, loopVars, boundVars, hVars
<1>1. CASE Receive
  BY <1>1 DEF Receive
<1>2. CASE ReceiveCanceled \/ ReceiveFails
  BY <1>2 DEF ReceiveCanceled, ReceiveFails
<1>3. CASE Acquire
  BY <1>3 DEF Acquire
<1>4. CASE AcquireCanceled \/ Backoff
  BY <1>4 DEF AcquireCanceled, Backoff
<1>5. CASE Drain
  BY <1>5 DEF Drain
<1>6. CASE Stop
  BY <1>6 DEF Stop
<1>7. CASE Restart
  BY <1>7 DEF Restart
<1>8. ASSUME NEW h \in Handlers, Handle(h) \/ SendFails(h) PROVE TypeOK' /\ InHandInv'
  <2>1. CASE ParseFails(h)
    BY <2>1 DEF ParseFails, Respond, Goto
  <2>2. CASE Parse(h) \/ Granted(h)
    BY <2>2 DEF Parse, Granted, Goto
  <2>3. CASE BackendFails(h)
    BY <2>3 DEF BackendFails, Respond, Goto
  <2>4. CASE BackendAnswers(h)
    BY <2>4 DEF BackendAnswers, Respond, Goto
  <2>5. CASE SendResponse(h)
    BY <2>5 DEF SendResponse, AckAfterSend, Settle, Goto
  <2>6. CASE SendFails(h)
    BY <2>6 DEF SendFails, Settle, Goto
  <2>7. CASE Finish(h)
    BY <2>7 DEF Finish, Free, Uncount
  <2> QED
    BY <1>8, <2>1, <2>2, <2>3, <2>4, <2>5, <2>6, <2>7 DEF Handle
<1>9. ASSUME NEW m \in Msgs, Redeliver(m) \/ Expire(m) PROVE TypeOK' /\ InHandInv'
  BY <1>9 DEF Redeliver, Expire
<1>10. CASE UNCHANGED vars
  BY <1>10 DEF vars
<1> QED
  BY <1>1, <1>2, <1>3, <1>4, <1>5, <1>6, <1>7, <1>8, <1>9, <1>10 DEF Next, Start

-----------------------------------------------------------------------------
(* Acks. *)

\* A message becomes acked only in AckAfterSend, which adds the answer in hand.
LEMMA AckedStep ==
    TypeOK /\ InHandInv /\ AckedIsAnswered /\ [Next]_vars => AckedIsAnswered'
<1> SUFFICES ASSUME TypeOK, InHandInv, AckedIsAnswered, [Next]_vars,
                    NEW m \in Msgs, broker'[m] = "acked"
             PROVE  sent'[m] # {}
  BY DEF AckedIsAnswered
<1> USE DEF TypeOK, loopVars, boundVars, hVars
<1>1. broker[m] = "acked" => sent[m] # {}
  BY DEF AckedIsAnswered
<1>2. CASE UNCHANGED <<broker, sent>>
  BY <1>1, <1>2
<1>3. CASE Receive \/ \E k \in Msgs : Redeliver(k) \/ Expire(k)
  BY <1>1, <1>3 DEF Receive, Redeliver, Expire
<1>4. ASSUME NEW h \in Handlers, SendResponse(h) PROVE sent'[m] # {}
  <2>1. hmsg[h] \in Msgs
    BY <1>4 DEF SendResponse, InHandInv, Working
  <2>2. sent' = [sent EXCEPT ![hmsg[h]] =
                    @ \cup {IF hresp[h] = "notJSON" THEN "empty" ELSE "body"}]
    BY <1>4 DEF SendResponse, AckAfterSend
  <2>3. CASE m = hmsg[h]
    BY <2>1, <2>2, <2>3
  <2>4. CASE m # hmsg[h]
    BY <1>1, <1>4, <2>1, <2>2, <2>4 DEF SendResponse, AckAfterSend, Settle
  <2> QED
    BY <2>3, <2>4
<1>5. ASSUME NEW h \in Handlers, SendFails(h) PROVE sent'[m] # {}
  BY <1>1, <1>5 DEF SendFails, Settle
<1>6. ASSUME NEW h \in Handlers, Handle(h), ~SendResponse(h) PROVE UNCHANGED <<broker, sent>>
  BY <1>6 DEF Handle, ParseFails, Parse, Granted, BackendFails, BackendAnswers, Finish
<1>7. CASE ReceiveCanceled \/ ReceiveFails \/ Acquire \/ AcquireCanceled \/ Backoff \/ Drain
           \/ Stop \/ Restart \/ UNCHANGED vars
  BY <1>2, <1>7 DEF ReceiveCanceled, ReceiveFails, Acquire, AcquireCanceled, Backoff, Drain,
                    Stop, Restart, vars
<1> QED
  BY <1>2, <1>3, <1>4, <1>5, <1>6, <1>7 DEF Next, Start, Handle

-----------------------------------------------------------------------------
(* The metric. *)

\* A handler that enters or leaves the counted ones changes their number by one.
LEMMA CountStep ==
    ASSUME NEW h \in Handlers
    PROVE  /\ IsFiniteSet(Counted) /\ Cardinality(Counted) \in Nat
           /\ h \notin Counted => Cardinality(Counted \cup {h}) = Cardinality(Counted) + 1
           /\ h \in Counted => Cardinality(Counted \ {h}) = Cardinality(Counted) - 1
<1>1. IsFiniteSet(Counted)
  BY MessengerAssumption, FS_Subset DEF Counted
<1> QED
  BY <1>1, FS_CardinalityType, FS_AddElement, FS_RemoveElement

\* The metric goes up where a message has been parsed and down where a handler
\* that has parsed one ends, and nowhere else.
LEMMA ActiveStep ==
    TypeOK /\ InHandInv /\ ActiveIsExact /\ [Next]_vars => ActiveIsExact'
<1> SUFFICES ASSUME TypeOK, InHandInv, active = Cardinality(Counted), [Next]_vars
             PROVE  active' = Cardinality(Counted')
  BY DEF ActiveIsExact, Counted
<1> USE DEF TypeOK, loopVars, boundVars, hVars, Working
<1>1. CASE UNCHANGED active /\ Counted' = Counted
  BY <1>1
<1>2. CASE UNCHANGED <<active, hpc, hresp>>
  BY <1>1, <1>2 DEF Counted
<1>3. CASE Acquire \/ Drain
  <2>1. Counted' = Counted
    BY <1>3 DEF Acquire, Drain, Counted
  <2> QED
    BY <1>1, <1>3, <2>1 DEF Acquire, Drain
<1>4. CASE Restart
  <2>1. Counted' = {}
    BY <1>4 DEF Restart, Counted
  <2> QED
    BY <1>4, <2>1, FS_EmptySet DEF Restart
<1>5. ASSUME NEW h \in Handlers, Handle(h) \/ SendFails(h) PROVE active' = Cardinality(Counted')
  <2>1. CASE ParseFails(h)
    <3>1. Counted' = Counted
      BY <2>1 DEF ParseFails, Respond, Goto, Counted
    <3> QED
      BY <1>1, <2>1, <3>1 DEF ParseFails
  <2>2. CASE Parse(h)
    <3>1. h \notin Counted /\ Counted' = Counted \cup {h}
      BY <2>2 DEF Parse, Goto, Counted
    <3> QED
      BY <2>2, <3>1, CountStep DEF Parse
  <2>3. CASE Granted(h) \/ BackendFails(h) \/ BackendAnswers(h)
    <3>1. Counted' = Counted
      BY <2>3 DEF Granted, BackendFails, BackendAnswers, Respond, Goto, Counted
    <3> QED
      BY <1>1, <2>3, <3>1 DEF Granted, BackendFails, BackendAnswers
  <2>4. CASE SendResponse(h) \/ SendFails(h)
    <3>1. Counted' = Counted
      BY <2>4 DEF SendResponse, SendFails, Goto, Counted
    <3> QED
      BY <1>1, <2>4, <3>1 DEF SendResponse, SendFails
  <2>5. CASE Finish(h)
    <3>1. h \in Counted <=> hresp[h] # "unparsed"
      BY <2>5 DEF Finish, Counted
    <3>2. Counted' = Counted \ {h}
      BY <2>5 DEF Finish, Free, Counted
    <3>3. CASE hresp[h] = "unparsed"
      BY <1>1, <2>5, <3>1, <3>2, <3>3 DEF Finish, Uncount
    <3>4. CASE hresp[h] # "unparsed"
      BY <2>5, <3>1, <3>2, <3>4, CountStep DEF Finish, Uncount
    <3> QED
      BY <3>3, <3>4
  <2> QED
    BY <1>5, <2>1, <2>2, <2>3, <2>4, <2>5 DEF Handle
<1>6. CASE Receive \/ ReceiveCanceled \/ ReceiveFails \/ AcquireCanceled \/ Backoff \/ Stop
           \/ (\E m \in Msgs : Redeliver(m) \/ Expire(m)) \/ UNCHANGED vars
  BY <1>2, <1>6 DEF Receive, ReceiveCanceled, ReceiveFails, AcquireCanceled, Backoff, Stop,
                    Redeliver, Expire, vars
<1> QED
  BY <1>3, <1>4, <1>5, <1>6 DEF Next, Start

-----------------------------------------------------------------------------
(* The theorems. *)

\* The inductive invariant holds in every reachable state of a messenger with
\* any set of messages, any number of handlers and any number of failures.
THEOREM Invariance == Spec => []IInv
<1>1. Init => IInv
  <2> SUFFICES ASSUME Init PROVE IInv
    OBVIOUS
  <2>1. AckedIsAnswered
    BY DEF Init, AckedIsAnswered
  <2>2. Counted = {}
    BY DEF Init, Counted
  <2>3. ActiveIsExact
    BY <2>2, FS_EmptySet DEF Init, ActiveIsExact, Counted
  <2> QED
    BY <2>1, <2>3, TypeInit DEF IInv
<1>2. IInv /\ [Next]_vars => IInv'
  BY TypeStep, AckedStep, ActiveStep DEF IInv
<1> QED
  BY <1>1, <1>2, PTL DEF Spec

\* No message is acked before an answer to it has been sent, for any number of
\* expired ack deadlines, failed sends and restarts (messenger.go:327-347).
THEOREM AckedAnswered == Spec => []AckedIsAnswered
<1>1. IInv => AckedIsAnswered
  BY DEF IInv
<1> QED
  BY <1>1, Invariance, PTL

\* The metric the autoscaler reads equals the number of handlers past the
\* parser, for any number of handlers (messenger.go:196-213).
THEOREM ActiveExact == Spec => []ActiveIsExact
<1>1. IInv => ActiveIsExact
  BY DEF IInv
<1> QED
  BY <1>1, Invariance, PTL

=============================================================================

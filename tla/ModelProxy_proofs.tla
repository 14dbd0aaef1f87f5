------------------------- MODULE ModelProxy_proofs --------------------------
(* Proofs of the safety properties of ModelProxy. *)
EXTENDS ModelProxy, FiniteSetTheorems, TLAPS

-----------------------------------------------------------------------------
(* The inductive invariant. *)

Before == {"new", "scale"}
Asking == {"ask", "await"}
After  == {"return", "done"}
Codes  == BodyErrors \cup LookupErrors \cup {"noHost", "ok", "retryable", "502"}

TypeOK ==
    /\ members \in EndpointMaps
    /\ load \in [Counters -> Int]
    /\ want \in [Attempts -> Adapters \cup {NoAdapter, None}]
    /\ held \in [Attempts -> Counters \cup {None}]
    /\ pc \in [Requests -> Before \cup Asking \cup {"proxy", "unwind"} \cup After]
    /\ attempt \in [Requests -> 0..MaxRetries]
    /\ cancelled \subseteq Requests
    /\ active \in Int
    /\ answers \in [Requests -> SUBSET ((0..MaxRetries) \X Codes)]

\* Frames that are not on the stack, and the top one before it is granted an
\* endpoint, hold no lease.
FrameInv ==
    \A r \in Requests : \A a \in 0..MaxRetries :
        (\/ pc[r] \in Before \cup After
         \/ a > attempt[r]
         \/ a = attempt[r] /\ pc[r] \in Asking) => held[<<r, a>>] = None

\* Nothing is written before the last attempt is over; then one answer is, or
\* none to a client that went away.
AnswerInv ==
    \A r \in Requests :
        IF pc[r] \in {"unwind"} \cup After
        THEN answers[r] = {} => r \in cancelled
        ELSE answers[r] = {}

SingleInv == \A r \in Requests : answers[r] = {} \/ \E x : answers[r] = {x}

Holders(k) == {c \in Attempts : held[c] = k}

LoadInv == \A k \in Counters : load[k] = Cardinality(Holders(k))
ActiveInv == active = Cardinality(Counted)

IInv == TypeOK /\ FrameInv /\ AnswerInv /\ SingleInv /\ RetriesAreUsed /\ LoadInv /\ ActiveInv

-----------------------------------------------------------------------------
(* Type correctness. *)

\* The counter of a member is a counter.
LEMMA MemberCounter ==
    ASSUME TypeOK, NEW n \in DOMAIN members
    PROVE  members[n].counter \in Counters
  BY DEF TypeOK, EndpointMaps

\* The call of the attempt a request is at.
LEMMA CurrentIsAttempt ==
    ASSUME TypeOK, NEW r \in Requests
    PROVE  Current(r) \in Attempts /\ attempt[r] \in 0..MaxRetries
  BY DEF TypeOK, Current, Attempts

\* What a write to the client adds is an attempt and a code.
LEMMA AnswerType ==
    ASSUME TypeOK, NEW r \in Requests, NEW code \in Codes, Answer(r, code)
    PROVE  answers' \in [Requests -> SUBSET ((0..MaxRetries) \X Codes)]
  BY DEF TypeOK, Answer

\* The initial state is well typed and holds no lease.
LEMMA TypeInit == Init => TypeOK /\ FrameInv
<1> SUFFICES ASSUME Init PROVE TypeOK /\ FrameInv
  OBVIOUS
<1>1. members \in EndpointMaps
  <2>1. members \in [{} -> [counter : Counters, adapters : SUBSET Adapters]]
    BY DEF Init, Group!Init
  <2> QED
    BY <2>1 DEF EndpointMaps
<1> QED
  BY <1>1, ProxyAssumption DEF Init, Group!Init, TypeOK, FrameInv, Attempts, Before, Asking, After

\* Every step of a handler, of a client and of the endpoints keeps the types.
LEMMA TypeStep == TypeOK /\ [Next]_vars => TypeOK'
<1> SUFFICES ASSUME TypeOK, [Next]_vars PROVE TypeOK'
  OBVIOUS
<1> USE ProxyAssumption DEF groupVars, proxyVars, Goto, Before, Asking, After
<1>1. ASSUME NEW r \in Requests, Step(r) \/ Cancel(r) PROVE TypeOK'
  <2>0. Current(r) \in Attempts /\ attempt[r] \in 0..MaxRetries
    BY CurrentIsAttempt
  <2>1. CASE ParseFails(r) \/ ScaleFails(r) \/ ResponseAccepted(r) \/ ConnectionFails(r)
    <3>1. PICK code \in Codes : Answer(r, code)
      BY <2>1 DEF ParseFails, ScaleFails, ResponseAccepted, ConnectionFails, Codes, LookupErrors
    <3>2. answers' \in [Requests -> SUBSET ((0..MaxRetries) \X Codes)]
      BY <3>1, AnswerType
    <3> QED
      BY <2>1, <3>2 DEF TypeOK, ParseFails, ScaleFails, ResponseAccepted, ConnectionFails
  <2>2. CASE Parse(r) \/ Scale(r) \/ Return(r) \/ RetryAbandoned(r) \/ Unwound(r) \/ Cancel(r)
    BY <2>2 DEF TypeOK, Parse, Scale, Return, RetryAbandoned, Unwound, Cancel
  <2>3. CASE AwaitBestAddress(r)
    BY <2>0, <2>3 DEF TypeOK, AwaitBestAddress, Group!Ask
  <2>4. CASE AwaitFails(r)
    <3>1. answers' \in [Requests -> SUBSET ((0..MaxRetries) \X Codes)]
      BY <2>4, AnswerType DEF AwaitFails, Codes
    <3> QED
      BY <2>0, <2>4, <3>1 DEF TypeOK, AwaitFails, Group!GiveUp
  <2>5. CASE Granted(r)
    <3>1. PICK n \in DOMAIN members :
            /\ held' = [held EXCEPT ![Current(r)] = members[n].counter]
            /\ load' = [load EXCEPT ![members[n].counter] = @ + 1]
      BY <2>5 DEF Granted, Group!Grant
    <3>2. members[n].counter \in Counters
      BY MemberCounter
    <3> QED
      BY <2>0, <2>5, <3>1, <3>2 DEF TypeOK, Granted, Group!Grant
  <2>6. CASE Retry(r)
    BY <2>0, <2>6 DEF TypeOK, Retry, Retryable
  <2>7. CASE Unwind(r)
    <3>1. PICK a \in 0..MaxRetries : Group!Return(<<r, a>>)
      BY <2>7 DEF Unwind, Frames
    <3>2. <<r, a>> \in Attempts
      BY DEF Attempts
    <3> QED
      BY <2>7, <3>1, <3>2 DEF TypeOK, Unwind, Group!Return
  <2> QED
    BY <1>1, <2>1, <2>2, <2>3, <2>4, <2>5, <2>6, <2>7 DEF Step
<1>2. CASE UpdateEndpoints
  BY <1>2 DEF TypeOK, UpdateEndpoints, Group!Update
<1>3. CASE UNCHANGED vars
  BY <1>3 DEF TypeOK, vars
<1> QED
  BY <1>1, <1>2, <1>3 DEF Next

-----------------------------------------------------------------------------
(* Leases. *)

\* A frame gets a lease in Granted, as the top frame, and the handler returns
\* only when no frame has one.
LEMMA FrameStep == TypeOK /\ FrameInv /\ [Next]_vars => FrameInv'
<1> SUFFICES ASSUME TypeOK, FrameInv, [Next]_vars,
                    NEW r \in Requests, NEW a \in 0..MaxRetries,
                    \/ pc'[r] \in Before \cup After
                    \/ a > attempt'[r]
                    \/ a = attempt'[r] /\ pc'[r] \in Asking
             PROVE  held'[<<r, a>>] = None
  BY DEF FrameInv
<1> USE ProxyAssumption DEF groupVars, proxyVars, Goto, Before, Asking, After
<1>0. \/ pc[r] \in Before \cup After
      \/ a > attempt[r]
      \/ a = attempt[r] /\ pc[r] \in Asking
      => held[<<r, a>>] = None
  BY DEF FrameInv
<1>1. <<r, a>> \in Attempts /\ attempt[r] \in 0..MaxRetries
  BY DEF TypeOK, Attempts
<1>2. ASSUME NEW q \in Requests, Step(q) \/ Cancel(q) PROVE held'[<<r, a>>] = None
  <2>1. CASE \/ ParseFails(q) \/ Parse(q) \/ ScaleFails(q) \/ Scale(q) \/ Return(q)
             \/ ResponseAccepted(q) \/ ConnectionFails(q) \/ RetryAbandoned(q) \/ Cancel(q)
    BY <1>0, <2>1 DEF TypeOK, ParseFails, Parse, ScaleFails, Scale, Return, ResponseAccepted,
                      ConnectionFails, RetryAbandoned, Cancel
  <2>2. CASE AwaitBestAddress(q) \/ AwaitFails(q)
    BY <1>0, <2>2 DEF TypeOK, AwaitBestAddress, AwaitFails, Group!Ask, Group!GiveUp
  <2>3. CASE Granted(q)
    <3>1. PICK k : held' = [held EXCEPT ![Current(q)] = k]
      BY <2>3 DEF Granted, Group!Grant
    <3>2. Current(q) # <<r, a>>
      BY <1>1, <2>3 DEF TypeOK, Granted, Current
    <3> QED
      BY <1>0, <1>1, <2>3, <3>1, <3>2 DEF TypeOK, Granted
  <2>4. CASE Retry(q)
    BY <1>0, <1>1, <2>4 DEF TypeOK, Retry, Retryable
  <2>5. CASE Unwind(q)
    <3>1. PICK b \in 0..MaxRetries : Group!Return(<<q, b>>)
      BY <2>5 DEF Unwind, Frames
    <3> QED
      BY <1>0, <1>1, <2>5, <3>1 DEF TypeOK, Unwind, Group!Return
  <2>6. CASE Unwound(q)
    BY <1>0, <2>6 DEF TypeOK, Unwound, Frames
  <2> QED
    BY <1>2, <2>1, <2>2, <2>3, <2>4, <2>5, <2>6 DEF Step
<1>3. CASE UpdateEndpoints
  BY <1>0, <1>3 DEF UpdateEndpoints, Group!Update
<1>4. CASE UNCHANGED vars
  BY <1>0, <1>4 DEF vars
<1> QED
  BY <1>2, <1>3, <1>4 DEF Next

\* The attempts that hold a lease on a counter are finitely many, and one that
\* gets or gives back its lease changes their number by one.
LEMMA HoldersCount ==
    ASSUME NEW k, NEW c \in Attempts
    PROVE  /\ Cardinality(Holders(k)) \in Nat
           /\ c \notin Holders(k) =>
                Cardinality(Holders(k) \cup {c}) = Cardinality(Holders(k)) + 1
           /\ c \in Holders(k) =>
                Cardinality(Holders(k) \ {c}) = Cardinality(Holders(k)) - 1
<1>1. IsFiniteSet(Attempts)
  <2>1. IsFiniteSet(0..MaxRetries)
    BY ProxyAssumption, FS_Interval
  <2> QED
    BY <2>1, ProxyAssumption, FS_Product DEF Attempts
<1>2. IsFiniteSet(Holders(k))
  BY <1>1, FS_Subset DEF Holders
<1> QED
  BY <1>2, FS_CardinalityType, FS_AddElement, FS_RemoveElement

\* The load of a counter follows the leases on it.
LEMMA LoadStep == TypeOK /\ FrameInv /\ LoadInv /\ [Next]_vars => LoadInv'
<1> SUFFICES ASSUME TypeOK, FrameInv, LoadInv, [Next]_vars, NEW k \in Counters
             PROVE  load'[k] = Cardinality(Holders(k)')
  BY DEF LoadInv
<1> USE ProxyAssumption
<1>0. load[k] = Cardinality(Holders(k)) /\ load[k] \in Int
  BY DEF LoadInv, TypeOK
<1>1. CASE UNCHANGED <<load, held>>
  BY <1>0, <1>1 DEF Holders
<1>2. ASSUME NEW r \in Requests, Granted(r) PROVE load'[k] = Cardinality(Holders(k)')
  <2>1. PICK n \in DOMAIN members :
          /\ held' = [held EXCEPT ![Current(r)] = members[n].counter]
          /\ load' = [load EXCEPT ![members[n].counter] = @ + 1]
    BY <1>2 DEF Granted, Group!Grant
  <2>2. members[n].counter \in Counters /\ Current(r) \in Attempts
    BY MemberCounter, CurrentIsAttempt
  <2>3. held[Current(r)] = None
    BY <1>2, CurrentIsAttempt DEF FrameInv, TypeOK, Granted, Current, Asking
  <2>4. CASE members[n].counter = k
    <3>1. Current(r) \notin Holders(k) /\ Holders(k)' = Holders(k) \cup {Current(r)}
      BY <2>1, <2>2, <2>3, <2>4 DEF TypeOK, Holders
    <3>2. load'[k] = load[k] + 1
      BY <2>1, <2>2, <2>4 DEF TypeOK, Holders
    <3> QED
      BY <1>0, <2>2, <3>1, <3>2, HoldersCount
  <2>5. CASE members[n].counter # k
    <3>1. Holders(k)' = Holders(k)
      BY <2>1, <2>2, <2>3, <2>5 DEF TypeOK, Holders
    <3>2. load'[k] = load[k]
      BY <2>1, <2>2, <2>5 DEF TypeOK, Holders
    <3> QED
      BY <1>0, <3>1, <3>2
  <2> QED
    BY <2>4, <2>5
<1>3. ASSUME NEW r \in Requests, Unwind(r) PROVE load'[k] = Cardinality(Holders(k)')
  <2>1. PICK a \in 0..MaxRetries : Group!Return(<<r, a>>)
    BY <1>3 DEF Unwind, Frames
  <2>2. <<r, a>> \in Attempts
    BY DEF Attempts
  <2>3. held[<<r, a>>] \in Counters
    BY <2>1, <2>2 DEF TypeOK, Group!Return
  <2>4. CASE held[<<r, a>>] = k
    <3>1. <<r, a>> \in Holders(k) /\ Holders(k)' = Holders(k) \ {<<r, a>>}
      BY <2>1, <2>2, <2>4 DEF TypeOK, Group!Return, Holders
    <3>2. load'[k] = load[k] - 1
      BY <2>1, <2>4 DEF TypeOK, Group!Return, Holders
    <3> QED
      BY <1>0, <2>2, <3>1, <3>2, HoldersCount
  <2>5. CASE held[<<r, a>>] # k
    <3>1. Holders(k)' = Holders(k)
      BY <2>1, <2>2, <2>5 DEF TypeOK, Group!Return, Holders
    <3>2. load'[k] = load[k]
      BY <2>1, <2>3, <2>5 DEF TypeOK, Group!Return, Holders
    <3> QED
      BY <1>0, <3>1, <3>2
  <2> QED
    BY <2>4, <2>5
<1>4. ASSUME NEW r \in Requests, Step(r) \/ Cancel(r), ~Granted(r), ~Unwind(r)
      PROVE  UNCHANGED <<load, held>>
  BY <1>4 DEF Step, groupVars, ParseFails, Parse, ScaleFails, Scale, Return, AwaitBestAddress,
              Group!Ask, AwaitFails, Group!GiveUp, ResponseAccepted, Retry, ConnectionFails,
              RetryAbandoned, Unwound, Cancel
<1>5. CASE UpdateEndpoints \/ UNCHANGED vars
  BY <1>1, <1>5 DEF UpdateEndpoints, Group!Update, vars
<1> QED
  BY <1>1, <1>2, <1>3, <1>4, <1>5 DEF Next

-----------------------------------------------------------------------------
(* Answers. *)

\* An answer is written by the step that ends the last attempt, or instead of a
\* first one; the steps that unwind the stack write nothing.
LEMMA AnswerStep ==
    TypeOK /\ AnswerInv /\ SingleInv /\ RetriesAreUsed /\ [Next]_vars
        => AnswerInv' /\ SingleInv' /\ RetriesAreUsed'
<1> SUFFICES ASSUME TypeOK, AnswerInv, SingleInv, RetriesAreUsed, [Next]_vars
             PROVE  AnswerInv' /\ SingleInv' /\ RetriesAreUsed'
  OBVIOUS
<1> USE ProxyAssumption DEF proxyVars, Goto, Before, Asking, After
<1>1. ASSUME NEW r \in Requests, NEW code,
             answers[r] = {}, Answer(r, code),
             \E label \in {"unwind", "return", "done"} : Goto(r, label),
             cancelled' = cancelled,
             code \in {"retryable", "502"} => r \in cancelled \/ attempt[r] = MaxRetries
      PROVE  AnswerInv' /\ SingleInv' /\ RetriesAreUsed'
  <2>1. answers' = [answers EXCEPT ![r] = {<<attempt[r], code>>}]
    BY <1>1 DEF TypeOK, Answer
  <2>2. AnswerInv'
    BY <1>1, <2>1 DEF TypeOK, AnswerInv
  <2>3. SingleInv'
    BY <2>1 DEF TypeOK, SingleInv
  <2>4. RetriesAreUsed'
    <3> SUFFICES ASSUME NEW q \in Requests, NEW a \in answers'[q],
                        a[2] \in {"retryable", "502"}, q \notin cancelled'
                 PROVE  a[1] = MaxRetries
      BY DEF RetriesAreUsed
    <3>1. CASE q = r
      <4>1. a = <<attempt[r], code>>
        BY <2>1, <3>1 DEF TypeOK
      <4>2. a[1] = attempt[r] /\ a[2] = code
        BY <4>1
      <4> QED
        BY <1>1, <3>1, <4>2
    <3>2. CASE q # r
      BY <1>1, <2>1, <3>2 DEF TypeOK, RetriesAreUsed
    <3> QED
      BY <3>1, <3>2
  <2> QED
    BY <2>2, <2>3, <2>4
<1>2. ASSUME UNCHANGED answers, cancelled \subseteq cancelled',
             \A r \in Requests :
                pc'[r] \in {"unwind"} \cup After
                    => pc[r] \in {"unwind"} \cup After \/ r \in cancelled',
             \A r \in Requests :
                pc[r] \in {"unwind"} \cup After => pc'[r] \in {"unwind"} \cup After
      PROVE  AnswerInv' /\ SingleInv' /\ RetriesAreUsed'
  <2>1. AnswerInv'
    BY <1>2 DEF AnswerInv
  <2>2. SingleInv' /\ RetriesAreUsed'
    BY <1>2 DEF SingleInv, RetriesAreUsed
  <2> QED
    BY <2>1, <2>2
<1>3. ASSUME NEW r \in Requests, Step(r) \/ Cancel(r)
      PROVE  AnswerInv' /\ SingleInv' /\ RetriesAreUsed'
  <2>0. pc[r] \notin {"unwind"} \cup After => answers[r] = {}
    BY DEF AnswerInv
  <2>1. CASE ParseFails(r)
    <3>1. PICK code \in BodyErrors \cup LookupErrors : Answer(r, code)
      BY <2>1 DEF ParseFails
    <3>2. code \notin {"retryable", "502"}
      BY <3>1 DEF BodyErrors, LookupErrors
    <3>3. answers[r] = {} /\ Goto(r, "done") /\ cancelled' = cancelled
      BY <2>0, <2>1 DEF ParseFails
    <3> QED
      BY <1>1, <3>1, <3>2, <3>3
  <2>2. CASE ScaleFails(r)
    <3>1. answers[r] = {} /\ Answer(r, "500") /\ Goto(r, "return") /\ cancelled' = cancelled
      BY <2>0, <2>2 DEF ScaleFails
    <3> QED
      BY <1>1, <3>1
  <2>3. CASE AwaitFails(r)
    <3>1. answers[r] = {} /\ Answer(r, "noHost") /\ Goto(r, "unwind") /\ cancelled' = cancelled
      BY <2>0, <2>3 DEF AwaitFails
    <3> QED
      BY <1>1, <3>1
  <2>4. CASE ResponseAccepted(r)
    <3>1. answers[r] = {} /\ Goto(r, "unwind") /\ cancelled' = cancelled
      BY <2>0, <2>4 DEF ResponseAccepted
    <3>2. PICK code \in {"ok", "retryable"} :
            Answer(r, code) /\ (code = "retryable" => attempt[r] >= MaxRetries)
      BY <2>4 DEF ResponseAccepted
    <3>3. code \in {"retryable", "502"} => attempt[r] = MaxRetries
      BY <3>2, CurrentIsAttempt
    <3> QED
      BY <1>1, <3>1, <3>2, <3>3
  <2>5. CASE ConnectionFails(r)
    <3>1. /\ answers[r] = {} /\ Answer(r, "502") /\ Goto(r, "unwind")
          /\ cancelled' = cancelled
      BY <2>0, <2>5 DEF ConnectionFails
    <3>2. r \in cancelled \/ attempt[r] = MaxRetries
      BY <2>5, CurrentIsAttempt DEF ConnectionFails, Retryable
    <3> QED
      BY <1>1, <3>1, <3>2
  <2>6. CASE \/ Parse(r) \/ Scale(r) \/ Return(r) \/ AwaitBestAddress(r) \/ Granted(r)
             \/ Retry(r) \/ Unwind(r) \/ Unwound(r) \/ Cancel(r)
    BY <1>2, <2>6 DEF TypeOK, Parse, Scale, Return, AwaitBestAddress, Granted, Retry, Unwind,
                      Unwound, Cancel
  <2>7. CASE RetryAbandoned(r)
    BY <1>2, <2>7 DEF TypeOK, RetryAbandoned, Retryable
  <2> QED
    BY <1>3, <2>1, <2>2, <2>3, <2>4, <2>5, <2>6, <2>7 DEF Step
<1>4. CASE UpdateEndpoints \/ UNCHANGED vars
  BY <1>2, <1>4 DEF UpdateEndpoints, vars
<1> QED
  BY <1>3, <1>4 DEF Next

-----------------------------------------------------------------------------
(* The metric. *)

\* The metric goes up when a request is parsed and down when its handler
\* returns.
LEMMA ActiveStep == TypeOK /\ ActiveInv /\ [Next]_vars => ActiveInv'
<1> SUFFICES ASSUME TypeOK, ActiveInv, [Next]_vars PROVE active' = Cardinality(Counted')
  BY DEF ActiveInv
<1> USE DEF Goto, proxyVars, Before, Asking, After
<1>0. /\ active = Cardinality(Counted) /\ active \in Int
      /\ IsFiniteSet(Counted)
  BY ProxyAssumption, FS_Subset DEF TypeOK, ActiveInv, Counted
<1>1. CASE UNCHANGED active /\ Counted' = Counted
  BY <1>0, <1>1
<1>2. ASSUME NEW r \in Requests, Step(r) \/ Cancel(r) PROVE active' = Cardinality(Counted')
  <2>1. CASE Parse(r)
    <3>1. r \notin Counted /\ Counted' = Counted \cup {r}
      BY <2>1 DEF TypeOK, Parse, Counted
    <3> QED
      BY <1>0, <2>1, <3>1, FS_AddElement DEF Parse
  <2>2. CASE Return(r)
    <3>1. r \in Counted /\ Counted' = Counted \ {r}
      BY <2>2 DEF TypeOK, Return, Counted
    <3> QED
      BY <1>0, <2>2, <3>1, FS_RemoveElement DEF Return
  <2>3. CASE ParseFails(r)
    <3>1. Counted' = Counted
      BY <2>3 DEF TypeOK, ParseFails, Counted
    <3> QED
      BY <1>1, <2>3, <3>1 DEF ParseFails
  <2>4. CASE \/ ScaleFails(r) \/ Scale(r) \/ AwaitBestAddress(r) \/ AwaitFails(r)
             \/ Granted(r) \/ ResponseAccepted(r) \/ Retry(r) \/ ConnectionFails(r)
             \/ RetryAbandoned(r) \/ Unwind(r) \/ Unwound(r) \/ Cancel(r)
    <3>1. UNCHANGED active /\ Counted' = Counted
      BY <2>4 DEF TypeOK, Counted, ScaleFails, Scale, AwaitBestAddress, AwaitFails, Granted,
                  ResponseAccepted, Retry, ConnectionFails, RetryAbandoned, Unwind, Unwound,
                  Cancel
    <3> QED
      BY <1>1, <3>1
  <2> QED
    BY <1>2, <2>1, <2>2, <2>3, <2>4 DEF Step
<1>3. CASE UpdateEndpoints \/ UNCHANGED vars
  BY <1>1, <1>3 DEF UpdateEndpoints, vars, Counted
<1> QED
  BY <1>2, <1>3 DEF Next

-----------------------------------------------------------------------------
(* The theorems. *)

\* The inductive invariant holds in every reachable state of the proxy, for any
\* number of requests, retries and endpoints.
THEOREM Invariance == Spec => []IInv
<1>1. Init => IInv
  <2> SUFFICES ASSUME Init PROVE IInv
    OBVIOUS
  <2>1. AnswerInv /\ SingleInv /\ RetriesAreUsed
    BY DEF Init, AnswerInv, SingleInv, RetriesAreUsed, After
  <2>2. LoadInv
    <3> SUFFICES ASSUME NEW k \in Counters PROVE load[k] = Cardinality(Holders(k))
      BY DEF LoadInv
    <3>1. Holders(k) = {}
      BY ProxyAssumption DEF Init, Group!Init, Holders
    <3> QED
      BY <3>1, FS_EmptySet DEF Init, Group!Init
  <2>3. Counted = {}
    BY DEF Init, Counted
  <2>4. ActiveInv
    BY <2>3, FS_EmptySet DEF Init, ActiveInv
  <2> QED
    BY <2>1, <2>2, <2>4, TypeInit DEF IInv
<1>2. IInv /\ [Next]_vars => IInv'
  BY TypeStep, FrameStep, AnswerStep, LoadStep, ActiveStep DEF IInv
<1> QED
  BY <1>1, <1>2, PTL DEF Spec

\* However often requests are retried, cancelled or fail, the metric counts the
\* requests inside, the load of an endpoint counts the leases on it, and a
\* handler that has returned holds none (handler.go:80-81, 114).
THEOREM NoLeak == Spec => []NothingLeaks
<1>1. IInv => NothingLeaks
  <2> SUFFICES ASSUME IInv PROVE NothingLeaks
    OBVIOUS
  <2>1. \A r \in Requests : pc[r] = "done" => Frames(r) = {}
    BY DEF IInv, FrameInv, Frames, After
  <2> QED
    BY <2>1 DEF IInv, LoadInv, Holders, ActiveInv, NothingLeaks
<1> QED
  BY <1>1, Invariance, PTL

\* No request is answered twice, for any number of retries, and none without an
\* answer to a client that is still there (handler.go:100-112, 140-155).
THEOREM AnsweredOnce == Spec => []OneAnswer
<1>1. IInv => OneAnswer
  <2> SUFFICES ASSUME IInv, NEW r \in Requests
               PROVE  /\ Cardinality(answers[r]) <= 1
                      /\ (pc[r] = "done" /\ r \notin cancelled) => answers[r] # {}
    BY DEF OneAnswer
  <2>1. answers[r] = {} \/ \E x : answers[r] = {x}
    BY DEF IInv, SingleInv
  <2>2. Cardinality(answers[r]) \in {0, 1}
    BY <2>1, FS_EmptySet, FS_Singleton
  <2> QED
    BY <2>2 DEF IInv, AnswerInv, After
<1> QED
  BY <1>1, Invariance, PTL

\* A client that is still there sees a retryable failure only after all of the
\* retries, whatever their number (handler.go:127-155).
THEOREM RetriesUsed == Spec => []RetriesAreUsed
<1>1. IInv => RetriesAreUsed
  BY DEF IInv
<1> QED
  BY <1>1, Invariance, PTL

=============================================================================

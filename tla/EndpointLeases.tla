--------------------------- MODULE EndpointLeases ---------------------------
(***************************************************************************)
(* What an endpoint group promises its callers, without locks, scans or    *)
(* channels: a call asks for an adapter (or for none), is granted, in one  *)
(* step, a lease on an endpoint that is a member at that moment and has    *)
(* the adapter, and gives the lease back later.  The load of an endpoint   *)
(* is the number of leases on it, also after the endpoint left the group.  *)
(* AwaitBestAddress and the function it returns are used in this way by    *)
(* the model proxy and the messenger.                                      *)
(***************************************************************************)
EXTENDS Integers, FiniteSets

CONSTANTS Calls, Names, Adapters, NoAdapter, Counters, None

VARIABLES
    members,  \* name -> [counter, adapters]
    load,     \* counter -> number of leases on it
    want,     \* call -> the adapter it waits for, None when it does not wait
    held      \* call -> the counter it holds a lease on, None when it holds none

leaseVars == <<members, load, want, held>>

Init ==
    /\ members = [n \in {} |-> None]
    /\ load = [k \in Counters |-> 0]
    /\ want = [c \in Calls |-> None]
    /\ held = [c \in Calls |-> None]

Ask(c) ==
    /\ want[c] = None /\ held[c] = None
    /\ \E a \in Adapters \cup {NoAdapter} : want' = [want EXCEPT ![c] = a]
    /\ UNCHANGED <<members, load, held>>

GiveUp(c) ==
    /\ want[c] # None
    /\ want' = [want EXCEPT ![c] = None]
    /\ UNCHANGED <<members, load, held>>

Grant(c) ==
    /\ want[c] # None
    /\ \E n \in DOMAIN members :
        /\ want[c] = NoAdapter \/ want[c] \in members[n].adapters
        /\ held' = [held EXCEPT ![c] = members[n].counter]
        /\ load' = [load EXCEPT ![members[n].counter] = @ + 1]
    /\ want' = [want EXCEPT ![c] = None]
    /\ UNCHANGED members

Return(c) ==
    /\ held[c] # None
    /\ load' = [load EXCEPT ![held[c]] = @ - 1]
    /\ held' = [held EXCEPT ![c] = None]
    /\ UNCHANGED <<members, want>>

\* The members change; those that stay keep their counter, and the load on it.
\* The counter of a new member is at zero and nobody holds a lease on it.
Update ==
    /\ DOMAIN members' \subseteq Names
    /\ \A n \in DOMAIN members' :
        IF n \in DOMAIN members
        THEN members'[n].counter = members[n].counter
        ELSE LET k == members'[n].counter IN
             k \in Counters /\ load[k] = 0 /\ \A c \in Calls : held[c] # k
    /\ UNCHANGED <<load, want, held>>

Next == Update \/ \E c \in Calls : Ask(c) \/ GiveUp(c) \/ Grant(c) \/ Return(c)

Spec == Init /\ [][Next]_leaseVars

=============================================================================

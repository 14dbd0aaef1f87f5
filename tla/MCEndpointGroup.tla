-------------------------- MODULE MCEndpointGroup --------------------------
(* Instances of EndpointGroup for TLC. *)
EXTENDS EndpointGroup, TLC

CONSTANTS n1, n2, n3, a1

R(s, a, h) == [strategy |-> s, adapter |-> a, hash |-> h]

\* The two strategies; the hash of the key falls between the replicas.
MCBaseRequests   == {R("LeastLoad", NoAdapter, 0), R("PrefixHash", NoAdapter, 4)}
MCRequests       == {R("LeastLoad", a1, 0), R("PrefixHash", NoAdapter, 4)}
MCLeastLoad      == {R("LeastLoad", NoAdapter, 0)}
MCPrefixHash     == {R("PrefixHash", NoAdapter, 4)}
MCAdapterRequest == {R("LeastLoad", a1, 0)}
\* All that getBestAddr can meet: a strategy it does not know, too.
MCAnyRequests    == MCBaseRequests \cup {R("Unknown", NoAdapter, 0), R("PrefixHash", a1, 4)}

MCHashOf1 == (n1 :> {3, 7})
MCHashOf2 == (n1 :> {3, 7}) @@ (n2 :> {5})
MCHashOf3 == (n1 :> {3, 7}) @@ (n2 :> {5}) @@ (n3 :> {8})

\* Calls and counters are interchangeable; names are not (HashOf).
MCSymmetry == Permutations(Calls) \cup Permutations(Counters)

=============================================================================

----------------------------- MODULE MCHashRing -----------------------------
(* An instance of HashRing for TLC. *)
EXTENDS HashRing, TLC

CONSTANTS n1, n2, n3, n4, n5, n6, n7

\* Interleaved replicas, in replica orders that are not ascending.
MCReplicas ==
    (n1 :> <<2, 14, 8>>) @@ (n2 :> <<6>>) @@ (n3 :> <<4, 10>>) @@ (n4 :> <<12, 1>>)
    @@ (n5 :> <<16, 3>>) @@ (n6 :> <<18>>) @@ (n7 :> <<5, 20>>)

\* Before, on, between and after the hashes of the replicas.
MCKeyHashes == 0..21

=============================================================================

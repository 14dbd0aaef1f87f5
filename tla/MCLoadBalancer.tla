--------------------------- MODULE MCLoadBalancer ---------------------------
(* An instance of LoadBalancer for TLC. *)
EXTENDS LoadBalancer, TLC

CONSTANTS p1, p2, m1

\* Two Pods of one Model.
MCModelOf == (p1 :> m1) @@ (p2 :> m1)

MCSymmetry == Permutations({p1, p2})

=============================================================================

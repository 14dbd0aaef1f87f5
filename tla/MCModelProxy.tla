---------------------------- MODULE MCModelProxy ----------------------------
(* Instances of ModelProxy for TLC. *)
EXTENDS ModelProxy, TLC

CONSTANTS r1, r2, a1

\* One request for the base model, one for an adapter.
MCAdapter == (r1 :> NoAdapter) @@ (r2 :> a1)
MCBase    == [r \in Requests |-> NoAdapter]

\* Counters are interchangeable.
MCSymmetry == Permutations(Counters)

=============================================================================

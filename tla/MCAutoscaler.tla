---------------------------- MODULE MCAutoscaler ----------------------------
(* Instances of Autoscaler for TLC. *)
EXTENDS Autoscaler

CONSTANTS i1, i2, r1, r2

MCViaOne == (r1 :> i1) @@ (r2 :> i1)
MCViaTwo == (r1 :> i1) @@ (r2 :> i2)

=============================================================================

---------------------------- MODULE MC_Lifecycle ----------------------------
(* Small instances of the lifecycle coordinator. *)
EXTENDS LifecycleCoordinator

CONSTANTS c1, c2, w1, w2

MCOwner == [w \in {w1, w2} |-> IF w = w1 THEN c1 ELSE c2]
=============================================================================

----------------------------- MODULE MCPipeline -----------------------------
(* A small instance of Pipeline for TLC. *)
EXTENDS Pipeline, TLC

CONSTANTS p1, k1, r1, a, b

MCProducts == {p1}
MCStock == p1 :> 1
MCCarts == {p1 :> 1}
MCKeys == {k1}
MCReplicas == {r1}
MCPartitions == {a, b}
=============================================================================

--------------------------- MODULE MCOutboxRelay ---------------------------
(* A small instance of OutboxRelay for TLC. *)
EXTENDS OutboxRelay

CONSTANTS r1, r2

MCReplicas == {r1, r2}
=============================================================================

------------------------------ MODULE MCNotify ------------------------------
(* A small instance of Notify for TLC. *)
EXTENDS Notify

CONSTANTS c1, c2

MCClients == {c1, c2}
=============================================================================

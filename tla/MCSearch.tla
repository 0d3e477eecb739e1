------------------------------ MODULE MCSearch ------------------------------
(* A small instance of Search for TLC. *)
EXTENDS Search

CONSTANTS p1, p2

MCProducts == {p1, p2}
MCSeeded == {p1}
MCEdited == {p2}
=============================================================================

----------------------------- MODULE MCSessions -----------------------------
(* A small instance of Sessions for TLC. *)
EXTENDS Sessions, TLC

CONSTANTS e1, c1, c2, c3

MCEmails == {e1}
MCRequests == {c1, c2, c3}

\* Requests differ in nothing but their names.
MCSymmetry == Permutations(MCRequests)
=============================================================================

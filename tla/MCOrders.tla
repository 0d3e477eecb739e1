------------------------------ MODULE MCOrders ------------------------------
(* Small instances of Orders for TLC. *)
EXTENDS Orders, TLC

CONSTANTS p1, p2, k1, k2, r1

MCProducts == {p1, p2}
MCKeys == {k1, k2}
MCOneKey == {k1}
MCOneReplica == {r1}

\* Three units of p1 and one of p2, a cart of both products and one of two p1:
\* one order of each kind fits, two of the same kind do not.
MCStock == (p1 :> 3) @@ (p2 :> 1)
MCCarts == {(p1 :> 1) @@ (p2 :> 1), (p1 :> 2) @@ (p2 :> 0)}
MCOneCart == {(p1 :> 1) @@ (p2 :> 0)}
=============================================================================

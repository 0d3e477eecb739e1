----------------------------- MODULE MCCheckout -----------------------------
(* Small instances of Checkout for TLC. *)
EXTENDS Checkout, TLC

CONSTANTS q1, q2, q3, q4, k1, k2, a, b, none

\* Three requests under one key, one of them with another basket, and one under
\* a second key, which names a product twice.  The baskets list the same products
\* in opposite order, and there is too little of a for all.
MCRequests == {q1, q2, q3, q4}
MCKeyOf == (q1 :> k1) @@ (q2 :> k1) @@ (q3 :> k1) @@ (q4 :> k2)
MCBodyOf == (q1 :> <<a, b>>) @@ (q2 :> <<a, b>>) @@ (q3 :> <<b, a>>) @@ (q4 :> <<b, a, b>>)
MCInitStock == (a :> 3) @@ (b :> 4)
=============================================================================

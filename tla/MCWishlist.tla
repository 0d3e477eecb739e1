----------------------------- MODULE MCWishlist -----------------------------
(* A small instance of Wishlist, the whole storefront, for TLC. *)
EXTENDS Wishlist

CONSTANTS c1, c2

MCClients == {c1, c2}
=============================================================================

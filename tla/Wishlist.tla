------------------------------ MODULE Wishlist ------------------------------
(***************************************************************************)
(* The storefront: the catalogue's product, and the wishlist of a user     *)
(* with its cached count wishlist:count:<user> (internal/http/wishlist).   *)
(* Adding an item looks the product up in the catalogue first; the count   *)
(* is cached aside, like a product.  One item is enough: the user's other  *)
(* rows only add to the count.                                             *)
(***************************************************************************)
EXTENDS Catalog

VARIABLES
    wished,  \* there is a row (user, product) in wishlists
    count    \* the cached count, NoEntry if there is none

vars == <<catalogVars, wished, count>>

Init ==
    /\ CatalogInit
    /\ wished = FALSE
    /\ count = NoEntry

CountByUser == IF wished THEN 1 ELSE 0

\* Add finds the product.
AddLooksUp(c) ==
    /\ writes < MaxWrites
    /\ Goto(c, "idle", "wish")
    /\ FindByID(c)
    /\ UNCHANGED <<row, cache, page, writes, loose, wished, count>>

\* Add inserts the row.  The product may have been deleted in the meantime: a
\* soft delete leaves the row that the foreign key wants.
AddRow(c) ==
    /\ ~wished
    /\ Write
    /\ Goto(c, "wish", "uncount")
    /\ wished' = TRUE
    /\ UNCHANGED <<row, cache, page, copy, loose, count>>

\* UNIQUE (user_id, product_id): ErrConflict, and the count stays cached.
AddConflicts(c) ==
    /\ wished
    /\ Goto(c, "wish", "idle")
    /\ UNCHANGED <<row, cache, page, copy, writes, loose, wished, count>>

\* Remove deletes the row.  Without one it is ErrNotFound, and nothing changes.
RemoveRow(c) ==
    /\ wished
    /\ Write
    /\ Goto(c, "idle", "uncount")
    /\ wished' = FALSE
    /\ UNCHANGED <<row, cache, page, copy, loose, count>>

InvalidateCountCache(c) ==
    /\ Goto(c, "uncount", "idle")
    /\ count' = NoEntry
    /\ UNCHANGED <<row, cache, page, copy, writes, loose, wished>>

\* Count: a hit changes nothing, a miss counts the rows ...
CountMiss(c) ==
    /\ Miss(c, count, "count")
    /\ Read(c, CountByUser)
    /\ UNCHANGED <<row, cache, page, writes, loose, wished, count>>

\* ... and then stores the number.
SetCount(c) ==
    /\ Goto(c, "count", "idle")
    /\ count' = copy[c]
    /\ UNCHANGED <<row, cache, page, copy, writes, loose, wished>>

\* A failed cache call is ignored here too.
CountCallFails(c) ==
    /\ pc[c] \in {"count", "uncount"}
    /\ pc' = [pc EXCEPT ![c] = "idle"]
    /\ clean' = FALSE
    /\ UNCHANGED <<row, cache, page, copy, writes, loose, wished, count>>

\* ProductCacheTTL passes for the count.
ExpireCount ==
    /\ count # NoEntry
    /\ count' = NoEntry
    /\ UNCHANGED <<catalogVars, wished>>

WishlistRunsOn(c) == AddRow(c) \/ AddConflicts(c) \/ InvalidateCountCache(c) \/ SetCount(c)

Next ==
    \/ CatalogNext /\ UNCHANGED <<wished, count>>
    \/ \E c \in Clients :
         \/ AddLooksUp(c) \/ RemoveRow(c) \/ CountMiss(c)
         \/ WishlistRunsOn(c) \/ CountCallFails(c)
    \/ ExpireCount

Spec == Init /\ [][Next]_vars

\* A request runs to its end, and every TTL runs out.
Fairness ==
    /\ \A c \in Clients :
         /\ WF_vars(CatalogRunsOn(c) /\ UNCHANGED <<wished, count>>)
         /\ WF_vars(WishlistRunsOn(c))
    /\ WF_vars(Expire /\ UNCHANGED <<wished, count>>)
    /\ WF_vars(ExpirePage /\ UNCHANGED <<wished, count>>)
    /\ WF_vars(ExpireCount)

FairSpec == Spec /\ Fairness

-----------------------------------------------------------------------------
(* Correctness. *)

Steps == {"idle", "fill", "refill", "page", "rename", "restock", "unlist", "delete",
          "bust", "bust and unlist", "wish", "count", "uncount"}

\* Rows, entries and requests stay within their domains; stock never goes below 0.
TypeOK ==
    /\ stock \in Nat
    /\ live \in BOOLEAN
    /\ taken \in Nat
    /\ supply \in Nat
    /\ cache \in Nat \cup {NoEntry}
    /\ page \in Nat \cup {NoEntry, Unlisted}
    /\ pc \in [Clients -> Steps]
    /\ copy \in [Clients -> Nat \cup {Unlisted}]
    /\ writes \in 0..MaxWrites
    /\ clean \in BOOLEAN
    /\ loose \subseteq {"entry", "page"}
    /\ wished \in BOOLEAN
    /\ count \in {NoEntry, 0, 1}

CountFresh == count # NoEntry => count = CountByUser

\* As long as requests come one after another, every flow leaves the entry, the
\* page and the count right or gone, but for the flows that change the row
\* behind a cache: a declined payment behind entry and page, any order flow and
\* an admin's delete behind the page.
UndisturbedIsFresh ==
    clean /\ Quiet => /\ "entry" \in loose \/ Fresh
                      /\ "page" \in loose \/ PageFresh
                      /\ CountFresh

\* Races can leave a stale entry, page or count behind, but not for ever: once
\* the rows stop changing, all three are fresh from some moment on.
StaleDoesNotLast == <>[](Fresh /\ PageFresh /\ CountFresh)
=============================================================================

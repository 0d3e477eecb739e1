------------------------------- MODULE Catalog -------------------------------
(***************************************************************************)
(* One product: its row in Postgres, its cache entry product:<id> and its  *)
(* owner's cached first page products:user:<id> in Redis, and the requests *)
(* that read and write them (internal/http/product), among them the order  *)
(* flows that change the stock (internal/http/order).  Statement and cache *)
(* call are separate steps, and requests interleave between them.          *)
(***************************************************************************)
EXTENDS Integers

CONSTANTS
    Clients,     \* concurrent requests
    InitStock,   \* units in stock at the start
    Restocks,    \* stock values an owner's update may write
    MaxWrites    \* bound on transactions that change a row

ASSUME CatalogAssumption ==
    /\ InitStock \in Nat
    /\ Restocks \subseteq Nat
    /\ MaxWrites \in Nat

VARIABLES
    stock,   \* products.stock
    live,    \* there is a row, and its deleted_at IS NULL
    cache,   \* stock in the cached copy, NoEntry if there is none
    page,    \* stock on the owner's cached page, Unlisted, or NoEntry
    taken,   \* units held or sold by orders
    supply,  \* history: units the owner has put up for sale
    pc,      \* per request: what it does next
    copy,    \* per request: what it read
    writes,  \* row changes so far
    clean,   \* history: no two requests have overlapped, no cache call has failed
    loose    \* history: caches that a flow changed the row behind, without a call

row == <<stock, live, taken, supply>>
catalogVars == <<row, cache, page, pc, copy, writes, clean, loose>>

NoEntry == -1
Unlisted == -2

\* Either the product exists already, or its owner has yet to create it.
CatalogInit ==
    /\ stock = InitStock
    /\ live \in BOOLEAN
    /\ cache = NoEntry
    /\ page = NoEntry
    /\ taken = 0
    /\ supply = InitStock
    /\ pc = [c \in Clients |-> "idle"]
    /\ copy = [c \in Clients |-> 0]
    /\ writes = 0
    /\ clean = TRUE
    /\ loose = {}

Goto(c, from, to) ==
    /\ pc[c] = from
    /\ pc' = [pc EXCEPT ![c] = to]
    /\ clean' = (clean /\ \A d \in Clients \ {c} : pc[d] = "idle")

Write == writes < MaxWrites /\ writes' = writes + 1

Read(c, v) == copy' = [copy EXCEPT ![c] = v]

\* A plausible slip: the query does not filter deleted rows.
ReadUnscoped(c) == Read(c, stock)

\* repo.FindByID: the row, unless it is soft-deleted.
FindByID(c) == live /\ Read(c, stock)

-----------------------------------------------------------------------------
(* Reads.  A hit changes nothing; a miss reads Postgres and fills the cache. *)

\* There is no entry, or the GET fails, which the code takes for a miss.
Miss(c, entry, to) ==
    \/ entry = NoEntry /\ Goto(c, "idle", to)
    \/ entry # NoEntry /\ pc[c] = "idle" /\ pc' = [pc EXCEPT ![c] = to] /\ clean' = FALSE

GetMiss(c) ==
    /\ Miss(c, cache, "fill")
    /\ FindByID(c)
    /\ UNCHANGED <<row, cache, page, writes, loose>>

\* setCache; Create and Update go on to the owner's page.
SetCache(c) ==
    /\ Goto(c, "fill", "idle") \/ Goto(c, "refill", "unlist")
    /\ cache' = copy[c]
    /\ loose' = loose \ {"entry"}
    /\ UNCHANGED <<row, page, copy, writes>>

\* List, first page: ListByUserCursor, then cacheFirstPage.
ListMiss(c) ==
    /\ Miss(c, page, "page")
    /\ Read(c, IF live THEN stock ELSE Unlisted)
    /\ UNCHANGED <<row, cache, page, writes, loose>>

CacheFirstPage(c) ==
    /\ Goto(c, "page", "idle")
    /\ page' = copy[c]
    /\ loose' = loose \ {"page"}
    /\ UNCHANGED <<row, cache, copy, writes>>

-----------------------------------------------------------------------------
(* Create and Update. *)

\* Create inserts the row.
Create(c) ==
    /\ ~live
    /\ writes = 0
    /\ Write
    /\ Goto(c, "idle", "refill")
    /\ live' = TRUE
    /\ Read(c, stock)
    /\ UNCHANGED <<stock, taken, supply, cache, page, loose>>

\* Update reads the row; the request changes the stock, or only name and price.
LoadForUpdate(c) ==
    /\ writes < MaxWrites
    /\ \/ Goto(c, "idle", "rename") /\ FindByID(c)
       \/ Goto(c, "idle", "restock") /\ live /\ \E s \in Restocks : Read(c, s)
    /\ UNCHANGED <<row, cache, page, writes, loose>>

\* gorm's Save writes every column of the copy.  If the row was deleted in the
\* meantime it updates nothing and falls back to an upsert, which clears
\* deleted_at.
Save(c) ==
    /\ Write
    /\ \/ Goto(c, "rename", "refill") /\ UNCHANGED supply
       \/ Goto(c, "restock", "refill") /\ supply' = copy[c] + taken
    /\ stock' = copy[c]
    /\ live' = TRUE
    /\ UNCHANGED <<taken, cache, page, copy, loose>>

\* invalidateListCache of the user who made the request.
InvalidateListCache(c) ==
    /\ Goto(c, "unlist", "idle")
    /\ page' = NoEntry
    /\ loose' = loose \ {"page"}
    /\ UNCHANGED <<row, cache, copy, writes>>

-----------------------------------------------------------------------------
(* Delete: read, soft-delete, drop the cache entry and the caller's page. *)

LoadForDelete(c) ==
    /\ writes < MaxWrites
    /\ Goto(c, "idle", "delete")
    /\ FindByID(c)
    /\ UNCHANGED <<row, cache, page, writes, loose>>

\* The owner deletes, or an admin, whose page is not the one that shows it.
DeleteRow(c) ==
    /\ live
    /\ Write
    /\ live' = FALSE
    /\ \/ Goto(c, "delete", "bust and unlist") /\ UNCHANGED loose
       \/ Goto(c, "delete", "bust") /\ loose' = loose \cup {"page"}
    /\ UNCHANGED <<stock, taken, supply, cache, page, copy>>

\* Somebody else deleted it first: RowsAffected = 0, ErrNotFound.
DeleteMissing(c) ==
    /\ ~live
    /\ Goto(c, "delete", "idle")
    /\ UNCHANGED <<row, cache, page, copy, writes, loose>>

\* A plausible slip: the entry stays.
BustNothing(c) ==
    /\ Goto(c, "bust", "idle") \/ Goto(c, "bust and unlist", "unlist")
    /\ UNCHANGED <<row, cache, page, copy, writes, loose>>

\* deleteCache, and InvalidateProducts of the order flows.
DeleteCache(c) ==
    /\ Goto(c, "bust", "idle") \/ Goto(c, "bust and unlist", "unlist")
    /\ cache' = NoEntry
    /\ loose' = loose \ {"entry"}
    /\ UNCHANGED <<row, page, copy, writes>>

-----------------------------------------------------------------------------
(* The order flows, seen from one unit of this product.  None of them touches
   the owner's page. *)

\* CreateOrder takes a unit, then Service.Create invalidates the entry.
Hold(c) ==
    /\ live
    /\ stock >= 1
    /\ Write
    /\ Goto(c, "idle", "bust")
    /\ stock' = stock - 1
    /\ taken' = taken + 1
    /\ loose' = loose \cup {"page"}
    /\ UNCHANGED <<live, supply, cache, page, copy>>

\* A plausible slip: the unit is given back twice.
GiveBackTwice == taken > 0 /\ taken' = taken - 1 /\ stock' = stock + 2

\* releaseReservations
GiveBack == taken > 0 /\ taken' = taken - 1 /\ stock' = stock + 1

\* Cancel and hold expiry give the unit back, then invalidate the entry.
Release(c) ==
    /\ Write
    /\ Goto(c, "idle", "bust")
    /\ GiveBack
    /\ loose' = loose \cup {"page"}
    /\ UNCHANGED <<live, supply, cache, page, copy>>

\* A declined payment gives the unit back.  Service.Pay does not invalidate,
\* and the inventory worker invalidates only what it released itself, which
\* is nothing: the payment released it already.
Decline(c) ==
    /\ Write
    /\ Goto(c, "idle", "idle")
    /\ GiveBack
    /\ loose' = {"entry", "page"}
    /\ UNCHANGED <<live, supply, cache, page, copy>>

-----------------------------------------------------------------------------
(* Redis. *)

\* A cache call fails, and its error is dropped: the request goes on.
CacheCallFails(c) ==
    /\ \E step \in {<<"fill", "idle">>, <<"refill", "unlist">>, <<"page", "idle">>,
                    <<"unlist", "idle">>, <<"bust", "idle">>, <<"bust and unlist", "unlist">>} :
          pc[c] = step[1] /\ pc' = [pc EXCEPT ![c] = step[2]]
    /\ clean' = FALSE
    /\ UNCHANGED <<row, cache, page, copy, writes, loose>>

\* A plausible slip: entries are written without a TTL.
ExpireNever == cache # NoEntry /\ UNCHANGED catalogVars

\* ProductCacheTTL passes, or an admin invalidates the entry.
Expire ==
    /\ cache # NoEntry
    /\ cache' = NoEntry
    /\ loose' = loose \ {"entry"}
    /\ UNCHANGED <<row, page, pc, copy, writes, clean>>

\* ProductCacheTTL passes for the page.
ExpirePage ==
    /\ page # NoEntry
    /\ page' = NoEntry
    /\ loose' = loose \ {"page"}
    /\ UNCHANGED <<row, cache, pc, copy, writes, clean>>

-----------------------------------------------------------------------------
\* A request that has begun runs on to its end.
CatalogRunsOn(c) ==
    \/ SetCache(c) \/ CacheFirstPage(c) \/ Save(c) \/ InvalidateListCache(c)
    \/ DeleteRow(c) \/ DeleteMissing(c) \/ DeleteCache(c)

CatalogNext ==
    \/ \E c \in Clients :
         \/ GetMiss(c) \/ ListMiss(c) \/ Create(c) \/ LoadForUpdate(c) \/ LoadForDelete(c)
         \/ Hold(c) \/ Release(c) \/ Decline(c)
         \/ CatalogRunsOn(c) \/ CacheCallFails(c)
    \/ Expire \/ ExpirePage

-----------------------------------------------------------------------------
(* Correctness. *)

Fresh == cache # NoEntry => live /\ cache = stock
PageFresh == page # NoEntry => page = IF live THEN stock ELSE Unlisted

Quiet == \A c \in Clients : pc[c] = "idle"

\* A deleted product stays deleted, unless an update that read it before the
\* delete saves it after.
UndisturbedStaysDeleted ==
    [][clean /\ ~live /\ writes > 0 => ~live']_catalogVars

\* Units are neither lost nor sold twice: what is left and what orders took is
\* what the owner supplied.  Only an update that overlaps an order breaks it,
\* since Save writes back the stock it read.
UnitsAddUp == clean => stock + taken = supply
=============================================================================

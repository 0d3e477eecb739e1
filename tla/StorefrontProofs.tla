-------------------------- MODULE StorefrontProofs --------------------------
(***************************************************************************)
(* The catalogue, the wishlist and the search index.                       *)
(*                                                                         *)
(* Catalogue and wishlist, for any number of requests: what holds as long  *)
(* as requests come one after another, whichever they are.  The inductive  *)
(* invariant FInv says which of entry, page and count a request may have   *)
(* left stale at each of its steps, and what its copy stands for.          *)
(*                                                                         *)
(* The index, for any number of products, versions and faults: SteadyInv   *)
(* says where a change is that the index does not show yet, and how many   *)
(* failures in a row the breaker may have counted at each step.            *)
(***************************************************************************)
EXTENDS Wishlist, Search, FiniteSetTheorems, TLAPS

-----------------------------------------------------------------------------
(* The inductive invariant. *)

\* What a request will write is a stock value or a count, raced or not.
CopiesFit ==
    \A c \in Clients :
        /\ pc[c] \in {"fill", "refill", "rename", "restock"} => copy[c] \in Nat
        /\ pc[c] = "count" => copy[c] \in {0, 1}

\* While no two requests have overlapped there is one at most.
OneAtATime ==
    clean => \A c, d \in Clients : pc[c] # "idle" /\ pc[d] # "idle" => c = d

\* A copy is what is in the row, and a request that goes on to write to a
\* product has seen it live.
CopyIsTrue(c) ==
    /\ pc[c] \in {"fill", "refill", "rename"} => live /\ copy[c] = stock
    /\ pc[c] \in {"restock", "delete"} => live
    /\ pc[c] = "page" => copy[c] = IF live THEN stock ELSE Unlisted
    /\ pc[c] = "count" => copy[c] = CountByUser

\* A cache is right, or a flow is known to change the row behind it, or the
\* request under way has the call that puts it right ahead of it.
EntrySettled(c) == "entry" \in loose \/ Fresh \/ pc[c] \in {"refill", "bust", "bust and unlist"}
PageSettled(c) == "page" \in loose \/ PageFresh \/ pc[c] \in {"refill", "unlist", "bust and unlist"}
CountSettled(c) == CountFresh \/ pc[c] = "uncount"

\* All of it, for the request c that is alone.
Settled(c) ==
    /\ CopyIsTrue(c)
    /\ EntrySettled(c)
    /\ PageSettled(c)
    /\ CountSettled(c)
    /\ stock + taken = supply

\* With nobody under way, everything is settled without anybody's help.
Calm ==
    /\ clean => stock + taken = supply
    /\ clean => \A c \in Clients : (\A d \in Clients \ {c} : pc[d] = "idle") => Settled(c)
    /\ clean /\ Quiet => /\ "entry" \in loose \/ Fresh
                         /\ "page" \in loose \/ PageFresh
                         /\ CountFresh

FInv ==
    /\ TypeOK
    /\ CopiesFit
    /\ OneAtATime
    /\ Calm

-----------------------------------------------------------------------------
(* The invariant is inductive. *)

\* Request c goes from one step to another; if the history stays clean, nobody
\* else is under way.
Moved(c, from, to) ==
    /\ pc[c] = from
    /\ pc' \in [Clients -> Steps]
    /\ pc'[c] = to
    /\ \A d \in Clients \ {c} : pc'[d] = pc[d]
    /\ clean' \in BOOLEAN
    /\ clean' => clean /\ \A d \in Clients \ {c} : pc[d] = "idle"

LEMMA GotoMoves ==
    ASSUME TypeOK, NEW c \in Clients, NEW from, NEW to \in Steps, Goto(c, from, to)
    PROVE  Moved(c, from, to)
<1>1. pc \in [Clients -> Steps] /\ clean \in BOOLEAN
  BY DEF TypeOK
<1>2. /\ pc[c] = from /\ pc' = [pc EXCEPT ![c] = to]
      /\ clean' = (clean /\ \A d \in Clients \ {c} : pc[d] = "idle")
  BY DEF Goto
<1>3. clean' \in BOOLEAN /\ (clean' => clean /\ \A d \in Clients \ {c} : pc[d] = "idle")
  BY <1>1, <1>2, Zenon
<1> QED
  BY <1>1, <1>2, <1>3 DEF Moved

\* A failed call is not clean.
LEMMA FailureMoves ==
    ASSUME TypeOK, NEW c \in Clients, NEW to \in Steps, pc' = [pc EXCEPT ![c] = to], clean' = FALSE
    PROVE  Moved(c, pc[c], to) /\ ~clean'
BY DEF TypeOK, Moved

\* A read that misses finds no entry, or is not clean.
LEMMA MissMoves ==
    ASSUME TypeOK, NEW c \in Clients, NEW entry, NEW to \in Steps, Miss(c, entry, to)
    PROVE  Moved(c, "idle", to) /\ (clean' => entry = NoEntry)
<1>1. CASE entry = NoEntry /\ Goto(c, "idle", to)
  BY <1>1, GotoMoves
<1>2. CASE pc[c] = "idle" /\ pc' = [pc EXCEPT ![c] = to] /\ clean' = FALSE
  BY <1>2, FailureMoves
<1> QED
  BY <1>1, <1>2 DEF Miss

\* A request may keep its copy, or read one that fits its next step.
LEMMA CopiesStayFit ==
    ASSUME TypeOK, CopiesFit, NEW c \in Clients, NEW from, NEW to, Moved(c, from, to),
           \/ UNCHANGED copy
           \/ \E v \in Nat \cup {Unlisted} : Read(c, v),
           to \in {"fill", "refill", "rename", "restock"} => copy'[c] \in Nat,
           to = "count" => copy'[c] \in {0, 1}
    PROVE  /\ CopiesFit'
           /\ copy' \in [Clients -> Nat \cup {Unlisted}]
<1>1. /\ copy' \in [Clients -> Nat \cup {Unlisted}]
      /\ \A d \in Clients \ {c} : copy'[d] = copy[d]
  BY DEF Read, TypeOK
<1>2. \A d \in Clients \ {c} : /\ pc'[d] \in {"fill", "refill", "rename", "restock"} => copy'[d] \in Nat
                               /\ pc'[d] = "count" => copy'[d] \in {0, 1}
  BY <1>1 DEF CopiesFit, Moved
<1>3. /\ pc'[c] \in {"fill", "refill", "rename", "restock"} => copy'[c] \in Nat
      /\ pc'[c] = "count" => copy'[c] \in {0, 1}
  BY DEF Moved
<1> QED
  BY <1>1, <1>2, <1>3 DEF CopiesFit

\* A step of a request has to be right only where that request is alone.
LEMMA AloneSuffices ==
    ASSUME FInv, NEW c \in Clients, TypeOK', CopiesFit',
           \A d \in Clients \ {c} : pc'[d] = pc[d],
           clean' => clean /\ \A d \in Clients \ {c} : pc[d] = "idle",
           clean' /\ Settled(c) => Settled(c)'
    PROVE  FInv'
<1>1. ASSUME clean'
      PROVE  /\ Settled(c)'
             /\ \A d \in Clients \ {c} : pc'[d] = "idle"
  BY <1>1 DEF FInv, Calm
<1>2. OneAtATime'
  BY <1>1 DEF OneAtATime
<1>3. ASSUME clean', NEW d \in Clients, \A e \in Clients \ {d} : pc'[e] = "idle"
      PROVE  Settled(d)'
  <2>1. CASE d = c
    BY <1>1, <1>3, <2>1
  <2>2. CASE d # c
    <3>1. pc'[c] = "idle" /\ pc'[d] = "idle"
      BY <1>1, <1>3, <2>2
    <3>2. CopyIsTrue(d)'
      BY <3>1 DEF CopyIsTrue
    <3>3. EntrySettled(d)' /\ PageSettled(d)' /\ CountSettled(d)' /\ (stock + taken = supply)'
      BY <1>1, <1>3, <3>1 DEF Settled, EntrySettled, PageSettled, CountSettled
    <3> QED
      BY <3>2, <3>3 DEF Settled
  <2> QED
    BY <2>1, <2>2
<1>4. clean' /\ Quiet' => /\ "entry" \in loose' \/ Fresh'
                          /\ "page" \in loose' \/ PageFresh'
                          /\ CountFresh'
  BY <1>1 DEF Quiet, Settled, EntrySettled, PageSettled, CountSettled
<1>5. clean' => stock' + taken' = supply'
  BY <1>1 DEF Settled
<1>6. Calm'
  BY <1>3, <1>4, <1>5 DEF Calm
<1> QED
  BY <1>2, <1>6 DEF FInv

\* Rows and cached values stay within their domains.
RowsFit ==
    /\ stock \in Nat
    /\ live \in BOOLEAN
    /\ taken \in Nat
    /\ supply \in Nat
    /\ cache \in Nat \cup {NoEntry}
    /\ page \in Nat \cup {NoEntry, Unlisted}
    /\ writes \in 0..MaxWrites
    /\ loose \subseteq {"entry", "page"}
    /\ wished \in BOOLEAN
    /\ count \in {NoEntry, 0, 1}

\* What is left to show of a step of one request.
LEMMA MoveSuffices ==
    ASSUME FInv, NEW c \in Clients, NEW from, NEW to, Moved(c, from, to), RowsFit',
           \/ UNCHANGED copy
           \/ \E v \in Nat \cup {Unlisted} : Read(c, v),
           to \in {"fill", "refill", "rename", "restock"} => copy'[c] \in Nat,
           to = "count" => copy'[c] \in {0, 1},
           clean' /\ Settled(c) => Settled(c)'
    PROVE  FInv'
<1>1. CopiesFit' /\ copy' \in [Clients -> Nat \cup {Unlisted}]
  BY CopiesStayFit DEF FInv
<1>2. TypeOK'
  BY <1>1 DEF TypeOK, RowsFit, Moved
<1> QED
  BY <1>1, <1>2, AloneSuffices DEF Moved

-----------------------------------------------------------------------------
(* Reads and their cache calls. *)

LEMMA GetMissStep ==
    ASSUME FInv, CatalogAssumption, NEW c \in Clients, GetMiss(c), UNCHANGED <<wished, count>>
    PROVE  FInv'
<1> USE DEF row
<1>0. TypeOK /\ CopiesFit
  BY DEF FInv
<1>1. /\ live /\ Read(c, stock) /\ copy'[c] = stock /\ stock \in Nat
      /\ UNCHANGED <<row, cache, page, writes, loose, wished, count>>
  BY <1>0 DEF GetMiss, FindByID, Read, TypeOK, CopiesFit, CatalogAssumption
<1>2. RowsFit'
  BY <1>0, <1>1 DEF TypeOK, RowsFit, CatalogAssumption
<1>3. Moved(c, "idle", "fill") /\ (clean' => cache = NoEntry)
  <2>1. Miss(c, cache, "fill") /\ "fill" \in Steps
    BY DEF GetMiss, Steps
  <2> QED
    BY <1>0, <2>1, MissMoves
<1>4. clean' /\ Settled(c) => Settled(c)'
  BY <1>0, <1>1, <1>3 DEF TypeOK, Moved, Settled, CopyIsTrue, EntrySettled, PageSettled,
                         CountSettled, Fresh, PageFresh, CountFresh, CountByUser
<1> QED
  BY <1>1, <1>2, <1>3, <1>4, MoveSuffices

LEMMA ListMissStep ==
    ASSUME FInv, CatalogAssumption, NEW c \in Clients, ListMiss(c), UNCHANGED <<wished, count>>
    PROVE  FInv'
<1> USE DEF row
<1>0. TypeOK /\ CopiesFit
  BY DEF FInv
<1>1. /\ Read(c, IF live THEN stock ELSE Unlisted) /\ (IF live THEN stock ELSE Unlisted) \in Nat \cup {Unlisted}
      /\ copy'[c] = IF live THEN stock ELSE Unlisted
      /\ UNCHANGED <<row, cache, page, writes, loose, wished, count>>
  BY <1>0 DEF ListMiss, Read, TypeOK, CopiesFit, CatalogAssumption
<1>2. RowsFit'
  BY <1>0, <1>1 DEF TypeOK, RowsFit, CatalogAssumption
<1>3. Moved(c, "idle", "page") /\ (clean' => page = NoEntry)
  <2>1. Miss(c, page, "page") /\ "page" \in Steps
    BY DEF ListMiss, Steps
  <2> QED
    BY <1>0, <2>1, MissMoves
<1>4. clean' /\ Settled(c) => Settled(c)'
  BY <1>0, <1>1, <1>3 DEF TypeOK, Moved, Settled, CopyIsTrue, EntrySettled, PageSettled,
                         CountSettled, Fresh, PageFresh, CountFresh, CountByUser
<1> QED
  BY <1>1, <1>2, <1>3, <1>4, MoveSuffices

LEMMA SetCacheStep ==
    ASSUME FInv, CatalogAssumption, NEW c \in Clients, SetCache(c), UNCHANGED <<wished, count>>
    PROVE  FInv'
<1> USE DEF row
<1>0. TypeOK /\ CopiesFit
  BY DEF FInv
<1>1. /\ cache' = copy[c] /\ copy[c] \in Nat /\ loose' = loose \ {"entry"}
      /\ UNCHANGED <<row, page, copy, writes, wished, count>>
  BY <1>0 DEF SetCache, Goto, TypeOK, CopiesFit, CatalogAssumption
<1>2. RowsFit'
  BY <1>0, <1>1 DEF TypeOK, RowsFit, CatalogAssumption
<1>3. CASE Goto(c, "fill", "idle")
  <2>1. Moved(c, "fill", "idle")
    <3>1. "idle" \in Steps
      BY DEF Steps
    <3> QED
      BY <1>0, <1>3, <3>1, GotoMoves
  <2>2. clean' /\ Settled(c) => Settled(c)'
    BY <1>0, <1>1, <1>3, <2>1 DEF TypeOK, Moved, Settled, CopyIsTrue, EntrySettled,
                                  PageSettled, CountSettled, Fresh, PageFresh, CountFresh,
                                  CountByUser
  <2> QED
    BY <1>0, <1>1, <1>2, <1>3, <2>1, <2>2, MoveSuffices DEF Moved, CopiesFit
<1>4. CASE Goto(c, "refill", "unlist")
  <2>1. Moved(c, "refill", "unlist")
    <3>1. "unlist" \in Steps
      BY DEF Steps
    <3> QED
      BY <1>0, <1>4, <3>1, GotoMoves
  <2>2. clean' /\ Settled(c) => Settled(c)'
    BY <1>0, <1>1, <1>4, <2>1 DEF TypeOK, Moved, Settled, CopyIsTrue, EntrySettled,
                                  PageSettled, CountSettled, Fresh, PageFresh, CountFresh,
                                  CountByUser
  <2> QED
    BY <1>0, <1>1, <1>2, <1>4, <2>1, <2>2, MoveSuffices DEF Moved, CopiesFit
<1> QED
  BY <1>3, <1>4 DEF SetCache

LEMMA CacheFirstPageStep ==
    ASSUME FInv, CatalogAssumption, NEW c \in Clients, CacheFirstPage(c), UNCHANGED <<wished, count>>
    PROVE  FInv'
<1> USE DEF row
<1>0. TypeOK /\ CopiesFit
  BY DEF FInv
<1>1. /\ page' = copy[c] /\ copy[c] \in Nat \cup {Unlisted} /\ loose' = loose \ {"page"}
      /\ UNCHANGED <<row, cache, copy, writes, wished, count>>
  BY <1>0 DEF CacheFirstPage, TypeOK, CopiesFit, CatalogAssumption
<1>2. RowsFit'
  BY <1>0, <1>1 DEF TypeOK, RowsFit, CatalogAssumption
<1>3. Moved(c, "page", "idle")
  <2>1. Goto(c, "page", "idle") /\ "idle" \in Steps
    BY DEF CacheFirstPage, Steps
  <2> QED
    BY <1>0, <2>1, GotoMoves
<1>4. clean' /\ Settled(c) => Settled(c)'
  BY <1>0, <1>1, <1>3 DEF TypeOK, Moved, Settled, CopyIsTrue, EntrySettled, PageSettled,
                         CountSettled, Fresh, PageFresh, CountFresh, CountByUser
<1> QED
  BY <1>1, <1>2, <1>3, <1>4, MoveSuffices

LEMMA InvalidateListCacheStep ==
    ASSUME FInv, CatalogAssumption, NEW c \in Clients, InvalidateListCache(c), UNCHANGED <<wished, count>>
    PROVE  FInv'
<1> USE DEF row
<1>0. TypeOK /\ CopiesFit
  BY DEF FInv
<1>1. /\ page' = NoEntry /\ loose' = loose \ {"page"}
      /\ UNCHANGED <<row, cache, copy, writes, wished, count>>
  BY <1>0 DEF InvalidateListCache, TypeOK, CopiesFit, CatalogAssumption
<1>2. RowsFit'
  BY <1>0, <1>1 DEF TypeOK, RowsFit, CatalogAssumption
<1>3. Moved(c, "unlist", "idle")
  <2>1. Goto(c, "unlist", "idle") /\ "idle" \in Steps
    BY DEF InvalidateListCache, Steps
  <2> QED
    BY <1>0, <2>1, GotoMoves
<1>4. clean' /\ Settled(c) => Settled(c)'
  BY <1>0, <1>1, <1>3 DEF TypeOK, Moved, Settled, CopyIsTrue, EntrySettled, PageSettled,
                         CountSettled, Fresh, PageFresh, CountFresh, CountByUser
<1> QED
  BY <1>1, <1>2, <1>3, <1>4, MoveSuffices

LEMMA DeleteCacheStep ==
    ASSUME FInv, CatalogAssumption, NEW c \in Clients, DeleteCache(c), UNCHANGED <<wished, count>>
    PROVE  FInv'
<1> USE DEF row
<1>0. TypeOK /\ CopiesFit
  BY DEF FInv
<1>1. /\ cache' = NoEntry /\ loose' = loose \ {"entry"}
      /\ UNCHANGED <<row, page, copy, writes, wished, count>>
  BY <1>0 DEF DeleteCache, TypeOK, CopiesFit, CatalogAssumption
<1>2. RowsFit'
  BY <1>0, <1>1 DEF TypeOK, RowsFit, CatalogAssumption
<1>3. CASE Goto(c, "bust", "idle")
  <2>1. Moved(c, "bust", "idle")
    <3>1. "idle" \in Steps
      BY DEF Steps
    <3> QED
      BY <1>0, <1>3, <3>1, GotoMoves
  <2>2. clean' /\ Settled(c) => Settled(c)'
    BY <1>0, <1>1, <1>3, <2>1 DEF TypeOK, Moved, Settled, CopyIsTrue, EntrySettled,
                                  PageSettled, CountSettled, Fresh, PageFresh, CountFresh,
                                  CountByUser
  <2> QED
    BY <1>0, <1>1, <1>2, <1>3, <2>1, <2>2, MoveSuffices DEF Moved, CopiesFit
<1>4. CASE Goto(c, "bust and unlist", "unlist")
  <2>1. Moved(c, "bust and unlist", "unlist")
    <3>1. "unlist" \in Steps
      BY DEF Steps
    <3> QED
      BY <1>0, <1>4, <3>1, GotoMoves
  <2>2. clean' /\ Settled(c) => Settled(c)'
    <3> SUFFICES ASSUME clean', Settled(c) PROVE Settled(c)'
      OBVIOUS
    <3>1. CopyIsTrue(c)'
      BY <2>1 DEF Moved, CopyIsTrue
    <3>2. EntrySettled(c)'
      BY <1>1, <2>1 DEF Moved, EntrySettled, Fresh
    <3>3. PageSettled(c)'
      BY <2>1 DEF Moved, PageSettled
    <3>4. pc[c] # "uncount"
      BY <2>1 DEF Moved
    <3>5. CountFresh /\ CountByUser' = CountByUser
      BY <1>1, <3>4 DEF Settled, CountSettled, CountByUser
    <3>6. CountSettled(c)' /\ (stock + taken = supply)'
      BY <1>1, <3>5 DEF Settled, CountSettled, CountFresh
    <3> QED
      BY <3>1, <3>2, <3>3, <3>6 DEF Settled
  <2> QED
    BY <1>0, <1>1, <1>2, <1>4, <2>1, <2>2, MoveSuffices DEF Moved, CopiesFit
<1> QED
  BY <1>3, <1>4 DEF DeleteCache

-----------------------------------------------------------------------------
(* Writes. *)

LEMMA CreateStep ==
    ASSUME FInv, CatalogAssumption, NEW c \in Clients, Create(c), UNCHANGED <<wished, count>>
    PROVE  FInv'
<1> USE DEF row
<1>0. TypeOK /\ CopiesFit
  BY DEF FInv
<1>1. /\ live' = TRUE /\ Read(c, stock) /\ copy'[c] = stock /\ stock \in Nat
      /\ writes' \in 0..MaxWrites
      /\ UNCHANGED <<stock, taken, supply, cache, page, loose, wished, count>>
  BY <1>0 DEF Create, Write, Read, TypeOK, CopiesFit, CatalogAssumption
<1>2. RowsFit'
  BY <1>0, <1>1 DEF TypeOK, RowsFit, CatalogAssumption
<1>3. Moved(c, "idle", "refill")
  <2>1. Goto(c, "idle", "refill") /\ "refill" \in Steps
    BY DEF Create, Steps
  <2> QED
    BY <1>0, <2>1, GotoMoves
<1>4. clean' /\ Settled(c) => Settled(c)'
  BY <1>0, <1>1, <1>3 DEF TypeOK, Moved, Settled, CopyIsTrue, EntrySettled, PageSettled,
                         CountSettled, Fresh, PageFresh, CountFresh, CountByUser
<1> QED
  BY <1>1, <1>2, <1>3, <1>4, MoveSuffices

LEMMA SaveStep ==
    ASSUME FInv, CatalogAssumption, NEW c \in Clients, Save(c), UNCHANGED <<wished, count>>
    PROVE  FInv'
<1> USE DEF row
<1>0. TypeOK /\ CopiesFit
  BY DEF FInv
<1>1. /\ stock' = copy[c] /\ live' = TRUE /\ copy[c] \in Nat /\ taken \in Nat
      /\ supply' \in Nat /\ writes' \in 0..MaxWrites
      /\ UNCHANGED <<taken, cache, page, copy, loose, wished, count>>
  BY <1>0 DEF Save, Goto, Write, TypeOK, CopiesFit, CatalogAssumption
<1>2. RowsFit'
  BY <1>0, <1>1 DEF TypeOK, RowsFit, CatalogAssumption
<1>3. CASE Goto(c, "rename", "refill") /\ UNCHANGED supply
  <2>1. Moved(c, "rename", "refill")
    <3>1. "refill" \in Steps
      BY DEF Steps
    <3> QED
      BY <1>0, <1>3, <3>1, GotoMoves
  <2>2. clean' /\ Settled(c) => Settled(c)'
    BY <1>0, <1>1, <1>3, <2>1 DEF TypeOK, Moved, Settled, CopyIsTrue, EntrySettled,
                                  PageSettled, CountSettled, Fresh, PageFresh, CountFresh,
                                  CountByUser
  <2> QED
    BY <1>0, <1>1, <1>2, <1>3, <2>1, <2>2, MoveSuffices DEF Moved, CopiesFit
<1>4. CASE Goto(c, "restock", "refill") /\ supply' = copy[c] + taken
  <2>1. Moved(c, "restock", "refill")
    <3>1. "refill" \in Steps
      BY DEF Steps
    <3> QED
      BY <1>0, <1>4, <3>1, GotoMoves
  <2>2. clean' /\ Settled(c) => Settled(c)'
    BY <1>0, <1>1, <1>4, <2>1 DEF TypeOK, Moved, Settled, CopyIsTrue, EntrySettled,
                                  PageSettled, CountSettled, Fresh, PageFresh, CountFresh,
                                  CountByUser
  <2> QED
    BY <1>0, <1>1, <1>2, <1>4, <2>1, <2>2, MoveSuffices DEF Moved, CopiesFit
<1> QED
  BY <1>3, <1>4 DEF Save

LEMMA LoadForDeleteStep ==
    ASSUME FInv, CatalogAssumption, NEW c \in Clients, LoadForDelete(c), UNCHANGED <<wished, count>>
    PROVE  FInv'
<1> USE DEF row
<1>0. TypeOK /\ CopiesFit
  BY DEF FInv
<1>1. /\ live /\ Read(c, stock) /\ copy'[c] = stock /\ stock \in Nat
      /\ UNCHANGED <<row, cache, page, writes, loose, wished, count>>
  BY <1>0 DEF LoadForDelete, FindByID, Read, TypeOK, CopiesFit, CatalogAssumption
<1>2. RowsFit'
  BY <1>0, <1>1 DEF TypeOK, RowsFit, CatalogAssumption
<1>3. Moved(c, "idle", "delete")
  <2>1. Goto(c, "idle", "delete") /\ "delete" \in Steps
    BY DEF LoadForDelete, Steps
  <2> QED
    BY <1>0, <2>1, GotoMoves
<1>4. clean' /\ Settled(c) => Settled(c)'
  BY <1>0, <1>1, <1>3 DEF TypeOK, Moved, Settled, CopyIsTrue, EntrySettled, PageSettled,
                         CountSettled, Fresh, PageFresh, CountFresh, CountByUser
<1> QED
  BY <1>1, <1>2, <1>3, <1>4, MoveSuffices

LEMMA DeleteRowStep ==
    ASSUME FInv, CatalogAssumption, NEW c \in Clients, DeleteRow(c), UNCHANGED <<wished, count>>
    PROVE  FInv'
<1> USE DEF row
<1>0. TypeOK /\ CopiesFit
  BY DEF FInv
<1>1. /\ live' = FALSE /\ writes' \in 0..MaxWrites /\ loose' \subseteq {"entry", "page"}
      /\ UNCHANGED <<stock, taken, supply, cache, page, copy, wished, count>>
  <2>1. /\ live' = FALSE /\ Write /\ loose' \in {loose, loose \cup {"page"}}
        /\ UNCHANGED <<stock, taken, supply, cache, page, copy, wished, count>>
    BY DEF DeleteRow
  <2>2. writes' \in 0..MaxWrites
    BY <1>0, <2>1 DEF Write, TypeOK, CatalogAssumption
  <2> QED
    BY <1>0, <2>1, <2>2 DEF TypeOK
<1>2. RowsFit'
  BY <1>0, <1>1 DEF TypeOK, RowsFit, CatalogAssumption
<1>3. CASE Goto(c, "delete", "bust and unlist") /\ UNCHANGED loose
  <2>1. Moved(c, "delete", "bust and unlist")
    <3>1. "bust and unlist" \in Steps
      BY DEF Steps
    <3> QED
      BY <1>0, <1>3, <3>1, GotoMoves
  <2>2. clean' /\ Settled(c) => Settled(c)'
    <3> SUFFICES ASSUME clean', Settled(c) PROVE Settled(c)'
      OBVIOUS
    <3>1. CopyIsTrue(c)'
      BY <2>1 DEF Moved, CopyIsTrue
    <3>2. EntrySettled(c)'
      BY <1>1, <2>1 DEF Moved, EntrySettled, Fresh
    <3>3. PageSettled(c)'
      BY <2>1 DEF Moved, PageSettled
    <3>4. pc[c] # "uncount"
      BY <2>1 DEF Moved
    <3>5. CountFresh /\ CountByUser' = CountByUser
      BY <1>1, <3>4 DEF Settled, CountSettled, CountByUser
    <3>6. CountSettled(c)' /\ (stock + taken = supply)'
      BY <1>1, <3>5 DEF Settled, CountSettled, CountFresh
    <3> QED
      BY <3>1, <3>2, <3>3, <3>6 DEF Settled
  <2> QED
    BY <1>0, <1>1, <1>2, <1>3, <2>1, <2>2, MoveSuffices DEF Moved, CopiesFit
<1>4. CASE Goto(c, "delete", "bust") /\ loose' = loose \cup {"page"}
  <2>1. Moved(c, "delete", "bust")
    <3>1. "bust" \in Steps
      BY DEF Steps
    <3> QED
      BY <1>0, <1>4, <3>1, GotoMoves
  <2>2. clean' /\ Settled(c) => Settled(c)'
    BY <1>0, <1>1, <1>4, <2>1 DEF TypeOK, Moved, Settled, CopyIsTrue, EntrySettled,
                                  PageSettled, CountSettled, Fresh, PageFresh, CountFresh,
                                  CountByUser
  <2> QED
    BY <1>0, <1>1, <1>2, <1>4, <2>1, <2>2, MoveSuffices DEF Moved, CopiesFit
<1> QED
  BY <1>3, <1>4 DEF DeleteRow

LEMMA DeleteMissingStep ==
    ASSUME FInv, CatalogAssumption, NEW c \in Clients, DeleteMissing(c), UNCHANGED <<wished, count>>
    PROVE  FInv'
<1> USE DEF row
<1>0. TypeOK /\ CopiesFit
  BY DEF FInv
<1>1. /\ UNCHANGED <<row, cache, page, copy, writes, loose, wished, count>>
  BY <1>0 DEF DeleteMissing, TypeOK, CopiesFit, CatalogAssumption
<1>2. RowsFit'
  BY <1>0, <1>1 DEF TypeOK, RowsFit, CatalogAssumption
<1>3. Moved(c, "delete", "idle")
  <2>1. Goto(c, "delete", "idle") /\ "idle" \in Steps
    BY DEF DeleteMissing, Steps
  <2> QED
    BY <1>0, <2>1, GotoMoves
<1>4. clean' /\ Settled(c) => Settled(c)'
  BY <1>0, <1>1, <1>3 DEF TypeOK, Moved, Settled, CopyIsTrue, EntrySettled, PageSettled,
                         CountSettled, Fresh, PageFresh, CountFresh, CountByUser
<1> QED
  BY <1>1, <1>2, <1>3, <1>4, MoveSuffices

-----------------------------------------------------------------------------
(* The order flows. *)

LEMMA HoldStep ==
    ASSUME FInv, CatalogAssumption, NEW c \in Clients, Hold(c), UNCHANGED <<wished, count>>
    PROVE  FInv'
<1> USE DEF row
<1>0. TypeOK /\ CopiesFit
  BY DEF FInv
<1>1. /\ stock \in Nat /\ stock >= 1 /\ stock' = stock - 1 /\ taken \in Nat /\ taken' = taken + 1
      /\ supply \in Nat /\ writes' \in 0..MaxWrites /\ loose' = loose \cup {"page"}
      /\ UNCHANGED <<live, supply, cache, page, copy, wished, count>>
  BY <1>0 DEF Hold, Write, TypeOK, CopiesFit, CatalogAssumption
<1>2. RowsFit'
  BY <1>0, <1>1 DEF TypeOK, RowsFit, CatalogAssumption
<1>3. Moved(c, "idle", "bust")
  <2>1. Goto(c, "idle", "bust") /\ "bust" \in Steps
    BY DEF Hold, Steps
  <2> QED
    BY <1>0, <2>1, GotoMoves
<1>4. clean' /\ Settled(c) => Settled(c)'
  BY <1>0, <1>1, <1>3 DEF TypeOK, Moved, Settled, CopyIsTrue, EntrySettled, PageSettled,
                         CountSettled, Fresh, PageFresh, CountFresh, CountByUser
<1> QED
  BY <1>1, <1>2, <1>3, <1>4, MoveSuffices

LEMMA ReleaseStep ==
    ASSUME FInv, CatalogAssumption, NEW c \in Clients, Release(c), UNCHANGED <<wished, count>>
    PROVE  FInv'
<1> USE DEF row
<1>0. TypeOK /\ CopiesFit
  BY DEF FInv
<1>1. /\ stock \in Nat /\ stock' = stock + 1 /\ taken \in Nat /\ taken > 0 /\ taken' = taken - 1
      /\ supply \in Nat /\ writes' \in 0..MaxWrites /\ loose' = loose \cup {"page"}
      /\ UNCHANGED <<live, supply, cache, page, copy, wished, count>>
  BY <1>0 DEF Release, GiveBack, Write, TypeOK, CopiesFit, CatalogAssumption
<1>2. RowsFit'
  BY <1>0, <1>1 DEF TypeOK, RowsFit, CatalogAssumption
<1>3. Moved(c, "idle", "bust")
  <2>1. Goto(c, "idle", "bust") /\ "bust" \in Steps
    BY DEF Release, Steps
  <2> QED
    BY <1>0, <2>1, GotoMoves
<1>4. clean' /\ Settled(c) => Settled(c)'
  BY <1>0, <1>1, <1>3 DEF TypeOK, Moved, Settled, CopyIsTrue, EntrySettled, PageSettled,
                         CountSettled, Fresh, PageFresh, CountFresh, CountByUser
<1> QED
  BY <1>1, <1>2, <1>3, <1>4, MoveSuffices

LEMMA DeclineStep ==
    ASSUME FInv, CatalogAssumption, NEW c \in Clients, Decline(c), UNCHANGED <<wished, count>>
    PROVE  FInv'
<1> USE DEF row
<1>0. TypeOK /\ CopiesFit
  BY DEF FInv
<1>1. /\ stock \in Nat /\ stock' = stock + 1 /\ taken \in Nat /\ taken > 0 /\ taken' = taken - 1
      /\ supply \in Nat /\ writes' \in 0..MaxWrites /\ loose' = {"entry", "page"}
      /\ UNCHANGED <<live, supply, cache, page, copy, wished, count>>
  BY <1>0 DEF Decline, GiveBack, Write, TypeOK, CopiesFit, CatalogAssumption
<1>2. RowsFit'
  BY <1>0, <1>1 DEF TypeOK, RowsFit, CatalogAssumption
<1>3. Moved(c, "idle", "idle")
  <2>1. Goto(c, "idle", "idle") /\ "idle" \in Steps
    BY DEF Decline, Steps
  <2> QED
    BY <1>0, <2>1, GotoMoves
<1>4. clean' /\ Settled(c) => Settled(c)'
  BY <1>0, <1>1, <1>3 DEF TypeOK, Moved, Settled, CopyIsTrue, EntrySettled, PageSettled,
                         CountSettled, Fresh, PageFresh, CountFresh, CountByUser
<1> QED
  BY <1>1, <1>2, <1>3, <1>4, MoveSuffices

-----------------------------------------------------------------------------
(* The wishlist. *)

LEMMA AddLooksUpStep ==
    ASSUME FInv, CatalogAssumption, NEW c \in Clients, AddLooksUp(c)
    PROVE  FInv'
<1> USE DEF row
<1>0. TypeOK /\ CopiesFit
  BY DEF FInv
<1>1. /\ live /\ Read(c, stock) /\ copy'[c] = stock /\ stock \in Nat
      /\ UNCHANGED <<row, cache, page, writes, loose, wished, count>>
  BY <1>0 DEF AddLooksUp, FindByID, Read, TypeOK, CopiesFit, CatalogAssumption
<1>2. RowsFit'
  BY <1>0, <1>1 DEF TypeOK, RowsFit, CatalogAssumption
<1>3. Moved(c, "idle", "wish")
  <2>1. Goto(c, "idle", "wish") /\ "wish" \in Steps
    BY DEF AddLooksUp, Steps
  <2> QED
    BY <1>0, <2>1, GotoMoves
<1>4. clean' /\ Settled(c) => Settled(c)'
  BY <1>0, <1>1, <1>3 DEF TypeOK, Moved, Settled, CopyIsTrue, EntrySettled, PageSettled,
                         CountSettled, Fresh, PageFresh, CountFresh, CountByUser
<1> QED
  BY <1>1, <1>2, <1>3, <1>4, MoveSuffices

LEMMA AddRowStep ==
    ASSUME FInv, CatalogAssumption, NEW c \in Clients, AddRow(c)
    PROVE  FInv'
<1> USE DEF row
<1>0. TypeOK /\ CopiesFit
  BY DEF FInv
<1>1. /\ wished' = TRUE /\ writes' \in 0..MaxWrites
      /\ UNCHANGED <<row, cache, page, copy, loose, count>>
  BY <1>0 DEF AddRow, Write, TypeOK, CopiesFit, CatalogAssumption
<1>2. RowsFit'
  BY <1>0, <1>1 DEF TypeOK, RowsFit, CatalogAssumption
<1>3. Moved(c, "wish", "uncount")
  <2>1. Goto(c, "wish", "uncount") /\ "uncount" \in Steps
    BY DEF AddRow, Steps
  <2> QED
    BY <1>0, <2>1, GotoMoves
<1>4. clean' /\ Settled(c) => Settled(c)'
  BY <1>0, <1>1, <1>3 DEF TypeOK, Moved, Settled, CopyIsTrue, EntrySettled, PageSettled,
                         CountSettled, Fresh, PageFresh, CountFresh, CountByUser
<1> QED
  BY <1>1, <1>2, <1>3, <1>4, MoveSuffices

LEMMA AddConflictsStep ==
    ASSUME FInv, CatalogAssumption, NEW c \in Clients, AddConflicts(c)
    PROVE  FInv'
<1> USE DEF row
<1>0. TypeOK /\ CopiesFit
  BY DEF FInv
<1>1. /\ UNCHANGED <<row, cache, page, copy, writes, loose, wished, count>>
  BY <1>0 DEF AddConflicts, TypeOK, CopiesFit, CatalogAssumption
<1>2. RowsFit'
  BY <1>0, <1>1 DEF TypeOK, RowsFit, CatalogAssumption
<1>3. Moved(c, "wish", "idle")
  <2>1. Goto(c, "wish", "idle") /\ "idle" \in Steps
    BY DEF AddConflicts, Steps
  <2> QED
    BY <1>0, <2>1, GotoMoves
<1>4. clean' /\ Settled(c) => Settled(c)'
  BY <1>0, <1>1, <1>3 DEF TypeOK, Moved, Settled, CopyIsTrue, EntrySettled, PageSettled,
                         CountSettled, Fresh, PageFresh, CountFresh, CountByUser
<1> QED
  BY <1>1, <1>2, <1>3, <1>4, MoveSuffices

LEMMA RemoveRowStep ==
    ASSUME FInv, CatalogAssumption, NEW c \in Clients, RemoveRow(c)
    PROVE  FInv'
<1> USE DEF row
<1>0. TypeOK /\ CopiesFit
  BY DEF FInv
<1>1. /\ wished' = FALSE /\ writes' \in 0..MaxWrites
      /\ UNCHANGED <<row, cache, page, copy, loose, count>>
  BY <1>0 DEF RemoveRow, Write, TypeOK, CopiesFit, CatalogAssumption
<1>2. RowsFit'
  BY <1>0, <1>1 DEF TypeOK, RowsFit, CatalogAssumption
<1>3. Moved(c, "idle", "uncount")
  <2>1. Goto(c, "idle", "uncount") /\ "uncount" \in Steps
    BY DEF RemoveRow, Steps
  <2> QED
    BY <1>0, <2>1, GotoMoves
<1>4. clean' /\ Settled(c) => Settled(c)'
  BY <1>0, <1>1, <1>3 DEF TypeOK, Moved, Settled, CopyIsTrue, EntrySettled, PageSettled,
                         CountSettled, Fresh, PageFresh, CountFresh, CountByUser
<1> QED
  BY <1>1, <1>2, <1>3, <1>4, MoveSuffices

LEMMA InvalidateCountCacheStep ==
    ASSUME FInv, CatalogAssumption, NEW c \in Clients, InvalidateCountCache(c)
    PROVE  FInv'
<1> USE DEF row
<1>0. TypeOK /\ CopiesFit
  BY DEF FInv
<1>1. /\ count' = NoEntry
      /\ UNCHANGED <<row, cache, page, copy, writes, loose, wished>>
  BY <1>0 DEF InvalidateCountCache, TypeOK, CopiesFit, CatalogAssumption
<1>2. RowsFit'
  BY <1>0, <1>1 DEF TypeOK, RowsFit, CatalogAssumption
<1>3. Moved(c, "uncount", "idle")
  <2>1. Goto(c, "uncount", "idle") /\ "idle" \in Steps
    BY DEF InvalidateCountCache, Steps
  <2> QED
    BY <1>0, <2>1, GotoMoves
<1>4. clean' /\ Settled(c) => Settled(c)'
  BY <1>0, <1>1, <1>3 DEF TypeOK, Moved, Settled, CopyIsTrue, EntrySettled, PageSettled,
                         CountSettled, Fresh, PageFresh, CountFresh, CountByUser
<1> QED
  BY <1>1, <1>2, <1>3, <1>4, MoveSuffices

LEMMA CountMissStep ==
    ASSUME FInv, CatalogAssumption, NEW c \in Clients, CountMiss(c)
    PROVE  FInv'
<1> USE DEF row
<1>0. TypeOK /\ CopiesFit
  BY DEF FInv
<1>1. /\ Read(c, CountByUser) /\ copy'[c] = CountByUser /\ CountByUser \in {0, 1}
      /\ UNCHANGED <<row, cache, page, writes, loose, wished, count>>
  BY <1>0 DEF CountMiss, Read, CountByUser, TypeOK, CopiesFit, CatalogAssumption
<1>2. RowsFit'
  BY <1>0, <1>1 DEF TypeOK, RowsFit, CatalogAssumption
<1>3. Moved(c, "idle", "count") /\ (clean' => count = NoEntry)
  <2>1. Miss(c, count, "count") /\ "count" \in Steps
    BY DEF CountMiss, Steps
  <2> QED
    BY <1>0, <2>1, MissMoves
<1>4. clean' /\ Settled(c) => Settled(c)'
  BY <1>0, <1>1, <1>3 DEF TypeOK, Moved, Settled, CopyIsTrue, EntrySettled, PageSettled,
                         CountSettled, Fresh, PageFresh, CountFresh, CountByUser
<1> QED
  BY <1>1, <1>2, <1>3, <1>4, MoveSuffices

LEMMA SetCountStep ==
    ASSUME FInv, CatalogAssumption, NEW c \in Clients, SetCount(c)
    PROVE  FInv'
<1> USE DEF row
<1>0. TypeOK /\ CopiesFit
  BY DEF FInv
<1>1. /\ count' = copy[c] /\ copy[c] \in {0, 1}
      /\ UNCHANGED <<row, cache, page, copy, writes, loose, wished>>
  BY <1>0 DEF SetCount, Goto, TypeOK, CopiesFit, CatalogAssumption
<1>2. RowsFit'
  BY <1>0, <1>1 DEF TypeOK, RowsFit, CatalogAssumption
<1>3. Moved(c, "count", "idle")
  <2>1. Goto(c, "count", "idle") /\ "idle" \in Steps
    BY DEF SetCount, Steps
  <2> QED
    BY <1>0, <2>1, GotoMoves
<1>4. clean' /\ Settled(c) => Settled(c)'
  BY <1>0, <1>1, <1>3 DEF TypeOK, Moved, Settled, CopyIsTrue, EntrySettled, PageSettled,
                         CountSettled, Fresh, PageFresh, CountFresh, CountByUser
<1> QED
  BY <1>1, <1>2, <1>3, <1>4, MoveSuffices

-----------------------------------------------------------------------------
(* Update's read, which takes one of two ways. *)

LEMMA LoadForUpdateStep ==
    ASSUME FInv, CatalogAssumption, NEW c \in Clients, LoadForUpdate(c), UNCHANGED <<wished, count>>
    PROVE  FInv'
<1> USE DEF row
<1>0. TypeOK /\ CopiesFit
  BY DEF FInv
<1>1. UNCHANGED <<row, cache, page, writes, loose, wished, count>>
  BY DEF LoadForUpdate
<1>2. RowsFit'
  BY <1>0, <1>1 DEF TypeOK, RowsFit
<1>3. CASE Goto(c, "idle", "rename") /\ FindByID(c)
  <2>1. Moved(c, "idle", "rename")
    <3>1. "rename" \in Steps
      BY DEF Steps
    <3> QED
      BY <1>0, <1>3, <3>1, GotoMoves
  <2>2. live /\ Read(c, stock) /\ copy'[c] = stock /\ stock \in Nat
    BY <1>0, <1>3 DEF FindByID, Read, TypeOK
  <2>3. clean' /\ Settled(c) => Settled(c)'
    BY <1>0, <1>1, <2>1, <2>2 DEF TypeOK, Moved, Settled, CopyIsTrue, EntrySettled,
                                  PageSettled, CountSettled, Fresh, PageFresh, CountFresh,
                                  CountByUser
  <2> QED
    BY <1>2, <2>1, <2>2, <2>3, MoveSuffices
<1>4. CASE Goto(c, "idle", "restock") /\ live /\ \E v \in Restocks : Read(c, v)
  <2>1. Moved(c, "idle", "restock")
    <3>1. "restock" \in Steps
      BY DEF Steps
    <3> QED
      BY <1>0, <1>4, <3>1, GotoMoves
  <2>2. PICK v \in Nat : Read(c, v)
    BY <1>4 DEF CatalogAssumption
  <2>3. copy'[c] \in Nat
    BY <1>0, <2>2 DEF Read, TypeOK
  <2>4. clean' /\ Settled(c) => Settled(c)'
    BY <1>0, <1>1, <1>4, <2>1 DEF TypeOK, Moved, Settled, CopyIsTrue, EntrySettled,
                                  PageSettled, CountSettled, Fresh, PageFresh, CountFresh,
                                  CountByUser
  <2> QED
    BY <1>2, <2>1, <2>2, <2>3, <2>4, MoveSuffices
<1> QED
  BY <1>3, <1>4 DEF LoadForUpdate

-----------------------------------------------------------------------------
(* Redis: failed calls and expiry. *)

\* A failed call is not clean, so only domains are left to show.
LEMMA FailureSuffices ==
    ASSUME FInv, NEW c \in Clients, NEW to \in {"idle", "unlist"}, pc' = [pc EXCEPT ![c] = to],
           clean' = FALSE, UNCHANGED <<row, cache, page, copy, writes, loose, wished, count>>
    PROVE  FInv'
<1>0. TypeOK
  BY DEF FInv
<1>1. Moved(c, pc[c], to) /\ ~clean'
  <2>1. to \in Steps
    BY DEF Steps
  <2> QED
    BY <1>0, <2>1, FailureMoves
<1>2. RowsFit'
  BY <1>0 DEF TypeOK, RowsFit, row
<1> QED
  BY <1>1, <1>2, MoveSuffices

LEMMA FailedCallStep ==
    ASSUME FInv, NEW c \in Clients,
           \/ CacheCallFails(c) /\ UNCHANGED <<wished, count>>
           \/ CountCallFails(c)
    PROVE  FInv'
<1>1. \E to \in {"idle", "unlist"} : pc' = [pc EXCEPT ![c] = to]
  <2>1. CASE CountCallFails(c)
    BY <2>1 DEF CountCallFails
  <2>2. CASE CacheCallFails(c)
    <3>1. PICK step \in {<<"fill", "idle">>, <<"refill", "unlist">>, <<"page", "idle">>,
                         <<"unlist", "idle">>, <<"bust", "idle">>, <<"bust and unlist", "unlist">>} :
             pc' = [pc EXCEPT ![c] = step[2]]
      BY <2>2 DEF CacheCallFails
    <3>2. \/ step = <<"fill", "idle">> \/ step = <<"refill", "unlist">> \/ step = <<"page", "idle">>
          \/ step = <<"unlist", "idle">> \/ step = <<"bust", "idle">>
          \/ step = <<"bust and unlist", "unlist">>
      BY <3>1, Zenon
    <3>3. \A a, b : <<a, b>>[2] = b
      OBVIOUS
    <3>4. step[2] = "idle" \/ step[2] = "unlist"
      BY <3>2, <3>3, Zenon
    <3> QED
      BY <3>1, <3>4
  <2> QED
    BY <2>1, <2>2
<1>2. clean' = FALSE /\ UNCHANGED <<row, cache, page, copy, writes, loose, wished, count>>
  BY DEF CacheCallFails, CountCallFails
<1> QED
  BY <1>1, <1>2, FailureSuffices

\* An entry, a page or a count runs out; nothing else happens.
LEMMA ExpiryStep ==
    ASSUME FInv, UNCHANGED <<row, pc, copy, writes, clean, wished>>,
           \/ cache' = NoEntry /\ loose' = loose \ {"entry"} /\ UNCHANGED <<page, count>>
           \/ page' = NoEntry /\ loose' = loose \ {"page"} /\ UNCHANGED <<cache, count>>
           \/ count' = NoEntry /\ UNCHANGED <<cache, page, loose>>
    PROVE  FInv'
<1> USE DEF row
<1>1. TypeOK' /\ CopiesFit' /\ OneAtATime'
  <2>1. TypeOK'
    BY DEF FInv, TypeOK
  <2>2. CopiesFit' /\ OneAtATime'
    BY DEF FInv, CopiesFit, OneAtATime
  <2> QED
    BY <2>1, <2>2
<1>2. CountByUser' = CountByUser
  BY DEF CountByUser
<1>3. /\ "entry" \in loose \/ Fresh => "entry" \in loose' \/ Fresh'
      /\ "page" \in loose \/ PageFresh => "page" \in loose' \/ PageFresh'
      /\ CountFresh => CountFresh'
  BY <1>2 DEF Fresh, PageFresh, CountFresh
<1>4. ASSUME NEW c \in Clients, Settled(c)
      PROVE  Settled(c)'
  <2>1. CopyIsTrue(c)' /\ (stock + taken = supply)'
    BY <1>2, <1>4 DEF Settled, CopyIsTrue
  <2>2. EntrySettled(c)' /\ PageSettled(c)' /\ CountSettled(c)'
    BY <1>3, <1>4 DEF Settled, EntrySettled, PageSettled, CountSettled
  <2> QED
    BY <2>1, <2>2 DEF Settled
<1>5. Calm'
  BY <1>3, <1>4 DEF FInv, Calm, Quiet
<1> QED
  BY <1>1, <1>5 DEF FInv

-----------------------------------------------------------------------------
(* The invariant is inductive. *)

LEMMA StorefrontStarts ==
    ASSUME CatalogAssumption, Init
    PROVE  FInv
<1>1. TypeOK
  <2>1. live \in BOOLEAN /\ clean \in BOOLEAN /\ wished \in BOOLEAN
    BY DEF Init, CatalogInit
  <2>2. pc \in [Clients -> Steps] /\ copy \in [Clients -> Nat \cup {Unlisted}]
    BY DEF Init, CatalogInit, Steps
  <2>3. /\ stock \in Nat /\ taken \in Nat /\ supply \in Nat /\ writes \in 0..MaxWrites
        /\ cache = NoEntry /\ page = NoEntry /\ count = NoEntry /\ loose = {}
    BY DEF CatalogAssumption, Init, CatalogInit
  <2> QED
    BY <2>1, <2>2, <2>3 DEF TypeOK
<1>2. \A c \in Clients : pc[c] = "idle"
  BY DEF Init, CatalogInit
<1>3. Fresh /\ PageFresh /\ CountFresh
  BY DEF Init, CatalogInit, Fresh, PageFresh, CountFresh
<1>4. stock + taken = supply
  BY DEF Init, CatalogInit, CatalogAssumption
<1>5. CopiesFit /\ OneAtATime
  BY <1>2 DEF CopiesFit, OneAtATime
<1>6. \A c \in Clients : Settled(c)
  BY <1>2, <1>3, <1>4 DEF Settled, CopyIsTrue, EntrySettled, PageSettled, CountSettled
<1> QED
  BY <1>1, <1>3, <1>4, <1>5, <1>6 DEF FInv, Calm

\* Every step keeps the invariant.
LEMMA StorefrontStep ==
    ASSUME CatalogAssumption, FInv, [Next]_vars
    PROVE  FInv'
<1>1. ASSUME NEW c \in Clients, UNCHANGED <<wished, count>>,
             \/ GetMiss(c) \/ ListMiss(c) \/ Create(c) \/ LoadForUpdate(c) \/ LoadForDelete(c)
             \/ Hold(c) \/ Release(c) \/ Decline(c)
      PROVE  FInv'
  BY <1>1, GetMissStep, ListMissStep, CreateStep, LoadForUpdateStep, LoadForDeleteStep, HoldStep,
     ReleaseStep, DeclineStep
<1>2. ASSUME NEW c \in Clients, UNCHANGED <<wished, count>>, CatalogRunsOn(c)
      PROVE  FInv'
  BY <1>2, SetCacheStep, CacheFirstPageStep, SaveStep, InvalidateListCacheStep, DeleteRowStep,
     DeleteMissingStep, DeleteCacheStep DEF CatalogRunsOn
<1>3. ASSUME NEW c \in Clients, UNCHANGED <<wished, count>>, CacheCallFails(c)
      PROVE  FInv'
  BY <1>3, FailedCallStep
<1>4. ASSUME Expire \/ ExpirePage, UNCHANGED <<wished, count>>
      PROVE  FInv'
  BY <1>4, ExpiryStep DEF Expire, ExpirePage
<1>5. CASE CatalogNext /\ UNCHANGED <<wished, count>>
  BY <1>1, <1>2, <1>3, <1>4, <1>5 DEF CatalogNext
<1>6. ASSUME NEW c \in Clients, AddLooksUp(c) \/ RemoveRow(c) \/ CountMiss(c)
      PROVE  FInv'
  BY <1>6, AddLooksUpStep, RemoveRowStep, CountMissStep
<1>7. ASSUME NEW c \in Clients, WishlistRunsOn(c)
      PROVE  FInv'
  BY <1>7, AddRowStep, AddConflictsStep, InvalidateCountCacheStep, SetCountStep DEF WishlistRunsOn
<1>8. ASSUME NEW c \in Clients, CountCallFails(c)
      PROVE  FInv'
  BY <1>8, FailedCallStep
<1>9. CASE ExpireCount
  BY <1>9, ExpiryStep DEF ExpireCount, catalogVars
<1>10. CASE UNCHANGED vars
  <2>1. UNCHANGED <<stock, live, taken, supply, cache, page, pc, copy, writes, clean, loose, wished, count>>
    BY <1>10 DEF vars, catalogVars, row
  <2>2. TypeOK' /\ CopiesFit' /\ OneAtATime'
    BY <2>1 DEF FInv, TypeOK, CopiesFit, OneAtATime
  <2>3. Calm'
    BY <2>1 DEF FInv, Calm, Quiet, Settled, CopyIsTrue, EntrySettled, PageSettled, CountSettled, Fresh,
                PageFresh, CountFresh, CountByUser
  <2> QED
    BY <2>2, <2>3 DEF FInv
<1> QED
  BY <1>5, <1>6, <1>7, <1>8, <1>9, <1>10 DEF Next

-----------------------------------------------------------------------------
(* The theorems. *)

\* Rows, caches and requests keep the invariant, whatever overlaps or fails.
THEOREM StorefrontInvariant == Spec => []FInv
<1>1. Init => FInv
  BY StorefrontStarts, CatalogAssumption
<1>2. FInv /\ [Next]_vars => FInv'
  BY StorefrontStep, CatalogAssumption
<1> QED
  BY <1>1, <1>2, PTL DEF Spec

\* Requests that come one after another leave no stale entry, page or count
\* behind (setCache, deleteCache, invalidateListCache, invalidateCountCache),
\* but for the flows that never call the cache they change the row behind.
THEOREM CachesAreFresh == Spec => []UndisturbedIsFresh
<1>1. FInv => UndisturbedIsFresh
  BY DEF FInv, Calm, UndisturbedIsFresh
<1> QED
  BY <1>1, StorefrontInvariant, PTL

\* Units are neither lost nor sold twice by requests that do not overlap: what
\* is left (products.stock) and what orders took is what the owner supplied.
THEOREM UnitsAreKept == Spec => []UnitsAddUp
<1>1. FInv => UnitsAddUp
  BY DEF FInv, Calm, UnitsAddUp
<1> QED
  BY <1>1, StorefrontInvariant, PTL

\* A soft-deleted product comes back only through an update that read it before
\* the delete (Service.Update, gorm's Save).
THEOREM DeletedStaysDeleted == Spec => UndisturbedStaysDeleted
<1>1. ASSUME FInv, [Next]_vars, clean, ~live, writes > 0
      PROVE  ~live'
  <2>1. ASSUME NEW c \in Clients
        PROVE  pc[c] \notin {"rename", "restock"}
    <3> SUFFICES ASSUME pc[c] \in {"rename", "restock"}
                 PROVE  FALSE
      OBVIOUS
    <3>1. \A d \in Clients \ {c} : pc[d] = "idle"
      BY <1>1 DEF FInv, OneAtATime
    <3>2. Settled(c)
      BY <1>1, <3>1 DEF FInv, Calm
    <3> QED
      BY <1>1, <3>2 DEF Settled, CopyIsTrue
  <2>2. ASSUME NEW c \in Clients
        PROVE  ~Save(c)
    BY <2>1 DEF Save, Goto
  <2>3. ASSUME NEW c \in Clients
        PROVE  ~Create(c)
    BY <1>1 DEF Create
  <2>4. CASE CatalogNext
    BY <1>1, <2>2, <2>3, <2>4
    DEF CatalogNext, CatalogRunsOn, row, GetMiss, FindByID, ListMiss, LoadForUpdate, LoadForDelete, Hold,
        Release, Decline, SetCache, CacheFirstPage, InvalidateListCache, DeleteRow, DeleteMissing,
        DeleteCache, CacheCallFails, Expire, ExpirePage
  <2>5. CASE ~CatalogNext
    BY <1>1, <2>5
    DEF Next, vars, catalogVars, row, AddLooksUp, RemoveRow, CountMiss, WishlistRunsOn, AddRow,
        AddConflicts, InvalidateCountCache, SetCount, CountCallFails, ExpireCount
  <2> QED
    BY <2>4, <2>5
<1>2. FInv /\ [Next]_vars => [clean /\ ~live /\ writes > 0 => ~live']_catalogVars
  BY <1>1
<1> QED
  BY <1>2, StorefrontInvariant, PTL DEF Spec, UndisturbedStaysDeleted

-----------------------------------------------------------------------------
(* The search index: the inductive invariant. *)

\* The documents are a function on the products, and a carrier never has a
\* version its product has not had.
JobsFit ==
    /\ doc \in [Products -> Nat]
    /\ \A j \in jobs : /\ j.version <= version[j.product]
                       /\ j.op = "delete" => j.at = "call"
                       /\ j.by = "reindex" => j.op = "index"
    /\ \A m \in todo \cup beside : m[2] <= version[m[1]]
    /\ reindex # "run" => todo = {}

\* No overlap and no fault so far, or none since the last reindex.
Steady == calm \/ repaired

\* Bootstrap is over.
Serving == reindex \in {"off", "run"}

\* There is one carrier at most, the reindex's while that runs; what it carries
\* and what the reindex still has to carry are the rows as they are.
CarrierIsTrue ==
    Steady =>
        /\ \A j, k \in jobs : j = k
        /\ \A j \in jobs :
              /\ reindex = IF j.by = "reindex" THEN "run" ELSE "off"
              /\ j.op = "index" => j.product \in listed /\ j.version = version[j.product]
              /\ j.op = "delete" => j.product \notin listed /\ doc[j.product] # 0
        /\ \A m \in todo : m[1] \in listed /\ m[2] = version[m[1]]

\* The upsert is the only call that may come with the breaker on the brink, and
\* it succeeds.
UpsertNext == \E j \in jobs : j.op = "index" /\ j.at = "call"

\* Typesense answers, and "already exists" does not trip the breaker.
BreakerHasRoom ==
    Steady =>
        /\ up
        /\ breaker = "closed"
        /\ Serving => collection
        /\ Serving => UpsertNext \/ fails < Trip - 1

\* A listed product has its current document, or it is on its way.
LiveIsCovered ==
    Steady /\ Serving =>
        \A p \in listed : \/ Current(p)
                          \/ <<p, version[p]>> \in todo
                          \/ \E j \in jobs : j.op = "index" /\ j.product = p

\* A product that is not listed has no document, or its removal is on its way.
GoneIsCovered ==
    calm /\ Serving =>
        \A p \in Products \ listed : \/ doc[p] = 0
                                     \/ \E j \in jobs : j.op = "delete" /\ j.product = p

\* A calm bootstrap finds no documents and has counted at most one failure per
\* schema call.
BootIsCalm ==
    calm /\ ~Serving =>
        /\ jobs = {}
        /\ \A p \in Products : doc[p] = 0
        /\ reindex # "connect" => collection
        /\ reindex \in {"connect", "ensure"} => fails = 0
        /\ reindex = "boot ensure" => fails <= 1

\* Only a reindex that has read the rows repairs.
RepairedIsServing == repaired => Serving

\* Nothing is steady while a second reindex runs.
ReindexIsAlone == Steady => beside = {}

\* The inductive invariant.
SteadyInv ==
    /\ IndexTypeOK
    /\ calm \in BOOLEAN /\ repaired \in BOOLEAN
    /\ JobsFit
    /\ CarrierIsTrue
    /\ BreakerHasRoom
    /\ LiveIsCovered
    /\ GoneIsCovered
    /\ BootIsCalm
    /\ RepairedIsServing
    /\ ReindexIsAlone

-----------------------------------------------------------------------------
(* What the invariant says whatever has happened: the types. *)

\* A goroutine, or the product the reindex is at.
Job == [op : {"index", "delete"}, product : Products, version : 0..MaxVersion,
        by : {"request", "reindex", "beside"}, at : {"ensure", "call"}]

\* The breaker's states, and where bootstrap and reindex may be.
Breakers == {"closed", "open", "half-open"}
Phases == {"off", "connect", "boot ensure", "stats", "ensure", "run"}

\* The part of the invariant that does not depend on the history.
Fits == IndexTypeOK /\ calm \in BOOLEAN /\ repaired \in BOOLEAN /\ JobsFit

\* What the types say of numbers, rows and carriers.
LEMMA FitsFacts ==
    ASSUME Fits
    PROVE  /\ MaxVersion \in Nat \ {0} /\ MaxFaults \in Nat
           /\ \A p \in Products : /\ version[p] \in Nat /\ doc[p] \in Nat
                                  /\ doc[p] <= version[p]
           /\ \A p \in listed : p \in Products /\ version[p] > 0
           /\ Trip \in Nat /\ Trip > 2 /\ fails \in Nat /\ fails < Trip
           /\ jobs \subseteq Job
           /\ \A j \in jobs : /\ j.product \in Products /\ j.version \in Nat
                              /\ j.version <= version[j.product]
           /\ \A m \in todo \cup beside : /\ m[1] \in Products /\ m[2] \in Nat
                                          /\ m[2] <= version[m[1]] /\ m = <<m[1], m[2]>>
  <1>1. MaxVersion \in Nat \ {0} /\ MaxFaults \in Nat /\ Trip \in Nat /\ Trip > 2
    BY SearchAssumption
  <1>2. /\ version \in [Products -> 0..MaxVersion]
        /\ listed \subseteq {p \in Products : version[p] > 0}
        /\ \A p \in Products : doc[p] \in 0..version[p]
        /\ fails \in 0..(Trip - 1)
        /\ jobs \subseteq Job
        /\ todo \cup beside \subseteq Products \X (1..MaxVersion)
    BY DEF Fits, IndexTypeOK, Job
  <1>3. \A p \in Products : version[p] \in Nat /\ doc[p] \in Nat /\ doc[p] <= version[p]
    BY <1>1, <1>2
  <1>4. fails \in Nat /\ fails < Trip
    BY <1>1, <1>2
  <1>5. \A j \in jobs : j.product \in Products /\ j.version \in Nat
    BY <1>1, <1>2 DEF Job
  <1>6. \A m \in todo \cup beside : m[1] \in Products /\ m[2] \in Nat /\ m = <<m[1], m[2]>>
    BY <1>1, <1>2
  <1>7. /\ \A j \in jobs : j.version <= version[j.product]
        /\ \A m \in todo \cup beside : m[2] <= version[m[1]]
    BY DEF Fits, JobsFit
  <1>. QED
    BY <1>1, <1>2, <1>3, <1>4, <1>5, <1>6, <1>7

\* Both verdicts of a call leave the breaker in its domain.
LEMMA VerdictTypes ==
    ASSUME IndexTypeOK, Succeeds \/ Fails
    PROVE  breaker' \in Breakers /\ fails' \in 0..(Trip - 1)
  <1>1. Trip \in Nat /\ Trip > 2
    BY SearchAssumption
  <1>0. fails \in 0..(Trip - 1)
    BY DEF IndexTypeOK
  <1>2. CASE Succeeds
    BY <1>1, <1>2 DEF Succeeds, Breakers
  <1>3. CASE Fails
    <2>1. /\ breaker' \in {"open", "closed"}
          /\ fails' = 0 \/ (fails' = fails + 1 /\ ~(fails + 1 >= Trip))
      BY <1>3 DEF Fails
    <2>. QED
      BY <1>0, <1>1, <2>1 DEF Breakers
  <1>. QED
    BY <1>2, <1>3

\* EnsureProductsCollection leaves breaker and collection in their domains, and
\* never drops the collection.
LEMMA EnsureTypes ==
    ASSUME IndexTypeOK, NEW outcome, Ensure(outcome)
    PROVE  /\ breaker' \in Breakers /\ fails' \in 0..(Trip - 1)
           /\ collection' \in BOOLEAN
           /\ collection => collection'
  <1>1. CASE ~Admits
    BY <1>1, SearchAssumption DEF Ensure, IndexTypeOK, Breakers, circuit
  <1>2. CASE Admits
    <2>1. Succeeds \/ Fails
      BY <1>2 DEF Ensure
    <2>2. collection' = collection \/ collection' = TRUE
      BY <1>2 DEF Ensure
    <2>. QED
      BY <2>1, <2>2, VerdictTypes DEF IndexTypeOK
  <1>. QED
    BY <1>1, <1>2

\* What a step must keep: the part of the types that speaks of rows and carriers.
LEMMA FitsKept ==
    ASSUME Fits,
           UNCHANGED rows, doc' = doc,
           collection' \in BOOLEAN, up' \in BOOLEAN,
           breaker' \in Breakers, fails' \in 0..(Trip - 1),
           jobs' \subseteq jobs, todo' \subseteq todo, beside' \subseteq beside, reindex' \in Phases,
           reindex' # "run" => todo' = {},
           faults' \in 0..MaxFaults, calm' \in BOOLEAN, repaired' \in BOOLEAN
    PROVE  Fits'
  BY DEF Fits, IndexTypeOK, JobsFit, rows, Breakers, Phases

\* A carrier that fits may be added.
LEMMA SpawnFits ==
    ASSUME Fits, NEW p \in Products, NEW j,
           version' \in [Products -> 0..MaxVersion],
           \A q \in Products : version[q] <= version'[q],
           listed' \subseteq {q \in Products : version'[q] > 0},
           j \in Job, j.version <= version'[j.product],
           j.op = "delete" => j.at = "call", j.by = "request",
           Spawn(j),
           UNCHANGED <<typesense, circuit, reindexes, faults>>
    PROVE  Fits'
  <1>1. /\ doc' = doc /\ collection' = collection /\ up' = up /\ breaker' = breaker
        /\ fails' = fails /\ reindex' = reindex /\ todo' = todo /\ beside' = beside
        /\ faults' = faults
    BY DEF typesense, circuit, reindexes
  <1>2. jobs' = jobs \cup {j} /\ calm' \in BOOLEAN /\ repaired' \in BOOLEAN
    BY DEF Spawn
  <1>3. \A q \in Products : version[q] \in Nat /\ version'[q] \in Nat /\ doc[q] \in Nat
    BY FitsFacts
  <1>4. jobs \subseteq Job /\ todo \cup beside \subseteq Products \X (1..MaxVersion)
    BY DEF Fits, IndexTypeOK, Job
  <1>5. \A q \in Products : doc'[q] \in 0..version'[q]
    <2>1. \A q \in Products : doc[q] \in 0..version[q]
      BY DEF Fits, IndexTypeOK
    <2>. QED
      BY <1>1, <1>3, <2>1
  <1>6. IndexTypeOK'
    BY <1>1, <1>2, <1>4, <1>5 DEF Fits, IndexTypeOK, Job
  <1>7. \A k \in jobs' : /\ k.version <= version'[k.product]
                         /\ k.op = "delete" => k.at = "call"
                         /\ k.by = "reindex" => k.op = "index"
    <2> SUFFICES ASSUME NEW k \in jobs, k # j PROVE k.version <= version'[k.product]
      BY <1>2 DEF Fits, JobsFit
    <2>1. k.product \in Products /\ k.version \in Nat /\ k.version <= version[k.product]
      BY <1>4 DEF Fits, JobsFit, Job
    <2>. QED
      BY <1>3, <2>1
  <1>8. \A m \in todo' \cup beside' : m[2] <= version'[m[1]]
    <2> SUFFICES ASSUME NEW m \in todo \cup beside PROVE m[2] <= version'[m[1]]
      BY <1>1
    <2>1. m[1] \in Products /\ m[2] \in Nat /\ m[2] <= version[m[1]]
      BY <1>4 DEF Fits, JobsFit
    <2>. QED
      BY <1>3, <2>1
  <1>. QED
    BY <1>1, <1>2, <1>6, <1>7, <1>8 DEF Fits, JobsFit

\* The three product requests: each starts one carrier.
LEMMA CreateFits == ASSUME Fits, NEW p \in Products, ServiceCreate(p) PROVE Fits'
  <1>1. version' = [version EXCEPT ![p] = 1] /\ version[p] = 0 /\ listed' = listed \cup {p}
    BY DEF ServiceCreate
  <1>2. Index(p, 1, "request") \in Job
    BY SearchAssumption DEF Index, Job
  <1>3. /\ version \in [Products -> 0..MaxVersion]
        /\ listed \subseteq {q \in Products : version[q] > 0}
    BY DEF Fits, IndexTypeOK
  <1>4. version' \in [Products -> 0..MaxVersion] /\ (\A q \in Products : version[q] <= version'[q])
    BY <1>1, <1>3, SearchAssumption
  <1>5. listed' \subseteq {q \in Products : version'[q] > 0}
    BY <1>1, <1>3, <1>4
  <1>. QED
    BY <1>1, <1>2, <1>3, <1>4, <1>5, SpawnFits DEF ServiceCreate, Index

LEMMA UpdateFits == ASSUME Fits, NEW p \in Products, ServiceUpdate(p) PROVE Fits'
  <1>1. /\ version' = [version EXCEPT ![p] = version[p] + 1] /\ version[p] < MaxVersion
        /\ listed' = listed
    BY DEF ServiceUpdate
  <1>3. /\ version \in [Products -> 0..MaxVersion]
        /\ listed \subseteq {q \in Products : version[q] > 0}
    BY DEF Fits, IndexTypeOK
  <1>2. Index(p, version[p] + 1, "request") \in Job
    BY <1>1, <1>3, SearchAssumption DEF Index, Job
  <1>4. version' \in [Products -> 0..MaxVersion] /\ (\A q \in Products : version[q] <= version'[q])
    BY <1>1, <1>3, SearchAssumption
  <1>5. listed' \subseteq {q \in Products : version'[q] > 0}
    BY <1>1, <1>3, <1>4
  <1>. QED
    BY <1>1, <1>2, <1>3, <1>4, <1>5, SpawnFits DEF ServiceUpdate, Index

LEMMA DeleteFits == ASSUME Fits, NEW p \in Products, ServiceDelete(p) PROVE Fits'
  <1>1. version' = version /\ listed' = listed \ {p}
    BY DEF ServiceDelete
  <1>3. /\ version \in [Products -> 0..MaxVersion]
        /\ listed \subseteq {q \in Products : version[q] > 0}
    BY DEF Fits, IndexTypeOK
  <1>2. Removal(p) \in Job /\ Removal(p).version <= version'[p]
    BY <1>1, <1>3, SearchAssumption DEF Removal, Job
  <1>4. \A q \in Products : version[q] <= version'[q]
    BY <1>1, <1>3, SearchAssumption
  <1>. QED
    BY <1>1, <1>2, <1>3, <1>4, SpawnFits DEF ServiceDelete, Removal

\* The first half of IndexProduct ends its goroutine or sends it on.
LEMMA JobEnsureFits == ASSUME Fits, NEW j \in jobs, JobEnsure(j) PROVE Fits'
  <1>1. /\ UNCHANGED rows /\ doc' = doc /\ up' = up /\ reindex' = reindex /\ todo' = todo
        /\ beside' = beside /\ faults' = faults /\ calm' = calm /\ repaired' = repaired
    BY DEF JobEnsure, reindexes, history
  <1>2. /\ breaker' \in Breakers /\ fails' \in 0..(Trip - 1) /\ collection' \in BOOLEAN
    BY EnsureTypes DEF JobEnsure, Fits
  <1>3. CASE jobs' = jobs \ {j}
    BY <1>1, <1>2, <1>3, FitsKept DEF Fits, IndexTypeOK, JobsFit, Phases
  <1>4. CASE jobs' = (jobs \ {j}) \cup {[j EXCEPT !.at = "call"]}
    <2> DEFINE k == [j EXCEPT !.at = "call"]
    <2>1. jobs \subseteq Job
      BY DEF Fits, IndexTypeOK, Job
    <2>2. /\ k \in Job /\ k.version = j.version /\ k.product = j.product /\ k.op = j.op
          /\ k.by = j.by /\ k.at = "call"
      BY <2>1 DEF Job
    <2>5. jobs' = (jobs \ {j}) \cup {k}
      BY <1>4
    <2> HIDE DEF k
    <2>3. IndexTypeOK'
      BY <1>1, <1>2, <2>5, <2>1, <2>2 DEF Fits, IndexTypeOK, Job, Breakers, rows
    <2>4. JobsFit'
      BY <1>1, <2>5, <2>2 DEF Fits, JobsFit, rows
    <2>. QED
      BY <1>1, <2>3, <2>4 DEF Fits
  <1>. QED
    BY <1>3, <1>4 DEF JobEnsure

\* A document that is written shows a version its row has had.
LEMMA DocFits ==
    ASSUME Fits, NEW p \in Products, NEW v \in Nat, v <= version[p],
           doc' = [doc EXCEPT ![p] = v], jobs' \subseteq jobs,
           breaker' \in Breakers, fails' \in 0..(Trip - 1),
           UNCHANGED <<rows, collection, up, reindexes>>,
           faults' \in 0..MaxFaults, calm' \in BOOLEAN, repaired' \in BOOLEAN
    PROVE  Fits'
  <1>1. /\ version' = version /\ listed' = listed /\ collection' = collection /\ up' = up
        /\ reindex' = reindex /\ todo' = todo /\ beside' = beside
    BY DEF rows, reindexes
  <1>2. doc \in [Products -> Nat] /\ (\A q \in Products : doc[q] \in 0..version[q])
    BY DEF Fits, IndexTypeOK, JobsFit
  <1>3. version[p] \in Nat
    BY FitsFacts
  <1>4. doc' \in [Products -> Nat] /\ (\A q \in Products : doc'[q] \in 0..version'[q])
    BY <1>1, <1>2, <1>3
  <1>5. IndexTypeOK'
    BY <1>1, <1>4 DEF Fits, IndexTypeOK, Breakers
  <1>6. JobsFit'
    BY <1>1, <1>4 DEF Fits, JobsFit
  <1>. QED
    BY <1>5, <1>6 DEF Fits

\* The upsert and the delete write what their carrier has, or nothing.
LEMMA CallFits ==
    ASSUME Fits, NEW j \in jobs, JobUpsert(j) \/ JobDelete(j)
    PROVE  Fits'
  <1>1. /\ UNCHANGED <<rows, collection, up, reindexes>>
        /\ jobs' = jobs \ {j}
    BY DEF JobUpsert, JobDelete
  <1>2. breaker' \in Breakers /\ fails' \in 0..(Trip - 1)
    <2>1. CASE UNCHANGED circuit
      BY <2>1 DEF Fits, IndexTypeOK, circuit, Breakers
    <2>2. CASE Succeeds \/ Fails
      BY <2>2, VerdictTypes DEF Fits
    <2>. QED
      BY <2>1, <2>2 DEF JobUpsert, JobDelete
  <1>3. /\ j.product \in Products /\ j.version \in Nat /\ j.version <= version[j.product]
        /\ 0 \in Nat /\ 0 <= version[j.product]
    BY FitsFacts
  <1>4. \/ doc' = doc
        \/ doc' = [doc EXCEPT ![j.product] = j.version]
        \/ doc' = [doc EXCEPT ![j.product] = 0]
    BY DEF JobUpsert, JobDelete
  <1>5. faults' \in 0..MaxFaults /\ calm' \in BOOLEAN /\ repaired' \in BOOLEAN
    BY DEF JobUpsert, JobDelete, history, Fits, IndexTypeOK
  <1>6. CASE doc' = doc
    <2>1. /\ UNCHANGED rows /\ collection' = collection /\ up' = up /\ reindex' = reindex
          /\ todo' = todo /\ beside' = beside
      BY <1>1 DEF reindexes
    <2>. QED
      BY <1>1, <1>2, <1>5, <1>6, <2>1, FitsKept DEF Fits, IndexTypeOK, JobsFit, Phases
  <1>7. CASE doc' = [doc EXCEPT ![j.product] = j.version]
    BY <1>1, <1>2, <1>3, <1>5, <1>7, DocFits
  <1>8. CASE doc' = [doc EXCEPT ![j.product] = 0]
    BY <1>1, <1>2, <1>3, <1>5, <1>8, DocFits
  <1>. QED
    BY <1>4, <1>6, <1>7, <1>8

\* A fault is counted, and ends what the history says.
LEMMA DisturbTypes ==
    ASSUME Fits, Disturb
    PROVE  /\ faults' \in 0..MaxFaults /\ calm' \in BOOLEAN /\ repaired' \in BOOLEAN
           /\ ~calm' /\ ~repaired'
  <1>1. faults \in 0..MaxFaults /\ MaxFaults \in Nat
    BY SearchAssumption DEF Fits, IndexTypeOK
  <1>2. faults < MaxFaults /\ faults' = faults + 1
    BY DEF Disturb
  <1>3. faults' \in 0..MaxFaults
    BY <1>1, <1>2
  <1>. QED
    BY <1>3 DEF Disturb

\* A carrier's call that is cut off has done what it should, or nothing.
LEMMA JobCutFits == ASSUME Fits, NEW j \in jobs, JobCut(j) PROVE Fits'
  <1>1. UNCHANGED <<rows, up, reindexes>> /\ jobs' = jobs \ {j}
    BY DEF JobCut
  <1>2. breaker' \in Breakers /\ fails' \in 0..(Trip - 1)
    BY VerdictTypes DEF JobCut, Fits
  <1>3. faults' \in 0..MaxFaults /\ calm' \in BOOLEAN /\ repaired' \in BOOLEAN
    BY DisturbTypes DEF JobCut
  <1>4. CASE doc' = doc
    <2>1. /\ UNCHANGED rows /\ up' = up /\ reindex' = reindex /\ todo' = todo
          /\ beside' = beside
      BY <1>1 DEF reindexes
    <2>2. collection' \in BOOLEAN
      BY DEF JobCut, Fits, IndexTypeOK
    <2>. QED
      BY <1>1, <1>2, <1>3, <1>4, <2>1, <2>2, FitsKept DEF Fits, IndexTypeOK, JobsFit, Phases
  <1>5. CASE doc' # doc
    <2>1. doc' = [doc EXCEPT ![j.product] = j.version] /\ collection' = collection
      BY <1>5 DEF JobCut
    <2>2. j.product \in Products /\ j.version \in Nat /\ j.version <= version[j.product]
      BY FitsFacts
    <2>. QED
      BY <1>1, <1>2, <1>3, <2>1, <2>2, DocFits
  <1>. QED
    BY <1>4, <1>5

\* Bootstrap and the calls that only ask.
LEMMA AskingFits ==
    ASSUME Fits,
           \/ BootstrapSchemas \/ BootEnsure \/ BootStats \/ AdminReindex
           \/ Ping \/ SearchOnce \/ SearchCreatesCollection
           \/ BreakerTimeout \/ BreakerInterval \/ TypesenseStarts \/ CallCut \/ RestartAPI
    PROVE  Fits'
  <1>1. /\ UNCHANGED rows /\ doc' = doc /\ jobs' \subseteq jobs /\ todo' \subseteq todo
        /\ beside' \subseteq beside
    BY DEF BootstrapSchemas, BootEnsure, BootStats, AdminReindex, Ping, SearchOnce,
           SearchCreatesCollection, BreakerTimeout, BreakerInterval, TypesenseStarts,
           CallCut, RestartAPI, typesense, reindexes
  <1>2. /\ reindex' \in Phases /\ (reindex' # "run" => todo' = {})
    <2>1. reindex # "run" => todo = {}
      BY DEF Fits, JobsFit
    <2>2. reindex \in Phases
      BY DEF Fits, IndexTypeOK, Phases
    <2>3. CASE reindex' = reindex /\ todo' = todo
      BY <2>1, <2>2, <2>3
    <2>4. CASE BootstrapSchemas \/ BootEnsure \/ BootStats \/ AdminReindex \/ RestartAPI
      BY <2>1, <2>4 DEF BootstrapSchemas, BootEnsure, BootStats, AdminReindex, RestartAPI, Phases
    <2>. QED
      BY <2>3, <2>4 DEF Ping, SearchOnce, SearchCreatesCollection, BreakerTimeout,
                        BreakerInterval, TypesenseStarts, CallCut, reindexes
  <1>3. faults' \in 0..MaxFaults
    <2>1. faults \in 0..MaxFaults /\ MaxFaults \in Nat
      BY SearchAssumption DEF Fits, IndexTypeOK
    <2>2. \/ faults' = faults
          \/ faults < MaxFaults /\ faults' = faults + 1
      BY DEF BootstrapSchemas, BootEnsure, BootStats, AdminReindex, Ping, SearchOnce,
           SearchCreatesCollection, BreakerTimeout, BreakerInterval, TypesenseStarts,
           CallCut, RestartAPI, Disturb
    <2>. QED
      BY <2>1, <2>2
  <1>4. calm' \in BOOLEAN /\ repaired' \in BOOLEAN
    BY DEF Fits, BootstrapSchemas, BootEnsure, BootStats, AdminReindex, Ping, SearchOnce,
           SearchCreatesCollection, BreakerTimeout, BreakerInterval, TypesenseStarts,
           CallCut, RestartAPI, Disturb, history
  <1>5. breaker' \in Breakers /\ fails' \in 0..(Trip - 1)
    <2>0. breaker \in Breakers /\ fails \in 0..(Trip - 1) /\ 0 \in 0..(Trip - 1)
      <3>1. 0 \in 0..(Trip - 1)
        BY FitsFacts
      <3>. QED
        BY <3>1 DEF Fits, IndexTypeOK, Breakers
    <2>1. CASE BootstrapSchemas \/ BootEnsure
      BY <2>1, EnsureTypes DEF BootstrapSchemas, BootEnsure, Fits
    <2>2. CASE BootStats \/ Ping \/ SearchOnce \/ SearchCreatesCollection \/ CallCut
      <3>1. Succeeds \/ Fails \/ UNCHANGED circuit
        BY <2>2 DEF BootStats, Ping, SearchOnce, SearchCreatesCollection, CallCut
      <3>. QED
        BY <2>0, <3>1, VerdictTypes DEF Fits, circuit
    <2>3. CASE \/ AdminReindex \/ BreakerTimeout \/ BreakerInterval \/ TypesenseStarts
               \/ RestartAPI
      BY <2>0, <2>3 DEF AdminReindex, BreakerTimeout, BreakerInterval, TypesenseStarts,
                        RestartAPI, circuit, Breakers
    <2>. QED
      BY <2>1, <2>2, <2>3
  <1>6. collection' \in BOOLEAN /\ up' \in BOOLEAN
    <2>0. collection \in BOOLEAN /\ up \in BOOLEAN
      BY DEF Fits, IndexTypeOK
    <2>1. CASE BootstrapSchemas \/ BootEnsure
      BY <2>0, <2>1, EnsureTypes DEF BootstrapSchemas, BootEnsure, Fits
    <2>2. CASE ~(BootstrapSchemas \/ BootEnsure)
      BY <2>0, <2>2 DEF BootStats, AdminReindex, Ping, SearchOnce,
           SearchCreatesCollection, BreakerTimeout, BreakerInterval, TypesenseStarts,
           CallCut, RestartAPI, typesense
    <2>. QED
      BY <2>1, <2>2
  <1>. QED
    BY <1>1, <1>2, <1>3, <1>4, <1>5, <1>6, FitsKept

\* An outage, with or without the loss of the volume.
LEMMA StopsFits == ASSUME Fits, TypesenseStops PROVE Fits'
  <1>1. /\ version' = version /\ listed' = listed /\ breaker' = breaker /\ fails' = fails
        /\ jobs' = jobs /\ reindex' = reindex /\ todo' = todo /\ beside' = beside
        /\ up' = FALSE /\ calm' = FALSE /\ repaired' = FALSE
        /\ faults < MaxFaults /\ faults' = faults + 1
    BY DEF TypesenseStops, Disturb, rows, circuit, reindexes
  <1>2. faults' \in 0..MaxFaults
    <2>1. faults \in 0..MaxFaults /\ MaxFaults \in Nat
      BY SearchAssumption DEF Fits, IndexTypeOK
    <2>. QED
      BY <1>1, <2>1
  <1>3. /\ doc' \in [Products -> Nat] /\ (\A p \in Products : doc'[p] \in 0..version[p])
        /\ collection' \in BOOLEAN
    <2>0. /\ doc \in [Products -> Nat] /\ (\A p \in Products : doc[p] \in 0..version[p])
          /\ collection \in BOOLEAN /\ (\A p \in Products : version[p] \in Nat)
      BY FitsFacts DEF Fits, IndexTypeOK, JobsFit
    <2>1. CASE UNCHANGED <<doc, collection>>
      BY <2>0, <2>1
    <2>2. CASE doc' = [p \in Products |-> 0] /\ collection' = FALSE
      <3>1. \A p \in Products : 0 \in 0..version[p]
        BY <2>0
      <3>. QED
        BY <2>2, <3>1
    <2>. QED
      BY <2>1, <2>2 DEF TypesenseStops
  <1>. QED
    BY <1>1, <1>2, <1>3 DEF Fits, IndexTypeOK, JobsFit

\* TypesenseReindex reads rows, so what it has to carry are versions of them.
LEMMA SnapshotFits == ASSUME Fits, ReindexSnapshot PROVE Fits'
  <1>1. /\ UNCHANGED rows /\ doc' = doc /\ up' = up /\ jobs' = jobs
        /\ beside' = beside /\ faults' = faults /\ calm' = calm /\ repaired' \in BOOLEAN
        /\ \/ reindex' = "run" /\ todo' = {<<p, version[p]>> : p \in listed}
           \/ reindex' = "off" /\ todo' = todo
        /\ reindex = "ensure"
    BY DEF ReindexSnapshot, Snapshot
  <1>2. /\ breaker' \in Breakers /\ fails' \in 0..(Trip - 1) /\ collection' \in BOOLEAN
    BY EnsureTypes DEF ReindexSnapshot, Snapshot, Fits
  <1>3. /\ todo' \subseteq Products \X (1..MaxVersion)
        /\ \A m \in todo' : m[2] <= version[m[1]]
    <2>1. /\ MaxVersion \in Nat /\ version \in [Products -> 0..MaxVersion]
          /\ listed \subseteq {p \in Products : version[p] > 0} /\ todo = {}
      BY <1>1, SearchAssumption DEF Fits, IndexTypeOK, JobsFit
    <2>. QED
      BY <1>1, <2>1
  <1>4. IndexTypeOK'
    BY <1>1, <1>2, <1>3 DEF Fits, IndexTypeOK, Breakers, rows
  <1>5. JobsFit'
    BY <1>1, <1>3 DEF Fits, JobsFit, rows
  <1>. QED
    BY <1>1, <1>4, <1>5 DEF Fits

\* The loop makes a carrier of what it had to carry.
LEMMA ReindexNextFits == ASSUME Fits, ReindexNext PROVE Fits'
  <1>1. /\ version' = version /\ listed' = listed /\ doc' = doc /\ collection' = collection
        /\ up' = up /\ breaker' = breaker /\ fails' = fails /\ faults' = faults
        /\ beside' = beside /\ calm' = calm /\ repaired' = repaired /\ reindex = "run"
    BY DEF ReindexNext, rows, typesense, circuit, history
  <1>2. CASE todo = {} /\ reindex' = "off" /\ UNCHANGED <<jobs, todo>>
    BY <1>1, <1>2 DEF Fits, IndexTypeOK, JobsFit
  <1>3. ASSUME NEW m \in todo, todo' = todo \ {m},
               jobs' = jobs \cup {Index(m[1], m[2], "reindex")}, reindex' = reindex
        PROVE  Fits'
    <2>1. m[1] \in Products /\ m[2] \in 1..MaxVersion /\ m[2] <= version[m[1]]
      BY DEF Fits, IndexTypeOK, JobsFit
    <2> DEFINE k == Index(m[1], m[2], "reindex")
    <2>2. /\ k \in Job /\ k.version <= version[k.product] /\ k.op = "index" /\ k.by = "reindex"
      BY <2>1, SearchAssumption DEF Index, Job
    <2>5. jobs' = jobs \cup {k}
      BY <1>3
    <2> HIDE DEF k
    <2>3. IndexTypeOK'
      BY <1>1, <1>3, <2>2, <2>5 DEF Fits, IndexTypeOK, Job
    <2>4. JobsFit'
      BY <1>1, <1>3, <2>2, <2>5 DEF Fits, JobsFit
    <2>. QED
      BY <1>1, <2>3, <2>4 DEF Fits
  <1>. QED
    BY <1>2, <1>3 DEF ReindexNext

\* The reindex beside another one reads rows too, and carries what it read.
LEMMA AdminReindexBesideFits == ASSUME Fits, AdminReindexBeside PROVE Fits'
  <1>1. /\ UNCHANGED rows /\ doc' = doc /\ up' = up /\ jobs' = jobs
        /\ reindex' = reindex /\ todo' = todo
        /\ \/ beside' = {<<p, version[p]>> : p \in listed}
           \/ beside' = beside
    BY DEF AdminReindexBeside
  <1>2. /\ breaker' \in Breakers /\ fails' \in 0..(Trip - 1) /\ collection' \in BOOLEAN
    BY EnsureTypes DEF AdminReindexBeside, Fits
  <1>3. faults' \in 0..MaxFaults /\ calm' \in BOOLEAN /\ repaired' \in BOOLEAN
    BY DisturbTypes DEF AdminReindexBeside
  <1>4. /\ beside' \subseteq Products \X (1..MaxVersion)
        /\ \A m \in beside' : m[2] <= version[m[1]]
    <2>1. /\ MaxVersion \in Nat /\ version \in [Products -> 0..MaxVersion]
          /\ listed \subseteq {p \in Products : version[p] > 0}
      BY SearchAssumption DEF Fits, IndexTypeOK
    <2>2. /\ beside \subseteq Products \X (1..MaxVersion)
          /\ \A m \in beside : m[2] <= version[m[1]]
      BY DEF Fits, IndexTypeOK, JobsFit
    <2>. QED
      BY <1>1, <2>1, <2>2
  <1>5. IndexTypeOK'
    BY <1>1, <1>2, <1>3, <1>4 DEF Fits, IndexTypeOK, Breakers, rows
  <1>6. JobsFit'
    BY <1>1, <1>4 DEF Fits, JobsFit, rows
  <1>. QED
    BY <1>3, <1>5, <1>6 DEF Fits

LEMMA BesideNextFits == ASSUME Fits, BesideNext PROVE Fits'
  <1>1. /\ version' = version /\ listed' = listed /\ doc' = doc /\ collection' = collection
        /\ up' = up /\ breaker' = breaker /\ fails' = fails /\ faults' = faults
        /\ reindex' = reindex /\ todo' = todo /\ calm' = calm /\ repaired' = repaired
    BY DEF BesideNext, rows, typesense, circuit, history
  <1>2. PICK m \in beside : /\ beside' = beside \ {m}
                            /\ jobs' = jobs \cup {Index(m[1], m[2], "beside")}
    BY DEF BesideNext
  <1>3. m[1] \in Products /\ m[2] \in 1..MaxVersion /\ m[2] <= version[m[1]]
    BY DEF Fits, IndexTypeOK, JobsFit
  <1> DEFINE k == Index(m[1], m[2], "beside")
  <1>4. k \in Job /\ k.version <= version[k.product] /\ k.op = "index" /\ k.by = "beside"
    BY <1>3, SearchAssumption DEF Index, Job
  <1>5. jobs' = jobs \cup {k}
    BY <1>2
  <1> HIDE DEF k
  <1>6. IndexTypeOK'
    BY <1>1, <1>2, <1>4, <1>5 DEF Fits, IndexTypeOK, Job
  <1>7. JobsFit'
    BY <1>1, <1>2, <1>4, <1>5 DEF Fits, JobsFit
  <1>. QED
    BY <1>1, <1>6, <1>7 DEF Fits

\* Every step keeps the types.
LEMMA FitsStep == ASSUME Fits, [IndexNext]_indexVars PROVE Fits'
  <1>1. CASE UNCHANGED indexVars
    BY <1>1 DEF indexVars, rows, typesense, circuit, reindexes, history, Fits, IndexTypeOK, JobsFit
  <1>. QED
    BY <1>1, CreateFits, UpdateFits, DeleteFits, JobEnsureFits, CallFits, AskingFits,
       StopsFits, SnapshotFits, ReindexNextFits, JobCutFits, AdminReindexBesideFits, BesideNextFits
    DEF IndexNext

-----------------------------------------------------------------------------
(* What is steady stays steady. *)

\* The rest of the invariant: what depends on the history.
IndexSettled ==
    /\ CarrierIsTrue
    /\ BreakerHasRoom
    /\ LiveIsCovered
    /\ GoneIsCovered
    /\ BootIsCalm
    /\ RepairedIsServing

\* Where the history says nothing, there is nothing to show.
LEMMA Unsteady == ASSUME ~calm', ~repaired' PROVE IndexSettled'
  BY DEF IndexSettled, CarrierIsTrue, BreakerHasRoom, LiveIsCovered, GoneIsCovered, BootIsCalm,
         RepairedIsServing, Steady

\* A call that only asks: at worst it ends a row of failures.
LEMMA AskSettled ==
    ASSUME Fits, Fits', IndexSettled,
           UNCHANGED <<rows, doc, jobs, reindex, todo, history>>,
           collection' \in {collection, TRUE}, up' \in {up, TRUE},
           Steady => breaker' = "closed" /\ fails' \in {fails, 0}
    PROVE  IndexSettled'
  <1>1. /\ version' = version /\ listed' = listed /\ doc' = doc /\ jobs' = jobs
        /\ reindex' = reindex /\ todo' = todo /\ calm' = calm /\ repaired' = repaired
    BY DEF rows, history
  <1>2. Steady' = Steady /\ Serving' = Serving /\ UpsertNext' = UpsertNext
    BY <1>1 DEF Steady, Serving, UpsertNext
  <1>3. fails \in Nat /\ fails' \in Nat /\ Trip \in Nat
    <2>1. fails \in Nat /\ Trip \in Nat
      BY FitsFacts
    <2>2. fails' \in 0..(Trip - 1)
      BY DEF Fits, IndexTypeOK
    <2>. QED
      BY <2>1, <2>2
  <1>4. CarrierIsTrue'
    BY <1>1, <1>2 DEF IndexSettled, CarrierIsTrue
  <1>5. BreakerHasRoom'
    <2> SUFFICES ASSUME Steady PROVE BreakerHasRoom'
      BY <1>2 DEF BreakerHasRoom
    <2>1. /\ up /\ (Serving => collection) /\ (Serving => UpsertNext \/ fails < Trip - 1)
      BY DEF IndexSettled, BreakerHasRoom
    <2>2. fails < Trip - 1 => fails' < Trip - 1
      BY <1>3
    <2>. QED
      BY <1>2, <2>1, <2>2 DEF BreakerHasRoom
  <1>6. LiveIsCovered' /\ GoneIsCovered' /\ RepairedIsServing'
    BY <1>1, <1>2 DEF IndexSettled, LiveIsCovered, GoneIsCovered, RepairedIsServing, Current
  <1>7. BootIsCalm'
    <2> SUFFICES ASSUME calm, ~Serving PROVE BootIsCalm'
      BY <1>1, <1>2 DEF BootIsCalm
    <2>1. fails' \in {fails, 0}
      BY DEF Steady
    <2>2. /\ reindex \in {"connect", "ensure"} => fails' = 0
          /\ reindex = "boot ensure" => fails' <= 1
      <3>1. /\ reindex \in {"connect", "ensure"} => fails = 0
            /\ reindex = "boot ensure" => fails <= 1
        BY DEF IndexSettled, BootIsCalm
      <3>2. CASE fails' = fails
        BY <3>1, <3>2
      <3>3. CASE fails' = 0
        BY <3>3
      <3>. QED
        BY <2>1, <3>2, <3>3
    <2>. QED
      BY <1>1, <2>2 DEF IndexSettled, BootIsCalm
  <1>. QED
    BY <1>4, <1>5, <1>6, <1>7 DEF IndexSettled

\* A change that starts while nothing is under way finds every listed product with
\* its document.
LEMMA QuietIsCurrent ==
    ASSUME Fits, IndexSettled, Steady, ~Busy
    PROVE  /\ jobs = {} /\ reindex = "off" /\ todo = {} /\ Serving
           /\ \A p \in listed : Current(p)
           /\ up /\ breaker = "closed" /\ collection /\ fails < Trip - 1
           /\ calm => \A p \in Products \ listed : doc[p] = 0
  <1>1. jobs = {} /\ reindex = "off" /\ todo = {} /\ Serving
    BY DEF Busy, Serving, Fits, JobsFit
  <1>2. \A p \in listed : Current(p)
    BY <1>1 DEF IndexSettled, LiveIsCovered
  <1>3. up /\ breaker = "closed" /\ collection /\ fails < Trip - 1
    BY <1>1 DEF IndexSettled, BreakerHasRoom, UpsertNext
  <1>4. calm => \A p \in Products \ listed : doc[p] = 0
    BY <1>1 DEF IndexSettled, GoneIsCovered
  <1>. QED
    BY <1>1, <1>2, <1>3, <1>4

\* The carrier j of a change to p, alone, covers the change.
LEMMA SpawnSettled ==
    ASSUME Fits, IndexSettled, NEW p \in Products, NEW j, Spawn(j),
           j.product = p, j.by = "request",
           UNCHANGED <<typesense, circuit, reindexes>>,
           \A q \in Products \ {p} : version'[q] = version[q] /\ (q \in listed' <=> q \in listed),
           listed \subseteq Products, listed' \subseteq Products,
           \/ j.op = "index" /\ p \in listed' /\ j.version = version'[p]
           \/ j.op = "delete" /\ p \in listed /\ p \notin listed'
    PROVE  IndexSettled'
  <1>1. /\ jobs' = jobs \cup {j} /\ doc' = doc /\ collection' = collection /\ up' = up
        /\ breaker' = breaker /\ fails' = fails /\ reindex' = reindex /\ todo' = todo
        /\ calm' = (calm /\ ~Busy) /\ repaired' = (repaired /\ ~Busy)
    BY DEF Spawn, typesense, circuit, reindexes
  <1> SUFFICES ASSUME Steady' PROVE IndexSettled'
    BY Unsteady DEF Steady
  <1>2. Steady /\ ~Busy /\ (calm' => calm)
    BY <1>1 DEF Steady
  <1>3. /\ jobs = {} /\ reindex = "off" /\ todo = {} /\ Serving
        /\ \A q \in listed : Current(q)
        /\ up /\ breaker = "closed" /\ collection /\ fails < Trip - 1
        /\ calm => \A q \in Products \ listed : doc[q] = 0
    BY <1>2, QuietIsCurrent
  <1>4. jobs' = {j} /\ reindex' = "off" /\ todo' = {} /\ Serving'
    BY <1>1, <1>3 DEF Serving
  <1>5. j.op = "delete" => doc[p] # 0
    <2>1. \A q \in listed : version[q] > 0
      BY FitsFacts
    <2>2. j.op = "delete" => p \in listed
      OBVIOUS
    <2>. QED
      BY <1>3, <2>1, <2>2 DEF Current
  <1>6. CarrierIsTrue'
    BY <1>1, <1>4, <1>5 DEF CarrierIsTrue
  <1>7. BreakerHasRoom'
    BY <1>1, <1>3 DEF BreakerHasRoom
  <1>8. LiveIsCovered'
    <2> SUFFICES ASSUME NEW q \in listed'
                 PROVE  doc'[q] = version'[q] \/ (\E k \in jobs' : k.op = "index" /\ k.product = q)
      BY DEF LiveIsCovered, Current
    <2>1. CASE q = p
      BY <1>4, <2>1
    <2>2. CASE q # p
      BY <1>1, <1>3, <2>2 DEF Current
    <2>. QED
      BY <2>1, <2>2
  <1>9. GoneIsCovered'
    <2> SUFFICES ASSUME calm', NEW q \in Products \ listed'
                 PROVE  doc'[q] = 0 \/ (\E k \in jobs' : k.op = "delete" /\ k.product = q)
      BY DEF GoneIsCovered
    <2>1. CASE q = p
      BY <1>4, <2>1
    <2>2. CASE q # p
      BY <1>1, <1>2, <1>3, <2>2
    <2>. QED
      BY <2>1, <2>2
  <1>. QED
    BY <1>4, <1>6, <1>7, <1>8, <1>9 DEF IndexSettled, BootIsCalm, RepairedIsServing

\* A product request that overlaps nothing starts the one carrier there is.
LEMMA ChangeSettled ==
    ASSUME Fits, IndexSettled, NEW p \in Products,
           ServiceCreate(p) \/ ServiceUpdate(p) \/ ServiceDelete(p)
    PROVE  IndexSettled'
  <1>0. /\ version \in [Products -> 0..MaxVersion] /\ listed \subseteq Products
    BY DEF Fits, IndexTypeOK
  <1>1. CASE ServiceCreate(p)
    <2> DEFINE j == Index(p, 1, "request")
    <2>1. j.product = p /\ j.by = "request" /\ j.op = "index" /\ j.version = 1
      BY DEF Index
    <2>2. /\ version' = [version EXCEPT ![p] = 1] /\ listed' = listed \cup {p} /\ Spawn(j)
          /\ UNCHANGED <<typesense, circuit, reindexes>>
      BY <1>1 DEF ServiceCreate
    <2> HIDE DEF j
    <2>3. /\ p \in listed' /\ j.version = version'[p] /\ listed' \subseteq Products
          /\ \A q \in Products \ {p} : version'[q] = version[q] /\ (q \in listed' <=> q \in listed)
      BY <1>0, <2>1, <2>2
    <2>. QED
      BY <1>0, <2>1, <2>2, <2>3, SpawnSettled
  <1>2. CASE ServiceUpdate(p)
    <2> DEFINE j == Index(p, version[p] + 1, "request")
    <2>1. j.product = p /\ j.by = "request" /\ j.op = "index" /\ j.version = version[p] + 1
      BY DEF Index
    <2>2. /\ version' = [version EXCEPT ![p] = version[p] + 1] /\ listed' = listed /\ Spawn(j)
          /\ UNCHANGED <<typesense, circuit, reindexes>> /\ p \in listed
      BY <1>2 DEF ServiceUpdate
    <2> HIDE DEF j
    <2>3. /\ p \in listed' /\ j.version = version'[p] /\ listed' \subseteq Products
          /\ \A q \in Products \ {p} : version'[q] = version[q] /\ (q \in listed' <=> q \in listed)
      BY <1>0, <2>1, <2>2
    <2>. QED
      BY <1>0, <2>1, <2>2, <2>3, SpawnSettled
  <1>3. CASE ServiceDelete(p)
    <2> DEFINE j == Removal(p)
    <2>1. j.product = p /\ j.by = "request" /\ j.op = "delete"
      BY DEF Removal
    <2>2. /\ version' = version /\ listed' = listed \ {p} /\ Spawn(j) /\ p \in listed
          /\ UNCHANGED <<typesense, circuit, reindexes>>
      BY <1>3 DEF ServiceDelete
    <2> HIDE DEF j
    <2>3. /\ p \notin listed' /\ listed' \subseteq Products
          /\ \A q \in Products \ {p} : version'[q] = version[q] /\ (q \in listed' <=> q \in listed)
      BY <1>0, <2>1, <2>2
    <2>. QED
      BY <1>0, <2>1, <2>2, <2>3, SpawnSettled
  <1>. QED
    BY <1>1, <1>2, <1>3

\* What is known when a steady system has a carrier j.
LEMMA CarrierFacts ==
    ASSUME Fits, IndexSettled, Steady, NEW j \in jobs
    PROVE  /\ jobs = {j} /\ Serving /\ up /\ breaker = "closed" /\ collection /\ Admits
           /\ j.product \in Products
           /\ j.op = "index" => j.product \in listed /\ j.version = version[j.product]
           /\ j.op = "delete" => j.product \notin listed /\ doc[j.product] # 0 /\ j.at = "call"
           /\ j.op \in {"index", "delete"}
           /\ ~(j.op = "index" /\ j.at = "call") => fails < Trip - 1
  <1>1. jobs = {j}
    BY DEF IndexSettled, CarrierIsTrue
  <1>2. Serving
    BY DEF IndexSettled, CarrierIsTrue, Serving
  <1>3. up /\ breaker = "closed" /\ collection /\ Admits
    BY <1>2 DEF IndexSettled, BreakerHasRoom, Admits
  <1>4. j.product \in Products /\ j.op \in {"index", "delete"}
    BY FitsFacts DEF Job
  <1>5. /\ j.op = "index" => j.product \in listed /\ j.version = version[j.product]
        /\ j.op = "delete" => j.product \notin listed /\ doc[j.product] # 0 /\ j.at = "call"
    BY DEF IndexSettled, CarrierIsTrue, Fits, JobsFit
  <1>6. ~(j.op = "index" /\ j.at = "call") => fails < Trip - 1
    BY <1>1, <1>2 DEF IndexSettled, BreakerHasRoom, UpsertNext
  <1>. QED
    BY <1>1, <1>2, <1>3, <1>4, <1>5, <1>6

\* A failure that finds room does not open the breaker.
LEMMA FailsInRoom ==
    ASSUME Fits, Fails, breaker = "closed", fails < Trip - 1
    PROVE  breaker' = "closed" /\ fails' = fails + 1
  <1>1. ~(fails + 1 >= Trip)
    BY FitsFacts
  <1>. QED
    BY <1>1 DEF Fails

\* "Already exists" is one failure, and the upsert comes next.
LEMMA JobEnsureSettled ==
    ASSUME Fits, IndexSettled, NEW j \in jobs, JobEnsure(j)
    PROVE  IndexSettled'
  <1>1. /\ version' = version /\ listed' = listed /\ doc' = doc /\ up' = up /\ reindex' = reindex
        /\ todo' = todo /\ calm' = calm /\ repaired' = repaired /\ j.at = "ensure"
    BY DEF JobEnsure, reindexes, history, rows
  <1> SUFFICES ASSUME Steady PROVE IndexSettled'
    BY <1>1, Unsteady DEF Steady
  <1>2. /\ jobs = {j} /\ Serving /\ up /\ breaker = "closed" /\ collection /\ Admits
        /\ j.op = "index" /\ j.product \in listed /\ j.version = version[j.product]
        /\ fails < Trip - 1
    BY <1>1, CarrierFacts
  <1> DEFINE k == [j EXCEPT !.at = "call"]
  <1>3. jobs' = {k} /\ breaker' = "closed" /\ collection'
    <2>1. ~Ensure("error")
      BY <1>2 DEF Ensure
    <2>2. Ensure("ok") /\ jobs' = (jobs \ {j}) \cup {k}
      BY <2>1 DEF JobEnsure
    <2>3. Fails /\ collection' = TRUE
      BY <1>2, <2>2 DEF Ensure
    <2>. QED
      BY <1>2, <2>2, <2>3, FailsInRoom
  <1>4. /\ k.op = "index" /\ k.at = "call" /\ k.product = j.product /\ k.version = j.version
        /\ k.by = j.by
    <2>1. j \in Job
      BY FitsFacts
    <2>. QED
      BY <1>2, <2>1 DEF Job
  <1> HIDE DEF k
  <1>5. Serving' /\ UpsertNext'
    BY <1>1, <1>2, <1>3, <1>4 DEF Serving, UpsertNext
  <1>6. CarrierIsTrue'
    <2>1. reindex = IF j.by = "reindex" THEN "run" ELSE "off"
      BY DEF IndexSettled, CarrierIsTrue
    <2>2. \A m \in todo : m[1] \in listed /\ m[2] = version[m[1]]
      BY DEF IndexSettled, CarrierIsTrue
    <2>. QED
      BY <1>1, <1>2, <1>3, <1>4, <2>1, <2>2 DEF CarrierIsTrue
  <1>7. BreakerHasRoom'
    BY <1>1, <1>2, <1>3, <1>5 DEF BreakerHasRoom
  <1>8. LiveIsCovered'
    BY <1>1, <1>2, <1>3, <1>4 DEF IndexSettled, LiveIsCovered, Current
  <1>9. GoneIsCovered'
    BY <1>1, <1>2, <1>3, <1>4 DEF IndexSettled, GoneIsCovered
  <1>. QED
    BY <1>5, <1>6, <1>7, <1>8, <1>9 DEF IndexSettled, BootIsCalm, RepairedIsServing

\* The call of a carrier succeeds, and its change has arrived.
LEMMA ArrivalSettled ==
    ASSUME Fits, IndexSettled, Steady, NEW j \in jobs, jobs' = jobs \ {j}, Succeeds,
           UNCHANGED <<rows, collection, up, reindex, todo, history>>,
           \/ j.op = "index" /\ doc' = [doc EXCEPT ![j.product] = j.version]
           \/ j.op = "delete" /\ doc' = [doc EXCEPT ![j.product] = 0]
    PROVE  IndexSettled'
  <1>1. /\ version' = version /\ listed' = listed /\ collection' = collection /\ up' = up
        /\ reindex' = reindex /\ todo' = todo /\ calm' = calm /\ repaired' = repaired
    BY DEF history, rows
  <1>2. /\ jobs = {j} /\ Serving /\ up /\ collection /\ j.product \in Products
        /\ j.op = "index" => j.product \in listed /\ j.version = version[j.product]
        /\ j.op = "delete" => j.product \notin listed
    BY CarrierFacts
  <1>3. jobs' = {} /\ Serving' /\ breaker' = "closed" /\ fails' = 0
    BY <1>1, <1>2 DEF Serving, Succeeds
  <1>4. CarrierIsTrue'
    <2>1. \A m \in todo : m[1] \in listed /\ m[2] = version[m[1]]
      BY DEF IndexSettled, CarrierIsTrue
    <2>. QED
      BY <1>1, <1>3, <2>1 DEF CarrierIsTrue
  <1>5. BreakerHasRoom'
    <2>1. 0 < Trip - 1
      BY FitsFacts
    <2>. QED
      BY <1>1, <1>2, <1>3, <2>1 DEF BreakerHasRoom
  <1>0. doc \in [Products -> Nat] /\ listed \subseteq Products
    BY DEF Fits, JobsFit, IndexTypeOK
  <1>6. LiveIsCovered'
    <2> SUFFICES ASSUME NEW p \in listed
                 PROVE  doc'[p] = version[p] \/ <<p, version[p]>> \in todo
      BY <1>1 DEF LiveIsCovered, Current
    <2>1. CASE p = j.product
      BY <1>0, <1>2, <2>1
    <2>2. CASE p # j.product
      <3>1. doc[p] = version[p] \/ <<p, version[p]>> \in todo
        BY <1>2, <2>2 DEF IndexSettled, LiveIsCovered, Current
      <3>2. doc'[p] = doc[p]
        BY <1>0, <2>2
      <3>. QED
        BY <3>1, <3>2
    <2>. QED
      BY <2>1, <2>2
  <1>7. GoneIsCovered'
    <2> SUFFICES ASSUME calm, NEW p \in Products \ listed PROVE doc'[p] = 0
      BY <1>1 DEF GoneIsCovered
    <2>1. CASE p = j.product
      BY <1>0, <1>2, <2>1
    <2>2. CASE p # j.product
      <3>1. doc[p] = 0
        BY <1>2, <2>2 DEF IndexSettled, GoneIsCovered
      <3>2. doc'[p] = doc[p]
        BY <1>0, <2>2
      <3>. QED
        BY <3>1, <3>2
    <2>. QED
      BY <2>1, <2>2
  <1>. QED
    BY <1>3, <1>4, <1>5, <1>6, <1>7 DEF IndexSettled, BootIsCalm, RepairedIsServing

\* Upsert and delete, by what the carrier is for.
LEMMA CallSettled ==
    ASSUME Fits, IndexSettled, NEW j \in jobs, JobUpsert(j) \/ JobDelete(j)
    PROVE  IndexSettled'
  <1>1. /\ UNCHANGED <<rows, collection, up, reindex, todo, history>>
        /\ jobs' = jobs \ {j}
    BY DEF JobUpsert, JobDelete, reindexes
  <1>2. calm' = calm /\ repaired' = repaired
    BY <1>1 DEF history
  <1> SUFFICES ASSUME Steady PROVE IndexSettled'
    BY <1>2, Unsteady DEF Steady
  <1>3. CASE JobUpsert(j)
    <2>1. Admits /\ up /\ collection
      BY CarrierFacts
    <2>2. Succeeds /\ j.op = "index" /\ doc' = [doc EXCEPT ![j.product] = j.version]
      BY <1>3, <2>1 DEF JobUpsert
    <2>. QED
      BY <1>1, <2>2, ArrivalSettled
  <1>4. CASE JobDelete(j)
    <2>1. Admits /\ up /\ j.op = "delete" /\ doc[j.product] # 0
      BY <1>4, CarrierFacts DEF JobDelete
    <2>2. Succeeds /\ doc' = [doc EXCEPT ![j.product] = 0]
      BY <1>4, <2>1 DEF JobDelete
    <2>. QED
      BY <1>1, <2>1, <2>2, ArrivalSettled
  <1>. QED
    BY <1>3, <1>4

\* What is known while a steady system boots.
LEMMA BootFacts ==
    ASSUME Fits, IndexSettled, Steady, ~Serving
    PROVE  /\ calm /\ ~repaired /\ up /\ breaker = "closed" /\ Admits /\ jobs = {} /\ todo = {}
           /\ \A p \in Products : doc[p] = 0
           /\ reindex # "connect" => collection
           /\ reindex \in {"connect", "boot ensure", "ensure"} => fails < Trip - 1
           /\ reindex = "connect" => fails = 0
  <1>1. calm /\ ~repaired
    BY DEF IndexSettled, RepairedIsServing, Steady
  <1>2. up /\ breaker = "closed" /\ Admits
    BY DEF IndexSettled, BreakerHasRoom, Admits
  <1>3. /\ jobs = {} /\ (\A p \in Products : doc[p] = 0)
        /\ reindex # "connect" => collection
        /\ reindex \in {"connect", "ensure"} => fails = 0
        /\ reindex = "boot ensure" => fails <= 1
    BY <1>1 DEF IndexSettled, BootIsCalm
  <1>4. todo = {}
    BY DEF Serving, Fits, JobsFit
  <1>5. fails \in Nat /\ Trip \in Nat /\ Trip > 2
    BY FitsFacts
  <1>6. fails = 0 \/ fails <= 1 => fails < Trip - 1
    BY <1>5
  <1>. QED
    BY <1>1, <1>2, <1>3, <1>4, <1>6

\* A schema call in room: the collection is there, the breaker stays closed.
LEMMA EnsureInRoom ==
    ASSUME Fits, up, breaker = "closed", fails < Trip - 1, NEW outcome, Ensure(outcome)
    PROVE  /\ outcome = "ok" /\ collection' = TRUE /\ breaker' = "closed"
           /\ fails' = 0 \/ fails' = fails + 1
  <1>1. Admits
    BY DEF Admits
  <1>2. outcome = "ok" /\ collection' = TRUE /\ (Fails \/ Succeeds)
    BY <1>1 DEF Ensure
  <1>. QED
    BY <1>2, FailsInRoom DEF Succeeds

\* The two schema calls of a calm start-up: one failure each at most.
LEMMA SchemasSettled ==
    ASSUME Fits, IndexSettled, BootstrapSchemas \/ BootEnsure
    PROVE  IndexSettled'
  <1>1. /\ version' = version /\ listed' = listed /\ doc' = doc /\ up' = up /\ jobs' = jobs
        /\ todo' = todo /\ calm' = calm /\ repaired' = repaired
        /\ reindex \in {"connect", "boot ensure"}
    BY DEF BootstrapSchemas, BootEnsure, rows, history
  <1> SUFFICES ASSUME Steady PROVE IndexSettled'
    BY <1>1, Unsteady DEF Steady
  <1>2. ~Serving
    BY <1>1 DEF Serving
  <1>3. /\ calm /\ ~repaired /\ up /\ breaker = "closed" /\ jobs = {} /\ todo = {}
        /\ \A p \in Products : doc[p] = 0
        /\ fails < Trip - 1
        /\ reindex = "connect" => fails = 0
    BY <1>1, <1>2, BootFacts
  <1>4. PICK outcome \in {"ok", "error"} : Ensure(outcome)
    BY DEF BootstrapSchemas, BootEnsure
  <1>5. ~Ensure("error")
    BY <1>3 DEF Ensure, Admits
  <1>6. collection' = TRUE /\ breaker' = "closed" /\ (fails' = 0 \/ fails' = fails + 1)
    BY <1>3, <1>4, EnsureInRoom
  <1>7. \/ reindex = "connect" /\ reindex' = "boot ensure"
        \/ reindex' = "stats"
    BY <1>5 DEF BootstrapSchemas, BootEnsure
  <1>8. reindex = "connect" => fails' <= 1
    <2>1. CASE fails' = 0
      BY <2>1
    <2>2. CASE fails' = fails + 1
      BY <1>3, <2>2
    <2>. QED
      BY <1>6, <2>1, <2>2
  <1>9. ~Serving' /\ reindex' \notin {"connect", "ensure"}
    BY <1>7 DEF Serving
  <1>10. CarrierIsTrue' /\ BreakerHasRoom' /\ LiveIsCovered' /\ GoneIsCovered' /\ RepairedIsServing'
    BY <1>1, <1>3, <1>6, <1>9
    DEF CarrierIsTrue, BreakerHasRoom, LiveIsCovered, GoneIsCovered, RepairedIsServing
  <1>11. BootIsCalm'
    BY <1>1, <1>3, <1>6, <1>7, <1>8, <1>9 DEF BootIsCalm
  <1>. QED
    BY <1>10, <1>11 DEF IndexSettled

\* Stats succeeds, so the failures of the schema calls are forgotten.
LEMMA StatsSettled ==
    ASSUME Fits, IndexSettled, BootStats
    PROVE  IndexSettled'
  <1>1. /\ version' = version /\ listed' = listed /\ doc' = doc /\ collection' = collection
        /\ up' = up /\ jobs' = jobs /\ todo' = todo /\ calm' = calm /\ repaired' = repaired
        /\ reindex = "stats"
    BY DEF BootStats, rows, typesense, history
  <1> SUFFICES ASSUME Steady PROVE IndexSettled'
    BY <1>1, Unsteady DEF Steady
  <1>2. ~Serving
    BY <1>1 DEF Serving
  <1>3. /\ calm /\ ~repaired /\ up /\ breaker = "closed" /\ Admits /\ jobs = {} /\ todo = {}
        /\ (\A p \in Products : doc[p] = 0) /\ collection
    BY <1>1, <1>2, BootFacts
  <1>4. breaker' = "closed" /\ fails' = 0
    BY <1>3 DEF BootStats, Succeeds
  <1>5. NumDocuments = 0
    <2>1. {p \in Products : doc[p] # 0} = {}
      BY <1>3
    <2>2. Cardinality({}) = 0
      BY FS_EmptySet
    <2>. QED
      BY <2>1, <2>2 DEF NumDocuments
  <1>6. (reindex' = "off" /\ listed = {}) \/ reindex' = "ensure"
    <2>1. ~(NumDocuments > 0)
      BY <1>5
    <2>. QED
      BY <2>1 DEF BootStats
  <1>7. 0 < Trip - 1
    BY FitsFacts
  <1>8. CarrierIsTrue' /\ BreakerHasRoom' /\ RepairedIsServing'
    BY <1>1, <1>3, <1>4, <1>7 DEF CarrierIsTrue, BreakerHasRoom, RepairedIsServing
  <1>9. LiveIsCovered' /\ GoneIsCovered'
    BY <1>1, <1>3, <1>6 DEF LiveIsCovered, GoneIsCovered, Serving
  <1>10. BootIsCalm'
    BY <1>1, <1>3, <1>4, <1>6 DEF BootIsCalm, Serving
  <1>. QED
    BY <1>8, <1>9, <1>10 DEF IndexSettled

\* TypesenseReindex up to its loop: from here on every listed product is either
\* current or still to be carried.
LEMMA SnapshotSettled ==
    ASSUME Fits, IndexSettled, ReindexSnapshot
    PROVE  IndexSettled'
  <1>1. /\ version' = version /\ listed' = listed /\ doc' = doc /\ up' = up /\ jobs' = jobs
        /\ calm' = calm /\ reindex = "ensure"
        /\ repaired' = (up /\ jobs = {} /\ beside = {} /\ breaker' = "closed" /\ fails' + 1 < Trip)
        /\ \/ Ensure("ok") /\ reindex' = "run" /\ todo' = {<<p, version[p]>> : p \in listed}
           \/ Ensure("error") /\ reindex' = "off"
    BY DEF ReindexSnapshot, Snapshot, rows
  <1>2. ~Serving
    BY <1>1 DEF Serving
  <1> SUFFICES ASSUME Steady' PROVE IndexSettled'
    BY Unsteady DEF Steady
  <1>3. /\ up /\ jobs = {} /\ breaker' = "closed" /\ fails' < Trip - 1
        /\ Ensure("ok") /\ collection' = TRUE
    <2>1. CASE calm
      <3>1. up /\ breaker = "closed" /\ jobs = {} /\ fails < Trip - 1
        BY <1>1, <1>2, <2>1, BootFacts DEF Steady
      <3>2. fails = 0
        BY <1>1, <1>2, <2>1 DEF IndexSettled, BootIsCalm
      <3>3. ~Ensure("error")
        BY <3>1 DEF Ensure, Admits
      <3>4. /\ Ensure("ok") /\ collection' = TRUE /\ breaker' = "closed"
            /\ fails' = 0 \/ fails' = fails + 1
        BY <1>1, <3>1, <3>3, EnsureInRoom
      <3>5. fails' < Trip - 1
        <4>1. 0 < Trip - 1 /\ 1 < Trip - 1
          BY FitsFacts
        <4>2. fails' = 0 \/ fails' = 1
          BY <3>2, <3>4
        <4>. QED
          BY <4>1, <4>2
      <3>. QED
        BY <3>1, <3>4, <3>5
    <2>2. CASE repaired'
      <3>1. up /\ jobs = {} /\ breaker' = "closed" /\ fails' + 1 < Trip
        BY <1>1, <2>2
      <3>2. ~Ensure("error") /\ (Ensure("ok") => collection' = TRUE)
        BY <3>1 DEF Ensure, Admits, circuit
      <3>3. fails' < Trip - 1
        <4> DEFINE n == fails'
        <4>1. n \in Nat /\ Trip \in Nat /\ n + 1 < Trip
          <5>1. Trip \in Nat /\ Trip > 2
            BY FitsFacts
          <5>2. n \in 0..(Trip - 1)
            BY EnsureTypes, <1>1 DEF Fits
          <5>3. n + 1 < Trip
            BY <3>1
          <5> HIDE DEF n
          <5>. QED
            BY <5>1, <5>2, <5>3
        <4> HIDE DEF n
        <4>2. n < Trip - 1
          BY <4>1
        <4>. QED
          BY <4>2 DEF n
      <3>. QED
        BY <1>1, <3>1, <3>2, <3>3
    <2>. QED
      BY <1>1, <2>1, <2>2 DEF Steady
  <1>4. reindex' = "run" /\ todo' = {<<p, version[p]>> : p \in listed}
    <2>1. ~Ensure("error")
      BY <1>3 DEF Ensure, Admits, circuit
    <2>. QED
      BY <1>1, <2>1
  <1>5. Serving'
    BY <1>4 DEF Serving
  <1>6. CarrierIsTrue'
    <2>1. \A m \in todo' : m[1] \in listed /\ m[2] = version[m[1]]
      BY <1>4
    <2>. QED
      BY <1>1, <1>3, <2>1 DEF CarrierIsTrue
  <1>7. BreakerHasRoom'
    BY <1>1, <1>3 DEF BreakerHasRoom
  <1>8. LiveIsCovered'
    BY <1>1, <1>4 DEF LiveIsCovered
  <1>9. GoneIsCovered'
    BY <1>1, <1>2 DEF IndexSettled, BootIsCalm, GoneIsCovered
  <1>. QED
    BY <1>5, <1>6, <1>7, <1>8, <1>9 DEF IndexSettled, BootIsCalm, RepairedIsServing

\* The loop moves one product from what is to be carried to the carrier.
LEMMA ReindexNextSettled ==
    ASSUME Fits, IndexSettled, ReindexNext
    PROVE  IndexSettled'
  <1>1. /\ version' = version /\ listed' = listed /\ doc' = doc /\ collection' = collection
        /\ up' = up /\ breaker' = breaker /\ fails' = fails
        /\ calm' = calm /\ repaired' = repaired /\ reindex = "run"
        /\ \A j \in jobs : j.by # "reindex"
    BY DEF ReindexNext, rows, typesense, circuit, history
  <1> SUFFICES ASSUME Steady PROVE IndexSettled'
    BY <1>1, Unsteady DEF Steady
  <1>2. jobs = {} /\ Serving
    BY <1>1 DEF IndexSettled, CarrierIsTrue, Serving
  <1>3. /\ up /\ breaker = "closed" /\ collection /\ fails < Trip - 1
    BY <1>2 DEF IndexSettled, BreakerHasRoom, UpsertNext
  <1>4. /\ \A m \in todo : m[1] \in listed /\ m[2] = version[m[1]]
        /\ \A p \in listed : Current(p) \/ <<p, version[p]>> \in todo
        /\ calm => \A p \in Products \ listed : doc[p] = 0
    BY <1>2 DEF IndexSettled, CarrierIsTrue, LiveIsCovered, GoneIsCovered
  <1>5. BreakerHasRoom'
    BY <1>1, <1>3 DEF BreakerHasRoom
  <1>6. CASE todo = {} /\ reindex' = "off" /\ UNCHANGED <<jobs, todo>>
    <2>1. CarrierIsTrue' /\ LiveIsCovered' /\ GoneIsCovered'
      BY <1>1, <1>2, <1>4, <1>6 DEF CarrierIsTrue, LiveIsCovered, GoneIsCovered, Current
    <2>2. Serving'
      BY <1>6 DEF Serving
    <2>. QED
      BY <1>5, <2>1, <2>2 DEF IndexSettled, BootIsCalm, RepairedIsServing
  <1>7. ASSUME NEW m \in todo, todo' = todo \ {m},
               jobs' = jobs \cup {Index(m[1], m[2], "reindex")}, reindex' = reindex
        PROVE  IndexSettled'
    <2> DEFINE k == Index(m[1], m[2], "reindex")
    <2>1. k.op = "index" /\ k.product = m[1] /\ k.version = m[2] /\ k.by = "reindex"
      BY DEF Index
    <2>2. jobs' = {k}
      BY <1>2, <1>7
    <2> HIDE DEF k
    <2>3. CarrierIsTrue'
      BY <1>1, <1>4, <1>7, <2>1, <2>2 DEF CarrierIsTrue
    <2>4. LiveIsCovered'
      <3> SUFFICES ASSUME NEW p \in listed
                   PROVE  \/ Current(p) \/ <<p, version[p]>> \in todo'
                          \/ \E j \in jobs' : j.op = "index" /\ j.product = p
        BY <1>1 DEF LiveIsCovered, Current
      <3>1. CASE <<p, version[p]>> = m
        BY <2>1, <2>2, <3>1
      <3>2. CASE <<p, version[p]>> # m
        BY <1>4, <1>7, <3>2
      <3>. QED
        BY <3>1, <3>2
    <2>5. GoneIsCovered'
      BY <1>1, <1>4 DEF GoneIsCovered
    <2>6. Serving'
      BY <1>1, <1>7 DEF Serving
    <2>. QED
      BY <1>5, <2>3, <2>4, <2>5, <2>6 DEF IndexSettled, BootIsCalm, RepairedIsServing
  <1>. QED
    BY <1>6, <1>7 DEF ReindexNext

\* Probes, searches and timers.
LEMMA ReadSettled ==
    ASSUME Fits, Fits', IndexSettled,
           \/ Ping \/ SearchOnce \/ SearchCreatesCollection
           \/ BreakerTimeout \/ BreakerInterval \/ TypesenseStarts
    PROVE  IndexSettled'
  <1>1. UNCHANGED <<rows, doc, jobs, reindex, todo, history>>
    BY DEF Ping, SearchOnce, SearchCreatesCollection, BreakerTimeout, BreakerInterval,
           TypesenseStarts, typesense, reindexes
  <1>2. collection' \in {collection, TRUE} /\ up' \in {up, TRUE}
    BY DEF Ping, SearchOnce, SearchCreatesCollection, BreakerTimeout, BreakerInterval,
           TypesenseStarts, typesense
  <1>3. Steady => breaker' = "closed" /\ fails' \in {fails, 0}
    <2> SUFFICES ASSUME Steady PROVE breaker' = "closed" /\ fails' \in {fails, 0}
      OBVIOUS
    <2>1. up /\ breaker = "closed"
      BY DEF IndexSettled, BreakerHasRoom
    <2>2. CASE Ping \/ SearchOnce
      BY <2>1, <2>2 DEF Ping, SearchOnce, Succeeds
    <2>3. CASE SearchCreatesCollection
      <3>1. ~collection
        BY <2>3 DEF SearchCreatesCollection
      <3>2. ~Serving
        BY <3>1 DEF IndexSettled, BreakerHasRoom
      <3>3. reindex = "connect" /\ fails < Trip - 1
        BY <3>1, <3>2, BootFacts
      <3>4. ~(fails + 1 >= Trip)
        BY <3>3, FitsFacts
      <3>. QED
        BY <2>1, <2>3, <3>4 DEF SearchCreatesCollection, Succeeds
    <2>4. CASE BreakerTimeout \/ BreakerInterval \/ TypesenseStarts
      BY <2>1, <2>4 DEF BreakerTimeout, BreakerInterval, TypesenseStarts, circuit
    <2>. QED
      BY <2>2, <2>3, <2>4
  <1>. QED
    BY <1>1, <1>2, <1>3, AskSettled

\* Every step keeps it.
LEMMA SettledStep ==
    ASSUME Fits, IndexSettled, ReindexIsAlone, [IndexNext]_indexVars
    PROVE  IndexSettled'
  <1>0. Fits'
    BY FitsStep
  <1>1. CASE UNCHANGED indexVars
    BY <1>0, <1>1, AskSettled
    DEF indexVars, rows, typesense, circuit, reindexes, history, IndexSettled, BreakerHasRoom
  <1>2. CASE \/ AdminReindex \/ AdminReindexBeside \/ TypesenseStops \/ CallCut \/ RestartAPI
             \/ \E j \in jobs : JobCut(j)
    BY <1>2, Unsteady
    DEF AdminReindex, AdminReindexBeside, TypesenseStops, CallCut, RestartAPI, JobCut, Disturb
  <1>3. CASE BesideNext
    <2>1. ~calm /\ ~repaired /\ calm' = calm /\ repaired' = repaired
      BY <1>3 DEF BesideNext, ReindexIsAlone, Steady, history
    <2>. QED
      BY <2>1, Unsteady
  <1>. QED
    BY <1>0, <1>1, <1>2, <1>3, ChangeSettled, JobEnsureSettled, CallSettled, SchemasSettled,
       StatsSettled, SnapshotSettled, ReindexNextSettled, ReadSettled
    DEF IndexNext

\* No step lets a second reindex go by unnoticed.
LEMMA AloneStep ==
    ASSUME ReindexIsAlone, [IndexNext]_indexVars
    PROVE  ReindexIsAlone'
  <1>1. CASE UNCHANGED indexVars
    BY <1>1 DEF indexVars, reindexes, history, ReindexIsAlone, Steady
  <1>2. CASE \/ AdminReindex \/ AdminReindexBeside \/ TypesenseStops \/ CallCut \/ RestartAPI
             \/ \E j \in jobs : JobCut(j)
    BY <1>2 DEF AdminReindex, AdminReindexBeside, TypesenseStops, CallCut, RestartAPI, JobCut,
                Disturb, ReindexIsAlone, Steady
  <1>3. CASE ReindexSnapshot
    BY <1>3 DEF ReindexSnapshot, Snapshot, ReindexIsAlone, Steady
  <1>4. CASE \E p \in Products : ServiceCreate(p) \/ ServiceUpdate(p) \/ ServiceDelete(p)
    BY <1>4 DEF ServiceCreate, ServiceUpdate, ServiceDelete, Spawn, reindexes, ReindexIsAlone, Steady
  <1>5. CASE \E j \in jobs : JobEnsure(j) \/ JobUpsert(j) \/ JobDelete(j)
    BY <1>5 DEF JobEnsure, JobUpsert, JobDelete, reindexes, history, ReindexIsAlone, Steady
  <1>6. CASE \/ BootstrapSchemas \/ BootEnsure \/ BootStats \/ ReindexNext \/ BesideNext
    BY <1>6 DEF BootstrapSchemas, BootEnsure, BootStats, ReindexNext, BesideNext, history,
                ReindexIsAlone, Steady
  <1>7. CASE \/ Ping \/ SearchOnce \/ SearchCreatesCollection
             \/ BreakerTimeout \/ BreakerInterval \/ TypesenseStarts
    BY <1>7 DEF Ping, SearchOnce, SearchCreatesCollection, BreakerTimeout, BreakerInterval,
                TypesenseStarts, reindexes, history, ReindexIsAlone, Steady
  <1>. QED
    BY <1>1, <1>2, <1>3, <1>4, <1>5, <1>6, <1>7 DEF IndexNext

\* The process has just started: there is nothing in the index and bootstrap is ahead.
LEMMA SteadyInit == IndexInit => Fits /\ IndexSettled /\ ReindexIsAlone
  <1> SUFFICES ASSUME IndexInit PROVE Fits /\ IndexSettled /\ ReindexIsAlone
    OBVIOUS
  <1>1. IndexTypeOK
    <2>1. /\ MaxVersion \in Nat \ {0} /\ Trip \in Nat /\ Trip > 2 /\ MaxFaults \in Nat
          /\ Seeded \subseteq Products
      BY SearchAssumption
    <2>2. /\ version \in [Products -> 0..MaxVersion]
          /\ listed \subseteq {p \in Products : version[p] > 0}
      BY <2>1 DEF IndexInit
    <2>3. \A p \in Products : doc[p] \in 0..version[p]
      BY <2>1 DEF IndexInit
    <2>4. fails \in 0..(Trip - 1) /\ faults \in 0..MaxFaults
      BY <2>1 DEF IndexInit
    <2>. QED
      BY <2>2, <2>3, <2>4 DEF IndexInit, IndexTypeOK
  <1>2. JobsFit
    BY DEF IndexInit, JobsFit
  <1>3. IndexSettled
    BY DEF IndexInit, IndexSettled, CarrierIsTrue, BreakerHasRoom, LiveIsCovered, GoneIsCovered,
           BootIsCalm, RepairedIsServing, Serving
  <1>. QED
    BY <1>1, <1>2, <1>3 DEF Fits, IndexInit, ReindexIsAlone

-----------------------------------------------------------------------------
(* The theorems. *)

\* While nothing overlaps and nothing fails, a change that the index does not
\* show is with its one goroutine or in the list of the reindex, and the
\* "already exists" of EnsureProductsCollection never comes often enough in a
\* row to open the breaker.
THEOREM IndexInvariant == IndexSpec => []SteadyInv
  <1>1. IndexInit => SteadyInv
    BY SteadyInit DEF SteadyInv, Fits, IndexSettled
  <1>2. SteadyInv /\ [IndexNext]_indexVars => SteadyInv'
    BY FitsStep, SettledStep, AloneStep DEF SteadyInv, Fits, IndexSettled
  <1>. QED
    BY <1>1, <1>2, PTL DEF IndexSpec

\* indexAsync, deleteIndexAsync and BootstrapTypesense, one change at a time:
\* once the goroutine has ended, the documents are the listed products at their
\* current version, for any number of products and changes.
THEOREM IndexIsExact == IndexSpec => []CalmIsExact
  <1>1. SteadyInv => CalmIsExact
    BY QuietIsCurrent DEF SteadyInv, Fits, IndexSettled, CalmIsExact, Steady
  <1>. QED
    BY <1>1, IndexInvariant, PTL

\* Although every IndexProduct begins with a failure to the breaker, and a
\* start-up with two, one change at a time never opens it, for any threshold
\* of at least three (the code has five).
THEOREM BreakerStaysClosed == IndexSpec => []CalmStaysClosed
  <1>1. SteadyInv => CalmStaysClosed
    BY DEF SteadyInv, CalmStaysClosed, BreakerHasRoom, Steady
  <1>. QED
    BY <1>1, IndexInvariant, PTL

\* TypesenseReindex makes up for whatever went wrong before it: with the breaker
\* closed and nothing beside it, every listed product has its current document
\* at the end, for any number of products.
THEOREM ReindexDoesRepair == IndexSpec => []ReindexRepairs
  <1>1. SteadyInv => ReindexRepairs
    BY QuietIsCurrent DEF SteadyInv, Fits, IndexSettled, ReindexRepairs, Steady
  <1>. QED
    BY <1>1, IndexInvariant, PTL
=============================================================================

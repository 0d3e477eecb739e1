------------------------------- MODULE Search -------------------------------
(***************************************************************************)
(* The search index: products in Postgres, their documents in Typesense,   *)
(* the goroutines that carry every change from one to the other, the       *)
(* reindex that rebuilds the index, and the circuit breaker all calls pass *)
(* (internal/platform/typesense, internal/http/product, internal/http/lab).*)
(*                                                                         *)
(* One API process.  A call through the breaker, with its verdict, is one  *)
(* step.  What a document shows of a product is its version: every update  *)
(* makes a new one.                                                        *)
(***************************************************************************)
EXTENDS Integers, FiniteSets

CONSTANTS
    Products,    \* product ids
    Seeded,      \* products the migrations seed
    Edited,      \* bound on updates: the products that are updated
    MaxVersion,  \* bound on the versions of a product
    MaxJobs,     \* bound on goroutines at the same time
    Trip,        \* consecutive failures that open the breaker (5 in Connect)
    MaxFaults    \* bound on outages, cut calls, restarts and admin reindexes

\* Bootstrap asks twice in a row for a collection that may exist, which counts as
\* two failures: with Trip = 2 a start-up that finds it would open the breaker.
ASSUME SearchAssumption ==
    /\ Seeded \subseteq Products
    /\ MaxVersion \in Nat \ {0}
    /\ MaxJobs \in Nat \ {0}
    /\ Trip \in Nat /\ Trip > 2
    /\ MaxFaults \in Nat

VARIABLES
    version,     \* version of each product's row, 0 = never created
    listed,      \* products whose row is not deleted
    doc,         \* version in each product's document, 0 = no document
    collection,  \* the collection exists in Typesense
    up,          \* Typesense answers
    breaker,     \* "closed", "open" or "half-open"
    fails,       \* consecutive failures while closed
    jobs,        \* goroutines, and the product the reindex is at
    reindex,     \* where bootstrap and reindex are
    todo,        \* rows the reindex has read and not indexed yet
    beside,      \* the same of an admin's reindex that runs beside it
    faults,
    calm,        \* history: no fault or admin reindex so far, no two changes at once
    repaired     \* history: the same since a reindex read the rows, breaker closed

rows == <<version, listed>>
typesense == <<doc, collection, up>>
circuit == <<breaker, fails>>
history == <<calm, repaired>>
reindexes == <<reindex, todo, beside>>
indexVars == <<rows, typesense, circuit, jobs, reindexes, faults, history>>

Index(p, v, by) == [op |-> "index", product |-> p, version |-> v, by |-> by, at |-> "ensure"]
Removal(p) == [op |-> "delete", product |-> p, version |-> 0, by |-> "request", at |-> "call"]

\* The API process has just started.
IndexInit ==
    /\ version = [p \in Products |-> IF p \in Seeded THEN 1 ELSE 0]
    /\ listed = Seeded
    /\ doc = [p \in Products |-> 0]
    /\ collection \in BOOLEAN
    /\ up = TRUE
    /\ breaker = "closed"
    /\ fails = 0
    /\ jobs = {}
    /\ reindex = "connect"
    /\ todo = {}
    /\ beside = {}
    /\ faults = 0
    /\ calm = TRUE
    /\ repaired = FALSE

-----------------------------------------------------------------------------
(* breaker.Execute (external: gobreaker with the settings of Connect). *)

Admits == breaker # "open"

\* A plausible slip: a success does not end a row of failures.
SucceedsKeepsCount ==
    /\ breaker' = IF breaker = "half-open" THEN "closed" ELSE breaker
    /\ UNCHANGED fails

\* The call succeeds.
Succeeds == breaker' = "closed" /\ fails' = 0

\* The call fails: one more in a row, or the probe that was let through.
Fails ==
    LET trips == breaker = "half-open" \/ fails + 1 >= Trip
    IN  /\ breaker' = IF trips THEN "open" ELSE "closed"
        /\ fails' = IF trips THEN 0 ELSE fails + 1

\* A plausible slip: nobody lets a probe through again.
BreakerStaysOpen == breaker = "open" /\ UNCHANGED indexVars

\* The timeout of an open breaker passes.
BreakerTimeout ==
    /\ breaker = "open"
    /\ breaker' = "half-open"
    /\ UNCHANGED <<rows, typesense, fails, jobs, reindexes, faults, history>>

\* The interval of a closed breaker passes: its counts start again.
BreakerInterval ==
    /\ breaker = "closed"
    /\ fails > 0
    /\ fails' = 0
    /\ UNCHANGED <<rows, typesense, breaker, jobs, reindexes, faults, history>>

\* EnsureProductsCollection through the breaker: "ok" if the collection is
\* there afterwards.  That it exists already is an error to the breaker and
\* none to the caller.
Ensure(outcome) ==
    \/ /\ ~Admits
       /\ outcome = "error"
       /\ UNCHANGED <<circuit, collection>>
    \/ /\ Admits /\ ~up
       /\ outcome = "error"
       /\ Fails
       /\ UNCHANGED collection
    \/ /\ Admits /\ up
       /\ outcome = "ok"
       /\ IF collection THEN Fails ELSE Succeeds
       /\ collection' = TRUE

-----------------------------------------------------------------------------
(* Product requests: the row, and a goroutine for the index. *)

\* A fault, or an admin at work.
Disturb ==
    /\ faults < MaxFaults
    /\ faults' = faults + 1
    /\ calm' = FALSE
    /\ repaired' = FALSE

Busy == jobs # {} \/ reindex # "off" \/ beside # {}

\* A carrier starts: from now on others are under way with it.
Spawn(j) ==
    /\ Cardinality(jobs) < MaxJobs
    /\ jobs' = jobs \cup {j}
    /\ calm' = (calm /\ ~Busy)
    /\ repaired' = (repaired /\ ~Busy)

\* Service.Create
ServiceCreate(p) ==
    /\ version[p] = 0
    /\ version' = [version EXCEPT ![p] = 1]
    /\ listed' = listed \cup {p}
    /\ Spawn(Index(p, 1, "request"))
    /\ UNCHANGED <<typesense, circuit, reindexes, faults>>

\* Service.Update
ServiceUpdate(p) ==
    /\ p \in listed \cap Edited
    /\ version[p] < MaxVersion
    /\ version' = [version EXCEPT ![p] = @ + 1]
    /\ Spawn(Index(p, version[p] + 1, "request"))
    /\ UNCHANGED <<listed, typesense, circuit, reindexes, faults>>

\* A plausible slip: the document of a deleted product is left alone.
DeleteKeepsDoc(p) ==
    /\ p \in listed
    /\ listed' = listed \ {p}
    /\ UNCHANGED <<version, typesense, circuit, jobs, reindexes, faults, history>>

\* Service.Delete
ServiceDelete(p) ==
    /\ p \in listed
    /\ listed' = listed \ {p}
    /\ Spawn(Removal(p))
    /\ UNCHANGED <<version, typesense, circuit, reindexes, faults>>

-----------------------------------------------------------------------------
(* The carriers.  An error is logged and the change is lost. *)

\* IndexProduct, first half.
JobEnsure(j) ==
    /\ j.at = "ensure"
    /\ \/ Ensure("ok") /\ jobs' = (jobs \ {j}) \cup {[j EXCEPT !.at = "call"]}
       \/ Ensure("error") /\ jobs' = jobs \ {j}
    /\ UNCHANGED <<rows, doc, up, reindexes, faults, history>>

\* IndexProduct, second half: the upsert.
JobUpsert(j) ==
    /\ j.op = "index" /\ j.at = "call"
    /\ jobs' = jobs \ {j}
    /\ \/ ~Admits /\ UNCHANGED <<doc, circuit>>
       \/ Admits /\ ~(up /\ collection) /\ Fails /\ UNCHANGED doc
       \/ /\ Admits /\ up /\ collection
          /\ Succeeds
          /\ doc' = [doc EXCEPT ![j.product] = j.version]
    /\ UNCHANGED <<rows, collection, up, reindexes, faults, history>>

\* DeleteProduct: a missing document is a failure to the breaker too.
JobDelete(j) ==
    /\ j.op = "delete"
    /\ jobs' = jobs \ {j}
    /\ \/ ~Admits /\ UNCHANGED <<doc, circuit>>
       \/ Admits /\ ~(up /\ doc[j.product] # 0) /\ Fails /\ UNCHANGED doc
       \/ /\ Admits /\ up /\ doc[j.product] # 0
          /\ Succeeds
          /\ doc' = [doc EXCEPT ![j.product] = 0]
    /\ UNCHANGED <<rows, collection, up, reindexes, faults, history>>

-----------------------------------------------------------------------------
(* BootstrapTypesense on start-up, TypesenseReindex after it or by an admin. *)

\* Connect creates the schemas; an error is only logged.
BootstrapSchemas ==
    /\ reindex = "connect"
    /\ Ensure("ok") \/ Ensure("error")
    /\ reindex' = "boot ensure"
    /\ UNCHANGED <<rows, doc, up, jobs, todo, beside, faults, history>>

BootEnsure ==
    /\ reindex = "boot ensure"
    /\ \/ Ensure("ok") /\ reindex' = "stats"
       \/ Ensure("error") /\ reindex' = "off"
    /\ UNCHANGED <<rows, doc, up, jobs, todo, beside, faults, history>>

\* Stats: an error reads as an empty collection.
NumDocuments == IF Admits /\ up THEN Cardinality({p \in Products : doc[p] # 0}) ELSE 0

\* The index has documents, or Postgres has no products: nothing to do.
BootStats ==
    /\ reindex = "stats"
    /\ \/ ~Admits /\ UNCHANGED circuit
       \/ Admits /\ (IF up /\ collection THEN Succeeds ELSE Fails)
    /\ reindex' = IF NumDocuments > 0 \/ listed = {} THEN "off" ELSE "ensure"
    /\ UNCHANGED <<rows, typesense, jobs, todo, beside, faults, history>>

\* POST /lab/typesense/reindex
AdminReindex ==
    /\ reindex = "off"
    /\ Disturb
    /\ reindex' = "ensure"
    /\ UNCHANGED <<rows, typesense, circuit, jobs, todo, beside>>

\* TypesenseReindex up to its loop: the schema, then the rows ps.
Snapshot(ps) ==
    /\ reindex = "ensure"
    /\ \/ /\ Ensure("ok")
          /\ reindex' = "run"
          /\ todo' = {<<p, version[p]>> : p \in ps}
       \/ Ensure("error") /\ reindex' = "off" /\ UNCHANGED todo
    /\ repaired' = (up /\ jobs = {} /\ beside = {} /\ breaker' = "closed" /\ fails' + 1 < Trip)
    /\ UNCHANGED <<rows, doc, up, jobs, beside, faults, calm>>

\* A plausible slip: products that have a document are skipped.
ReindexMissing == Snapshot({p \in listed : doc[p] = 0})

ReindexSnapshot == Snapshot(listed)

\* The loop turns to the next product once the one before is done with.
ReindexNext ==
    /\ reindex = "run"
    /\ \A j \in jobs : j.by # "reindex"
    /\ \/ \E m \in todo : /\ Cardinality(jobs) < MaxJobs
                          /\ todo' = todo \ {m}
                          /\ jobs' = jobs \cup {Index(m[1], m[2], "reindex")}
                          /\ UNCHANGED reindex
       \/ todo = {} /\ reindex' = "off" /\ UNCHANGED <<jobs, todo>>
    /\ UNCHANGED <<rows, typesense, circuit, beside, faults, history>>

\* POST /lab/typesense/reindex while bootstrap or another reindex is under way:
\* nothing keeps it from running too.
AdminReindexBeside ==
    /\ reindex \notin {"off", "connect"}
    /\ beside = {} /\ (\A j \in jobs : j.by # "beside")
    /\ Disturb
    /\ \/ Ensure("ok") /\ beside' = {<<p, version[p]>> : p \in listed}
       \/ Ensure("error") /\ UNCHANGED beside
    /\ UNCHANGED <<rows, doc, up, jobs, reindex, todo>>

\* Its loop.
BesideNext ==
    /\ \A j \in jobs : j.by # "beside"
    /\ Cardinality(jobs) < MaxJobs
    /\ \E m \in beside : /\ beside' = beside \ {m}
                         /\ jobs' = jobs \cup {Index(m[1], m[2], "beside")}
    /\ UNCHANGED <<rows, typesense, circuit, reindex, todo, faults, history>>

-----------------------------------------------------------------------------
(* Reads.  They leave the index alone, but not the breaker. *)

\* /health/ready pings Typesense through the breaker.
Ping ==
    /\ Admits
    /\ IF up THEN Succeeds ELSE Fails
    /\ UNCHANGED <<rows, typesense, jobs, reindexes, faults, history>>

\* Search on an existing collection, or on a Typesense that is away.
SearchOnce ==
    /\ Admits
    /\ collection \/ ~up
    /\ IF up THEN Succeeds ELSE Fails
    /\ UNCHANGED <<rows, typesense, jobs, reindexes, faults, history>>

\* Search on a missing collection: the failure, then Ensure and a second try,
\* which both succeed unless the failure opened the breaker.
SearchCreatesCollection ==
    /\ Admits
    /\ up
    /\ ~collection
    /\ \/ /\ breaker = "closed" /\ fails + 1 < Trip
          /\ collection' = TRUE
          /\ Succeeds
       \/ /\ breaker = "half-open" \/ fails + 1 >= Trip
          /\ UNCHANGED collection
          /\ Fails
    /\ UNCHANGED <<rows, doc, up, jobs, reindexes, faults, history>>

-----------------------------------------------------------------------------
(* What goes wrong. *)

\* Typesense goes away, perhaps to come back with a fresh volume.
TypesenseStops ==
    /\ up
    /\ Disturb
    /\ up' = FALSE
    /\ \/ UNCHANGED <<doc, collection>>
       \/ doc' = [p \in Products |-> 0] /\ collection' = FALSE
    /\ UNCHANGED <<rows, circuit, jobs, reindexes>>

TypesenseStarts ==
    /\ ~up
    /\ up' = TRUE
    /\ UNCHANGED <<rows, doc, collection, circuit, jobs, reindexes, faults, history>>

\* A search or a probe is cut off by the end of its request: a failure to the
\* breaker, though Typesense answers.
CallCut ==
    /\ Admits
    /\ up
    /\ Disturb
    /\ Fails
    /\ UNCHANGED <<rows, typesense, jobs, reindexes>>

\* A carrier's call is cut off by its deadline, or by the end of the admin's
\* request; what it asked for may have been done.
JobCut(j) ==
    /\ Admits
    /\ up
    /\ Disturb
    /\ Fails
    /\ jobs' = jobs \ {j}
    /\ \/ UNCHANGED <<doc, collection>>
       \/ j.at = "ensure" /\ collection' = TRUE /\ UNCHANGED doc
       \/ /\ j.at = "call" /\ collection
          /\ doc' = [doc EXCEPT ![j.product] = j.version]
          /\ UNCHANGED collection
    /\ UNCHANGED <<rows, up, reindexes>>

\* The API restarts: goroutines and breaker are gone, bootstrap runs again.
RestartAPI ==
    /\ Disturb
    /\ jobs' = {}
    /\ todo' = {}
    /\ beside' = {}
    /\ reindex' = "connect"
    /\ breaker' = "closed"
    /\ fails' = 0
    /\ UNCHANGED <<rows, typesense>>

-----------------------------------------------------------------------------
IndexNext ==
    \/ \E p \in Products : ServiceCreate(p) \/ ServiceUpdate(p) \/ ServiceDelete(p)
    \/ \E j \in jobs : JobEnsure(j) \/ JobUpsert(j) \/ JobDelete(j) \/ JobCut(j)
    \/ BootstrapSchemas \/ BootEnsure \/ BootStats
    \/ AdminReindex \/ ReindexSnapshot \/ ReindexNext
    \/ AdminReindexBeside \/ BesideNext
    \/ Ping \/ SearchOnce \/ SearchCreatesCollection
    \/ BreakerTimeout \/ BreakerInterval
    \/ TypesenseStops \/ TypesenseStarts \/ CallCut \/ RestartAPI

IndexSpec == IndexInit /\ [][IndexNext]_indexVars

\* Goroutines run on, timers fire, an outage ends, and the readiness probe, sent
\* every five seconds, is not beaten to the half-open slot every single time.
IndexFairness ==
    /\ WF_indexVars(\E j \in jobs : JobEnsure(j) \/ JobUpsert(j) \/ JobDelete(j))
    /\ WF_indexVars(BootstrapSchemas \/ BootEnsure \/ BootStats \/ ReindexSnapshot \/ ReindexNext)
    /\ WF_indexVars(BesideNext)
    /\ WF_indexVars(BreakerTimeout)
    /\ WF_indexVars(TypesenseStarts)
    /\ SF_indexVars(Ping)

FairIndexSpec == IndexSpec /\ IndexFairness

-----------------------------------------------------------------------------
(* Correctness. *)

\* Documents, jobs and the breaker stay within their domains; a document never
\* shows a version that its row has not had.
IndexTypeOK ==
    /\ version \in [Products -> 0..MaxVersion]
    /\ listed \subseteq {p \in Products : version[p] > 0}
    /\ \A p \in Products : doc[p] \in 0..version[p]
    /\ collection \in BOOLEAN /\ up \in BOOLEAN
    /\ breaker \in {"closed", "open", "half-open"}
    /\ fails \in 0..(Trip - 1)
    /\ jobs \subseteq [op : {"index", "delete"}, product : Products, version : 0..MaxVersion,
                       by : {"request", "reindex", "beside"}, at : {"ensure", "call"}]
    /\ reindex \in {"off", "connect", "boot ensure", "stats", "ensure", "run"}
    /\ todo \cup beside \subseteq Products \X (1..MaxVersion)
    /\ faults \in 0..MaxFaults

Current(p) == doc[p] = version[p]

\* The index goes wrong only through overlap or a fault.  As long as changes
\* come one at a time and Typesense answers, the documents are exactly the
\* listed products at their current version.
CalmIsExact ==
    calm /\ ~Busy => \A p \in Products : IF p \in listed THEN Current(p) ELSE doc[p] = 0

\* Changes one at a time never open the breaker, although every index call
\* begins with a failure ("already exists").
CalmStaysClosed == calm => breaker = "closed"

\* A reindex repairs whatever went wrong before: run with the breaker closed
\* and with no change or fault beside it, it leaves every listed product with its
\* current document.
ReindexRepairs == repaired /\ ~Busy => \A p \in listed : Current(p)

\* The breaker does not lock search out for ever: with Typesense back, some
\* probe closes it.
BreakerRecovers == []<>(breaker = "closed")
=============================================================================

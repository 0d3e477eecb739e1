------------------------------ MODULE Checkout ------------------------------
(***************************************************************************)
(* POST /orders with an Idempotency-Key: look the key up, create the order *)
(* in a transaction, read it back, then remember the response under the    *)
(* key (internal/http/order: handler.create, Service.Create, CreateOrder,  *)
(* SaveIdempotencyResponse).  The steps are separate statements, and any   *)
(* number of requests may be between them.  The transaction takes one unit *)
(* per line with an UPDATE each, and so locks the product rows in the      *)
(* order of the basket.                                                    *)
(*                                                                         *)
(* A request is identified with the order it creates.  All requests are of *)
(* one user: rows of different users never meet (UNIQUE (user_id, key)).   *)
(* A product that does not exist is one without stock.                     *)
(***************************************************************************)
EXTENDS Integers, FiniteSets, Sequences, Functions

CONSTANTS
    Requests,     \* requests the clients send
    KeyOf,        \* the Idempotency-Key of each request
    BodyOf,       \* the basket of each request: the products in order
    InitStock,    \* units of each product
    MaxInFlight,  \* requests served at the same time
    MaxFaults,    \* bound on failed statements and crashes
    NoRequest     \* "no row": not a request

ASSUME CheckoutAssumption ==
    /\ IsFiniteSet(Requests)
    /\ NoRequest \notin Requests
    /\ MaxInFlight \in Nat \ {0}
    /\ MaxFaults \in Nat
    /\ DOMAIN KeyOf = Requests
    /\ DOMAIN BodyOf = Requests
    /\ InitStock \in [DOMAIN InitStock -> Nat]
    /\ \A q \in Requests : BodyOf[q] \in Seq(DOMAIN InitStock) /\ BodyOf[q] # <<>>

Products == DOMAIN InitStock
Keys == {KeyOf[q] : q \in Requests}

VARIABLES
    pc,      \* where the handler is with each request
    placed,  \* requests whose order was created
    stored,  \* idempotency_keys: the request whose response a key remembers
    answer,  \* what the client was told
    stock,   \* products.stock, as the transaction that holds the row sees it
    owner,   \* the transaction that has the row of a product locked
    lines,   \* how many lines of the basket the open transaction has taken
    overlapped,  \* history: requests that passed the lookup beside another of their key
    faults

orderVars == <<stock, owner, lines>>
vars == <<pc, placed, stored, answer, orderVars, overlapped, faults>>

Answers == {"none", "created", "replay", "conflict", "error"}

Init ==
    /\ pc = [q \in Requests |-> "new"]
    /\ placed = {}
    /\ stored = [k \in Keys |-> NoRequest]
    /\ answer = [q \in Requests |-> [kind |-> "none", order |-> NoRequest]]
    /\ stock = InitStock
    /\ owner = [p \in Products |-> NoRequest]
    /\ lines = [q \in Requests |-> 0]
    /\ overlapped = {}
    /\ faults = 0

Row(q) == stored[KeyOf[q]]

\* The response is written and the handler returns.
Reply(q, kind, order) ==
    /\ pc' = [pc EXCEPT ![q] = "done"]
    /\ answer' = [answer EXCEPT ![q] = [kind |-> kind, order |-> order]]

InFlight == {q \in Requests : pc[q] \in {"checked", "created"}}

\* The lookup finds no row: the request goes on to create an order, beside those
\* of its key that are still on their way.
GoesOn(q) ==
    /\ pc' = [pc EXCEPT ![q] = "checked"]
    /\ overlapped' = IF \E r \in InFlight : KeyOf[r] = KeyOf[q]
                     THEN overlapped \cup {q} ELSE overlapped
    /\ UNCHANGED answer

\* A plausible slip: the request hash is not compared.
FindWithoutHash(q) ==
    /\ pc[q] = "new"
    /\ Cardinality(InFlight) < MaxInFlight
    /\ UNCHANGED <<placed, stored, orderVars, faults>>
    /\ \/ /\ Row(q) = NoRequest
          /\ GoesOn(q)
       \/ /\ Row(q) # NoRequest
          /\ Reply(q, "replay", Row(q))
          /\ UNCHANGED overlapped

\* Service.Create up to the transaction: FindIdempotency decides between a
\* replay, a conflict and a new order.
FindIdempotency(q) ==
    /\ pc[q] = "new"
    /\ Cardinality(InFlight) < MaxInFlight
    /\ UNCHANGED <<placed, stored, orderVars, faults>>
    /\ \/ /\ Row(q) = NoRequest
          /\ GoesOn(q)
       \/ /\ Row(q) # NoRequest
          /\ BodyOf[Row(q)] # BodyOf[q]
          /\ Reply(q, "conflict", NoRequest)
          /\ UNCHANGED overlapped
       \/ /\ Row(q) # NoRequest
          /\ BodyOf[Row(q)] = BodyOf[q]
          /\ Reply(q, "replay", Row(q))
          /\ UNCHANGED overlapped

-----------------------------------------------------------------------------
(* repo.CreateOrder, one line of the basket after the other. *)

\* How many of the first n lines of q's basket are for p.
Units(q, p, n) == Cardinality({i \in 1..n : BodyOf[q][i] = p})

\* The product of the next line.
Wanted(q) == BodyOf[q][lines[q] + 1]

Filling(q) == pc[q] = "checked" /\ lines[q] < Len(BodyOf[q])

Unlocked(q) == [p \in Products |-> IF owner[p] = q THEN NoRequest ELSE owner[p]]

\* UPDATE products SET stock = stock - qty WHERE stock >= qty.  It waits while
\* another transaction has the row, and keeps the row from then on.
TakeLine(q) ==
    /\ Filling(q)
    /\ owner[Wanted(q)] \in {NoRequest, q}
    /\ stock[Wanted(q)] > 0
    /\ stock' = [stock EXCEPT ![Wanted(q)] = @ - 1]
    /\ owner' = [owner EXCEPT ![Wanted(q)] = q]
    /\ lines' = [lines EXCEPT ![q] = @ + 1]
    /\ UNCHANGED <<pc, placed, stored, answer, overlapped, faults>>

\* The unique index of inventory_reservations: one hold per order and product.
OneLineEach(q) == \A p \in Products : Units(q, p, Len(BodyOf[q])) <= 1

\* All lines are taken: order, items, holds and event are written, and the
\* transaction commits.
CreateOrder(q) ==
    /\ pc[q] = "checked"
    /\ lines[q] = Len(BodyOf[q])
    /\ OneLineEach(q)
    /\ placed' = placed \cup {q}
    /\ pc' = [pc EXCEPT ![q] = "created"]
    /\ owner' = Unlocked(q)
    /\ lines' = [lines EXCEPT ![q] = 0]
    /\ UNCHANGED <<stock, stored, answer, overlapped, faults>>

\* A plausible slip: the error returns without a rollback.
RollbackForgotten(q) == UNCHANGED orderVars

\* A plausible slip: the line that failed is rolled back, the ones before stay.
RollbackLocksOnly(q) ==
    /\ owner' = Unlocked(q)
    /\ lines' = [lines EXCEPT ![q] = 0]
    /\ UNCHANGED stock

\* gorm rolls the transaction back when its function returns an error, Postgres
\* when the connection is gone.
Rollback(q) ==
    /\ stock' = [p \in Products |-> stock[p] + Units(q, p, lines[q])]
    /\ owner' = Unlocked(q)
    /\ lines' = [lines EXCEPT ![q] = 0]

\* The product of a line is not there or has no stock left, or the basket names
\* a product twice, which shows only when its second hold is inserted: an error
\* answer, and nothing is remembered.
CreateRefused(q) ==
    /\ \/ Filling(q) /\ owner[Wanted(q)] \in {NoRequest, q} /\ stock[Wanted(q)] = 0
       \/ pc[q] = "checked" /\ lines[q] = Len(BodyOf[q]) /\ ~OneLineEach(q)
    /\ Rollback(q)
    /\ Reply(q, "error", NoRequest)
    /\ UNCHANGED <<placed, stored, overlapped, faults>>

\* The transaction that q waits for.
Blocker(q) ==
    IF Filling(q) /\ owner[Wanted(q)] # q THEN owner[Wanted(q)] ELSE NoRequest

\* q waits in a circle of transactions.
Deadlocked(q) == \E S \in SUBSET Requests : q \in S /\ {Blocker(r) : r \in S} = S

\* Postgres breaks the circle: the UPDATE of one of them fails.
DeadlockVictim(q) ==
    /\ Deadlocked(q)
    /\ Rollback(q)
    /\ Reply(q, "error", NoRequest)
    /\ UNCHANGED <<placed, stored, overlapped, faults>>

-----------------------------------------------------------------------------
\* A plausible slip: the response is answered and not remembered.
StoreForgotten(q) == UNCHANGED stored

\* SaveIdempotencyResponse: the first response stays; a concurrent insert of
\* the same key fails on the unique index, and the handler ignores the error.
SaveIdempotencyResponse(q) ==
    stored' = [stored EXCEPT ![KeyOf[q]] = IF @ = NoRequest THEN q ELSE @]

\* The handler remembers the response and answers 201.
RememberIdempotent(q) ==
    /\ pc[q] = "created"
    /\ SaveIdempotencyResponse(q)
    /\ Reply(q, "created", q)
    /\ UNCHANGED <<placed, orderVars, overlapped, faults>>

Fault == faults < MaxFaults /\ faults' = faults + 1

\* The lookup itself fails: an error answer, nothing begun.
FindFails(q) ==
    /\ pc[q] = "new"
    /\ Fault
    /\ Reply(q, "error", NoRequest)
    /\ UNCHANGED <<placed, stored, orderVars, overlapped>>

\* Remembering fails; the handler ignores it and answers 201 all the same.
RememberFails(q) ==
    /\ pc[q] = "created"
    /\ Fault
    /\ Reply(q, "created", q)
    /\ UNCHANGED <<placed, stored, orderVars, overlapped>>

\* Reading the order back fails: an error answer for an order that exists.
ReadBackFails(q) ==
    /\ pc[q] = "created"
    /\ Fault
    /\ Reply(q, "error", NoRequest)
    /\ UNCHANGED <<placed, stored, orderVars, overlapped>>

\* The deadline of the request passes while the transaction is open.
TimesOut(q) ==
    /\ pc[q] = "checked"
    /\ Fault
    /\ Rollback(q)
    /\ Reply(q, "error", NoRequest)
    /\ UNCHANGED <<placed, stored, overlapped>>

\* The process dies, or the client goes away: no answer.
Abandon(q) ==
    /\ pc[q] \in {"checked", "created"}
    /\ Fault
    /\ Rollback(q)
    /\ pc' = [pc EXCEPT ![q] = "done"]
    /\ UNCHANGED <<placed, stored, answer, overlapped>>

\* The handler's way through, and the ways it is cut short.
Proceeds(q) ==
    \/ FindIdempotency(q)
    \/ TakeLine(q)
    \/ CreateOrder(q)
    \/ CreateRefused(q)
    \/ DeadlockVictim(q)
    \/ RememberIdempotent(q)

Next ==
    \E q \in Requests :
        \/ Proceeds(q)
        \/ FindFails(q)
        \/ RememberFails(q)
        \/ ReadBackFails(q)
        \/ TimesOut(q)
        \/ Abandon(q)

Spec == Init /\ [][Next]_vars

\* The server runs every handler on, and Postgres finds every circle
\* (deadlock_timeout, a second, is well below the request's ten).
Fairness == \A q \in Requests : WF_vars(Proceeds(q))

FairSpec == Spec /\ Fairness

-----------------------------------------------------------------------------
(* Correctness. *)

\* Requests, rows and answers stay within their domains.
TypeOK ==
    /\ pc \in [Requests -> {"new", "checked", "created", "done"}]
    /\ placed \subseteq Requests
    /\ stored \in [Keys -> Requests \cup {NoRequest}]
    /\ answer \in [Requests -> [kind : Answers, order : Requests \cup {NoRequest}]]
    /\ stock \in [Products -> Nat]
    /\ owner \in [Products -> Requests \cup {NoRequest}]
    /\ lines \in [Requests -> Nat]
    /\ overlapped \subseteq Requests
    /\ faults \in 0..MaxFaults

\* A key never answers with somebody else's order: a replay or a 201 names an
\* order that exists, was placed under the same key, and with the same body;
\* and as long as no statement failed the key remembers it, so that a retry
\* does not order again.
AnswersNameOwnOrder ==
    \A q \in Requests :
        answer[q].kind \in {"created", "replay"} =>
            LET o == answer[q].order
            IN  /\ o \in placed /\ KeyOf[o] = KeyOf[q] /\ BodyOf[o] = BodyOf[q]
                /\ faults = 0 => Row(q) # NoRequest

\* Lookup, transaction and remembering are three statements, so a key may order
\* more than once; what that can cost is bounded: one order, one more for each
\* request that passed the lookup beside another of its key, and one more for
\* each failure.  One after the other and without failures, retries under a key
\* order once.
OrdersPerKeyBounded ==
    \A k \in Keys :
        Cardinality({q \in placed : KeyOf[q] = k})
            <= 1 + faults + Cardinality({q \in overlapped : KeyOf[q] = k})

\* The units of p that a request took: for its order, once that is placed, and
\* in a transaction that is still open.
Took(p) ==
    [q \in Requests |-> (IF q \in placed THEN Units(q, p, Len(BodyOf[q])) ELSE 0)
                        + Units(q, p, lines[q])]

\* A basket is taken whole or not at all: what is missing from the stock is what
\* placed orders took and what open transactions have taken so far, and only
\* open transactions hold rows.
BasketsAreWhole ==
    \A p \in Products :
        /\ stock[p] + SumFunctionOnSet(Took(p), Requests) = InitStock[p]
        /\ owner[p] # NoRequest =>
             pc[owner[p]] = "checked" /\ Units(owner[p], p, lines[owner[p]]) > 0

\* Every request comes to its end, whatever rows it must wait for: no circle of
\* waiting transactions stays, and no failed one keeps its rows.
EveryRequestEnds == \A q \in Requests : <>(pc[q] = "done")

\* docs/belajar/09: "Create dua kali key sama -> id order sama" (the same key
\* twice gives the same order id): a key creates at most one order.
OneOrderPerKey ==
    \A q1, q2 \in placed : KeyOf[q1] = KeyOf[q2] => q1 = q2
=============================================================================

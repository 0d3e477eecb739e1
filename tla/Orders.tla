------------------------------- MODULE Orders -------------------------------
(***************************************************************************)
(* The order core: every transaction that the API (internal/http/order)    *)
(* and the worker (internal/worker/payment, internal/worker/inventory) run *)
(* against the commerce tables of migrations 000005-000007.                *)
(*                                                                         *)
(* Each handler runs in one Postgres transaction that first locks the      *)
(* order row (CreateOrder: the product rows it decrements). The inventory  *)
(* worker locks no order, but it starts after the transaction that settled *)
(* the order has committed. So one handler is one action. An attempt that  *)
(* ends in an error rolls back, and an idempotent replay only reads:       *)
(* neither is a step here. A request of a user who does not own the order  *)
(* ends in ErrNotFound, so the actor of Cancel and Pay is always the       *)
(* owner.                                                                  *)
(*                                                                         *)
(* Kafka sits between the outbox and the worker handlers.  Relay and       *)
(* broker deliver at least once, in any order: a worker handler may be     *)
(* given any outbox row, any number of times, at any later moment.         *)
(***************************************************************************)
EXTENDS OrderDomain, Integers, Sequences, FiniteSets, Functions

CONSTANTS
    MaxOrders,       \* orders the run creates; ids are 1..MaxOrders (BIGSERIAL)
    Products,        \* product ids
    InitStock,       \* products.stock before the first order
    Carts,           \* requestable item lists: functions Products -> Nat, 0 = absent
    Keys,            \* payment attempt keys a client may send, the default one included
    WorkerOutcomes,  \* outcomes of the payment simulator in the worker
    Replicas,        \* API processes, each with a hold-expiry sweeper
    SweepLimit,      \* orders listed by one sweep
    MaxFaults        \* bound on failed sweep cancels and API restarts

Orders == 1..MaxOrders

\* The worker's attempt key "evt:<event id>"; one order has one order.created.
EvtKey == "evt"

AttemptKeys == Keys \cup {EvtKey}

ASSUME ConstantsAssumption ==
    /\ MaxOrders \in Nat
    /\ InitStock \in [Products -> Nat]
    /\ Carts \subseteq [Products -> Nat]
    /\ \A c \in Carts : \E p \in Products : c[p] > 0
    /\ EvtKey \notin Keys
    /\ WorkerOutcomes \subseteq {"success", "fail"}
    /\ SweepLimit \in Nat \ {0}
    /\ MaxFaults \in Nat

VARIABLES
    stock,     \* products.stock
    status,    \* orders.status
    version,   \* orders.version
    items,     \* order_items: quantity per product, 0 = no line
    resv,      \* inventory_reservations.status per (order, product)
    payments,  \* payments.status per (order, idempotency key)
    outbox,    \* outbox_events.event_type of each order, oldest first
    inbox,     \* processed_events: <<consumer, order, index in outbox>>
    ledger,    \* stock_ledger.reason per (order, product), oldest first
    overdue,   \* orders whose created_at is older than OrderHoldTTL
    sweep,     \* per API replica: listed ids its sweep has still to cancel
    faults     \* failed sweep cancels and API restarts so far

orderVars == <<status, version, items>>
vars == <<stock, status, version, items, resv, payments, outbox, inbox,
          ledger, overdue, sweep, faults>>

EmptyCart == [p \in Products |-> 0]
NoRow == [p \in Products |-> "none"]

Init ==
    /\ stock = InitStock
    /\ status = [o \in Orders |-> NoOrder]
    /\ version = [o \in Orders |-> 0]
    /\ items = [o \in Orders |-> EmptyCart]
    /\ resv = [o \in Orders |-> NoRow]
    /\ payments = [o \in Orders |-> [k \in AttemptKeys |-> "none"]]
    /\ outbox = [o \in Orders |-> << >>]
    /\ inbox = {}
    /\ ledger = [o \in Orders |-> [p \in Products |-> << >>]]
    /\ overdue = {}
    /\ sweep = [r \in Replicas |-> {}]
    /\ faults = 0

-----------------------------------------------------------------------------
(* Building blocks shared by the transactions. *)

\* Writer.Enqueue: one unpublished row in the caller's transaction.
Enqueue(o, type) == outbox' = [outbox EXCEPT ![o] = Append(@, type)]

\* A plausible slip: the row is saved with the version it was read with.
SaveKeepsVersion(o, next) ==
    /\ status' = [status EXCEPT ![o] = next]
    /\ UNCHANGED <<version, items>>

\* order.Status = next; order.Version++; tx.Save(order)
SaveOrder(o, next) ==
    /\ status' = [status EXCEPT ![o] = next]
    /\ version' = [version EXCEPT ![o] = @ + 1]
    /\ UNCHANGED items

\* The reservation rows of o that a settlement finds: status = 'held'.
HeldRows(o) == {p \in Products : resv[o][p] = "held"}

\* ledger.Append, once for each of the given products of order o.
LedgerAppend(o, ps, reason) ==
    ledger' = [ledger EXCEPT ![o] =
                 [p \in Products |->
                    IF p \in ps THEN Append(ledger[o][p], reason) ELSE ledger[o][p]]]

\* UPDATE inventory_reservations SET status for the given rows of order o.
UpdateRows(o, ps, new) ==
    resv' = [resv EXCEPT ![o] =
               [p \in Products |-> IF p \in ps THEN new ELSE resv[o][p]]]

\* Give the held quantity back and mark the rows released.
ReleaseRows(o, ps) ==
    /\ stock' = [p \in Products |->
                   IF p \in ps THEN stock[p] + items[o][p] ELSE stock[p]]
    /\ LedgerAppend(o, ps, "release")
    /\ UpdateRows(o, ps, "released")

\* Mark the rows committed; the stock left at the hold.
CommitRows(o, ps) ==
    /\ LedgerAppend(o, ps, "commit")
    /\ UpdateRows(o, ps, "committed")
    /\ UNCHANGED stock

\* A plausible slip: releasing every row of the order, whatever its status.
ReleaseAllRows(o) == ReleaseRows(o, {p \in Products : items[o][p] > 0})

\* A plausible slip: the rows are forgotten when the order is closed.
ReleaseNothing(o) == UNCHANGED <<stock, ledger, resv>>

\* The API, the payment worker and the inventory worker each carry their own
\* copy of the two settlements.
releaseReservations(o) == ReleaseRows(o, HeldRows(o))
commitReservations(o) == CommitRows(o, HeldRows(o))
releaseHeld(o) == ReleaseRows(o, HeldRows(o))
commitHeld(o) == CommitRows(o, HeldRows(o))
releaseTX(o) == ReleaseRows(o, HeldRows(o))
commitTX(o) == CommitRows(o, HeldRows(o))

\* INSERT INTO payments; the pair (order, key) is unique.
InsertPayment(o, k, result) ==
    /\ payments[o][k] = "none"
    /\ payments' = [payments EXCEPT ![o][k] = result]

-----------------------------------------------------------------------------
(* The API's transactions. *)

\* Rows of one order: item, reservation and ledger entry per line.
InsertLines(o, cart) ==
    LET lines == {p \in Products : cart[p] > 0}
    IN  /\ items' = [items EXCEPT ![o] = cart]
        /\ UpdateRows(o, lines, "held")
        /\ LedgerAppend(o, lines, "hold")

\* The next id of the BIGSERIAL sequence.
NextId(o) == status[o] = NoOrder /\ \A q \in 1..(o - 1) : status[q] # NoOrder

\* A plausible slip: the conditional update looks at one line only.
CreateOrderOneLineChecked(o, cart) ==
    /\ NextId(o)
    /\ \E p \in Products : cart[p] > 0 /\ stock[p] >= cart[p]
    /\ stock' = [p \in Products |-> stock[p] - cart[p]]
    /\ InsertLines(o, cart)
    /\ status' = [status EXCEPT ![o] = "pending_payment"]
    /\ version' = [version EXCEPT ![o] = 1]
    /\ Enqueue(o, "order.created")
    /\ UNCHANGED <<payments, inbox, overdue, sweep, faults>>

\* repository.CreateOrder: decrement every line's stock if all suffice.
CreateOrder(o, cart) ==
    /\ NextId(o)
    /\ \A p \in Products : stock[p] >= cart[p]
    /\ stock' = [p \in Products |-> stock[p] - cart[p]]
    /\ InsertLines(o, cart)
    /\ status' = [status EXCEPT ![o] = "pending_payment"]
    /\ version' = [version EXCEPT ![o] = 1]
    /\ Enqueue(o, "order.created")
    /\ UNCHANGED <<payments, inbox, overdue, sweep, faults>>

\* repository.cancelLocked, run with the order row locked.
cancelLocked(o) ==
    /\ CanTransition(status[o], "cancelled")
    /\ releaseReservations(o)
    /\ SaveOrder(o, "cancelled")
    /\ Enqueue(o, "order.cancelled")
    /\ UNCHANGED <<payments, inbox>>

\* The owner's POST /orders/:id/cancel.
Cancel(o) == cancelLocked(o) /\ UNCHANGED <<overdue, sweep, faults>>

\* repository.Pay takes no early return: the key is new, nothing is charged yet.
PayProceeds(o, k) ==
    /\ status[o] # NoOrder
    /\ payments[o][k] = "none"
    /\ status[o] \notin {"paid", "fulfilled"}

\* Pay with outcome "fail".
PayFail(o, k) ==
    /\ PayProceeds(o, k)
    /\ CanTransition(status[o], "payment_failed")
    /\ InsertPayment(o, k, "failed")
    /\ SaveOrder(o, "payment_failed")
    /\ releaseReservations(o)
    /\ Enqueue(o, "order.payment_failed")
    /\ UNCHANGED <<inbox, overdue, sweep, faults>>

\* Pay with outcome "success".
PaySuccess(o, k) ==
    /\ PayProceeds(o, k)
    /\ CanTransition(status[o], "paid")
    /\ InsertPayment(o, k, "succeeded")
    /\ SaveOrder(o, "paid")
    /\ commitReservations(o)
    /\ Enqueue(o, "order.paid")
    /\ UNCHANGED <<inbox, overdue, sweep, faults>>

\* The admin's POST /orders/:id/fulfill.
Fulfill(o) ==
    /\ CanTransition(status[o], "fulfilled")
    /\ SaveOrder(o, "fulfilled")
    /\ Enqueue(o, "order.fulfilled")
    /\ UNCHANGED <<stock, resv, payments, inbox, ledger, overdue, sweep, faults>>

-----------------------------------------------------------------------------
(* The hold-expiry sweep of every API replica: list, then cancel one by one. *)

\* Time passes OrderHoldTTL after the order was created.
HoldTTLElapses(o) ==
    /\ status[o] = "pending_payment"
    /\ o \notin overdue
    /\ overdue' = overdue \cup {o}
    /\ UNCHANGED <<stock, orderVars, resv, payments, outbox, inbox, ledger,
                   sweep, faults>>

\* SELECT id WHERE status = 'pending_payment' AND created_at < cutoff
\* ORDER BY id LIMIT SweepLimit
ExpiredPendingIDs ==
    LET due == {o \in overdue : status[o] = "pending_payment"}
    IN  {o \in due : Cardinality({q \in due : q < o}) < SweepLimit}

ListExpiredPendingIDs(r) ==
    /\ sweep[r] = {}
    /\ ExpiredPendingIDs # {}
    /\ sweep' = [sweep EXCEPT ![r] = ExpiredPendingIDs]
    /\ UNCHANGED <<stock, orderVars, resv, payments, outbox, inbox, ledger,
                   overdue, faults>>

\* The id the sweep comes to next: it walks the listed ids in order.
NextListed(r, o) == o \in sweep[r] /\ \A q \in sweep[r] : o <= q

\* A plausible slip: the sweep goes on to the next id only after a cancel.
SweepStuckOnError(r) ==
    \E o \in sweep[r] :
        /\ NextListed(r, o)
        /\ cancelLocked(o)
        /\ sweep' = [sweep EXCEPT ![r] = @ \ {o}]
        /\ UNCHANGED <<overdue, faults>>

\* One turn of ExpireStaleHolds' loop: CancelSystem on the next listed id; an
\* order that may no longer be cancelled is logged and skipped.
ExpireNext(r) ==
    \E o \in sweep[r] :
        /\ NextListed(r, o)
        /\ \/ cancelLocked(o)
           \/ /\ ~CanTransition(status[o], "cancelled")
              /\ UNCHANGED <<stock, orderVars, resv, payments, outbox, inbox, ledger>>
        /\ sweep' = [sweep EXCEPT ![r] = @ \ {o}]
        /\ UNCHANGED <<overdue, faults>>

\* CancelSystem fails (the database is away): logged, and on to the next id.
ExpireFails(r) ==
    /\ faults < MaxFaults
    /\ faults' = faults + 1
    /\ \E o \in sweep[r] :
          NextListed(r, o) /\ sweep' = [sweep EXCEPT ![r] = @ \ {o}]
    /\ UNCHANGED <<stock, orderVars, resv, payments, outbox, inbox, ledger, overdue>>

\* An API process dies and comes back: the ids it had listed are gone.
RestartAPI(r) ==
    /\ faults < MaxFaults
    /\ sweep[r] # {}
    /\ faults' = faults + 1
    /\ sweep' = [sweep EXCEPT ![r] = {}]
    /\ UNCHANGED <<stock, orderVars, resv, payments, outbox, inbox, ledger, overdue>>

-----------------------------------------------------------------------------
(* The worker's transactions.  <<o, n>> is the n-th event of order o. *)

\* inbox.Claim: INSERT ... ON CONFLICT DO NOTHING affects one row.
Claim(consumer, o, n) ==
    /\ <<consumer, o, n>> \notin inbox
    /\ inbox' = inbox \cup {<<consumer, o, n>>}

\* Nothing left to charge: this event was charged, or the order is closed.
ChargeSettled(o) ==
    \/ payments[o][EvtKey] # "none"
    \/ status[o] \in {"paid", "fulfilled", "cancelled"}

\* The simulator declines.
WorkerDecline(o) ==
    /\ InsertPayment(o, EvtKey, "failed")
    /\ SaveOrder(o, "payment_failed")
    /\ releaseHeld(o)
    /\ Enqueue(o, "order.payment_failed")

\* The simulator charges.
WorkerCharge(o) ==
    /\ InsertPayment(o, EvtKey, "succeeded")
    /\ SaveOrder(o, "paid")
    /\ commitHeld(o)
    /\ Enqueue(o, "order.paid")

\* payment.HandleOrderCreated on a delivery that is claimed.
HandleOrderCreated(o, n) ==
    /\ outbox[o][n] = "order.created"
    /\ Claim("payment", o, n)
    /\ UNCHANGED <<overdue, sweep, faults>>
    /\ \/ /\ ChargeSettled(o)
          /\ UNCHANGED <<stock, orderVars, resv, payments, outbox, ledger>>
       \/ /\ ~ChargeSettled(o)
          /\ "success" \in WorkerOutcomes
          /\ CanTransition(status[o], "paid")
          /\ WorkerCharge(o)
       \/ /\ ~ChargeSettled(o)
          /\ "fail" \in WorkerOutcomes
          /\ CanTransition(status[o], "payment_failed")
          /\ WorkerDecline(o)
       \/ /\ ~ChargeSettled(o)
          /\ "fail" \in WorkerOutcomes
          /\ ~CanTransition(status[o], "payment_failed")
          /\ UNCHANGED <<stock, orderVars, resv, payments, outbox, ledger>>

\* inventory.Handler.Handle on a delivery that is claimed.
InventoryHandle(o, n) ==
    /\ outbox[o][n] # "order.created"
    /\ Claim("inventory", o, n)
    /\ \/ /\ outbox[o][n] \in {"order.paid", "order.fulfilled"}
          /\ commitTX(o)
       \/ /\ outbox[o][n] \in {"order.cancelled", "order.payment_failed"}
          /\ releaseTX(o)
    /\ UNCHANGED <<orderVars, payments, outbox, overdue, sweep, faults>>

-----------------------------------------------------------------------------
Next ==
    \/ \E o \in Orders :
         \/ \E cart \in Carts : CreateOrder(o, cart)
         \/ Cancel(o)
         \/ \E k \in Keys : PayFail(o, k) \/ PaySuccess(o, k)
         \/ Fulfill(o)
         \/ HoldTTLElapses(o)
         \/ \E n \in DOMAIN outbox[o] : HandleOrderCreated(o, n) \/ InventoryHandle(o, n)
    \/ \E r \in Replicas :
         ListExpiredPendingIDs(r) \/ ExpireNext(r) \/ ExpireFails(r) \/ RestartAPI(r)

Spec == Init /\ [][Next]_vars

\* RunHoldExpiry ticks for ever in every replica, so a sweep that can go on does.
SweepFairness ==
    \A r \in Replicas : WF_vars(ListExpiredPendingIDs(r)) /\ WF_vars(ExpireNext(r))

FairSpec == Spec /\ SweepFairness

-----------------------------------------------------------------------------
(* Correctness. *)

\* Every table stays within its columns' domains; stock never goes negative.
TypeOK ==
    /\ stock \in [Products -> Nat]
    /\ status \in [Orders -> OrderStatuses \cup {NoOrder}]
    /\ version \in [Orders -> Nat]
    /\ items \in [Orders -> [Products -> Nat]]
    /\ resv \in [Orders -> [Products -> ReservationStatuses \cup {"none"}]]
    /\ payments \in [Orders -> [AttemptKeys -> PaymentStatuses \cup {"none"}]]
    /\ outbox \in [Orders -> Seq(EventTypes)]
    /\ inbox \subseteq {"payment", "inventory"} \X Orders \X Nat
    /\ ledger \in [Orders -> [Products -> Seq({"hold", "release", "commit"})]]
    /\ overdue \subseteq Orders
    /\ sweep \in [Replicas -> SUBSET Orders]
    /\ faults \in 0..MaxFaults

\* What a line's reservation may be, given the status of its order.
HoldAllowed(st) ==
    CASE st = "pending_payment"                  -> {"held"}
      [] st \in {"payment_failed", "cancelled"}  -> {"released"}
      [] st \in {"paid", "fulfilled"}            -> {"committed", "released"}
      [] OTHER                                   -> {}

\* Settling a hold and closing the order are one event: a line holds stock
\* exactly while its order awaits payment, a closed order keeps nothing, and
\* only a line of the order has a reservation (cancelLocked, Pay,
\* HandleOrderCreated, inventory.Handle).
HoldsMatchStatus ==
    \A o \in Orders, p \in Products :
        resv[o][p] \in (IF items[o][p] > 0 THEN HoldAllowed(status[o]) ELSE {"none"})

\* An order is charged at most once over all attempt keys and redeliveries,
\* and a succeeded payment exists exactly for paid and fulfilled orders: a
\* cancelled order is never charged (Pay against the worker's charge).
ChargedOnce ==
    \A o \in Orders :
        /\ \A k1, k2 \in AttemptKeys :
             payments[o][k1] = "succeeded" /\ payments[o][k2] = "succeeded" => k1 = k2
        /\ status[o] \in {"paid", "fulfilled"}
             <=> \E k \in AttemptKeys : payments[o][k] = "succeeded"

\* The stock ledger tells the life of each reservation: one hold, then at most
\* one release or one commit, whoever settles first and however often the
\* event is delivered (releaseReservations, releaseHeld, releaseTX).
LedgerTellsReservation ==
    \A o \in Orders, p \in Products :
        ledger[o][p] = CASE resv[o][p] = "held"      -> <<"hold">>
                         [] resv[o][p] = "released"  -> <<"hold", "release">>
                         [] resv[o][p] = "committed" -> <<"hold", "commit">>
                         [] OTHER                    -> << >>

\* What the live reservation of each order took of product p.
Taken(p) ==
    [o \in Orders |-> IF resv[o][p] \in {"held", "committed"} THEN items[o][p] ELSE 0]

\* Stock is conserved: what is on the shelf plus what live reservations took
\* is what there was at the start (CreateOrder's decrements against the release
\* in cancelLocked, Pay, HandleOrderCreated and inventory.Handle).
StockConserved ==
    \A p \in Products :
        stock[p] + SumFunctionOnSet(Taken(p), Orders) = InitStock[p]

\* The outbox is the order's history: one event per version, the last one
\* announcing the current status, each a legal change from the one before.
OutboxTellsHistory ==
    \A o \in Orders :
        /\ Len(outbox[o]) = version[o]
        /\ version[o] > 0 <=> status[o] # NoOrder
        /\ version[o] > 0 => /\ outbox[o][1] = "order.created"
                             /\ outbox[o][version[o]] = EventOf(status[o])
        /\ \A n \in 2..version[o] :
             \E from, to \in OrderStatuses :
                /\ CanTransition(from, to)
                /\ outbox[o][n - 1] = EventOf(from)
                /\ outbox[o][n] = EventOf(to)

\* A paid order without committed stock was declined once before: the release
\* at payment_failed is never undone by the retry that succeeds.
PaidUncommittedWasDeclined ==
    \A o \in Orders, p \in Products :
        status[o] \in {"paid", "fulfilled"} /\ resv[o][p] = "released" =>
            \E n \in DOMAIN outbox[o] : outbox[o][n] = "order.payment_failed"

\* The inventory worker is a safety net that never has to act: the transaction
\* that enqueued its event already settled the reservations.
InventoryFindsNothing ==
    [][\A o \in Orders : \A n \in DOMAIN outbox[o] :
          InventoryHandle(o, n) => UNCHANGED <<stock, resv, ledger>>]_vars

\* A cancelled or fulfilled order is closed for ever: no late pay, sweep or
\* event changes its status, its payments, its reservations or its history.
ClosedIsFinal ==
    [][\A o \in Orders : status[o] \in {"cancelled", "fulfilled"} =>
          /\ status'[o] = status[o]
          /\ payments'[o] = payments[o]
          /\ resv'[o] = resv[o]
          /\ outbox'[o] = outbox[o]]_vars

\* An order left unpaid past its hold time does not stay pending for ever: some
\* sweep cancels it unless a payment settles it first.
HoldsExpire ==
    \A o \in Orders : o \in overdue ~> status[o] # "pending_payment"

\* migrations/000005: "released on cancel/payment_failed; committed on paid".
\* Every line of a paid order has its stock committed.
PaidIsCommitted ==
    \A o \in Orders, p \in Products :
        status[o] \in {"paid", "fulfilled"} /\ items[o][p] > 0 => resv[o][p] = "committed"

-----------------------------------------------------------------------------
(* The refinement mapping to the contract. *)

HoldOf(o) ==
    CASE \E p \in Products : resv[o][p] = "held"      -> "held"
      [] \E p \in Products : resv[o][p] = "committed" -> "committed"
      [] \E p \in Products : resv[o][p] = "released"  -> "released"
      [] OTHER                                        -> "none"

Contract ==
    INSTANCE OrderContract WITH
        phase   <- status,
        hold    <- [o \in Orders |-> HoldOf(o)],
        charged <- [o \in Orders |->
                      \E k \in AttemptKeys : payments[o][k] = "succeeded"]

\* The order core implements its contract: phase, hold and charge of an order
\* move together, one contract step per transaction.
ContractSpec == Contract!CSpec
=============================================================================

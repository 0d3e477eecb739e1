---------------------------- MODULE OrdersProofs ----------------------------
(***************************************************************************)
(* Safety of the order core, for any number of orders, products, carts,    *)
(* keys and replicas.                                                      *)
(***************************************************************************)
EXTENDS Pipeline, Sums, SequenceTheorems, TLAPS

(***************************************************************************)
(* What the building blocks leave well typed.                              *)
(***************************************************************************)

\* A ledger append adds one known reason per product.
LEMMA LedgerAppendType ==
    ASSUME TypeOK, NEW o \in Orders, NEW ps \in SUBSET Products,
           NEW reason \in {"hold", "release", "commit"},
           LedgerAppend(o, ps, reason)
    PROVE  ledger' \in [Orders -> [Products -> Seq({"hold", "release", "commit"})]]
  <1> DEFINE L == Seq({"hold", "release", "commit"})
  <1> DEFINE row == [p \in Products |->
                       IF p \in ps THEN Append(ledger[o][p], reason) ELSE ledger[o][p]]
  <1>1. \A p \in Products : ledger[o][p] \in L
    BY DEF TypeOK
  <1>2. \A s \in L : Append(s, reason) \in L
    OBVIOUS
  <1>3. row \in [Products -> L]
    BY <1>1, <1>2
  <1>4. ledger' = [ledger EXCEPT ![o] = row]
    BY DEF LedgerAppend
  <1>. QED
    BY <1>3, <1>4 DEF TypeOK

\* A reservation update writes a known status.
LEMMA UpdateRowsType ==
    ASSUME TypeOK, NEW o \in Orders, NEW ps \in SUBSET Products,
           NEW new \in ReservationStatuses, UpdateRows(o, ps, new)
    PROVE  resv' \in [Orders -> [Products -> ReservationStatuses \cup {"none"}]]
  BY DEF TypeOK, UpdateRows

\* An enqueued event has a known type.
LEMMA EnqueueType ==
    ASSUME TypeOK, NEW o \in Orders, NEW type \in EventTypes, Enqueue(o, type)
    PROVE  outbox' \in [Orders -> Seq(EventTypes)]
  <1>1. Append(outbox[o], type) \in Seq(EventTypes)
    BY DEF TypeOK
  <1>. QED
    BY <1>1 DEF TypeOK, Enqueue

\* A release keeps stock, reservations and ledger well typed.
LEMMA ReleaseType ==
    ASSUME TypeOK, NEW o \in Orders, ReleaseRows(o, HeldRows(o))
    PROVE  /\ stock' \in [Products -> Nat]
           /\ resv' \in [Orders -> [Products -> ReservationStatuses \cup {"none"}]]
           /\ ledger' \in [Orders -> [Products -> Seq({"hold", "release", "commit"})]]
  <1>1. HeldRows(o) \in SUBSET Products
    BY DEF HeldRows
  <1>2. stock' \in [Products -> Nat]
    BY DEF TypeOK, ReleaseRows
  <1>. QED
    BY <1>1, <1>2, LedgerAppendType, UpdateRowsType DEF ReleaseRows, ReservationStatuses

\* A commit keeps stock, reservations and ledger well typed.
LEMMA CommitType ==
    ASSUME TypeOK, NEW o \in Orders, CommitRows(o, HeldRows(o))
    PROVE  /\ stock' \in [Products -> Nat]
           /\ resv' \in [Orders -> [Products -> ReservationStatuses \cup {"none"}]]
           /\ ledger' \in [Orders -> [Products -> Seq({"hold", "release", "commit"})]]
  <1>1. HeldRows(o) \in SUBSET Products
    BY DEF HeldRows
  <1>. QED
    BY <1>1, LedgerAppendType, UpdateRowsType DEF TypeOK, CommitRows, ReservationStatuses

\* Saving an order keeps its row well typed.
LEMMA SaveOrderType ==
    ASSUME TypeOK, NEW o \in Orders, NEW next \in OrderStatuses, SaveOrder(o, next)
    PROVE  /\ status' \in [Orders -> OrderStatuses \cup {NoOrder}]
           /\ version' \in [Orders -> Nat]
           /\ items' \in [Orders -> [Products -> Nat]]
  BY DEF TypeOK, SaveOrder

\* A payment insert keeps the payments well typed.
LEMMA InsertPaymentType ==
    ASSUME TypeOK, NEW o \in Orders, NEW k \in AttemptKeys,
           NEW result \in PaymentStatuses, InsertPayment(o, k, result)
    PROVE  payments' \in [Orders -> [AttemptKeys -> PaymentStatuses \cup {"none"}]]
  BY DEF TypeOK, InsertPayment

\* A claim keeps the inbox well typed.
LEMMA ClaimType ==
    ASSUME TypeOK, NEW o \in Orders, NEW n \in Nat,
           NEW c \in {"payment", "inventory"}, Claim(c, o, n)
    PROVE  inbox' \subseteq {"payment", "inventory"} \X Orders \X Nat
  BY DEF TypeOK, Claim

\* cancelLocked keeps the tables it writes well typed.
LEMMA CancelType ==
    ASSUME TypeOK, NEW o \in Orders, cancelLocked(o),
           UNCHANGED <<overdue, faults>>, sweep' \in [Replicas -> SUBSET Orders]
    PROVE  TypeOK'
  <1>1. /\ stock' \in [Products -> Nat]
        /\ resv' \in [Orders -> [Products -> ReservationStatuses \cup {"none"}]]
        /\ ledger' \in [Orders -> [Products -> Seq({"hold", "release", "commit"})]]
    BY ReleaseType DEF cancelLocked, releaseReservations
  <1>2. /\ status' \in [Orders -> OrderStatuses \cup {NoOrder}]
        /\ version' \in [Orders -> Nat]
        /\ items' \in [Orders -> [Products -> Nat]]
    BY SaveOrderType DEF cancelLocked, OrderStatuses
  <1>3. outbox' \in [Orders -> Seq(EventTypes)]
    BY EnqueueType DEF cancelLocked, EventTypes
  <1>. QED
    BY <1>1, <1>2, <1>3 DEF TypeOK, cancelLocked

\* A charge or a decline keeps the tables it writes well typed.
LEMMA PaymentType ==
    ASSUME TypeOK, NEW o \in Orders, NEW k \in AttemptKeys,
           \/ /\ InsertPayment(o, k, "failed")
              /\ SaveOrder(o, "payment_failed")
              /\ ReleaseRows(o, HeldRows(o))
              /\ Enqueue(o, "order.payment_failed")
           \/ /\ InsertPayment(o, k, "succeeded")
              /\ SaveOrder(o, "paid")
              /\ CommitRows(o, HeldRows(o))
              /\ Enqueue(o, "order.paid"),
           inbox' \subseteq {"payment", "inventory"} \X Orders \X Nat,
           UNCHANGED <<overdue, sweep, faults>>
    PROVE  TypeOK'
  <1>1. /\ stock' \in [Products -> Nat]
        /\ resv' \in [Orders -> [Products -> ReservationStatuses \cup {"none"}]]
        /\ ledger' \in [Orders -> [Products -> Seq({"hold", "release", "commit"})]]
    BY ReleaseType, CommitType
  <1>2. /\ status' \in [Orders -> OrderStatuses \cup {NoOrder}]
        /\ version' \in [Orders -> Nat]
        /\ items' \in [Orders -> [Products -> Nat]]
    BY SaveOrderType DEF OrderStatuses
  <1>3. outbox' \in [Orders -> Seq(EventTypes)]
    BY EnqueueType DEF EventTypes
  <1>4. payments' \in [Orders -> [AttemptKeys -> PaymentStatuses \cup {"none"}]]
    BY InsertPaymentType DEF PaymentStatuses
  <1>. QED
    BY <1>1, <1>2, <1>3, <1>4 DEF TypeOK

\* Every step keeps every table well typed.
LEMMA TypeStep == TypeOK /\ [Next]_vars => TypeOK'
  <1> SUFFICES ASSUME TypeOK, [Next]_vars PROVE TypeOK'
    OBVIOUS
  <1> USE ConstantsAssumption
  <1>1. ASSUME NEW o \in Orders, NEW cart \in Carts, CreateOrder(o, cart) PROVE TypeOK'
    <2> DEFINE lines == {p \in Products : cart[p] > 0}
    <2>1. stock' \in [Products -> Nat]
      BY <1>1 DEF TypeOK, CreateOrder
    <2>2. items' \in [Orders -> [Products -> Nat]]
      BY <1>1 DEF TypeOK, CreateOrder, InsertLines
    <2>3. resv' \in [Orders -> [Products -> ReservationStatuses \cup {"none"}]]
      <3>1. UpdateRows(o, lines, "held")
        BY <1>1 DEF CreateOrder, InsertLines
      <3>. QED
        BY <3>1, UpdateRowsType DEF ReservationStatuses
    <2>4. ledger' \in [Orders -> [Products -> Seq({"hold", "release", "commit"})]]
      <3>1. LedgerAppend(o, lines, "hold")
        BY <1>1 DEF CreateOrder, InsertLines
      <3>. QED
        BY <3>1, LedgerAppendType
    <2>5. outbox' \in [Orders -> Seq(EventTypes)]
      BY <1>1, EnqueueType DEF CreateOrder, EventTypes
    <2>6. /\ status' \in [Orders -> OrderStatuses \cup {NoOrder}]
          /\ version' \in [Orders -> Nat]
      BY <1>1 DEF TypeOK, CreateOrder, OrderStatuses
    <2>. QED
      BY <1>1, <2>1, <2>2, <2>3, <2>4, <2>5, <2>6 DEF TypeOK, CreateOrder
  <1>2. ASSUME NEW o \in Orders, Cancel(o) PROVE TypeOK'
    BY <1>2, CancelType DEF Cancel, TypeOK
  <1>3. ASSUME NEW o \in Orders, NEW k \in Keys, PayFail(o, k) PROVE TypeOK'
    BY <1>3, PaymentType DEF PayFail, releaseReservations, AttemptKeys, TypeOK
  <1>4. ASSUME NEW o \in Orders, NEW k \in Keys, PaySuccess(o, k) PROVE TypeOK'
    BY <1>4, PaymentType DEF PaySuccess, commitReservations, AttemptKeys, TypeOK
  <1>5. ASSUME NEW o \in Orders, Fulfill(o) PROVE TypeOK'
    <2>1. /\ status' \in [Orders -> OrderStatuses \cup {NoOrder}]
          /\ version' \in [Orders -> Nat]
          /\ items' \in [Orders -> [Products -> Nat]]
      BY <1>5, SaveOrderType DEF Fulfill, OrderStatuses
    <2>2. outbox' \in [Orders -> Seq(EventTypes)]
      BY <1>5, EnqueueType DEF Fulfill, EventTypes
    <2>. QED
      BY <1>5, <2>1, <2>2 DEF TypeOK, Fulfill
  <1>6. ASSUME NEW o \in Orders, HoldTTLElapses(o) PROVE TypeOK'
    BY <1>6 DEF TypeOK, HoldTTLElapses, orderVars
  <1>7. ASSUME NEW o \in Orders, NEW n \in DOMAIN outbox[o], HandleOrderCreated(o, n)
        PROVE  TypeOK'
    <2>1. inbox' \subseteq {"payment", "inventory"} \X Orders \X Nat
      <3>1. n \in Nat
        BY DEF TypeOK
      <3>. QED
        BY <1>7, <3>1, ClaimType DEF HandleOrderCreated
    <2>2. CASE WorkerCharge(o) \/ WorkerDecline(o)
      BY <1>7, <2>1, <2>2, PaymentType
         DEF HandleOrderCreated, WorkerCharge, WorkerDecline, commitHeld, releaseHeld,
             AttemptKeys
    <2>3. CASE UNCHANGED <<stock, orderVars, resv, payments, outbox, ledger>>
      BY <1>7, <2>1, <2>3 DEF TypeOK, HandleOrderCreated, orderVars
    <2>. QED
      BY <1>7, <2>2, <2>3 DEF HandleOrderCreated
  <1>8. ASSUME NEW o \in Orders, NEW n \in DOMAIN outbox[o], InventoryHandle(o, n)
        PROVE  TypeOK'
    <2>1. inbox' \subseteq {"payment", "inventory"} \X Orders \X Nat
      <3>1. n \in Nat
        BY DEF TypeOK
      <3>. QED
        BY <1>8, <3>1, ClaimType DEF InventoryHandle
    <2>2. /\ stock' \in [Products -> Nat]
          /\ resv' \in [Orders -> [Products -> ReservationStatuses \cup {"none"}]]
          /\ ledger' \in [Orders -> [Products -> Seq({"hold", "release", "commit"})]]
      BY <1>8, ReleaseType, CommitType DEF InventoryHandle, commitTX, releaseTX
    <2>. QED
      BY <1>8, <2>1, <2>2 DEF TypeOK, InventoryHandle, orderVars
  <1>9. ASSUME NEW r \in Replicas, ListExpiredPendingIDs(r) PROVE TypeOK'
    BY <1>9 DEF TypeOK, ListExpiredPendingIDs, ExpiredPendingIDs, orderVars
  <1>10. ASSUME NEW r \in Replicas, ExpireNext(r) PROVE TypeOK'
    <2> PICK o \in sweep[r] :
          /\ \/ cancelLocked(o)
             \/ UNCHANGED <<stock, orderVars, resv, payments, outbox, inbox, ledger>>
          /\ sweep' = [sweep EXCEPT ![r] = @ \ {o}]
          /\ UNCHANGED <<overdue, faults>>
      BY <1>10 DEF ExpireNext
    <2>1. o \in Orders /\ sweep' \in [Replicas -> SUBSET Orders]
      BY DEF TypeOK
    <2>2. CASE cancelLocked(o)
      BY <2>1, <2>2, CancelType
    <2>3. CASE UNCHANGED <<stock, orderVars, resv, payments, outbox, inbox, ledger>>
      BY <2>1, <2>3 DEF TypeOK, orderVars
    <2>. QED
      BY <2>2, <2>3
  <1>11. ASSUME NEW r \in Replicas, RestartAPI(r) \/ ExpireFails(r) PROVE TypeOK'
    <2>1. faults' \in 0..MaxFaults
      BY <1>11 DEF TypeOK, RestartAPI, ExpireFails
    <2>2. sweep' \in [Replicas -> SUBSET Orders]
      BY <1>11 DEF TypeOK, RestartAPI, ExpireFails
    <2>. QED
      BY <1>11, <2>1, <2>2 DEF TypeOK, RestartAPI, ExpireFails, orderVars
  <1>12. CASE UNCHANGED vars
    BY <1>12 DEF TypeOK, vars
  <1>. QED
    BY <1>1, <1>2, <1>3, <1>4, <1>5, <1>6, <1>7, <1>8, <1>9, <1>10, <1>11, <1>12
       DEF Next

\* Initially every table is empty and the stock is the given one.
LEMMA TypeInit == Init => TypeOK
  BY ConstantsAssumption
     DEF Init, TypeOK, EmptyCart, NoRow, NoOrder

\* The tables stay well typed in every behaviour; in particular no interleaving
\* of orders, sweeps, payments and events drives a product's stock below zero.
THEOREM TypeCorrect == Spec => []TypeOK
  BY TypeInit, TypeStep, PTL DEF Spec

-----------------------------------------------------------------------------
(***************************************************************************)
(* The safety invariant.  No conjunct is inductive alone: that a charge    *)
(* finds held rows needs HoldsMatchStatus, that the inventory worker finds *)
(* none needs the history in the outbox as well.                           *)
(***************************************************************************)
IInv ==
    /\ TypeOK
    /\ HoldsMatchStatus
    /\ ChargedOnce
    /\ LedgerTellsReservation
    /\ StockConserved
    /\ OutboxTellsHistory
    /\ PaidUncommittedWasDeclined

(***************************************************************************)
(* Seen from the tables of one order, a step is one of five transactions   *)
(* or leaves them alone.                                                   *)
(***************************************************************************)
tables == <<stock, status, version, items, resv, payments, outbox, ledger>>

CreateTx(o, cart) ==
    /\ status[o] = NoOrder
    /\ stock' = [p \in Products |-> stock[p] - cart[p]]
    /\ InsertLines(o, cart)
    /\ status' = [status EXCEPT ![o] = "pending_payment"]
    /\ version' = [version EXCEPT ![o] = 1]
    /\ Enqueue(o, "order.created")
    /\ UNCHANGED payments

CancelTx(o) ==
    /\ status[o] \in {"pending_payment", "payment_failed"}
    /\ ReleaseRows(o, HeldRows(o))
    /\ SaveOrder(o, "cancelled")
    /\ Enqueue(o, "order.cancelled")
    /\ UNCHANGED payments

DeclineTx(o, k) ==
    /\ status[o] = "pending_payment"
    /\ InsertPayment(o, k, "failed")
    /\ SaveOrder(o, "payment_failed")
    /\ ReleaseRows(o, HeldRows(o))
    /\ Enqueue(o, "order.payment_failed")

ChargeTx(o, k) ==
    /\ status[o] \in {"pending_payment", "payment_failed"}
    /\ InsertPayment(o, k, "succeeded")
    /\ SaveOrder(o, "paid")
    /\ CommitRows(o, HeldRows(o))
    /\ Enqueue(o, "order.paid")

FulfillTx(o) ==
    /\ status[o] = "paid"
    /\ SaveOrder(o, "fulfilled")
    /\ Enqueue(o, "order.fulfilled")
    /\ UNCHANGED <<stock, resv, payments, ledger>>

TxStep ==
    \/ \E o \in Orders :
         \/ \E cart \in Carts : CreateTx(o, cart)
         \/ CancelTx(o)
         \/ \E k \in AttemptKeys : DeclineTx(o, k) \/ ChargeTx(o, k)
         \/ FulfillTx(o)
    \/ UNCHANGED tables

\* The transition table, read backwards.
LEMMA TransitionTable ==
    ASSUME NEW from, NEW to, CanTransition(from, to)
    PROVE  /\ from \in {"pending_payment", "payment_failed", "paid"}
           /\ to \in {"paid", "payment_failed", "cancelled", "fulfilled"}
           /\ to = "payment_failed" => from = "pending_payment"
           /\ to \in {"paid", "cancelled"} => from \in {"pending_payment", "payment_failed"}
           /\ to = "fulfilled" => from = "paid"
  BY DEF CanTransition, allowedTransitions

\* Once an event other than order.created exists, nothing is held for the order.
LEMMA SettledBeforeAnnounced ==
    ASSUME IInv, NEW o \in Orders, NEW n \in DOMAIN outbox[o],
           outbox[o][n] # "order.created"
    PROVE  HeldRows(o) = {}
  <1>1. /\ version[o] \in Nat
        /\ n \in 1..version[o]
        /\ version[o] > 0
    BY DEF IInv, TypeOK, OutboxTellsHistory
  <1>2. n # 1 /\ version[o] >= 2
    BY <1>1 DEF IInv, OutboxTellsHistory
  <1>3. outbox[o][version[o]] # "order.created"
    <2>1. PICK from \in OrderStatuses, to \in OrderStatuses :
            CanTransition(from, to) /\ outbox[o][version[o]] = EventOf(to)
      BY <1>1, <1>2 DEF IInv, OutboxTellsHistory
    <2>. QED
      BY <2>1, TransitionTable DEF EventOf
  <1>4. status[o] # "pending_payment"
    BY <1>1, <1>3 DEF IInv, OutboxTellsHistory, EventOf
  <1>. QED
    BY <1>4 DEF IInv, HoldsMatchStatus, HoldAllowed, HeldRows

\* Settling no rows changes nothing.
LEMMA SettleNothing ==
    ASSUME TypeOK, NEW o \in Orders,
           ReleaseRows(o, {}) \/ CommitRows(o, {})
    PROVE  UNCHANGED <<stock, resv, ledger>>
  BY DEF TypeOK, ReleaseRows, CommitRows, UpdateRows, LedgerAppend

\* The inventory worker's settlement therefore finds nothing to do.
LEMMA InventoryIdle ==
    ASSUME IInv, NEW o \in Orders, NEW n \in DOMAIN outbox[o], InventoryHandle(o, n)
    PROVE  UNCHANGED <<stock, resv, ledger>>
  BY SettledBeforeAnnounced, SettleNothing
     DEF IInv, InventoryHandle, releaseTX, commitTX

\* Every step of the order core is one of the transactions.
LEMMA StepIsTx == IInv /\ [Next]_vars => TxStep
  <1> SUFFICES ASSUME IInv, [Next]_vars PROVE TxStep
    OBVIOUS
  <1>1. ASSUME NEW o \in Orders, NEW cart \in Carts, CreateOrder(o, cart) PROVE TxStep
    BY <1>1 DEF TxStep, CreateOrder, CreateTx, NextId
  <1>2. ASSUME NEW o \in Orders, cancelLocked(o) PROVE TxStep
    BY <1>2, TransitionTable DEF TxStep, CancelTx, cancelLocked, releaseReservations
  <1>3. ASSUME NEW o \in Orders, NEW k \in Keys, PayFail(o, k) PROVE TxStep
    <2>1. DeclineTx(o, k)
      BY <1>3, TransitionTable DEF DeclineTx, PayFail, releaseReservations
    <2>. QED
      BY <2>1 DEF TxStep, AttemptKeys
  <1>4. ASSUME NEW o \in Orders, NEW k \in Keys, PaySuccess(o, k) PROVE TxStep
    <2>1. ChargeTx(o, k)
      BY <1>4, TransitionTable DEF ChargeTx, PaySuccess, commitReservations
    <2>. QED
      BY <2>1 DEF TxStep, AttemptKeys
  <1>5. ASSUME NEW o \in Orders, Fulfill(o) PROVE TxStep
    BY <1>5, TransitionTable DEF TxStep, Fulfill, FulfillTx
  <1>6. ASSUME NEW o \in Orders, HoldTTLElapses(o) PROVE TxStep
    BY <1>6 DEF TxStep, HoldTTLElapses, orderVars, tables
  <1>7. ASSUME NEW o \in Orders, NEW n \in DOMAIN outbox[o], HandleOrderCreated(o, n)
        PROVE  TxStep
    <2>1. CASE UNCHANGED <<stock, orderVars, resv, payments, outbox, ledger>>
      BY <2>1 DEF TxStep, tables, orderVars
    <2>2. CASE CanTransition(status[o], "paid") /\ WorkerCharge(o)
      <3>1. ChargeTx(o, EvtKey)
        BY <2>2, TransitionTable DEF ChargeTx, WorkerCharge, commitHeld
      <3>. QED
        BY <3>1 DEF TxStep, AttemptKeys
    <2>3. CASE CanTransition(status[o], "payment_failed") /\ WorkerDecline(o)
      <3>1. DeclineTx(o, EvtKey)
        BY <2>3, TransitionTable DEF DeclineTx, WorkerDecline, releaseHeld
      <3>. QED
        BY <3>1 DEF TxStep, AttemptKeys
    <2>. QED
      BY <1>7, <2>1, <2>2, <2>3 DEF HandleOrderCreated
  <1>8. ASSUME NEW o \in Orders, NEW n \in DOMAIN outbox[o], InventoryHandle(o, n)
        PROVE  TxStep
    BY <1>8, InventoryIdle DEF TxStep, tables, InventoryHandle, orderVars
  <1>9. ASSUME NEW r \in Replicas, ListExpiredPendingIDs(r) \/ ExpireFails(r) \/ RestartAPI(r)
        PROVE  TxStep
    BY <1>9 DEF TxStep, ListExpiredPendingIDs, ExpireFails, RestartAPI, orderVars, tables
  <1>10. ASSUME NEW r \in Replicas, ExpireNext(r) PROVE TxStep
    <2> PICK o \in sweep[r] :
          \/ cancelLocked(o)
          \/ UNCHANGED <<stock, orderVars, resv, payments, outbox, inbox, ledger>>
      BY <1>10 DEF ExpireNext
    <2>1. o \in Orders
      BY DEF IInv, TypeOK
    <2>. QED
      BY <1>2, <2>1 DEF TxStep, orderVars, tables
  <1>11. CASE UNCHANGED vars
    BY <1>11 DEF TxStep, vars, tables
  <1>. QED
    BY <1>1, <1>2, <1>3, <1>4, <1>5, <1>6, <1>7, <1>8, <1>9, <1>10, <1>11
       DEF Next, Cancel

-----------------------------------------------------------------------------
(* Each transaction preserves each conjunct. *)

\* A hold is taken with its order and settled with it.
LEMMA HoldsStep == IInv /\ TxStep => HoldsMatchStatus'
  <1> SUFFICES ASSUME IInv, TxStep, NEW q \in Orders, NEW p \in Products
               PROVE  resv'[q][p] \in (IF items'[q][p] > 0 THEN HoldAllowed(status'[q])
                                                           ELSE {"none"})
    BY DEF HoldsMatchStatus
  <1>0. /\ resv[q][p] \in (IF items[q][p] > 0 THEN HoldAllowed(status[q]) ELSE {"none"})
        /\ items[q][p] \in Nat
    BY DEF IInv, HoldsMatchStatus, TypeOK
  <1>1. ASSUME NEW o \in Orders, NEW cart \in Carts, CreateTx(o, cart)
        PROVE  resv'[q][p] \in (IF items'[q][p] > 0 THEN HoldAllowed(status'[q])
                                                    ELSE {"none"})
    <2>1. CASE q = o
      <3>1. resv[o][p] = "none"
        BY <1>0, <1>1, <2>1 DEF CreateTx, NoOrder, HoldAllowed
      <3>2. items'[o] = cart /\ cart[p] \in Nat /\ status'[o] = "pending_payment"
        BY <1>1, ConstantsAssumption DEF CreateTx, InsertLines, IInv, TypeOK
      <3>3. resv'[o][p] = IF cart[p] > 0 THEN "held" ELSE resv[o][p]
        BY <1>1 DEF CreateTx, InsertLines, UpdateRows, IInv, TypeOK
      <3>. QED
        BY <2>1, <3>1, <3>2, <3>3 DEF HoldAllowed
    <2>2. CASE q # o
      BY <1>0, <1>1, <2>2 DEF CreateTx, InsertLines, UpdateRows, IInv, TypeOK
    <2>. QED
      BY <2>1, <2>2
  <1>2. ASSUME NEW o \in Orders,
               \/ CancelTx(o)
               \/ \E k \in AttemptKeys : DeclineTx(o, k) \/ ChargeTx(o, k)
        PROVE  resv'[q][p] \in (IF items'[q][p] > 0 THEN HoldAllowed(status'[q])
                                                    ELSE {"none"})
    <2>1. items' = items
      BY <1>2 DEF CancelTx, DeclineTx, ChargeTx, SaveOrder
    <2>2. CASE q = o
      <3>1. CASE CancelTx(o) \/ \E k \in AttemptKeys : DeclineTx(o, k)
        <4>1. status'[o] \in {"cancelled", "payment_failed"}
          <5>1. CASE CancelTx(o)
            BY <5>1 DEF CancelTx, SaveOrder, IInv, TypeOK
          <5>2. CASE \E k \in AttemptKeys : DeclineTx(o, k)
            BY <5>2 DEF DeclineTx, SaveOrder, IInv, TypeOK
          <5>. QED
            BY <3>1, <5>1, <5>2
        <4>2. resv'[o][p] = IF resv[o][p] = "held" THEN "released" ELSE resv[o][p]
          <5>1. ReleaseRows(o, HeldRows(o))
            BY <3>1 DEF CancelTx, DeclineTx
          <5>. QED
            BY <5>1 DEF ReleaseRows, UpdateRows, HeldRows, IInv, TypeOK
        <4>3. status[o] \in {"pending_payment", "payment_failed"}
          BY <3>1 DEF CancelTx, DeclineTx
        <4>. QED
          BY <1>0, <2>1, <2>2, <4>1, <4>2, <4>3 DEF HoldAllowed
      <3>2. CASE \E k \in AttemptKeys : ChargeTx(o, k)
        <4>1. status'[o] = "paid"
          BY <3>2 DEF ChargeTx, SaveOrder, IInv, TypeOK
        <4>2. resv'[o][p] = IF resv[o][p] = "held" THEN "committed" ELSE resv[o][p]
          BY <3>2 DEF ChargeTx, CommitRows, UpdateRows, HeldRows, IInv, TypeOK
        <4>3. status[o] \in {"pending_payment", "payment_failed"}
          BY <3>2 DEF ChargeTx
        <4>. QED
          BY <1>0, <2>1, <2>2, <4>1, <4>2, <4>3 DEF HoldAllowed
      <3>. QED
        BY <1>2, <3>1, <3>2
    <2>3. CASE q # o
      BY <1>0, <1>2, <2>1, <2>3
         DEF CancelTx, DeclineTx, ChargeTx, SaveOrder, ReleaseRows, CommitRows, UpdateRows,
             IInv, TypeOK
    <2>. QED
      BY <2>2, <2>3
  <1>3. ASSUME NEW o \in Orders, FulfillTx(o)
        PROVE  resv'[q][p] \in (IF items'[q][p] > 0 THEN HoldAllowed(status'[q])
                                                    ELSE {"none"})
    BY <1>0, <1>3 DEF FulfillTx, SaveOrder, HoldAllowed, IInv, TypeOK
  <1>4. CASE UNCHANGED tables
    BY <1>0, <1>4 DEF tables
  <1>. QED
    BY <1>1, <1>2, <1>3, <1>4 DEF TxStep

\* A charge happens only while no attempt succeeded, and makes the order paid.
LEMMA ChargeStep == IInv /\ TxStep => ChargedOnce'
  <1> DEFINE Once(q) ==
        /\ \A a, b \in AttemptKeys :
             payments[q][a] = "succeeded" /\ payments[q][b] = "succeeded" => a = b
        /\ status[q] \in {"paid", "fulfilled"}
             <=> \E a \in AttemptKeys : payments[q][a] = "succeeded"
  <1> SUFFICES ASSUME IInv, TxStep, NEW q \in Orders PROVE Once(q)'
    BY DEF ChargedOnce
  <1>0. Once(q)
    BY DEF IInv, ChargedOnce
  <1>1. ASSUME NEW o \in Orders, NEW cart \in Carts, CreateTx(o, cart) PROVE Once(q)'
    BY <1>0, <1>1 DEF CreateTx, NoOrder, IInv, TypeOK
  <1>2. ASSUME NEW o \in Orders, CancelTx(o) \/ FulfillTx(o) PROVE Once(q)'
    BY <1>0, <1>2 DEF CancelTx, FulfillTx, SaveOrder, IInv, TypeOK
  <1>3. ASSUME NEW o \in Orders, NEW k \in AttemptKeys, DeclineTx(o, k) PROVE Once(q)'
    BY <1>0, <1>3 DEF DeclineTx, SaveOrder, InsertPayment, IInv, TypeOK
  <1>4. ASSUME NEW o \in Orders, NEW k \in AttemptKeys, ChargeTx(o, k) PROVE Once(q)'
    <2>1. CASE q = o
      <3>1. \A a \in AttemptKeys : payments[o][a] # "succeeded"
        BY <1>0, <1>4, <2>1 DEF ChargeTx
      <3>2. \A a \in AttemptKeys :
              payments'[o][a] = IF a = k THEN "succeeded" ELSE payments[o][a]
        BY <1>4 DEF ChargeTx, InsertPayment, IInv, TypeOK
      <3>3. status'[o] = "paid"
        BY <1>4 DEF ChargeTx, SaveOrder, IInv, TypeOK
      <3>. QED
        BY <2>1, <3>1, <3>2, <3>3
    <2>2. CASE q # o
      BY <1>0, <1>4, <2>2 DEF ChargeTx, SaveOrder, InsertPayment, IInv, TypeOK
    <2>. QED
      BY <2>1, <2>2
  <1>5. CASE UNCHANGED tables
    BY <1>0, <1>5 DEF tables
  <1>. QED
    BY <1>1, <1>2, <1>3, <1>4, <1>5 DEF TxStep

\* Appending to a sequence of one element.
LEMMA AppendToOne ==
    ASSUME NEW S, NEW a \in S, NEW b \in S
    PROVE  Append(<<a>>, b) = <<a, b>>
  <1>1. <<a>> \in Seq(S) /\ Len(<<a>>) = 1
    OBVIOUS
  <1>2. Append(<<a>>, b) \in Seq(S) /\ Len(Append(<<a>>, b)) = 2
    BY <1>1
  <1>3. <<a, b>> \in Seq(S) /\ Len(<<a, b>>) = 2
    OBVIOUS
  <1>4. \A i \in 1..2 : Append(<<a>>, b)[i] = <<a, b>>[i]
    BY <1>1
  <1>. QED
    BY <1>2, <1>3, <1>4, SeqEqual

\* A reservation that is not held has its ledger left alone; a held one gets
\* exactly one more row.
LEMMA LedgerStep == IInv /\ TxStep => LedgerTellsReservation'
  <1> DEFINE Life(st) == CASE st = "held"      -> <<"hold">>
                           [] st = "released"  -> <<"hold", "release">>
                           [] st = "committed" -> <<"hold", "commit">>
                           [] OTHER            -> << >>
  <1> SUFFICES ASSUME IInv, TxStep, NEW q \in Orders, NEW p \in Products
               PROVE  ledger'[q][p] = Life(resv'[q][p])
    BY DEF LedgerTellsReservation
  <1>0. ledger[q][p] = Life(resv[q][p])
    BY DEF IInv, LedgerTellsReservation
  <1>a. /\ Append(<< >>, "hold") = <<"hold">>
        /\ Append(<<"hold">>, "release") = <<"hold", "release">>
        /\ Append(<<"hold">>, "commit") = <<"hold", "commit">>
    <2> DEFINE R == {"hold", "release", "commit"}
    <2>1. "hold" \in R /\ "release" \in R /\ "commit" \in R
      OBVIOUS
    <2>2. Append(<< >>, "hold") = <<"hold">>
      OBVIOUS
    <2>3. Append(<<"hold">>, "release") = <<"hold", "release">>
      BY <2>1, AppendToOne
    <2>4. Append(<<"hold">>, "commit") = <<"hold", "commit">>
      BY <2>1, AppendToOne
    <2>. QED
      BY <2>2, <2>3, <2>4
  <1>1. ASSUME NEW o \in Orders, NEW cart \in Carts, CreateTx(o, cart)
        PROVE  ledger'[q][p] = Life(resv'[q][p])
    <2>1. CASE q = o
      <3>1. resv[o][p] = "none"
        BY <1>1 DEF CreateTx, NoOrder, HoldAllowed, HoldsMatchStatus, IInv
      <3>2. /\ resv'[o][p] = IF cart[p] > 0 THEN "held" ELSE resv[o][p]
            /\ ledger'[o][p] = IF cart[p] > 0 THEN Append(ledger[o][p], "hold")
                                              ELSE ledger[o][p]
        BY <1>1 DEF CreateTx, InsertLines, UpdateRows, LedgerAppend, IInv, TypeOK
      <3>. QED
        BY <1>0, <1>a, <2>1, <3>1, <3>2
    <2>2. CASE q # o
      BY <1>0, <1>1, <2>2
         DEF CreateTx, InsertLines, UpdateRows, LedgerAppend, IInv, TypeOK
    <2>. QED
      BY <2>1, <2>2
  <1>2. ASSUME NEW o \in Orders,
               \/ CancelTx(o)
               \/ \E k \in AttemptKeys : DeclineTx(o, k)
        PROVE  ledger'[q][p] = Life(resv'[q][p])
    <2>1. ReleaseRows(o, HeldRows(o))
      BY <1>2 DEF CancelTx, DeclineTx
    <2>2. CASE q = o /\ resv[o][p] = "held"
      <3>1. resv'[o][p] = "released" /\ ledger'[o][p] = Append(ledger[o][p], "release")
        BY <2>1, <2>2 DEF ReleaseRows, UpdateRows, LedgerAppend, HeldRows, IInv, TypeOK
      <3>. QED
        BY <1>0, <1>a, <2>2, <3>1
    <2>3. CASE q # o \/ resv[o][p] # "held"
      <3>1. resv'[q][p] = resv[q][p] /\ ledger'[q][p] = ledger[q][p]
        BY <2>1, <2>3 DEF ReleaseRows, UpdateRows, LedgerAppend, HeldRows, IInv, TypeOK
      <3>. QED
        BY <1>0, <3>1
    <2>. QED
      BY <2>2, <2>3
  <1>3. ASSUME NEW o \in Orders, NEW k \in AttemptKeys, ChargeTx(o, k)
        PROVE  ledger'[q][p] = Life(resv'[q][p])
    <2>1. CommitRows(o, HeldRows(o))
      BY <1>3 DEF ChargeTx
    <2>2. CASE q = o /\ resv[o][p] = "held"
      <3>1. resv'[o][p] = "committed" /\ ledger'[o][p] = Append(ledger[o][p], "commit")
        BY <2>1, <2>2 DEF CommitRows, UpdateRows, LedgerAppend, HeldRows, IInv, TypeOK
      <3>. QED
        BY <1>0, <1>a, <2>2, <3>1
    <2>3. CASE q # o \/ resv[o][p] # "held"
      <3>1. resv'[q][p] = resv[q][p] /\ ledger'[q][p] = ledger[q][p]
        BY <2>1, <2>3 DEF CommitRows, UpdateRows, LedgerAppend, HeldRows, IInv, TypeOK
      <3>. QED
        BY <1>0, <3>1
    <2>. QED
      BY <2>2, <2>3
  <1>4. ASSUME NEW o \in Orders, FulfillTx(o) PROVE ledger'[q][p] = Life(resv'[q][p])
    BY <1>0, <1>4 DEF FulfillTx
  <1>5. CASE UNCHANGED tables
    BY <1>0, <1>5 DEF tables
  <1>. QED
    BY <1>1, <1>2, <1>3, <1>4, <1>5 DEF TxStep

\* Units leave the shelf when a reservation is made and come back when it is
\* released; a commit moves nothing.
LEMMA StockStep == IInv /\ TypeOK' /\ TxStep => StockConserved'
  <1> SUFFICES ASSUME IInv, TypeOK', TxStep, NEW p \in Products
               PROVE  stock'[p] + SumFunctionOnSet(Taken(p)', Orders) = InitStock[p]
    BY DEF StockConserved
  <1> DEFINE f == Taken(p)
             g == Taken(p)'
             Total(h) == SumFunctionOnSet(h, Orders)
             Kept == stock'[p] + Total(g) = InitStock[p]
  <1>0. /\ TypeOK
        /\ IsFiniteSet(Orders)
        /\ stock[p] + Total(f) = InitStock[p]
        /\ stock[p] \in Nat
    <2>1. IsFiniteSet(Orders)
      BY FS_Interval, ConstantsAssumption DEF Orders
    <2>. QED
      BY <2>1 DEF IInv, StockConserved, TypeOK
  <1>1. \A o \in Orders : f[o] \in Nat /\ g[o] \in Nat
    BY <1>0 DEF Taken, TypeOK
  <1>2. Total(f) \in Nat /\ Total(g) \in Nat
    <2> HIDE DEF f, g
    <2>. QED
      BY <1>0, <1>1, SumType
  <1>3. ASSUME NEW o \in Orders, \A q \in Orders \ {o} : f[q] = g[q],
               stock'[p] + g[o] = stock[p] + f[o]
        PROVE  Kept
    <2>1. Total(g) + f[o] = Total(f) + g[o]
      <3> HIDE DEF f, g
      <3>. QED
        BY <1>0, <1>1, <1>3, SumChange
    <2>2. stock'[p] \in Nat
      BY DEF TypeOK
    <2>3. f[o] \in Nat /\ g[o] \in Nat
      BY <1>1
    <2> HIDE DEF f, g, Total
    <2>. QED
      BY <1>0, <1>2, <1>3, <2>1, <2>2, <2>3
  <1>4. ASSUME NEW o \in Orders, NEW cart \in Carts, CreateTx(o, cart) PROVE Kept
    <2>1. resv[o][p] = "none"
      BY <1>4 DEF CreateTx, IInv, HoldsMatchStatus, HoldAllowed, NoOrder
    <2>2. /\ items'[o][p] = cart[p]
          /\ cart[p] \in Nat
          /\ resv'[o][p] = IF cart[p] > 0 THEN "held" ELSE "none"
          /\ stock'[p] = stock[p] - cart[p]
      BY <1>0, <1>4, <2>1, ConstantsAssumption
         DEF CreateTx, InsertLines, UpdateRows, TypeOK
    <2>3. f[o] = 0 /\ g[o] = cart[p]
      BY <2>1, <2>2 DEF Taken
    <2>4. \A q \in Orders \ {o} : f[q] = g[q]
      BY <1>0, <1>4 DEF Taken, CreateTx, InsertLines, UpdateRows, TypeOK
    <2> HIDE DEF f, g
    <2>5. stock'[p] + g[o] = stock[p] + f[o]
      BY <1>0, <2>2, <2>3
    <2>. QED
      BY <1>3, <2>4, <2>5
  <1>5. ASSUME NEW o \in Orders, ReleaseRows(o, HeldRows(o)), UNCHANGED items PROVE Kept
    <2>1. \A q \in Orders \ {o} : f[q] = g[q]
      BY <1>0, <1>5 DEF Taken, ReleaseRows, UpdateRows, TypeOK
    <2>2. /\ items[o][p] \in Nat
          /\ resv'[o][p] = IF resv[o][p] = "held" THEN "released" ELSE resv[o][p]
          /\ stock'[p] = IF resv[o][p] = "held" THEN stock[p] + items[o][p] ELSE stock[p]
      BY <1>0, <1>5 DEF ReleaseRows, UpdateRows, HeldRows, TypeOK
    <2>3. stock'[p] + g[o] = stock[p] + f[o]
      <3>1. CASE resv[o][p] = "held"
        BY <1>0, <1>5, <2>2, <3>1 DEF Taken
      <3>2. CASE resv[o][p] # "held"
        BY <1>0, <1>5, <2>2, <3>2 DEF Taken
      <3>. QED
        BY <3>1, <3>2
    <2> HIDE DEF f, g
    <2>. QED
      BY <1>3, <2>1, <2>3
  <1>6. ASSUME \A q \in Orders : f[q] = g[q], stock'[p] = stock[p] PROVE Kept
    <2>1. Total(g) = Total(f)
      <3> HIDE DEF f, g
      <3>. QED
        BY <1>0, <1>1, <1>6, SumSame
    <2>. QED
      BY <1>0, <1>6, <2>1
  <1>7. ASSUME NEW o \in Orders, NEW k \in AttemptKeys, ChargeTx(o, k) PROVE Kept
    <2>1. \A q \in Orders : f[q] = g[q]
      BY <1>0, <1>7
         DEF Taken, ChargeTx, SaveOrder, CommitRows, UpdateRows, HeldRows, TypeOK
    <2>2. stock'[p] = stock[p]
      BY <1>7 DEF ChargeTx, CommitRows
    <2> HIDE DEF f, g
    <2>. QED
      BY <1>6, <2>1, <2>2
  <1>8. ASSUME UNCHANGED <<stock, items, resv>> PROVE Kept
    BY <1>0, <1>8 DEF Taken
  <1>. QED
    BY <1>4, <1>5, <1>7, <1>8
       DEF TxStep, CancelTx, DeclineTx, FulfillTx, SaveOrder, tables

\* The history of one order, as OutboxTellsHistory states it of every order.
HistoryOf(o) ==
    /\ Len(outbox[o]) = version[o]
    /\ version[o] > 0 <=> status[o] # NoOrder
    /\ version[o] > 0 => /\ outbox[o][1] = "order.created"
                         /\ outbox[o][version[o]] = EventOf(status[o])
    /\ \A n \in 2..version[o] :
         \E from, to \in OrderStatuses :
            /\ CanTransition(from, to)
            /\ outbox[o][n - 1] = EventOf(from)
            /\ outbox[o][n] = EventOf(to)

\* A legal change that saves the order and enqueues its event extends it.
LEMMA HistoryGrows ==
    ASSUME TypeOK, NEW o \in Orders, HistoryOf(o), NEW next \in OrderStatuses,
           CanTransition(status[o], next), SaveOrder(o, next), Enqueue(o, EventOf(next))
    PROVE  HistoryOf(o)'
  <1> DEFINE v == version[o]
  <1>1. /\ status[o] \in OrderStatuses
        /\ v \in Nat /\ v > 0
    <2>1. status[o] \in OrderStatuses /\ status[o] # NoOrder
      BY TransitionTable DEF NoOrder, OrderStatuses
    <2>. QED
      BY <2>1 DEF HistoryOf, TypeOK
  <1>2. /\ status'[o] = next
        /\ version'[o] = v + 1
    BY DEF SaveOrder, TypeOK
  <1>3. /\ outbox[o] \in Seq(EventTypes)
        /\ Len(outbox[o]) = v
        /\ outbox'[o] = Append(outbox[o], EventOf(next))
    BY DEF Enqueue, TypeOK, HistoryOf
  <1>4. /\ Len(outbox'[o]) = v + 1
        /\ \A n \in 1..v : outbox'[o][n] = outbox[o][n]
        /\ outbox'[o][v + 1] = EventOf(next)
    BY <1>1, <1>3
  <1>5. next # NoOrder
    BY DEF OrderStatuses, NoOrder
  <1>6. outbox'[o][1] = "order.created"
    BY <1>1, <1>4 DEF HistoryOf
  <1>7. ASSUME NEW n \in 2..(v + 1)
        PROVE  \E from, to \in OrderStatuses :
                  /\ CanTransition(from, to)
                  /\ outbox'[o][n - 1] = EventOf(from)
                  /\ outbox'[o][n] = EventOf(to)
    <2>1. CASE n = v + 1
      <3>1. n - 1 = v /\ v \in 1..v
        BY <1>1, <2>1
      <3>2. outbox'[o][v] = EventOf(status[o])
        BY <1>1, <1>4, <3>1 DEF HistoryOf
      <3>. QED
        BY <1>1, <1>4, <2>1, <3>1, <3>2
    <2>2. CASE n # v + 1
      <3>1. n \in 2..v /\ n - 1 \in 1..v /\ n \in 1..v
        BY <1>1, <2>2
      <3>2. PICK from \in OrderStatuses, to \in OrderStatuses :
              /\ CanTransition(from, to)
              /\ outbox[o][n - 1] = EventOf(from)
              /\ outbox[o][n] = EventOf(to)
        BY <3>1 DEF HistoryOf
      <3>3. outbox'[o][n - 1] = outbox[o][n - 1] /\ outbox'[o][n] = outbox[o][n]
        BY <1>4, <3>1
      <3>. QED
        BY <3>2, <3>3
    <2>. QED
      BY <2>1, <2>2
  <1>. QED
    BY <1>1, <1>2, <1>4, <1>5, <1>6, <1>7 DEF HistoryOf

\* What is left alone keeps its history.
LEMMA HistoryKept ==
    ASSUME NEW o \in Orders, HistoryOf(o), outbox'[o] = outbox[o],
           version'[o] = version[o], status'[o] = status[o]
    PROVE  HistoryOf(o)'
  BY DEF HistoryOf

\* Every transaction extends one order's history by its event, or none.
LEMMA HistoryStep == IInv /\ TxStep => OutboxTellsHistory'
  <1> SUFFICES ASSUME IInv, TxStep, NEW q \in Orders PROVE HistoryOf(q)'
    BY DEF OutboxTellsHistory, HistoryOf
  <1>0. HistoryOf(q) /\ TypeOK
    BY DEF IInv, OutboxTellsHistory, HistoryOf
  <1>1. ASSUME NEW o \in Orders, NEW cart \in Carts, CreateTx(o, cart) PROVE HistoryOf(q)'
    <2>1. CASE q = o
      <3>1. outbox[o] = << >>
        <4>1. version[o] = 0
          BY <1>0, <1>1, <2>1 DEF CreateTx, HistoryOf, TypeOK
        <4>2. outbox[o] \in Seq(EventTypes) /\ Len(outbox[o]) = 0
          BY <1>0, <2>1, <4>1 DEF TypeOK, HistoryOf
        <4>. QED
          BY <4>2, EmptySeq
      <3>2. outbox'[o] = <<"order.created">>
        BY <1>0, <1>1, <3>1 DEF CreateTx, Enqueue, TypeOK
      <3>3. version'[o] = 1 /\ status'[o] = "pending_payment"
        BY <1>0, <1>1 DEF CreateTx, TypeOK
      <3>. QED
        BY <2>1, <3>2, <3>3 DEF HistoryOf, EventOf, NoOrder
    <2>2. CASE q # o
      BY <1>0, <1>1, <2>2, HistoryKept DEF CreateTx, Enqueue, TypeOK
    <2>. QED
      BY <2>1, <2>2
  <1>2. ASSUME NEW o \in Orders, NEW next \in OrderStatuses,
               CanTransition(status[o], next), SaveOrder(o, next),
               Enqueue(o, EventOf(next))
        PROVE  HistoryOf(q)'
    <2>1. CASE q = o
      BY <1>0, <1>2, <2>1, HistoryGrows
    <2>2. CASE q # o
      BY <1>0, <1>2, <2>2, HistoryKept DEF SaveOrder, Enqueue, TypeOK
    <2>. QED
      BY <2>1, <2>2
  <1>3. ASSUME NEW o \in Orders, CancelTx(o) PROVE HistoryOf(q)'
    <2>1. /\ "cancelled" \in OrderStatuses
          /\ CanTransition(status[o], "cancelled")
          /\ EventOf("cancelled") = "order.cancelled"
      BY <1>3 DEF CancelTx, CanTransition, allowedTransitions, OrderStatuses, EventOf
    <2>. QED
      BY <1>2, <1>3, <2>1 DEF CancelTx
  <1>4. ASSUME NEW o \in Orders, NEW k \in AttemptKeys, DeclineTx(o, k) PROVE HistoryOf(q)'
    <2>1. /\ "payment_failed" \in OrderStatuses
          /\ CanTransition(status[o], "payment_failed")
          /\ EventOf("payment_failed") = "order.payment_failed"
      BY <1>4 DEF DeclineTx, CanTransition, allowedTransitions, OrderStatuses, EventOf
    <2>. QED
      BY <1>2, <1>4, <2>1 DEF DeclineTx
  <1>5. ASSUME NEW o \in Orders, NEW k \in AttemptKeys, ChargeTx(o, k) PROVE HistoryOf(q)'
    <2>1. /\ "paid" \in OrderStatuses
          /\ CanTransition(status[o], "paid")
          /\ EventOf("paid") = "order.paid"
      BY <1>5 DEF ChargeTx, CanTransition, allowedTransitions, OrderStatuses, EventOf
    <2>. QED
      BY <1>2, <1>5, <2>1 DEF ChargeTx
  <1>6. ASSUME NEW o \in Orders, FulfillTx(o) PROVE HistoryOf(q)'
    <2>1. /\ "fulfilled" \in OrderStatuses
          /\ CanTransition(status[o], "fulfilled")
          /\ EventOf("fulfilled") = "order.fulfilled"
      BY <1>6 DEF FulfillTx, CanTransition, allowedTransitions, OrderStatuses, EventOf
    <2>. QED
      BY <1>2, <1>6, <2>1 DEF FulfillTx
  <1>7. CASE UNCHANGED tables
    BY <1>0, <1>7, HistoryKept DEF tables
  <1>. QED
    BY <1>1, <1>3, <1>4, <1>5, <1>6, <1>7 DEF TxStep

\* A charge commits every held row, so a row left released was released by the
\* decline that the history shows.
LEMMA DeclinedStep == IInv /\ TxStep => PaidUncommittedWasDeclined'
  <1> DEFINE Declined(q) == \E n \in DOMAIN outbox[q] : outbox[q][n] = "order.payment_failed"
  <1> SUFFICES ASSUME IInv, TxStep, NEW q \in Orders, NEW p \in Products,
                      status'[q] \in {"paid", "fulfilled"}, resv'[q][p] = "released"
               PROVE  Declined(q)'
    BY DEF PaidUncommittedWasDeclined
  <1>0. /\ status[q] \in {"paid", "fulfilled"} /\ resv[q][p] = "released" => Declined(q)
        /\ TypeOK
    BY DEF IInv, PaidUncommittedWasDeclined
  <1>1. ASSUME NEW o \in Orders, NEW type \in EventTypes, Enqueue(o, type), Declined(q)
        PROVE  Declined(q)'
    <2>1. PICK n \in DOMAIN outbox[q] : outbox[q][n] = "order.payment_failed"
      BY <1>1
    <2>2. /\ outbox[q] \in Seq(EventTypes)
          /\ outbox'[q] = IF q = o THEN Append(outbox[q], type) ELSE outbox[q]
      BY <1>0, <1>1 DEF Enqueue, TypeOK
    <2>3. n \in DOMAIN outbox'[q] /\ outbox'[q][n] = outbox[q][n]
      BY <2>2
    <2>. QED
      BY <2>1, <2>3
  <1>2. ASSUME NEW o \in Orders, NEW cart \in Carts, CreateTx(o, cart) PROVE Declined(q)'
    <2>1. q # o
      BY <1>0, <1>2 DEF CreateTx, TypeOK
    <2>2. Declined(q)
      BY <1>0, <1>2, <2>1 DEF CreateTx, InsertLines, UpdateRows, TypeOK
    <2>. QED
      BY <1>1, <1>2, <2>2 DEF CreateTx, EventTypes
  <1>3. ASSUME NEW o \in Orders,
               CancelTx(o) \/ \E k \in AttemptKeys : DeclineTx(o, k)
        PROVE  Declined(q)'
    <2>0. SaveOrder(o, "cancelled") \/ SaveOrder(o, "payment_failed")
      BY <1>3 DEF CancelTx, DeclineTx
    <2>1. q # o
      BY <1>0, <2>0 DEF SaveOrder, TypeOK
    <2>2. status'[q] = status[q]
      BY <1>0, <2>0, <2>1 DEF SaveOrder, TypeOK
    <2>3. ReleaseRows(o, HeldRows(o))
      BY <1>3 DEF CancelTx, DeclineTx
    <2>4. resv'[q][p] = resv[q][p]
      BY <1>0, <2>1, <2>3 DEF ReleaseRows, UpdateRows, TypeOK
    <2>5. Declined(q)
      BY <1>0, <2>2, <2>4
    <2>6. Enqueue(o, "order.cancelled") \/ Enqueue(o, "order.payment_failed")
      BY <1>3 DEF CancelTx, DeclineTx
    <2>. QED
      BY <1>1, <2>5, <2>6 DEF EventTypes
  <1>4. ASSUME NEW o \in Orders, NEW k \in AttemptKeys, ChargeTx(o, k) PROVE Declined(q)'
    <2>1. Declined(q)
      <3>1. CASE q = o
        <4>1. resv[o][p] = "released"
          <5>1. resv'[o][p] = IF resv[o][p] = "held" THEN "committed" ELSE resv[o][p]
            BY <1>0, <1>4 DEF ChargeTx, CommitRows, UpdateRows, HeldRows, TypeOK
          <5>. QED
            BY <3>1, <5>1
        <4>2. status[o] = "payment_failed"
          BY <1>4, <4>1 DEF ChargeTx, IInv, HoldsMatchStatus, HoldAllowed
        <4>3. HistoryOf(o)
          BY DEF IInv, OutboxTellsHistory, HistoryOf
        <4>4. /\ version[o] \in Nat /\ version[o] > 0
              /\ outbox[o][version[o]] = "order.payment_failed"
          BY <1>0, <4>2, <4>3 DEF HistoryOf, EventOf, NoOrder, TypeOK
        <4>5. version[o] \in DOMAIN outbox[o]
          BY <1>0, <4>3, <4>4 DEF HistoryOf, TypeOK
        <4>. QED
          BY <3>1, <4>4, <4>5
      <3>2. CASE q # o
        BY <1>0, <1>4, <3>2
           DEF ChargeTx, SaveOrder, CommitRows, UpdateRows, TypeOK
      <3>. QED
        BY <3>1, <3>2
    <2>. QED
      BY <1>1, <1>4, <2>1 DEF ChargeTx, EventTypes
  <1>5. ASSUME NEW o \in Orders, FulfillTx(o) PROVE Declined(q)'
    <2>1. Declined(q)
      BY <1>0, <1>5 DEF FulfillTx, SaveOrder, TypeOK
    <2>. QED
      BY <1>1, <1>5, <2>1 DEF FulfillTx, EventTypes
  <1>6. CASE UNCHANGED tables
    BY <1>0, <1>6 DEF tables
  <1>. QED
    BY <1>2, <1>3, <1>4, <1>5, <1>6 DEF TxStep

-----------------------------------------------------------------------------
\* The empty tables satisfy every part of the invariant.
LEMMA IInvInit == Init => IInv
  <1> SUFFICES ASSUME Init PROVE IInv
    OBVIOUS
  <1>1. TypeOK
    BY TypeInit
  <1>2. HoldsMatchStatus /\ LedgerTellsReservation /\ PaidUncommittedWasDeclined
    BY DEF Init, HoldsMatchStatus, LedgerTellsReservation, PaidUncommittedWasDeclined,
           EmptyCart, NoRow, NoOrder
  <1>3. ChargedOnce
    BY DEF Init, ChargedOnce, NoOrder
  <1>4. OutboxTellsHistory
    BY DEF Init, OutboxTellsHistory, NoOrder
  <1>5. StockConserved
    <2> SUFFICES ASSUME NEW p \in Products
                 PROVE  stock[p] + SumFunctionOnSet(Taken(p), Orders) = InitStock[p]
      BY DEF StockConserved
    <2>1. \A o \in Orders : Taken(p)[o] = 0
      BY DEF Init, Taken, NoRow
    <2>2. IsFiniteSet(Orders)
      BY FS_Interval, ConstantsAssumption DEF Orders
    <2>3. SumFunctionOnSet(Taken(p), Orders) = 0
      BY <2>1, <2>2, SumOfZeros
    <2>. QED
      BY <2>3, ConstantsAssumption DEF Init
  <1>. QED
    BY <1>1, <1>2, <1>3, <1>4, <1>5 DEF IInv

\* Every step keeps every part of the invariant.
LEMMA IInvStep == IInv /\ [Next]_vars => IInv'
  <1> SUFFICES ASSUME IInv, [Next]_vars PROVE IInv'
    OBVIOUS
  <1>1. TypeOK'
    BY TypeStep DEF IInv
  <1>2. TxStep
    BY StepIsTx
  <1>. QED
    BY <1>1, <1>2, HoldsStep, ChargeStep, LedgerStep, StockStep, HistoryStep, DeclinedStep
       DEF IInv

\* The order core keeps its safety invariant: holds match the order's status,
\* an order is charged at most once, the ledger and the outbox tell what
\* happened, and a paid order without stock was declined before.
THEOREM SafetyInvariant == Spec => []IInv
  BY IInvInit, IInvStep, PTL DEF Spec

\* An order is charged at most once, and exactly when it is paid or fulfilled,
\* whatever keys the API and the worker use and however often events come.
THEOREM ChargesAreSingle == Spec => []ChargedOnce
  <1>1. IInv => ChargedOnce
    BY DEF IInv
  <1>. QED
    BY <1>1, SafetyInvariant, PTL

\* A line holds stock exactly while its order awaits payment.
THEOREM HoldsAreSettledOnce == Spec => []HoldsMatchStatus
  <1>1. IInv => HoldsMatchStatus
    BY DEF IInv
  <1>. QED
    BY <1>1, SafetyInvariant, PTL

\* The stock ledger shows one hold per line and at most one settlement, the one
\* that the reservation row remembers, whoever settled it and how often others
\* tried.
THEOREM LedgerIsTrue == Spec => []LedgerTellsReservation
  <1>1. IInv => LedgerTellsReservation
    BY DEF IInv
  <1>. QED
    BY <1>1, SafetyInvariant, PTL

\* Units are never lost or made: for every product, what is on the shelf and
\* what live reservations took add up to the initial stock, for any number of
\* orders and whoever settles each of them.
THEOREM StockIsConserved == Spec => []StockConserved
  <1>1. IInv => StockConserved
    BY DEF IInv
  <1>. QED
    BY <1>1, SafetyInvariant, PTL

\* The outbox is each order's history: one event per version, in order, and
\* every change a legal one.
THEOREM OutboxIsHistory == Spec => []OutboxTellsHistory
  <1>1. IInv => OutboxTellsHistory
    BY DEF IInv
  <1>. QED
    BY <1>1, SafetyInvariant, PTL

\* Only a retry after a decline pays for an order without committing stock.
THEOREM UncommittedOnlyAfterDecline == Spec => []PaidUncommittedWasDeclined
  <1>1. IInv => PaidUncommittedWasDeclined
    BY DEF IInv
  <1>. QED
    BY <1>1, SafetyInvariant, PTL

\* The inventory worker never finds anything left to settle.
THEOREM InventoryNeverActs == Spec => InventoryFindsNothing
  <1>1. IInv /\ [Next]_vars =>
          [\A o \in Orders : \A n \in DOMAIN outbox[o] :
             InventoryHandle(o, n) => UNCHANGED <<stock, resv, ledger>>]_vars
    BY InventoryIdle
  <1>. QED
    BY <1>1, SafetyInvariant, PTL DEF Spec, InventoryFindsNothing

\* Nothing reopens or touches a cancelled or fulfilled order.
THEOREM ClosedOrdersAreFinal == Spec => ClosedIsFinal
  <1> DEFINE Kept(o) == /\ status'[o] = status[o]
                        /\ payments'[o] = payments[o]
                        /\ resv'[o] = resv[o]
                        /\ outbox'[o] = outbox[o]
  <1>1. IInv /\ [Next]_vars =>
          [\A o \in Orders : status[o] \in {"cancelled", "fulfilled"} => Kept(o)]_vars
    <2> SUFFICES ASSUME IInv, [Next]_vars, NEW q \in Orders,
                        status[q] \in {"cancelled", "fulfilled"}
                 PROVE  Kept(q)
      OBVIOUS
    <2>0. TypeOK
      BY DEF IInv
    <2>1. TxStep
      BY StepIsTx
    <2>2. ASSUME NEW o \in Orders, NEW cart \in Carts, CreateTx(o, cart) PROVE Kept(q)
      BY <2>0, <2>2 DEF CreateTx, InsertLines, UpdateRows, Enqueue, NoOrder, TypeOK
    <2>3. ASSUME NEW o \in Orders, CancelTx(o) PROVE Kept(q)
      BY <2>0, <2>3 DEF CancelTx, SaveOrder, ReleaseRows, UpdateRows, Enqueue, TypeOK
    <2>4. ASSUME NEW o \in Orders, NEW k \in AttemptKeys, DeclineTx(o, k) PROVE Kept(q)
      BY <2>0, <2>4
         DEF DeclineTx, SaveOrder, ReleaseRows, UpdateRows, Enqueue, InsertPayment, TypeOK
    <2>5. ASSUME NEW o \in Orders, NEW k \in AttemptKeys, ChargeTx(o, k) PROVE Kept(q)
      BY <2>0, <2>5
         DEF ChargeTx, SaveOrder, CommitRows, UpdateRows, Enqueue, InsertPayment, TypeOK
    <2>6. ASSUME NEW o \in Orders, FulfillTx(o) PROVE Kept(q)
      BY <2>0, <2>6 DEF FulfillTx, SaveOrder, Enqueue, TypeOK
    <2>7. CASE UNCHANGED tables
      BY <2>7 DEF tables
    <2>. QED
      BY <2>1, <2>2, <2>3, <2>4, <2>5, <2>6, <2>7 DEF TxStep
  <1>. QED
    BY <1>1, SafetyInvariant, PTL DEF Spec, ClosedIsFinal
-----------------------------------------------------------------------------
(***************************************************************************)
(* The refinement: the order core implements OrderContract.                *)
(***************************************************************************)

\* Every order has a line: a cart that names no product is refused.
OrdersHaveLines ==
    \A o \in Orders : status[o] # NoOrder => \E p \in Products : items[o][p] > 0

\* Lines are written once, with the order.
LEMMA LinesInvariant == Spec => []OrdersHaveLines
  <1>1. Init => OrdersHaveLines
    BY DEF Init, OrdersHaveLines
  <1>2. IInv /\ OrdersHaveLines /\ [Next]_vars => OrdersHaveLines'
    <2> SUFFICES ASSUME IInv, OrdersHaveLines, [Next]_vars, NEW q \in Orders,
                        status'[q] # NoOrder
                 PROVE  \E p \in Products : items'[q][p] > 0
      BY DEF OrdersHaveLines
    <2>0. TypeOK /\ TxStep
      BY StepIsTx DEF IInv
    <2>1. ASSUME NEW o \in Orders, NEW cart \in Carts, CreateTx(o, cart)
          PROVE  \E p \in Products : items'[q][p] > 0
      <3>1. CASE q = o
        <4>1. items'[q] = cart
          BY <2>0, <2>1, <3>1 DEF CreateTx, InsertLines, TypeOK
        <4>. QED
          BY <4>1, ConstantsAssumption
      <3>2. CASE q # o
        BY <2>0, <2>1, <3>2 DEF CreateTx, InsertLines, TypeOK, OrdersHaveLines
      <3>. QED
        BY <3>1, <3>2
    <2>2. ASSUME NEW o \in Orders, NEW next, SaveOrder(o, next), status[o] # NoOrder
          PROVE  \E p \in Products : items'[q][p] > 0
      <3>1. items' = items /\ status[q] # NoOrder
        BY <2>0, <2>2 DEF SaveOrder, TypeOK
      <3>. QED
        BY <3>1 DEF OrdersHaveLines
    <2>3. CASE UNCHANGED tables
      BY <2>3 DEF tables, OrdersHaveLines
    <2>. QED
      BY <2>0, <2>1, <2>2, <2>3
         DEF TxStep, CancelTx, DeclineTx, ChargeTx, FulfillTx, NoOrder
  <1>. QED
    BY <1>1, <1>2, SafetyInvariant, PTL DEF Spec

\* Whether some attempt to pay for o has succeeded.
Succeeded(o) == \E k \in AttemptKeys : payments[o][k] = "succeeded"

\* A transaction that leaves the other orders' rows alone is a move of the
\* contract, whatever it makes of its own order.
LEMMA MoveOfOne ==
    ASSUME TypeOK, NEW o \in Orders, NEW to, NEW h, NEW c \in BOOLEAN,
           status' = [status EXCEPT ![o] = to],
           HoldOf(o)' = h, Succeeded(o)' = c,
           \A q \in Orders : q # o => resv'[q] = resv[q] /\ payments'[q] = payments[q]
    PROVE  Contract!Move(o, to, h, c)
  <1>1. \A q \in Orders : HoldOf(q)' = IF q = o THEN h ELSE HoldOf(q)
    BY DEF HoldOf
  <1>2. \A q \in Orders : Succeeded(q)' = IF q = o THEN c ELSE Succeeded(q)
    BY DEF Succeeded
  <1>3. [q \in Orders |-> HoldOf(q)]' = [[q \in Orders |-> HoldOf(q)] EXCEPT ![o] = h]
    BY <1>1
  <1>4. [q \in Orders |-> Succeeded(q)]'
          = [[q \in Orders |-> Succeeded(q)] EXCEPT ![o] = c]
    BY <1>2, Zenon
  <1>. QED
    BY <1>3, <1>4 DEF Contract!Move, Succeeded

\* The hold and the charge that the contract sees follow from the status.
LEMMA HoldByStatus ==
    ASSUME IInv, OrdersHaveLines, NEW o \in Orders
    PROVE  /\ status[o] = NoOrder => HoldOf(o) = "none"
           /\ status[o] = "pending_payment" => HoldOf(o) = "held"
           /\ status[o] \in {"payment_failed", "cancelled"} => HoldOf(o) = "released"
           /\ Succeeded(o) <=> status[o] \in {"paid", "fulfilled"}
  <1>1. \A p \in Products :
          resv[o][p] \in (IF items[o][p] > 0 THEN HoldAllowed(status[o]) ELSE {"none"})
    BY DEF IInv, HoldsMatchStatus
  <1>2. status[o] # NoOrder => \E p \in Products : items[o][p] > 0
    BY DEF OrdersHaveLines
  <1>3. status[o] = NoOrder => HoldOf(o) = "none"
    BY <1>1 DEF HoldOf, HoldAllowed, NoOrder
  <1>4. status[o] = "pending_payment" => HoldOf(o) = "held"
    BY <1>1, <1>2 DEF HoldOf, HoldAllowed, NoOrder
  <1>5. status[o] \in {"payment_failed", "cancelled"} => HoldOf(o) = "released"
    BY <1>1, <1>2 DEF HoldOf, HoldAllowed, NoOrder
  <1>6. Succeeded(o) <=> status[o] \in {"paid", "fulfilled"}
    BY DEF IInv, ChargedOnce, Succeeded
  <1>. QED
    BY <1>3, <1>4, <1>5, <1>6
\* What HoldByStatus says, of every order.
ContractView ==
    \A o \in Orders :
        /\ status[o] = NoOrder => HoldOf(o) = "none"
        /\ status[o] = "pending_payment" => HoldOf(o) = "held"
        /\ status[o] \in {"payment_failed", "cancelled"} => HoldOf(o) = "released"
        /\ Succeeded(o) <=> status[o] \in {"paid", "fulfilled"}

\* Every transaction is a step of the contract, or changes nothing it sees.
LEMMA ContractStep ==
    ASSUME IInv, OrdersHaveLines, ContractView, ContractView', TxStep
    PROVE  [Contract!CNext]_(Contract!cvars)
  <1>0. TypeOK
    BY DEF IInv
  <1> SUFFICES Contract!CNext \/ UNCHANGED Contract!cvars
    OBVIOUS
  <1>1. ASSUME NEW o \in Orders, NEW cart \in Carts, CreateTx(o, cart)
        PROVE  Contract!Place(o)
    <2>1. \A q \in Orders : q # o => resv'[q] = resv[q] /\ payments'[q] = payments[q]
      BY <1>0, <1>1 DEF CreateTx, InsertLines, UpdateRows, TypeOK
    <2>2. /\ status[o] = "none"
          /\ status' = [status EXCEPT ![o] = "pending_payment"]
          /\ status'[o] = "pending_payment"
      BY <1>0, <1>1 DEF CreateTx, NoOrder, TypeOK
    <2>3. HoldOf(o)' = "held" /\ Succeeded(o)' = FALSE
      BY <2>2 DEF ContractView, Succeeded
    <2>4. Contract!Move(o, "pending_payment", "held", FALSE)
      BY <1>0, <2>1, <2>2, <2>3, MoveOfOne
    <2>. QED
      BY <2>2, <2>4 DEF Contract!Place
  <1>2. ASSUME NEW o \in Orders, NEW next, SaveOrder(o, next)
        PROVE  status' = [status EXCEPT ![o] = next] /\ status'[o] = next
    BY <1>0, <1>2 DEF SaveOrder, TypeOK
  <1>3. ASSUME NEW o \in Orders, CancelTx(o) PROVE Contract!Withdraw(o)
    <2>1. \A q \in Orders : q # o => resv'[q] = resv[q] /\ payments'[q] = payments[q]
      BY <1>0, <1>3 DEF CancelTx, ReleaseRows, UpdateRows, TypeOK
    <2>2. /\ status[o] \in {"pending_payment", "payment_failed"}
          /\ status' = [status EXCEPT ![o] = "cancelled"]
          /\ status'[o] = "cancelled"
      BY <1>2, <1>3 DEF CancelTx
    <2>3. HoldOf(o)' = "released" /\ Succeeded(o)' = FALSE /\ ~Succeeded(o)
      BY <2>2 DEF ContractView, Succeeded
    <2>4. Contract!Move(o, "cancelled", "released", FALSE)
      BY <1>0, <2>1, <2>2, <2>3, MoveOfOne
    <2>. QED
      BY <2>2, <2>3, <2>4 DEF Contract!Withdraw, Succeeded
  <1>4. ASSUME NEW o \in Orders, NEW k \in AttemptKeys, DeclineTx(o, k)
        PROVE  Contract!Decline(o)
    <2>1. \A q \in Orders : q # o => resv'[q] = resv[q] /\ payments'[q] = payments[q]
      BY <1>0, <1>4 DEF DeclineTx, InsertPayment, ReleaseRows, UpdateRows, TypeOK
    <2>2. /\ status[o] = "pending_payment"
          /\ status' = [status EXCEPT ![o] = "payment_failed"]
          /\ status'[o] = "payment_failed"
      BY <1>2, <1>4 DEF DeclineTx
    <2>3. HoldOf(o)' = "released" /\ Succeeded(o)' = FALSE /\ HoldOf(o) = "held"
      BY <2>2 DEF ContractView, Succeeded
    <2>4. Contract!Move(o, "payment_failed", "released", FALSE)
      BY <1>0, <2>1, <2>2, <2>3, MoveOfOne
    <2>. QED
      BY <2>2, <2>3, <2>4 DEF Contract!Decline
  <1>5. ASSUME NEW o \in Orders, NEW k \in AttemptKeys, ChargeTx(o, k)
        PROVE  Contract!Charge(o) \/ Contract!ChargeAfterDecline(o)
    <2>1. \A q \in Orders : q # o => resv'[q] = resv[q] /\ payments'[q] = payments[q]
      BY <1>0, <1>5 DEF ChargeTx, InsertPayment, CommitRows, UpdateRows, TypeOK
    <2>2. /\ status[o] \in {"pending_payment", "payment_failed"}
          /\ status' = [status EXCEPT ![o] = "paid"]
          /\ status'[o] = "paid"
      BY <1>2, <1>5 DEF ChargeTx
    <2>3. Succeeded(o)' = TRUE /\ ~Succeeded(o)
      BY <2>2 DEF ContractView, Succeeded
    <2>4. \A p \in Products :
            resv'[o][p] = IF resv[o][p] = "held" THEN "committed" ELSE resv[o][p]
      BY <1>0, <1>5 DEF ChargeTx, CommitRows, UpdateRows, HeldRows, TypeOK
    <2>5. \A p \in Products :
            resv[o][p] \in (IF items[o][p] > 0 THEN HoldAllowed(status[o]) ELSE {"none"})
      BY DEF IInv, HoldsMatchStatus
    <2>6. \E p \in Products : items[o][p] > 0
      BY <2>2 DEF OrdersHaveLines, NoOrder
    <2>7. CASE status[o] = "pending_payment"
      <3>1. HoldOf(o) = "held"
        BY <2>7 DEF ContractView
      <3>2. HoldOf(o)' = "committed"
        BY <2>4, <2>5, <2>6, <2>7 DEF HoldOf, HoldAllowed
      <3>3. Contract!Move(o, "paid", "committed", TRUE)
        BY <1>0, <2>1, <2>2, <2>3, <3>2, MoveOfOne
      <3>. QED
        BY <2>3, <2>7, <3>1, <3>3 DEF Contract!Charge, Succeeded
    <2>8. CASE status[o] = "payment_failed"
      <3>1. HoldOf(o) = "released"
        BY <2>8 DEF ContractView
      <3>2. HoldOf(o)' = "released"
        BY <2>4, <2>5, <2>6, <2>8 DEF HoldOf, HoldAllowed
      <3>3. Contract!Move(o, "paid", "released", TRUE)
        BY <1>0, <2>1, <2>2, <2>3, <3>2, MoveOfOne
      <3>. QED
        BY <2>3, <2>8, <3>1, <3>3 DEF Contract!ChargeAfterDecline, Succeeded
    <2>. QED
      BY <2>2, <2>7, <2>8
  <1>6. ASSUME NEW o \in Orders, FulfillTx(o) PROVE Contract!Ship(o)
    <2>1. /\ \A q \in Orders : q # o => resv'[q] = resv[q] /\ payments'[q] = payments[q]
          /\ HoldOf(o)' = HoldOf(o)
      BY <1>6 DEF FulfillTx, HoldOf
    <2>2. /\ status[o] = "paid"
          /\ status' = [status EXCEPT ![o] = "fulfilled"]
          /\ status'[o] = "fulfilled"
      BY <1>2, <1>6 DEF FulfillTx
    <2>3. Succeeded(o)' = TRUE /\ Succeeded(o)
      BY <2>2 DEF ContractView, Succeeded
    <2>4. PICK h : h = HoldOf(o)
      OBVIOUS
    <2>5. Contract!Move(o, "fulfilled", h, TRUE)
      BY <1>0, <2>1, <2>2, <2>3, <2>4, MoveOfOne
    <2>6. [q \in Orders |-> HoldOf(q)][o] = h
      BY <2>4
    <2>7. [q \in Orders |-> Succeeded(q)][o]
      BY <2>3, Zenon
    <2>8. Contract!Move(o, "fulfilled", [q \in Orders |-> HoldOf(q)][o], TRUE)
      BY <2>5, <2>6 DEF Contract!Move
    <2>. QED
      BY <2>2, <2>7, <2>8 DEF Contract!Ship, Contract!Move, Succeeded
  <1>7. CASE UNCHANGED tables
    BY <1>7 DEF tables, Contract!cvars, HoldOf
  <1>. QED
    BY <1>1, <1>3, <1>4, <1>5, <1>6, <1>7 DEF TxStep, Contract!CNext

\* The view an observer has of an order is right in every reachable state.
LEMMA ViewHolds == Spec => []ContractView
  <1>1. IInv /\ OrdersHaveLines => ContractView
    BY HoldByStatus DEF ContractView
  <1>. QED
    BY <1>1, SafetyInvariant, LinesInvariant, PTL

\* The order core implements its contract: what an observer sees of an order,
\* its phase, its hold and its charge, changes in the contract's steps only, all
\* three in one.
THEOREM OrdersImplementContract == Spec => ContractSpec
  <1>1. Init => Contract!CInit
    BY DEF Init, Contract!CInit, HoldOf, NoRow, NoOrder
  <1>2. IInv /\ OrdersHaveLines /\ ContractView /\ ContractView' /\ [Next]_vars
        => [Contract!CNext]_(Contract!cvars)
    <2>1. SUFFICES ASSUME IInv, OrdersHaveLines, ContractView, ContractView', [Next]_vars
                   PROVE  [Contract!CNext]_(Contract!cvars)
      OBVIOUS
    <2>2. TxStep
      BY <2>1, StepIsTx
    <2>. QED
      BY <2>1, <2>2, ContractStep
  <1>. QED
    BY <1>1, <1>2, SafetyInvariant, LinesInvariant, ViewHolds, PTL
       DEF Spec, ContractSpec, Contract!CSpec

(***************************************************************************)
(* The road from the outbox to the worker's handlers (Pipeline).           *)
(***************************************************************************)

\* Every message is an outbox row, the reader stays within the topic and its
\* committed offset behind it, and only rows of the outbox are marked.
RoadType ==
    /\ topic \in [Partitions -> Seq(Rows)]
    /\ position \in [Partitions -> Nat]
    /\ committed \in [Partitions -> Nat]
    /\ \A p \in Partitions : committed[p] <= position[p] /\ position[p] <= Len(topic[p])
    /\ \A row \in marked : row \in Rows /\ Sent(row)

\* What the reader has passed was handled, or its handler failed on it.
PassedIsSettled ==
    \A p \in Partitions : \A i \in 1..position[p] :
        Claimed(topic[p][i]) \/ <<p, i>> \in failed

RoadInv == TypeOK /\ RoadType /\ PassedIsSettled

\* A row is an order and the index of one of its events.
LEMMA RowsAre ==
    ASSUME TypeOK
    PROVE  \A row : row \in Rows <=>
             \E o \in Orders : \E n \in 1..Len(outbox[o]) : row = <<o, n>>
  <1>1. \A o \in Orders : DOMAIN outbox[o] = 1..Len(outbox[o])
    BY DEF TypeOK
  <1>. QED
    BY <1>1 DEF Rows

\* An append to the history keeps every event it has.
LEMMA AppendKeeps ==
    ASSUME NEW s \in Seq(EventTypes), NEW e \in EventTypes
    PROVE  /\ Len(s) <= Len(Append(s, e))
           /\ \A n \in 1..Len(s) : Append(s, e)[n] = s[n]
  OBVIOUS

\* A step of the order core keeps every outbox row and every claim.
LEMMA HistoryOnlyGrows ==
    ASSUME TypeOK, [Next]_vars
    PROVE  /\ inbox \subseteq inbox'
           /\ \A o \in Orders : \/ outbox'[o] = outbox[o]
                                \/ \E e \in EventTypes : outbox'[o] = Append(outbox[o], e)
  <1>1. ASSUME NEW o \in Orders, NEW e \in EventTypes, Enqueue(o, e)
        PROVE  \A q \in Orders : \/ outbox'[q] = outbox[q]
                                 \/ outbox'[q] = Append(outbox[q], e)
    BY <1>1 DEF Enqueue, TypeOK
  <1>2. ASSUME NEW o \in Orders, NEW cart \in Carts, CreateOrder(o, cart)
        PROVE  inbox' = inbox /\ Enqueue(o, "order.created")
    BY <1>2 DEF CreateOrder
  <1>3. ASSUME NEW o \in Orders, cancelLocked(o)
        PROVE  inbox' = inbox /\ Enqueue(o, "order.cancelled")
    BY <1>3 DEF cancelLocked
  <1>4. ASSUME NEW o \in Orders, NEW k \in Keys, PayFail(o, k) \/ PaySuccess(o, k)
        PROVE  inbox' = inbox /\ \E e \in EventTypes : Enqueue(o, e)
    BY <1>4 DEF PayFail, PaySuccess, EventTypes
  <1>5. ASSUME NEW o \in Orders, Fulfill(o)
        PROVE  inbox' = inbox /\ Enqueue(o, "order.fulfilled")
    BY <1>5 DEF Fulfill
  <1>6. ASSUME NEW o \in Orders, NEW n \in DOMAIN outbox[o],
               HandleOrderCreated(o, n) \/ InventoryHandle(o, n)
        PROVE  /\ inbox \subseteq inbox'
               /\ UNCHANGED outbox \/ \E e \in EventTypes : Enqueue(o, e)
    BY <1>6 DEF HandleOrderCreated, InventoryHandle, Claim, WorkerCharge, WorkerDecline,
                EventTypes
  <1>7. ASSUME NEW o \in Orders, HoldTTLElapses(o)
        PROVE  UNCHANGED <<inbox, outbox>>
    BY <1>7 DEF HoldTTLElapses
  <1>8. ASSUME NEW r \in Replicas,
               ListExpiredPendingIDs(r) \/ ExpireNext(r) \/ ExpireFails(r) \/ RestartAPI(r)
        PROVE  \/ UNCHANGED <<inbox, outbox>>
               \/ \E o \in Orders : cancelLocked(o)
    <2>1. sweep[r] \subseteq Orders
      BY DEF TypeOK
    <2>. QED
      BY <1>8, <2>1 DEF ListExpiredPendingIDs, ExpireNext, ExpireFails, RestartAPI
  <1>9. {"order.created", "order.cancelled", "order.fulfilled"} \subseteq EventTypes
    BY DEF EventTypes
  <1> DEFINE Grows == /\ inbox \subseteq inbox'
                      /\ \/ UNCHANGED outbox
                         \/ \E o \in Orders : \E e \in EventTypes : Enqueue(o, e)
  <1>10. \A o \in Orders : cancelLocked(o) => Grows
    BY <1>3, <1>9
  <1>11. ASSUME NEW o \in Orders,
                \/ \E cart \in Carts : CreateOrder(o, cart)
                \/ Cancel(o)
                \/ \E k \in Keys : PayFail(o, k) \/ PaySuccess(o, k)
                \/ Fulfill(o)
                \/ HoldTTLElapses(o)
                \/ \E n \in DOMAIN outbox[o] : HandleOrderCreated(o, n) \/ InventoryHandle(o, n)
         PROVE  Grows
    <2>1. Cancel(o) => Grows
      BY <1>10 DEF Cancel
    <2>2. (\E cart \in Carts : CreateOrder(o, cart)) \/ Fulfill(o) => Grows
      BY <1>2, <1>5, <1>9
    <2>3. (\E k \in Keys : PayFail(o, k) \/ PaySuccess(o, k)) \/ HoldTTLElapses(o) => Grows
      BY <1>4, <1>7
    <2>4. (\E n \in DOMAIN outbox[o] : HandleOrderCreated(o, n) \/ InventoryHandle(o, n))
            => Grows
      BY <1>6
    <2>. QED
      BY <1>11, <2>1, <2>2, <2>3, <2>4
  <1>12. UNCHANGED vars => Grows
    BY DEF vars
  <1> HIDE DEF Grows
  <1>13. (\E r \in Replicas : ListExpiredPendingIDs(r) \/ ExpireNext(r) \/ ExpireFails(r)
                             \/ RestartAPI(r)) => Grows
    BY <1>8, <1>10 DEF Grows
  <1>14. Grows
    BY <1>11, <1>12, <1>13 DEF Next
  <1>. QED
    BY <1>1, <1>14 DEF Grows

\* So rows stay rows, and handled rows stay handled.
LEMMA RowsStay ==
    ASSUME TypeOK, TypeOK', [Next]_vars
    PROVE  /\ Rows \subseteq Rows'
           /\ \A row \in Rows : Claimed(row) => Claimed(row)'
  <1>1. \A o \in Orders : \A n \in 1..Len(outbox[o]) :
          n \in 1..Len(outbox'[o]) /\ outbox'[o][n] = outbox[o][n]
    <2> SUFFICES ASSUME NEW o \in Orders, NEW n \in 1..Len(outbox[o])
                 PROVE  n \in 1..Len(outbox'[o]) /\ outbox'[o][n] = outbox[o][n]
      OBVIOUS
    <2>1. outbox[o] \in Seq(EventTypes) /\ outbox'[o] \in Seq(EventTypes)
      BY DEF TypeOK
    <2>. QED
      BY <2>1, HistoryOnlyGrows, AppendKeeps
  <1>2. \A row : row \in Rows' <=>
             \E o \in Orders : \E n \in 1..Len(outbox'[o]) : row = <<o, n>>
    <2>1. \A o \in Orders : DOMAIN outbox'[o] = 1..Len(outbox'[o])
      BY DEF TypeOK
    <2>. QED
      BY <2>1 DEF Rows
  <1>3. inbox \subseteq inbox'
    BY HistoryOnlyGrows
  <1>. QED
    BY <1>1, <1>2, <1>3, RowsAre DEF Claimed, Consumer

\* Handling a message is a delivery that Orders knows, and leaves it claimed.
LEMMA DeliveryIsStep ==
    ASSUME TypeOK, NEW row \in Rows, RouteCommerce(row)
    PROVE  [Next]_vars /\ TypeOK' /\ Claimed(row)'
  <1>0. PICK o \in Orders : \E n \in 1..Len(outbox[o]) : row = <<o, n>>
    BY RowsAre
  <1>1. PICK n \in 1..Len(outbox[o]) : row = <<o, n>>
    BY <1>0
  <1>2. n \in DOMAIN outbox[o] /\ n \in Nat
    BY <1>1 DEF TypeOK
  <1>3. \/ Claimed(row) /\ UNCHANGED vars
        \/ HandleOrderCreated(o, n)
        \/ InventoryHandle(o, n)
    BY <1>1 DEF RouteCommerce
  <1>4. [Next]_vars
    BY <1>2, <1>3 DEF Next
  <1>5. TypeOK'
    BY <1>4, TypeStep
  <1>6. outbox'[o][n] = outbox[o][n]
    <2>1. outbox[o] \in Seq(EventTypes)
      BY DEF TypeOK
    <2>. QED
      BY <1>1, <1>4, <2>1, HistoryOnlyGrows, AppendKeeps
  <1>7. CASE Claimed(row) /\ UNCHANGED vars
    BY <1>4, <1>5, <1>7 DEF vars, Claimed, Consumer
  <1>8. CASE HandleOrderCreated(o, n)
    BY <1>1, <1>4, <1>5, <1>6, <1>8 DEF HandleOrderCreated, Claim, Claimed, Consumer
  <1>9. CASE InventoryHandle(o, n)
    BY <1>1, <1>4, <1>5, <1>6, <1>9 DEF InventoryHandle, Claim, Claimed, Consumer
  <1>. QED
    BY <1>3, <1>4, <1>5, <1>7, <1>8, <1>9

\* The message the reader fetches is an outbox row.
LEMMA FetchedRow ==
    ASSUME RoadType, NEW p \in Partitions, position[p] < Len(topic[p])
    PROVE  /\ position[p] + 1 \in 1..Len(topic[p])
           /\ Fetched(p) \in Rows
  <1>1. position[p] + 1 \in 1..Len(topic[p]) /\ topic[p] \in Seq(Rows)
    BY DEF RoadType
  <1>. QED
    BY <1>1 DEF Fetched

\* Every step of the road is a step of the order core or leaves it alone.
LEMMA RoadStepIsOrders ==
    ASSUME RoadInv, [PipeNext]_allVars
    PROVE  [Next]_vars
  <1>0. TypeOK /\ RoadType
    BY DEF RoadInv
  <1>1. CASE ApiStep
    BY <1>1 DEF ApiStep, Next
  <1>2. ASSUME NEW row \in Rows, NEW p \in Partitions,
               RelaySends(row, p) \/ RelayRepeats(row, p) \/ RelayMarks(row)
        PROVE  UNCHANGED vars
    BY <1>2 DEF RelaySends, RelayRepeats, RelayMarks
  <1>3. ASSUME NEW p \in Partitions, WorkerHandles(p) \/ CommitLost(p)
        PROVE  [Next]_vars
    BY <1>0, <1>3, FetchedRow, DeliveryIsStep DEF WorkerHandles, CommitLost, Fetch
  <1>4. ASSUME NEW row \in Rows, RelayMarks(row) PROVE UNCHANGED vars
    BY <1>4 DEF RelayMarks
  <1>5. ASSUME NEW p \in Partitions, HandlerFails(p) PROVE [Next]_vars
    <2>1. CASE UNCHANGED vars
      BY <2>1
    <2>2. CASE RouteCommerce(Fetched(p))
      BY <1>0, <1>5, <2>2, FetchedRow, DeliveryIsStep DEF HandlerFails, Fetch
    <2>. QED
      BY <1>5, <2>1, <2>2 DEF HandlerFails
  <1>6. CASE WorkerRestarts
    BY <1>6 DEF WorkerRestarts
  <1>7. CASE UNCHANGED allVars
    BY <1>7 DEF allVars
  <1>. QED
    BY <1>1, <1>2, <1>3, <1>4, <1>5, <1>6, <1>7 DEF PipeNext

\* What a step of the road may do to topic, offsets and marks.
LEMMA RoadKept ==
    ASSUME RoadInv, TypeOK', Rows \subseteq Rows',
           \A row \in Rows : Claimed(row) => Claimed(row)',
           topic' = topic, marked' = marked, failed \subseteq failed',
           position' \in [Partitions -> Nat], committed' \in [Partitions -> Nat],
           \A p \in Partitions : /\ committed'[p] <= position'[p]
                                 /\ position'[p] <= Len(topic[p]),
           \A p \in Partitions : \A i \in 1..position'[p] :
               i > position[p] => Claimed(topic[p][i])' \/ <<p, i>> \in failed'
    PROVE  RoadInv'
  <1>1. topic \in [Partitions -> Seq(Rows)]
    BY DEF RoadInv, RoadType
  <1>2. \A p \in Partitions : topic[p] \in Seq(Rows) /\ topic[p] \in Seq(Rows')
    BY <1>1
  <1>3. topic' \in [Partitions -> Seq(Rows')]
    BY <1>1, <1>2
  <1>4. \A row \in marked' : row \in Rows' /\ Sent(row)'
    BY DEF RoadInv, RoadType, Sent
  <1>5. PassedIsSettled'
    <2> SUFFICES ASSUME NEW p \in Partitions, NEW i \in 1..position'[p]
                 PROVE  Claimed(topic[p][i])' \/ <<p, i>> \in failed'
      BY DEF PassedIsSettled
    <2>1. i \in 1..Len(topic[p]) /\ i \in Nat /\ position[p] \in Nat
      BY <1>2 DEF RoadInv, RoadType
    <2>2. topic[p][i] \in Rows
      BY <1>2, <2>1
    <2>3. CASE i > position[p]
      BY <2>3
    <2>4. CASE i <= position[p]
      <3>1. Claimed(topic[p][i]) \/ <<p, i>> \in failed
        BY <2>1, <2>4 DEF RoadInv, PassedIsSettled
      <3>. QED
        BY <2>2, <3>1
    <2>. QED
      BY <2>1, <2>3, <2>4
  <1>. QED
    BY <1>3, <1>4, <1>5 DEF RoadInv, RoadType

\* A row that is sent lengthens one partition; the reader has not passed it.
LEMMA RoadSends ==
    ASSUME RoadInv, NEW row \in Rows, NEW p \in Partitions,
           topic' = [topic EXCEPT ![p] = Append(@, row)],
           UNCHANGED <<vars, marked, position, committed, failed>>
    PROVE  RoadInv'
  <1>1. /\ TypeOK' /\ Rows' = Rows
        /\ \A r : Claimed(r)' <=> Claimed(r)
    BY DEF RoadInv, TypeOK, vars, Rows, Claimed, Consumer
  <1>2. /\ topic \in [Partitions -> Seq(Rows)]
        /\ \A q \in Partitions : topic[q] \in Seq(Rows) /\ Len(topic[q]) \in Nat
    BY DEF RoadInv, RoadType
  <1>3. Append(topic[p], row) \in Seq(Rows)
    BY <1>2
  <1>4. topic' \in [Partitions -> Seq(Rows)]
    BY <1>2, <1>3
  <1>5. \A q \in Partitions :
          /\ Len(topic'[q]) >= Len(topic[q])
          /\ \A i \in 1..Len(topic[q]) : topic'[q][i] = topic[q][i]
    BY <1>2
  <1>6. \A q \in Partitions : position[q] \in Nat /\ position[q] <= Len(topic[q])
    BY DEF RoadInv, RoadType
  <1>7. \A q \in Partitions : position'[q] <= Len(topic'[q])
    <2> SUFFICES ASSUME NEW q \in Partitions PROVE position[q] <= Len(topic'[q])
      OBVIOUS
    <2>1. Len(topic'[q]) \in Nat
      BY <1>4
    <2>. QED
      BY <1>2, <1>5, <1>6, <2>1
  <1>8. PassedIsSettled'
    <2> SUFFICES ASSUME NEW q \in Partitions, NEW i \in 1..position[q]
                 PROVE  Claimed(topic[q][i])' \/ <<q, i>> \in failed
      BY DEF PassedIsSettled
    <2>1. i \in 1..Len(topic[q])
      BY <1>2, <1>6
    <2>2. Claimed(topic[q][i]) \/ <<q, i>> \in failed
      BY DEF RoadInv, PassedIsSettled
    <2>3. PICK r : r = topic[q][i] /\ r = topic'[q][i]
      BY <1>5, <2>1
    <2>4. Claimed(r) => Claimed(r)'
      BY <1>1
    <2>. QED
      BY <2>2, <2>3, <2>4 DEF Claimed, Consumer
  <1>9. \A r \in marked' : r \in Rows' /\ Sent(r)'
    <2> SUFFICES ASSUME NEW r \in marked PROVE r \in Rows /\ Sent(r)'
      BY <1>1
    <2>1. r \in Rows /\ Sent(r)
      BY DEF RoadInv, RoadType
    <2>2. PICK q \in Partitions : \E i \in DOMAIN topic[q] : topic[q][i] = r
      BY <2>1 DEF Sent
    <2>3. PICK i \in 1..Len(topic[q]) : topic[q][i] = r
      BY <1>2, <2>2
    <2>4. i \in DOMAIN topic'[q] /\ topic'[q][i] = r
      <3>1. topic'[q] \in Seq(Rows) /\ Len(topic'[q]) \in Nat
        BY <1>4
      <3>2. DOMAIN topic'[q] = 1..Len(topic'[q])
        BY <3>1
      <3>. QED
        BY <1>2, <1>5, <2>3, <3>1, <3>2
    <2>. QED
      BY <2>1, <2>4 DEF Sent
  <1>. QED
    BY <1>1, <1>4, <1>7, <1>8, <1>9 DEF RoadInv, RoadType

\* The road's invariant is inductive.
LEMMA RoadStep == RoadInv /\ [PipeNext]_allVars => RoadInv'
  <1> SUFFICES ASSUME RoadInv, [PipeNext]_allVars PROVE RoadInv'
    OBVIOUS
  <1>0. /\ TypeOK /\ RoadType /\ [Next]_vars /\ TypeOK'
    BY RoadStepIsOrders, TypeStep DEF RoadInv
  <1>1. /\ Rows \subseteq Rows'
        /\ \A row \in Rows : Claimed(row) => Claimed(row)'
    BY <1>0, RowsStay
  <1>2. /\ position \in [Partitions -> Nat] /\ committed \in [Partitions -> Nat]
        /\ \A p \in Partitions : committed[p] <= position[p] /\ position[p] <= Len(topic[p])
    BY <1>0 DEF RoadType
  <1>3. ASSUME UNCHANGED <<marked, topic, position, committed, failed>>
        PROVE  RoadInv'
    BY <1>0, <1>1, <1>2, <1>3, RoadKept
  <1>4. ASSUME NEW row \in Rows, NEW p \in Partitions,
               RelaySends(row, p) \/ RelayRepeats(row, p)
        PROVE  RoadInv'
    BY <1>4, RoadSends DEF RelaySends, RelayRepeats
  <1>5. ASSUME NEW row \in Rows, RelayMarks(row) PROVE RoadInv'
    <2>1. /\ UNCHANGED <<vars, topic, position, committed, failed>>
          /\ Sent(row) /\ marked' = marked \cup {row}
      BY <1>5 DEF RelayMarks
    <2>2. Rows' = Rows /\ (\A r : Claimed(r)' <=> Claimed(r)) /\ (\A r : Sent(r)' <=> Sent(r))
      BY <2>1 DEF vars, Rows, Claimed, Consumer, Sent
    <2>3. PassedIsSettled'
      BY <2>1, <2>2 DEF RoadInv, PassedIsSettled
    <2>. QED
      BY <1>0, <2>1, <2>2, <2>3 DEF RoadInv, RoadType
  <1>6. ASSUME NEW p \in Partitions, Fetch(p), UNCHANGED <<marked, topic>>,
               failed \subseteq failed',
               \/ committed' = committed
               \/ committed' = [committed EXCEPT ![p] = position[p] + 1],
               \/ \E row \in Rows : row = Fetched(p) /\ Claimed(row)'
               \/ <<p, position[p] + 1>> \in failed'
        PROVE  RoadInv'
    <2>1. /\ position[p] < Len(topic[p])
          /\ position' = [position EXCEPT ![p] = position[p] + 1]
          /\ Fetched(p) = topic[p][position[p] + 1]
      BY <1>6 DEF Fetch, Fetched
    <2>2. position[p] + 1 <= Len(topic[p])
      BY <1>0, <2>1, FetchedRow
    <2>3. /\ position' \in [Partitions -> Nat] /\ committed' \in [Partitions -> Nat]
          /\ \A q \in Partitions : /\ committed'[q] <= position'[q]
                                   /\ position'[q] <= Len(topic[q])
      BY <1>2, <1>6, <2>1, <2>2
    <2>4. \A q \in Partitions : \A i \in 1..position'[q] :
            i > position[q] => q = p /\ i = position[p] + 1
      BY <1>2, <2>1
    <2>5. \A q \in Partitions : \A i \in 1..position'[q] :
            i > position[q] => Claimed(topic[q][i])' \/ <<q, i>> \in failed'
      BY <1>6, <2>1, <2>4 DEF Fetched, Claimed, Consumer
    <2>. QED
      BY <1>0, <1>1, <1>6, <2>3, <2>5, RoadKept
  <1>7. ASSUME NEW p \in Partitions, WorkerHandles(p) \/ CommitLost(p)
        PROVE  RoadInv'
    <2>1. Fetch(p) /\ RouteCommerce(Fetched(p)) /\ UNCHANGED <<marked, topic, failed>>
      BY <1>7 DEF WorkerHandles, CommitLost
    <2>2. PICK row \in Rows : row = Fetched(p)
      BY <1>0, <2>1, FetchedRow DEF Fetch
    <2>3. Claimed(row)'
      BY <1>0, <2>1, <2>2, DeliveryIsStep
    <2>. QED
      BY <1>6, <1>7, <2>1, <2>2, <2>3 DEF WorkerHandles, CommitLost
  <1>8. ASSUME NEW p \in Partitions, HandlerFails(p) PROVE RoadInv'
    BY <1>6, <1>8 DEF HandlerFails
  <1>9. CASE WorkerRestarts
    <2>1. position' = committed /\ UNCHANGED <<marked, topic, committed, failed>>
      BY <1>9 DEF WorkerRestarts
    <2>2. \A p \in Partitions : /\ committed'[p] <= position'[p]
                                /\ position'[p] <= Len(topic[p])
                                /\ position'[p] <= position[p]
      <3> SUFFICES ASSUME NEW p \in Partitions
                   PROVE  committed[p] <= committed[p] /\ committed[p] <= Len(topic[p])
        BY <1>2, <2>1
      <3>1. Len(topic[p]) \in Nat
        BY <1>0 DEF RoadType
      <3>. QED
        BY <1>2, <3>1
    <2>3. \A p \in Partitions : \A i \in 1..position'[p] : ~(i > position[p])
      BY <1>2, <2>1, <2>2
    <2>. QED
      BY <1>0, <1>1, <1>2, <2>1, <2>2, <2>3, RoadKept
  <1>10. CASE ApiStep \/ UNCHANGED allVars
    BY <1>3, <1>10 DEF ApiStep, allVars, pipeVars
  <1>. QED
    BY <1>4, <1>5, <1>7, <1>8, <1>9, <1>10 DEF PipeNext

\* Topic, offsets and claims stay consistent with the outbox for ever.
LEMMA RoadInvariant == PipeSpec => []RoadInv
  <1>1. PipeInit => RoadInv
    <2> SUFFICES ASSUME PipeInit PROVE RoadInv
      OBVIOUS
    <2>1. TypeOK
      BY TypeInit DEF PipeInit
    <2>2. RoadType
      BY DEF PipeInit, RoadType
    <2>3. PassedIsSettled
      BY DEF PipeInit, PassedIsSettled
    <2>. QED
      BY <2>1, <2>2, <2>3 DEF RoadInv
  <1>. QED
    BY <1>1, RoadStep, PTL DEF PipeSpec

\* The road adds nothing to what Orders allows: relay, broker and worker only
\* ever make the deliveries Orders knows, so the theorems above hold on it.
THEOREM RoadImplementsOrders == PipeSpec => ImplementsOrders
  <1>1. PipeInit => Init
    BY DEF PipeInit
  <1>2. RoadInv /\ [PipeNext]_allVars => [Next]_vars
    BY RoadStepIsOrders
  <1>. QED
    BY <1>1, <1>2, RoadInvariant, PTL DEF PipeSpec, ImplementsOrders, Spec

\* A row that the relay sends, once or again, is a committed event.
LEMMA RoadTells ==
    ASSUME RoadType, NEW row \in Rows, NEW p \in Partitions,
           topic' = [topic EXCEPT ![p] = Append(topic[p], row)],
           UNCHANGED <<outbox, marked>>
    PROVE  [Delivery!ANext]_Delivery!avars
  <1>1. topic \in [Partitions -> Seq(Rows)] /\ topic[p] \in Seq(Rows)
    BY DEF RoadType
  <1>2. Rows' = Rows
    BY DEF Rows
  <1>3. \A q \in Partitions : q # p => topic'[q] = topic[q]
    BY <1>1
  <1>4. /\ DOMAIN topic'[p] = DOMAIN topic[p] \cup {Len(topic[p]) + 1}
        /\ topic'[p][Len(topic[p]) + 1] = row
        /\ \A i \in DOMAIN topic[p] : topic'[p][i] = topic[p][i]
    <2>1. topic'[p] = Append(topic[p], row)
      BY <1>1
    <2>2. Len(topic[p]) \in Nat /\ DOMAIN topic[p] = 1..Len(topic[p])
      BY <1>1
    <2>3. DOMAIN Append(topic[p], row) = 1..(Len(topic[p]) + 1)
      BY <1>1
    <2>. QED
      BY <1>1, <2>1, <2>2, <2>3
  <1>5. \A r : Sent(r)' <=> Sent(r) \/ r = row
    <2>1. \A r : Sent(r) => Sent(r)'
      BY <1>3, <1>4 DEF Sent
    <2>2. Sent(row)'
      BY <1>4 DEF Sent
    <2>3. \A r : Sent(r)' => Sent(r) \/ r = row
      BY <1>3, <1>4 DEF Sent
    <2>. QED
      BY <2>1, <2>2, <2>3
  <1>6. {r \in Rows' : Sent(r)'} = {r \in Rows : Sent(r)} \cup {row}
    BY <1>2, <1>5
  <1>7. CASE Sent(row)
    <2>1. {r \in Rows' : Sent(r)'} = {r \in Rows : Sent(r)}
      BY <1>6, <1>7
    <2>. QED
      BY <1>2, <2>1 DEF Delivery!avars
  <1>8. CASE ~Sent(row)
    BY <1>2, <1>6, <1>8 DEF Delivery!ANext, Delivery!Tell
  <1>. QED
    BY <1>7, <1>8

\* A step that sends and marks nothing only adds events.
LEMMA RoadWrites ==
    ASSUME RoadType, Rows \subseteq Rows', UNCHANGED <<topic, marked>>
    PROVE  [Delivery!ANext]_Delivery!avars
  <1>1. \A r : Sent(r)' <=> Sent(r)
    BY DEF Sent
  <1>2. \A r : Sent(r) => r \in Rows
    BY DEF RoadType, Sent
  <1>3. {r \in Rows' : Sent(r)'} = {r \in Rows : Sent(r)}
    BY <1>1, <1>2
  <1>. QED
    BY <1>3 DEF Delivery!ANext, Delivery!Write

\* Every step of the road is a step of the relay's promise or none.
LEMMA RoadStepIsPromised ==
    ASSUME RoadInv, [PipeNext]_allVars
    PROVE  [Delivery!ANext]_Delivery!avars
  <1>1. TypeOK /\ RoadType /\ [Next]_vars /\ TypeOK'
    BY RoadStepIsOrders, TypeStep DEF RoadInv
  <1>2. Rows \subseteq Rows'
    BY <1>1, RowsStay
  <1>3. ASSUME NEW row \in Rows, NEW p \in Partitions,
               RelaySends(row, p) \/ RelayRepeats(row, p)
        PROVE  [Delivery!ANext]_Delivery!avars
    BY <1>1, <1>3, RoadTells DEF RelaySends, RelayRepeats, vars
  <1>4. ASSUME NEW row \in Rows, RelayMarks(row)
        PROVE  [Delivery!ANext]_Delivery!avars
    <2>1. /\ UNCHANGED <<outbox, topic>> /\ marked' = marked \cup {row}
          /\ Sent(row) /\ row \notin marked
      BY <1>4 DEF RelayMarks, vars
    <2>2. Rows' = Rows /\ (\A r : Sent(r)' <=> Sent(r))
      BY <2>1 DEF Rows, Sent
    <2>. QED
      BY <2>1, <2>2 DEF Delivery!ANext, Delivery!MarkTold
  <1>5. ASSUME NEW p \in Partitions, WorkerHandles(p) \/ HandlerFails(p) \/ CommitLost(p)
        PROVE  UNCHANGED <<topic, marked>>
    BY <1>5 DEF WorkerHandles, HandlerFails, CommitLost
  <1>6. ApiStep \/ WorkerRestarts \/ UNCHANGED allVars => UNCHANGED <<topic, marked>>
    BY DEF ApiStep, WorkerRestarts, allVars, pipeVars
  <1>. QED
    BY <1>1, <1>2, <1>3, <1>4, <1>5, <1>6, RoadWrites DEF PipeNext

\* Whatever orders, sweeps and workers write to the outbox and in whatever order
\* relays send it, an event is marked published only after the topic has it,
\* and nothing is unsent or unmarked: the same promise that OutboxRelay keeps.
THEOREM RoadImplementsPromise == PipeSpec => RoadKeepsPromise
  <1>1. PipeInit => Delivery!AInit
    BY DEF PipeInit, Init, Rows, Sent, Delivery!AInit
  <1>2. RoadInv /\ [PipeNext]_allVars => [Delivery!ANext]_Delivery!avars
    BY RoadStepIsPromised
  <1>. QED
    BY <1>1, <1>2, RoadInvariant, PTL DEF PipeSpec, RoadKeepsPromise, Delivery!ASpec

\* No event is lost between the outbox and its handler, whatever is sent twice,
\* fails, loses its commit or restarts.
THEOREM NoEventIsLost == PipeSpec => []NoEventSlips
  <1>1. RoadInv => NoEventSlips
    <2> SUFFICES ASSUME RoadInv, NEW row \in marked, ~Claimed(row)
                 PROVE  \E p \in Partitions : \E i \in DOMAIN topic[p] :
                          topic[p][i] = row /\ (i > position[p] \/ <<p, i>> \in failed)
      BY DEF NoEventSlips
    <2>1. PICK p \in Partitions : \E i \in DOMAIN topic[p] : topic[p][i] = row
      BY DEF RoadInv, RoadType, Sent
    <2>2. PICK i \in DOMAIN topic[p] : topic[p][i] = row
      BY <2>1
    <2>3. i \in Nat \ {0} /\ position[p] \in Nat
      BY DEF RoadInv, RoadType
    <2>4. i <= position[p] => <<p, i>> \in failed
      BY <2>2, <2>3 DEF RoadInv, PassedIsSettled
    <2>. QED
      BY <2>2, <2>3, <2>4
  <1>. QED
    BY <1>1, RoadInvariant, PTL
=============================================================================

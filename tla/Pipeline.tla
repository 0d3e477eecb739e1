------------------------------ MODULE Pipeline ------------------------------
(***************************************************************************)
(* The order core with the road its events take: the relay sends outbox    *)
(* rows to Kafka and marks them (internal/platform/outbox), the worker     *)
(* reads them, runs the commerce handler of Orders and commits its offset  *)
(* (cmd/worker, internal/worker/dispatch).  Orders lets a delivery happen  *)
(* at any moment; here it happens when the message arrives, so that the    *)
(* whole road from the checkout to the charge can be shown to be safe and  *)
(* to have an end.                                                         *)
(*                                                                         *)
(* What happens inside a relay cycle and inside the worker's loop is left  *)
(* to OutboxRelay and Worker; the steps here are the ones they leave       *)
(* visible: a row is sent at least once before it is marked, and a message *)
(* is handled, fails, or is handled without its offset being committed.    *)
(***************************************************************************)
EXTENDS Orders

CONSTANTS
    Partitions,  \* partitions of the topic
    MaxUpsets    \* bound on rows sent again, failed handlers and lost commits

ASSUME PipelineAssumption == MaxUpsets \in Nat

VARIABLES
    marked,     \* rows <<o, n>> with published_at set
    topic,      \* per partition: the rows sent, oldest first
    position,   \* per partition: how many messages the reader has fetched
    committed,  \* per partition: the consumer group's offset
    failed,     \* history: <<partition, offset>> whose handler returned an error
    upsets

pipeVars == <<marked, topic, position, committed, failed, upsets>>
allVars == <<vars, pipeVars>>

PipeInit ==
    /\ Init
    /\ marked = {}
    /\ topic = [p \in Partitions |-> << >>]
    /\ position = [p \in Partitions |-> 0]
    /\ committed = [p \in Partitions |-> 0]
    /\ failed = {}
    /\ upsets = 0

Rows == UNION {{o} \X DOMAIN outbox[o] : o \in Orders}

Sent(row) == \E p \in Partitions : \E i \in DOMAIN topic[p] : topic[p][i] = row

Upset == upsets < MaxUpsets /\ upsets' = upsets + 1

\* The API's side of Orders, with a sweep that neither fails nor restarts.
ApiStep ==
    /\ \/ \E o \in Orders :
            \/ \E cart \in Carts : CreateOrder(o, cart)
            \/ Cancel(o)
            \/ \E k \in Keys : PayFail(o, k) \/ PaySuccess(o, k)
            \/ Fulfill(o)
            \/ HoldTTLElapses(o)
       \/ \E r \in Replicas :
            ListExpiredPendingIDs(r) \/ ExpireNext(r)
    /\ UNCHANGED pipeVars

-----------------------------------------------------------------------------
(* The relays.  One replica selects rows in id order, but a second one skips
   the rows the first has locked: the events of one order may be sent in any
   order. *)

\* The balancer picks any partition.
RelaySends(row, p) ==
    /\ ~Sent(row)
    /\ topic' = [topic EXCEPT ![p] = Append(@, row)]
    /\ UNCHANGED <<vars, marked, position, committed, failed, upsets>>

\* A row is sent again: the mark failed, or another replica had read it too and
\* comes to it before or after the mark.
RelayRepeats(row, p) ==
    /\ Sent(row)
    /\ Upset
    /\ topic' = [topic EXCEPT ![p] = Append(@, row)]
    /\ UNCHANGED <<vars, marked, position, committed, failed>>

\* A plausible slip: the rows are claimed by marking them before they are sent.
MarkFirst(row) ==
    /\ row \notin marked
    /\ marked' = marked \cup {row}
    /\ UNCHANGED <<vars, topic, position, committed, failed, upsets>>

RelayMarks(row) ==
    /\ row \notin marked
    /\ Sent(row)
    /\ marked' = marked \cup {row}
    /\ UNCHANGED <<vars, topic, position, committed, failed, upsets>>

-----------------------------------------------------------------------------
(* The worker. *)

Consumer(row) == IF outbox[row[1]][row[2]] = "order.created" THEN "payment" ELSE "inventory"

Claimed(row) == <<Consumer(row), row[1], row[2]>> \in inbox

\* A plausible slip: the claim commits in a transaction of its own, and the
\* handler's fails.
ClaimAlone(row) ==
    \/ Claimed(row) /\ UNCHANGED vars
    \/ /\ Claim(Consumer(row), row[1], row[2])
       /\ UNCHANGED <<stock, orderVars, resv, payments, outbox, ledger, overdue, sweep, faults>>

\* routeCommerce: a claimed event was handled before.
RouteCommerce(row) ==
    \/ Claimed(row) /\ UNCHANGED vars
    \/ HandleOrderCreated(row[1], row[2])
    \/ InventoryHandle(row[1], row[2])

\* The reader's next message.
Fetched(p) == topic[p][position[p] + 1]

Fetch(p) ==
    /\ position[p] < Len(topic[p])
    /\ position' = [position EXCEPT ![p] = @ + 1]

\* Fetch, handle, commit.
WorkerHandles(p) ==
    /\ Fetch(p)
    /\ RouteCommerce(Fetched(p))
    /\ committed' = [committed EXCEPT ![p] = position[p] + 1]
    /\ UNCHANGED <<marked, topic, failed, upsets>>

\* The handler returns an error: its transaction rolled back, or committed before
\* the audit and the dead-letter topic failed.  No offset is committed, and the
\* loop goes on.
HandlerFails(p) ==
    /\ Fetch(p)
    /\ Upset
    /\ failed' = failed \cup {<<p, position[p] + 1>>}
    /\ UNCHANGED vars \/ RouteCommerce(Fetched(p))
    /\ UNCHANGED <<marked, topic, committed>>

\* The handler's transaction commits and the offset does not.
CommitLost(p) ==
    /\ Fetch(p)
    /\ Upset
    /\ RouteCommerce(Fetched(p))
    /\ UNCHANGED <<marked, topic, committed, failed>>

\* A plausible slip: the reader starts at the end of the topic.
WorkerRestartsAtEnd ==
    /\ position # committed
    /\ position' = [p \in Partitions |-> Len(topic[p])]
    /\ UNCHANGED <<vars, marked, topic, committed, failed, upsets>>

\* The worker restarts from the committed offsets.  (With every offset committed
\* that changes nothing.)
WorkerRestarts ==
    /\ position # committed
    /\ position' = committed
    /\ UNCHANGED <<vars, marked, topic, committed, failed, upsets>>

-----------------------------------------------------------------------------
PipeNext ==
    \/ ApiStep
    \/ \E row \in Rows :
         \/ \E p \in Partitions : RelaySends(row, p) \/ RelayRepeats(row, p)
         \/ RelayMarks(row)
    \/ \E p \in Partitions : WorkerHandles(p) \/ HandlerFails(p) \/ CommitLost(p)
    \/ WorkerRestarts

PipeSpec == PipeInit /\ [][PipeNext]_allVars

\* The relay ticks and the worker reads for ever; nothing is asked of the sweep.
PipeFairness ==
    /\ WF_allVars(\E row \in Rows : \E p \in Partitions : RelaySends(row, p))
    /\ WF_allVars(\E row \in Rows : RelayMarks(row))
    /\ \A p \in Partitions : WF_allVars(WorkerHandles(p))

FairPipeSpec == PipeSpec /\ PipeFairness

-----------------------------------------------------------------------------
(* Correctness. *)

\* The road adds nothing to what Orders allows: every step of relay and worker
\* is a delivery that Orders knows, or changes no table of it.  So everything
\* shown of Orders holds on the road.
ImplementsOrders == Spec

Delivery == INSTANCE AtLeastOnce WITH
    written <- Rows,
    told <- {row \in Rows : Sent(row)},
    marked <- marked

\* The relay's side of the road is the promise the relay itself keeps, whatever
\* the API and the worker write to the outbox meanwhile.
RoadKeepsPromise == Delivery!ASpec

\* An event is never nowhere: a marked row has been handled, or the worker has
\* still to read it, restarts or not, or its handler failed on it.
NoEventSlips ==
    \A row \in marked :
        \/ Claimed(row)
        \/ \E p \in Partitions : \E i \in DOMAIN topic[p] :
              topic[p][i] = row /\ (i > position[p] \/ <<p, i>> \in failed)

Failed(row) == \E p \in Partitions : \E i \in DOMAIN topic[p] :
                  topic[p][i] = row /\ <<p, i>> \in failed

\* Every event the API or the worker writes reaches its handler and has its
\* effect, unless the handler fails on it: in the end none waits, and an order
\* does not depend on the sweep because its order.created got stuck.
EveryEventIsHandled == <>[](\A row \in Rows : Claimed(row) \/ Failed(row))
=============================================================================

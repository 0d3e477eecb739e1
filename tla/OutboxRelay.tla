---------------------------- MODULE OutboxRelay ----------------------------
(***************************************************************************)
(* The outbox relay (internal/platform/outbox) of every API replica: poll  *)
(* the unpublished rows, publish each one to Kafka, then mark it.  The two *)
(* effects are in two systems, so anything may happen between them.        *)
(*                                                                         *)
(* The SELECT ... FOR UPDATE SKIP LOCKED runs outside a transaction: its   *)
(* row locks last until the statement ends, not until the rows are marked. *)
(* The in-process mutex allows one RelayOnce per replica at a time.        *)
(***************************************************************************)
EXTENDS Integers, FiniteSets

CONSTANTS
    MaxRows,    \* outbox rows the run inserts; ids follow created_at
    Replicas,   \* API processes, each with a relay
    BatchSize,  \* rows one RelayOnce reads
    MaxFaults,  \* bound on lost answers, failed calls, outages and restarts
    MaxPauses   \* bound on lab pause and resume commands

Rows == 1..MaxRows

ASSUME RelayAssumption ==
    /\ MaxRows \in Nat
    /\ BatchSize \in Nat \ {0}
    /\ MaxFaults \in Nat
    /\ MaxPauses \in Nat
    /\ IsFiniteSet(Replicas)

VARIABLES
    inserted,   \* rows committed to outbox_events: the first inserted ids
    published,  \* rows with published_at set
    sent,       \* messages the topic holds, per row
    counted,    \* the metric EventsPublished
    locked,     \* per replica: rows its running SELECT has locked
    batch,      \* per replica: rows of this RelayOnce still to handle, oldest first
    acked,      \* per replica: Kafka acknowledged the batch's oldest row
    flag,       \* the cluster-wide pause flag in Redis: "unset", "0" or "1"
    redisUp,    \* Redis answers
    paused,     \* per replica: the local mirror of the flag
    faults, pauses

relayVars == <<locked, batch, acked>>
pauseVars == <<flag, redisUp, paused, pauses>>
vars == <<inserted, published, sent, counted, relayVars, pauseVars, faults>>

Init ==
    /\ inserted = 0
    /\ published = {}
    /\ sent = [e \in Rows |-> 0]
    /\ counted = 0
    /\ locked = [r \in Replicas |-> {}]
    /\ batch = [r \in Replicas |-> {}]
    /\ acked = [r \in Replicas |-> FALSE]
    /\ flag = "unset"
    /\ redisUp = TRUE
    /\ paused = [r \in Replicas |-> FALSE]
    /\ faults = 0
    /\ pauses = 0

\* Writer.Enqueue in a transaction that commits.
Enqueue ==
    /\ inserted < MaxRows
    /\ inserted' = inserted + 1
    /\ UNCHANGED <<published, sent, counted, relayVars, pauseVars, faults>>

-----------------------------------------------------------------------------
(* RelayOnce. *)

\* A plausible slip: the query sees rows whose transaction is still open.
DirtyRows(r) ==
    {e \in Rows : e \notin published
                  /\ \A s \in Replicas \ {r} : e \notin locked[s]}

\* A plausible slip: the query goes on from the newest published row.
RowsAfterCursor(r) ==
    {e \in 1..inserted : /\ \A f \in published : f < e
                         /\ \A s \in Replicas \ {r} : e \notin locked[s]}

\* Rows with published_at IS NULL that no other running SELECT has locked.
Selectable(r) ==
    {e \in 1..inserted : e \notin published
                         /\ \A s \in Replicas \ {r} : e \notin locked[s]}

\* ORDER BY created_at LIMIT batchSize
FirstRows(S) == {e \in S : Cardinality({f \in S : f < e}) < BatchSize}

\* The SELECT starts: it reads its rows and locks them.
SelectRows(r) ==
    /\ batch[r] = {}
    /\ locked[r] = {}
    /\ Selectable(r) # {}
    /\ batch' = [batch EXCEPT ![r] = FirstRows(Selectable(r))]
    /\ locked' = [locked EXCEPT ![r] = FirstRows(Selectable(r))]
    /\ UNCHANGED <<inserted, published, sent, counted, acked, pauseVars, faults>>

\* Paused: Redis decides if it answers and the key is there (a missing key is
\* an error to Get), the local mirror otherwise.
Paused(r) == IF redisUp /\ flag # "unset" THEN flag = "1" ELSE paused[r]

\* A tick of Run.
RunTick(r) == ~Paused(r) /\ SelectRows(r)

\* lab.OutboxRelayOnce: the admin's manual cycle does not ask for the flag.
ManualRelayOnce(r) == SelectRows(r)

\* The SELECT returns; outside a transaction its locks end with it.
SelectReturns(r) ==
    /\ locked[r] # {}
    /\ locked' = [locked EXCEPT ![r] = {}]
    /\ UNCHANGED <<inserted, published, sent, counted, batch, acked, pauseVars, faults>>

\* The loop has come to row e: the oldest one left.
Handling(r, e) ==
    /\ locked[r] = {}
    /\ e \in batch[r]
    /\ \A f \in batch[r] : e <= f

Send(e) == sent' = [sent EXCEPT ![e] = @ + 1]

\* publisher.Publish succeeds.
Publish(r, e) ==
    /\ Handling(r, e)
    /\ ~acked[r]
    /\ Send(e)
    /\ acked' = [acked EXCEPT ![r] = TRUE]
    /\ UNCHANGED <<inserted, published, counted, locked, batch, pauseVars, faults>>

\* The broker stored the message but its answer was lost: kafka-go's writer sends
\* the message once more within the same Publish.
PublishRetries(r, e) ==
    /\ faults < MaxFaults
    /\ Handling(r, e)
    /\ ~acked[r]
    /\ faults' = faults + 1
    /\ Send(e)
    /\ UNCHANGED <<inserted, published, counted, relayVars, pauseVars>>

\* RelayOnce gives its batch up.
GiveUp(r) ==
    /\ batch' = [batch EXCEPT ![r] = {}]
    /\ acked' = [acked EXCEPT ![r] = FALSE]

\* publisher.Publish returns an error: RelayOnce returns.  The broker may have
\* stored the message all the same.
PublishFails(r, e) ==
    /\ faults < MaxFaults
    /\ Handling(r, e)
    /\ ~acked[r]
    /\ faults' = faults + 1
    /\ sent' = sent \/ Send(e)
    /\ GiveUp(r)
    /\ UNCHANGED <<inserted, published, counted, locked, pauseVars>>

\* The loop goes on to the next row.
NextRow(r, e) ==
    /\ batch' = [batch EXCEPT ![r] = @ \ {e}]
    /\ acked' = [acked EXCEPT ![r] = FALSE]

\* A plausible slip: the row is marked before Kafka has acknowledged it.
MarkWithoutAck(r, e) ==
    /\ Handling(r, e)
    /\ published' = published \cup {e}
    /\ counted' = IF e \in published THEN counted ELSE counted + 1
    /\ NextRow(r, e)
    /\ UNCHANGED <<inserted, sent, locked, pauseVars, faults>>

\* A plausible slip: the row is never marked.
MarkForgotten(r, e) ==
    /\ Handling(r, e)
    /\ acked[r]
    /\ NextRow(r, e)
    /\ UNCHANGED <<inserted, published, sent, counted, locked, pauseVars, faults>>

\* UPDATE ... SET published_at WHERE id = ? AND published_at IS NULL, which waits
\* for a row lock; the metric counts the row only if this relay won the race.
Mark(r, e) ==
    /\ Handling(r, e)
    /\ acked[r]
    /\ \A s \in Replicas \ {r} : e \notin locked[s]
    /\ published' = published \cup {e}
    /\ counted' = IF e \in published THEN counted ELSE counted + 1
    /\ NextRow(r, e)
    /\ UNCHANGED <<inserted, sent, locked, pauseVars, faults>>

\* The UPDATE fails: RelayOnce returns with the message already sent.
MarkFails(r, e) ==
    /\ faults < MaxFaults
    /\ Handling(r, e)
    /\ acked[r]
    /\ faults' = faults + 1
    /\ GiveUp(r)
    /\ UNCHANGED <<inserted, published, sent, counted, locked, pauseVars>>

\* The API process dies and comes back with an empty memory.
Restart(r) ==
    /\ faults < MaxFaults
    /\ batch[r] # {} \/ paused[r]
    /\ faults' = faults + 1
    /\ GiveUp(r)
    /\ locked' = [locked EXCEPT ![r] = {}]
    /\ paused' = [paused EXCEPT ![r] = FALSE]
    /\ UNCHANGED <<inserted, published, sent, counted, flag, redisUp, pauses>>

-----------------------------------------------------------------------------
(* The lab's pause switch. *)

\* SetPaused on the replica that serves the request: the local mirror always,
\* the shared flag if Redis answers.
SetPaused(r, b) ==
    /\ pauses < MaxPauses
    /\ pauses' = pauses + 1
    /\ paused' = [paused EXCEPT ![r] = b]
    /\ flag' = IF ~redisUp THEN flag ELSE IF b THEN "1" ELSE "0"
    /\ UNCHANGED <<inserted, published, sent, counted, relayVars, redisUp, faults>>

\* Redis becomes unreachable, or reachable again with the flag it had.
RedisGoesDown ==
    /\ redisUp
    /\ faults < MaxFaults
    /\ faults' = faults + 1
    /\ redisUp' = FALSE
    /\ UNCHANGED <<inserted, published, sent, counted, relayVars, flag, paused, pauses>>

RedisComesBack ==
    /\ ~redisUp
    /\ redisUp' = TRUE
    /\ UNCHANGED <<inserted, published, sent, counted, relayVars, flag, paused,
                   pauses, faults>>

-----------------------------------------------------------------------------
Next ==
    \/ Enqueue
    \/ \E r \in Replicas :
         \/ RunTick(r) \/ ManualRelayOnce(r) \/ SelectReturns(r)
         \/ \E e \in Rows : \/ Publish(r, e) \/ PublishRetries(r, e) \/ PublishFails(r, e)
                            \/ Mark(r, e) \/ MarkFails(r, e)
         \/ Restart(r)
         \/ \E b \in BOOLEAN : SetPaused(r, b)
    \/ RedisGoesDown
    \/ RedisComesBack

Spec == Init /\ [][Next]_vars

\* The ticker of every replica fires for ever, a started cycle runs on, and an
\* unreachable Redis comes back.
Fairness ==
    /\ \A r \in Replicas :
         /\ WF_vars(RunTick(r))
         /\ WF_vars(SelectReturns(r))
         /\ WF_vars(\E e \in Rows : Publish(r, e))
         /\ WF_vars(\E e \in Rows : Mark(r, e))
    /\ WF_vars(RedisComesBack)

FairSpec == Spec /\ Fairness

-----------------------------------------------------------------------------
(* Correctness. *)

\* Rows, batches and flags stay within their domains.
TypeOK ==
    /\ inserted \in 0..MaxRows
    /\ published \subseteq 1..inserted
    /\ sent \in [Rows -> Nat]
    /\ counted \in Nat
    /\ locked \in [Replicas -> SUBSET (1..inserted)]
    /\ batch \in [Replicas -> SUBSET (1..inserted)]
    /\ acked \in [Replicas -> BOOLEAN]
    /\ flag \in {"unset", "0", "1"}
    /\ redisUp \in BOOLEAN
    /\ paused \in [Replicas -> BOOLEAN]
    /\ faults \in 0..MaxFaults
    /\ pauses \in 0..MaxPauses

\* No event is lost: a row counts as published only if the topic has it, in
\* whatever order publishes, marks, failures and restarts fall.
PublishedWasSent == \A e \in published : sent[e] > 0

Delivery == INSTANCE AtLeastOnce WITH
    written <- 1..inserted,
    told <- {e \in Rows : sent[e] > 0},
    marked <- published

\* Polls, row locks, batches, failed calls, restarts and the pause switch are
\* the relay's own affair: seen from the outbox and the topic, every step of any
\* number of relays tells one committed event, or marks one that was told.
RelayKeepsPromise == Delivery!ASpec

\* Duplicates are bounded: one message per replica that had the row in its
\* batch (the row locks end with the SELECT, so every replica may), and one more
\* for every failure (a retry inside Publish too); and the metric
\* EventsPublished counts rows, not messages.
DuplicatesBounded ==
    /\ \A e \in Rows : sent[e] <= Cardinality(Replicas) + faults
    /\ counted = Cardinality(published)

\* Every committed event reaches the topic and is marked, as long as one
\* replica's relay is from some moment on not paused any more.
EventuallyPublished ==
    (\E r \in Replicas : <>[]~Paused(r)) =>
        \A e \in Rows : e <= inserted ~> e \in published
=============================================================================

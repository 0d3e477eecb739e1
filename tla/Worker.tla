------------------------------- MODULE Worker -------------------------------
(***************************************************************************)
(* The worker process: the consume loop of cmd/worker, the dispatch to the *)
(* commerce handlers, the audit trail with its retries and dead letters,   *)
(* and the consumer group's offsets (internal/platform/kafka).             *)
(*                                                                         *)
(* The producer's LeastBytes balancer ignores the message key, so an event *)
(* goes to any partition, and the relay may send it twice.  What a         *)
(* commerce handler does to the tables is the business of Orders; here it  *)
(* is one transaction that claims the event in the inbox and has its       *)
(* effect, or rolls back.                                                  *)
(***************************************************************************)
EXTENDS Integers, Sequences

CONSTANTS
    Partitions,      \* partitions of the topic
    CommerceEvents,  \* order.* events
    OtherEvents,     \* product.* and other events: audit only
    Poison,          \* messages whose envelope cannot be decoded
    MaxLog,          \* messages one partition takes in the run
    MaxRetries,      \* audit insert attempts (maxRetries in audit.go)
    MaxFaults        \* bound on failures and restarts

Events == CommerceEvents \cup OtherEvents \cup Poison

ASSUME WorkerAssumption ==
    /\ MaxLog \in Nat
    /\ MaxRetries \in Nat \ {0}
    /\ MaxFaults \in Nat
    /\ CommerceEvents \cap (OtherEvents \cup Poison) = {}
    /\ OtherEvents \cap Poison = {}

VARIABLES
    log,        \* per partition: the messages, oldest first
    committed,  \* per partition: how many messages the group has committed
    position,   \* per partition: how many messages the reader has fetched
    cur,        \* the partition of the message in hand (its last fetched one)
    stage,      \* where the loop is with it
    attempt,    \* audit inserts tried so far
    claimed,    \* inbox: events whose commerce transaction committed
    audited,    \* audit documents in MongoDB, unique per event id
    dead,       \* messages in the DLQ topic
    failed,     \* <<partition, offset>> whose Handle returned an error
    faults

broker == <<log, committed>>
sinks == <<claimed, audited, dead>>
vars == <<log, committed, position, cur, stage, attempt, claimed, audited,
          dead, failed, faults>>

Stages == {"fetch", "commerce", "audit", "dead_letter", "commit"}

Init ==
    /\ log = [p \in Partitions |-> << >>]
    /\ committed = [p \in Partitions |-> 0]
    /\ position = [p \in Partitions |-> 0]
    /\ cur \in Partitions
    /\ stage = "fetch"
    /\ attempt = 0
    /\ claimed = {}
    /\ audited = {}
    /\ dead = {}
    /\ failed = {}
    /\ faults = 0

\* The message in hand.
Msg == log[cur][position[cur]]

\* A producer writes event e to partition p.
Produce(e, p) ==
    /\ Len(log[p]) < MaxLog
    /\ log' = [log EXCEPT ![p] = Append(@, e)]
    /\ UNCHANGED <<committed, position, cur, stage, attempt, sinks, failed, faults>>

\* consumer.Fetch, then dispatch.Handle's first branch: a message without an
\* event id goes to the audit processor, which dead-letters it at once.
Fetch(p) ==
    /\ stage = "fetch"
    /\ position[p] < Len(log[p])
    /\ position' = [position EXCEPT ![p] = @ + 1]
    /\ cur' = p
    /\ stage' = IF log[p][position[p] + 1] \in Poison THEN "dead_letter" ELSE "commerce"
    /\ attempt' = 0
    /\ UNCHANGED <<broker, sinks, failed, faults>>

Fault == faults < MaxFaults /\ faults' = faults + 1

\* Handle returned an error: the loop logs it and goes on, offset uncommitted.
HandleError ==
    /\ stage' = "fetch"
    /\ failed' = failed \cup {<<cur, position[cur]>>}

-----------------------------------------------------------------------------
(* dispatch.routeCommerce. *)

\* The handler's transaction commits: the first claim has the effect, a later
\* one finds the inbox row and changes nothing.
CommerceTx(e) == claimed' = claimed \cup {e}

RouteCommerce ==
    /\ stage = "commerce"
    /\ \/ Msg \in CommerceEvents /\ CommerceTx(Msg)
       \/ Msg \in OtherEvents /\ UNCHANGED claimed
    /\ stage' = "audit"
    /\ UNCHANGED <<broker, position, cur, attempt, audited, dead, failed, faults>>

\* A plausible slip: the handler's error is logged, and the audit goes on.
CommerceErrorLogged ==
    /\ stage = "commerce"
    /\ Msg \in CommerceEvents
    /\ Fault
    /\ UNCHANGED claimed \/ CommerceTx(Msg)
    /\ stage' = "audit"
    /\ UNCHANGED <<broker, position, cur, attempt, audited, dead, failed>>

\* The handler returns an error; the transaction rolled back, or committed and
\* only the answer was lost.
CommerceFails ==
    /\ stage = "commerce"
    /\ Msg \in CommerceEvents
    /\ Fault
    /\ UNCHANGED claimed \/ CommerceTx(Msg)
    /\ HandleError
    /\ UNCHANGED <<broker, position, cur, attempt, audited, dead>>

-----------------------------------------------------------------------------
(* audit.Processor.Handle. *)

\* Insert succeeds, or finds the document of an earlier delivery.
AuditInsert ==
    /\ stage = "audit"
    /\ audited' = audited \cup {Msg}
    /\ stage' = "commit"
    /\ UNCHANGED <<broker, position, cur, attempt, claimed, dead, failed, faults>>

\* A plausible slip: after the last attempt the message is given up.
AuditGivesUp ==
    /\ stage = "audit"
    /\ Fault
    /\ audited' \in {audited, audited \cup {Msg}}
    /\ attempt' = attempt + 1
    /\ stage' = IF attempt + 1 = MaxRetries THEN "commit" ELSE "audit"
    /\ UNCHANGED <<broker, position, cur, claimed, dead, failed>>

\* Insert fails (the document may be there all the same): back off and retry,
\* after the last attempt dead-letter.
AuditFails ==
    /\ stage = "audit"
    /\ Fault
    /\ audited' \in {audited, audited \cup {Msg}}
    /\ attempt' = attempt + 1
    /\ stage' = IF attempt + 1 = MaxRetries THEN "dead_letter" ELSE "audit"
    /\ UNCHANGED <<broker, position, cur, claimed, dead, failed>>

DeadLetter ==
    /\ stage = "dead_letter"
    /\ dead' = dead \cup {Msg}
    /\ stage' = "commit"
    /\ UNCHANGED <<broker, position, cur, attempt, claimed, audited, failed, faults>>

\* The DLQ publish fails (the broker may have stored the message).
DeadLetterFails ==
    /\ stage = "dead_letter"
    /\ Fault
    /\ dead' \in {dead, dead \cup {Msg}}
    /\ HandleError
    /\ UNCHANGED <<broker, position, cur, attempt, claimed, audited>>

-----------------------------------------------------------------------------
(* Offsets. *)

\* consumer.Commit: everything up to this message counts as processed.
Commit ==
    /\ stage = "commit"
    /\ committed' = [committed EXCEPT ![cur] = position[cur]]
    /\ stage' = "fetch"
    /\ UNCHANGED <<log, position, cur, attempt, sinks, failed, faults>>

\* The commit request fails: the loop logs it and goes on.
CommitFails ==
    /\ stage = "commit"
    /\ Fault
    /\ stage' = "fetch"
    /\ UNCHANGED <<broker, position, cur, attempt, sinks, failed>>

\* The worker dies at any point and comes back; the group's reader starts from
\* the committed offsets.
Restart ==
    /\ Fault
    /\ position' = committed
    /\ stage' = "fetch"
    /\ UNCHANGED <<broker, cur, attempt, sinks, failed>>

-----------------------------------------------------------------------------
Next ==
    \/ \E e \in Events, p \in Partitions : Produce(e, p)
    \/ \E p \in Partitions : Fetch(p)
    \/ RouteCommerce \/ CommerceFails
    \/ AuditInsert \/ AuditFails
    \/ DeadLetter \/ DeadLetterFails
    \/ Commit \/ CommitFails
    \/ Restart

Spec == Init /\ [][Next]_vars

\* The loop never stops by itself and the reader serves every partition.
Fairness ==
    /\ \A p \in Partitions : SF_vars(Fetch(p))
    /\ WF_vars(RouteCommerce)
    /\ WF_vars(AuditInsert)
    /\ WF_vars(DeadLetter)
    /\ WF_vars(Commit)

FairSpec == Spec /\ Fairness

-----------------------------------------------------------------------------
(* Correctness. *)

Offsets(p) == 1..Len(log[p])

\* Offsets, stages and sinks stay within their domains; nothing is committed
\* that was not fetched.
TypeOK ==
    /\ log \in [Partitions -> Seq(Events)]
    /\ position \in [Partitions -> Nat]
    /\ committed \in [Partitions -> Nat]
    /\ \A p \in Partitions : committed[p] <= position[p] /\ position[p] <= Len(log[p])
    /\ cur \in Partitions
    /\ stage \in Stages
    /\ stage # "fetch" => position[cur] > 0
    /\ attempt \in 0..MaxRetries
    /\ claimed \subseteq CommerceEvents
    /\ audited \subseteq Events \ Poison
    /\ dead \subseteq Events
    /\ failed \subseteq Partitions \X Nat
    /\ faults \in 0..MaxFaults

\* The event has had its effect and is in the audit trail or in the DLQ.
Done(e) ==
    /\ e \in CommerceEvents => e \in claimed
    /\ e \in audited \cup dead

\* The audit trail and the DLQ tell the truth: an order event is in them only
\* once its commerce transaction has committed, whatever failed, was repeated
\* or restarted in between (dispatch.Handle audits after the handlers).
AuditIsTrue == (audited \cup dead) \cap CommerceEvents \subseteq claimed

\* A restart at any point loses nothing: a committed message is done, unless
\* its handler returned an error.
CommittedWasHandled ==
    \A p \in Partitions : \A i \in 1..committed[p] :
        Done(log[p][i]) \/ <<p, i>> \in failed

\* Every message is eventually done, or its handler has returned an error.
EventuallyHandled ==
    \A p \in Partitions, i \in 1..MaxLog :
        i \in Offsets(p) ~> i \in Offsets(p) /\ (Done(log[p][i]) \/ <<p, i>> \in failed)

\* cmd/worker/main.go: "Offsets commit only after handlers succeed."  A
\* committed message has been processed.
CommittedIsDone ==
    \A p \in Partitions : \A i \in 1..committed[p] : Done(log[p][i])
=============================================================================

---------------------------- MODULE WorkerProofs ----------------------------
(***************************************************************************)
(* The worker loses nothing and audits only what happened, for any number  *)
(* of partitions, messages, audit attempts and faults.                     *)
(***************************************************************************)
EXTENDS Worker, SequenceTheorems, TLAPS

(***************************************************************************)
(* CommittedWasHandled is not inductive: a commit follows what the handler *)
(* and the audit processor did in earlier steps.  The invariant says how   *)
(* far the loop is with the message in hand, and that every other message  *)
(* the reader has passed is done or has failed.  A restart falls back to   *)
(* the committed offsets, which never include the message in hand.         *)
(***************************************************************************)

\* What has been done so far with message m in hand.
SoFar(m) ==
    /\ stage \in {"commerce", "audit"} => m \notin Poison
    /\ stage = "commerce" => attempt = 0
    /\ stage = "audit" => attempt < MaxRetries
    /\ stage \in {"audit", "dead_letter"} => (m \in CommerceEvents => m \in claimed)
    /\ stage = "commit" => Done(m)

InHand(p, i) == stage # "fetch" /\ p = cur /\ i = position[cur]

HandIsFresh == stage # "fetch" => committed[cur] < position[cur] /\ SoFar(Msg)

PassedIsDone ==
    \A p \in Partitions : \A i \in 1..position[p] :
        InHand(p, i) \/ Done(log[p][i]) \/ <<p, i>> \in failed

WInv == TypeOK /\ AuditIsTrue /\ HandIsFresh /\ PassedIsDone

\* The message in hand is a message of the log.
LEMMA HandIsMessage ==
    ASSUME TypeOK, stage # "fetch"
    PROVE  /\ position[cur] \in 1..Len(log[cur])
           /\ Msg \in Events
  <1>1. /\ log[cur] \in Seq(Events) /\ position[cur] \in Nat
        /\ position[cur] > 0 /\ position[cur] <= Len(log[cur])
    BY DEF TypeOK
  <1>. QED
    BY <1>1 DEF Msg

\* What is done stays done.
LEMMA DoneStays ==
    ASSUME claimed \subseteq claimed', audited \subseteq audited', dead \subseteq dead'
    PROVE  \A e : Done(e) => Done(e)'
  BY DEF Done

\* A step with the message in hand: it comes one stage further, or the loop
\* leaves it, done or failed.
LEMMA Advance ==
    ASSUME WInv, TypeOK', AuditIsTrue', stage # "fetch",
           UNCHANGED <<log, position, cur>>,
           claimed \subseteq claimed', audited \subseteq audited', dead \subseteq dead',
           failed \subseteq failed',
           stage' # "fetch" => committed' = committed /\ SoFar(Msg)',
           stage' = "fetch" => Done(Msg)' \/ <<cur, position[cur]>> \in failed'
    PROVE  WInv'
  <1>1. HandIsFresh'
    BY DEF WInv, HandIsFresh
  <1>2. PassedIsDone'
    <2> SUFFICES ASSUME NEW p \in Partitions, NEW i \in 1..position[p]
                 PROVE  InHand(p, i)' \/ Done(log[p][i])' \/ <<p, i>> \in failed'
      BY DEF PassedIsDone
    <2>1. InHand(p, i) \/ Done(log[p][i]) \/ <<p, i>> \in failed
      BY DEF WInv, PassedIsDone
    <2>2. CASE InHand(p, i)
      <3>1. p = cur /\ i = position[cur]
        BY <2>2 DEF InHand
      <3>2. CASE stage' # "fetch"
        BY <3>1, <3>2 DEF InHand
      <3>3. CASE stage' = "fetch"
        BY <3>1, <3>3 DEF Msg, Done
      <3>. QED
        BY <3>2, <3>3
    <2>3. CASE Done(log[p][i])
      BY <2>3 DEF Done
    <2>. QED
      BY <2>1, <2>2, <2>3
  <1>. QED
    BY <1>1, <1>2 DEF WInv

\* One commerce transaction: the claim and the effect come together.
LEMMA CommerceTxKeeps ==
    ASSUME WInv, NEW e \in CommerceEvents, CommerceTx(e), UNCHANGED <<audited, dead>>
    PROVE  /\ claimed' \subseteq CommerceEvents
           /\ AuditIsTrue'
           /\ claimed \subseteq claimed' /\ e \in claimed'
  BY DEF WInv, TypeOK, AuditIsTrue, CommerceTx

\* routeCommerce, and its error.
LEMMA CommerceStep ==
    ASSUME WInv, RouteCommerce \/ CommerceFails
    PROVE  WInv'
  <1>0. TypeOK /\ AuditIsTrue /\ stage = "commerce" /\ HandIsFresh
    BY DEF WInv, RouteCommerce, CommerceFails
  <1>1. Msg \in Events /\ Msg \notin Poison /\ SoFar(Msg)
    BY <1>0, HandIsMessage DEF HandIsFresh, SoFar
  <1>2. UNCHANGED <<log, committed, position, cur, attempt, audited, dead>>
    BY DEF RouteCommerce, CommerceFails, broker
  <1>3. Msg' = Msg
    BY <1>2 DEF Msg
  <1>4. \/ UNCHANGED claimed
        \/ Msg \in CommerceEvents /\ CommerceTx(Msg)
    BY DEF RouteCommerce, CommerceFails
  <1>5. /\ claimed' \subseteq CommerceEvents
        /\ AuditIsTrue' /\ claimed \subseteq claimed'
    <2>1. CASE UNCHANGED claimed
      BY <1>0, <1>2, <2>1 DEF TypeOK, AuditIsTrue
    <2>2. CASE Msg \in CommerceEvents /\ CommerceTx(Msg)
      BY <1>2, <2>2, CommerceTxKeeps
    <2>. QED
      BY <1>4, <2>1, <2>2
  <1>6. CASE RouteCommerce
    <2>1. stage' = "audit" /\ UNCHANGED <<failed, faults>>
      BY <1>6 DEF RouteCommerce
    <2>2. TypeOK'
      BY <1>0, <1>2, <1>5, <2>1 DEF TypeOK, Stages
    <2>3. Msg \in CommerceEvents => Msg \in claimed'
      <3>1. ASSUME Msg \in CommerceEvents PROVE CommerceTx(Msg)
        BY <1>6, <3>1, WorkerAssumption DEF RouteCommerce
      <3>. QED
        BY <1>2, <3>1, CommerceTxKeeps
    <2>4. attempt = 0
      BY <1>0, <1>1 DEF SoFar
    <2>5. SoFar(Msg)'
      BY <1>1, <1>2, <1>3, <2>1, <2>3, <2>4, WorkerAssumption DEF SoFar
    <2>. QED
      BY <1>0, <1>2, <1>5, <2>1, <2>2, <2>5, Advance
  <1>7. CASE CommerceFails
    <2>1. /\ stage' = "fetch" /\ failed' = failed \cup {<<cur, position[cur]>>}
          /\ faults < MaxFaults /\ faults' = faults + 1
      BY <1>7 DEF CommerceFails, HandleError, Fault
    <2>2. faults' \in 0..MaxFaults
      BY <1>0, <2>1, WorkerAssumption DEF TypeOK
    <2>3. failed' \subseteq Partitions \X Nat
      BY <1>0, <2>1 DEF TypeOK
    <2>4. TypeOK'
      BY <1>0, <1>2, <1>5, <2>1, <2>2, <2>3 DEF TypeOK, Stages
    <2>. QED
      BY <1>0, <1>2, <1>5, <2>1, <2>4, Advance
  <1>. QED
    BY <1>6, <1>7

\* The audit insert and the dead letter, and their failures.
LEMMA AuditStep ==
    ASSUME WInv, AuditInsert \/ AuditFails \/ DeadLetter \/ DeadLetterFails
    PROVE  WInv'
  <1>0. /\ TypeOK /\ AuditIsTrue /\ HandIsFresh
        /\ stage \in {"audit", "dead_letter"}
    BY DEF WInv, AuditInsert, AuditFails, DeadLetter, DeadLetterFails
  <1>1. Msg \in Events /\ SoFar(Msg) /\ (Msg \in CommerceEvents => Msg \in claimed)
    BY <1>0, HandIsMessage DEF HandIsFresh, SoFar
  <1>2. UNCHANGED <<log, committed, position, cur, claimed>>
    BY DEF AuditInsert, AuditFails, DeadLetter, DeadLetterFails, broker
  <1>3. Msg' = Msg
    BY <1>2 DEF Msg
  <1>3a. AuditIsTrue'
    <2>1. /\ audited' \subseteq audited \cup {Msg}
          /\ dead' \subseteq dead \cup {Msg}
      BY DEF AuditInsert, AuditFails, DeadLetter, DeadLetterFails
    <2>. QED
      BY <1>0, <1>1, <1>2, <2>1 DEF AuditIsTrue
  <1>4. CASE AuditInsert
    <2>1. /\ stage = "audit" /\ stage' = "commit" /\ audited' = audited \cup {Msg}
          /\ UNCHANGED <<attempt, dead, failed, faults>>
      BY <1>4 DEF AuditInsert
    <2>2. Msg \notin Poison
      BY <1>1, <2>1 DEF SoFar
    <2>3. TypeOK'
      BY <1>0, <1>1, <1>2, <2>1, <2>2 DEF TypeOK, Stages
    <2>4. SoFar(Msg)'
      BY <1>1, <1>2, <1>3, <2>1 DEF SoFar, Done
    <2>. QED
      BY <1>0, <1>2, <1>3, <1>3a, <2>1, <2>3, <2>4, Advance
  <1>5. CASE AuditFails
    <2>1. /\ stage = "audit" /\ audited' \in {audited, audited \cup {Msg}}
          /\ attempt' = attempt + 1
          /\ stage' = IF attempt + 1 = MaxRetries THEN "dead_letter" ELSE "audit"
          /\ faults < MaxFaults /\ faults' = faults + 1
          /\ UNCHANGED <<dead, failed>>
      BY <1>5 DEF AuditFails, Fault
    <2>2. Msg \notin Poison /\ attempt < MaxRetries
      BY <1>1, <2>1 DEF SoFar
    <2>3. attempt' \in 0..MaxRetries /\ faults' \in 0..MaxFaults
      BY <1>0, <2>1, <2>2, WorkerAssumption DEF TypeOK
    <2>4. TypeOK'
      BY <1>0, <1>1, <1>2, <2>1, <2>2, <2>3 DEF TypeOK, Stages
    <2>5. stage' = "audit" => attempt' < MaxRetries
      BY <1>0, <2>1, <2>2, WorkerAssumption DEF TypeOK
    <2>6. SoFar(Msg)'
      BY <1>1, <1>2, <1>3, <2>1, <2>2, <2>5 DEF SoFar
    <2>. QED
      BY <1>0, <1>2, <1>3, <1>3a, <2>1, <2>4, <2>6, Advance
  <1>6. CASE DeadLetter
    <2>1. /\ stage' = "commit" /\ dead' = dead \cup {Msg}
          /\ UNCHANGED <<attempt, audited, failed, faults>>
      BY <1>6 DEF DeadLetter
    <2>2. TypeOK'
      BY <1>0, <1>1, <1>2, <2>1 DEF TypeOK, Stages
    <2>3. SoFar(Msg)'
      BY <1>1, <1>2, <1>3, <2>1 DEF SoFar, Done
    <2>. QED
      BY <1>0, <1>2, <1>3, <1>3a, <2>1, <2>2, <2>3, Advance
  <1>7. CASE DeadLetterFails
    <2>1. /\ stage' = "fetch" /\ failed' = failed \cup {<<cur, position[cur]>>}
          /\ dead' \in {dead, dead \cup {Msg}}
          /\ faults < MaxFaults /\ faults' = faults + 1
          /\ UNCHANGED <<attempt, audited>>
      BY <1>7 DEF DeadLetterFails, HandleError, Fault
    <2>2. faults' \in 0..MaxFaults
      BY <1>0, <2>1, WorkerAssumption DEF TypeOK
    <2>3. failed' \subseteq Partitions \X Nat
      BY <1>0, <2>1 DEF TypeOK
    <2>4. TypeOK'
      BY <1>0, <1>1, <1>2, <2>1, <2>2, <2>3 DEF TypeOK, Stages
    <2>. QED
      BY <1>0, <1>2, <1>3, <1>3a, <2>1, <2>4, Advance
  <1>. QED
    BY <1>4, <1>5, <1>6, <1>7

\* The commit of a message that is done, and its failure.
LEMMA CommitStep ==
    ASSUME WInv, Commit \/ CommitFails
    PROVE  WInv'
  <1>0. /\ TypeOK /\ AuditIsTrue /\ HandIsFresh /\ stage = "commit"
        /\ stage' = "fetch"
        /\ UNCHANGED <<log, position, cur, attempt, claimed, audited, dead, failed>>
    BY DEF WInv, Commit, CommitFails, broker, sinks
  <1>1. Done(Msg)
    BY <1>0 DEF HandIsFresh, SoFar
  <1>2. Done(Msg)' /\ AuditIsTrue'
    BY <1>0, <1>1 DEF Done, Msg, AuditIsTrue
  <1>3. faults' \in 0..MaxFaults
    BY <1>0, WorkerAssumption DEF Commit, CommitFails, Fault, TypeOK
  <1>4. /\ committed' \in [Partitions -> Nat]
        /\ \A p \in Partitions : committed'[p] <= position[p]
    <2>1. /\ committed \in [Partitions -> Nat] /\ position \in [Partitions -> Nat]
          /\ \A p \in Partitions : committed[p] <= position[p]
      BY <1>0 DEF TypeOK
    <2>2. committed' = committed \/ committed' = [committed EXCEPT ![cur] = position[cur]]
      BY DEF Commit, CommitFails, broker
    <2>3. cur \in Partitions
      BY <1>0 DEF TypeOK
    <2>. QED
      BY <2>1, <2>2, <2>3
  <1>5. TypeOK'
    BY <1>0, <1>3, <1>4 DEF TypeOK, Stages
  <1>. QED
    BY <1>0, <1>2, <1>5, Advance

\* The next message: the loop has left the one before.
LEMMA FetchStep ==
    ASSUME WInv, NEW p \in Partitions, Fetch(p)
    PROVE  WInv'
  <1>0. /\ TypeOK /\ stage = "fetch" /\ position[p] < Len(log[p])
        /\ position' = [position EXCEPT ![p] = @ + 1] /\ cur' = p /\ attempt' = 0
        /\ UNCHANGED <<log, committed, claimed, audited, dead, failed, faults>>
    BY DEF WInv, Fetch, broker, sinks
  <1>1. /\ position \in [Partitions -> Nat] /\ committed \in [Partitions -> Nat]
        /\ \A q \in Partitions : committed[q] <= position[q] /\ position[q] <= Len(log[q])
        /\ Len(log[p]) \in Nat
    BY <1>0 DEF TypeOK
  <1>2. position'[p] = position[p] + 1 /\ \A q \in Partitions : q # p => position'[q] = position[q]
    BY <1>0, <1>1
  <1>3. /\ position' \in [Partitions -> Nat]
        /\ \A q \in Partitions : committed[q] <= position'[q] /\ position'[q] <= Len(log[q])
    BY <1>0, <1>1, <1>2
  <1>4. stage' = IF log[p][position[p] + 1] \in Poison THEN "dead_letter" ELSE "commerce"
    BY DEF Fetch
  <1>5. TypeOK'
    <2>1. position'[p] > 0
      BY <1>1, <1>2
    <2>2. attempt' \in 0..MaxRetries
      BY <1>0, WorkerAssumption
    <2>. QED
      BY <1>0, <1>3, <1>4, <2>1, <2>2 DEF TypeOK, Stages
  <1>6. AuditIsTrue'
    BY <1>0 DEF WInv, AuditIsTrue
  <1>7. HandIsFresh'
    <2>1. Msg' = log[p][position[p] + 1]
      BY <1>0, <1>2 DEF Msg
    <2>2. committed'[p] < position'[p]
      BY <1>0, <1>1, <1>2
    <2>3. SoFar(Msg)'
      BY <1>0, <1>4, <2>1, WorkerAssumption DEF SoFar
    <2>. QED
      BY <1>0, <2>2, <2>3 DEF HandIsFresh
  <1>8. PassedIsDone'
    <2> SUFFICES ASSUME NEW q \in Partitions, NEW i \in 1..position'[q]
                 PROVE  InHand(q, i)' \/ Done(log[q][i])' \/ <<q, i>> \in failed'
      BY DEF PassedIsDone
    <2>1. CASE q = p /\ i = position[p] + 1
      BY <1>0, <1>2, <1>4, <2>1 DEF InHand
    <2>2. CASE ~(q = p /\ i = position[p] + 1)
      <3>1. i \in 1..position[q]
        BY <1>1, <1>2, <2>2
      <3>2. Done(log[q][i]) \/ <<q, i>> \in failed
        BY <1>0, <3>1 DEF WInv, PassedIsDone, InHand
      <3>. QED
        BY <1>0, <3>2 DEF Done
    <2>. QED
      BY <2>1, <2>2
  <1>. QED
    BY <1>5, <1>6, <1>7, <1>8 DEF WInv

\* A restart goes back to what was committed; the message in hand was not.
LEMMA RestartStep ==
    ASSUME WInv, Restart
    PROVE  WInv'
  <1>0. /\ TypeOK /\ HandIsFresh /\ position' = committed /\ stage' = "fetch"
        /\ faults < MaxFaults /\ faults' = faults + 1
        /\ UNCHANGED <<log, committed, cur, attempt, claimed, audited, dead, failed>>
    BY DEF WInv, Restart, Fault, broker, sinks
  <1>1. /\ position \in [Partitions -> Nat] /\ committed \in [Partitions -> Nat]
        /\ \A q \in Partitions : committed[q] <= position[q] /\ position[q] <= Len(log[q])
        /\ \A q \in Partitions : Len(log[q]) \in Nat
    BY <1>0 DEF TypeOK
  <1>2. ASSUME NEW q \in Partitions
        PROVE  committed[q] <= committed[q] /\ committed[q] <= Len(log[q])
    <2>1. /\ committed[q] \in Nat /\ position[q] \in Nat /\ Len(log[q]) \in Nat
          /\ committed[q] <= position[q] /\ position[q] <= Len(log[q])
      BY <1>1
    <2>. QED
      BY <2>1
  <1>3. faults' \in 0..MaxFaults
    BY <1>0, WorkerAssumption DEF TypeOK
  <1>4. TypeOK'
    BY <1>0, <1>1, <1>2, <1>3 DEF TypeOK, Stages
  <1>5. AuditIsTrue' /\ HandIsFresh'
    BY <1>0 DEF WInv, AuditIsTrue, HandIsFresh
  <1>6. PassedIsDone'
    <2> SUFFICES ASSUME NEW q \in Partitions, NEW i \in 1..committed[q]
                 PROVE  Done(log[q][i])' \/ <<q, i>> \in failed'
      BY <1>0 DEF PassedIsDone
    <2>1. i \in 1..position[q] /\ i <= committed[q]
      BY <1>1
    <2>2. ~InHand(q, i)
      BY <1>0, <1>1, <2>1 DEF InHand, HandIsFresh, TypeOK
    <2>3. Done(log[q][i]) \/ <<q, i>> \in failed
      BY <2>1, <2>2 DEF WInv, PassedIsDone
    <2>. QED
      BY <1>0, <2>3 DEF Done
  <1>. QED
    BY <1>4, <1>5, <1>6 DEF WInv

\* A new message at the end of a partition is behind no offset.
LEMMA ProduceStep ==
    ASSUME WInv, NEW e \in Events, NEW p \in Partitions, Produce(e, p)
    PROVE  WInv'
  <1>0. /\ TypeOK /\ log' = [log EXCEPT ![p] = Append(@, e)]
        /\ UNCHANGED <<committed, position, cur, stage, attempt, claimed, audited,
                       dead, failed, faults>>
    BY DEF WInv, Produce, sinks
  <1>1. \A q \in Partitions : log[q] \in Seq(Events) /\ Len(log[q]) \in Nat
    BY <1>0 DEF TypeOK
  <1>2. Append(log[p], e) \in Seq(Events) /\ Len(Append(log[p], e)) = Len(log[p]) + 1
    BY <1>1
  <1>3. log' \in [Partitions -> Seq(Events)]
    BY <1>0, <1>2 DEF TypeOK
  <1>4. \A q \in Partitions : /\ Len(log'[q]) >= Len(log[q]) /\ Len(log'[q]) \in Nat
                              /\ \A i \in 1..Len(log[q]) : log'[q][i] = log[q][i]
    BY <1>0, <1>1 DEF TypeOK
  <1>5. \A q \in Partitions : /\ position[q] \in Nat /\ position[q] <= Len(log[q])
                              /\ committed[q] <= position[q]
    BY <1>0 DEF TypeOK
  <1>6. \A q \in Partitions : position[q] <= Len(log'[q])
    BY <1>1, <1>4, <1>5
  <1>7. TypeOK'
    BY <1>0, <1>3, <1>5, <1>6 DEF TypeOK
  <1>8. AuditIsTrue'
    BY <1>0 DEF WInv, AuditIsTrue
  <1>9. stage # "fetch" => Msg' = Msg
    <2> SUFFICES ASSUME stage # "fetch" PROVE Msg' = Msg
      OBVIOUS
    <2>1. position[cur] \in 1..Len(log[cur]) /\ cur \in Partitions
      BY <1>0, HandIsMessage DEF TypeOK
    <2>. QED
      BY <1>0, <1>4, <2>1 DEF Msg
  <1>10. HandIsFresh'
    BY <1>0, <1>9 DEF WInv, HandIsFresh, SoFar, Done
  <1>11. PassedIsDone'
    <2> SUFFICES ASSUME NEW q \in Partitions, NEW i \in 1..position[q]
                 PROVE  InHand(q, i)' \/ Done(log[q][i])' \/ <<q, i>> \in failed'
      BY <1>0 DEF PassedIsDone
    <2>1. i \in 1..Len(log[q])
      BY <1>1, <1>5
    <2>2. log'[q][i] = log[q][i]
      BY <1>4, <2>1
    <2>3. InHand(q, i) \/ Done(log[q][i]) \/ <<q, i>> \in failed
      BY DEF WInv, PassedIsDone
    <2>4. InHand(q, i)' <=> InHand(q, i)
      BY <1>0 DEF InHand
    <2>5. UNCHANGED <<claimed, audited, dead, failed>>
      BY <1>0
    <2>6. Done(log[q][i]) => Done(log[q][i])'
      BY <2>2, <2>5 DEF Done
    <2>. QED
      BY <2>3, <2>4, <2>5, <2>6
  <1>. QED
    BY <1>7, <1>8, <1>10, <1>11 DEF WInv

\* Every step of producers, loop, handlers and failures keeps the invariant.
LEMMA WInvStep == WInv /\ [Next]_vars => WInv'
  <1> SUFFICES ASSUME WInv, [Next]_vars PROVE WInv'
    OBVIOUS
  <1>1. CASE UNCHANGED vars
    BY <1>1 DEF vars, WInv, TypeOK, AuditIsTrue, HandIsFresh, PassedIsDone, SoFar, Done,
                InHand, Msg
  <1>. QED
    BY <1>1, ProduceStep, FetchStep, CommerceStep, AuditStep, CommitStep, RestartStep DEF Next

\* The loop starts with nothing read and nothing done.
LEMMA WInvInit == Init => WInv
  <1> SUFFICES ASSUME Init PROVE WInv
    OBVIOUS
  <1>1. attempt \in 0..MaxRetries /\ faults \in 0..MaxFaults
    BY WorkerAssumption DEF Init
  <1>2. log \in [Partitions -> Seq(Events)] /\ \A p \in Partitions : Len(log[p]) = 0
    BY DEF Init
  <1>3. TypeOK
    BY <1>1, <1>2 DEF Init, TypeOK, Stages
  <1>4. AuditIsTrue /\ HandIsFresh /\ PassedIsDone
    BY DEF Init, AuditIsTrue, HandIsFresh, PassedIsDone
  <1>. QED
    BY <1>3, <1>4 DEF WInv

\* The loop's own state stays within its domains.
THEOREM WorkerInvariant == Spec => []WInv
  BY WInvInit, WInvStep, PTL DEF Spec

\* The audit trail and the DLQ hold an order event only once its commerce
\* transaction has committed, for any number of duplicates, retries, failed
\* handlers and restarts (dispatch.Handle, then audit.Processor.Handle).
THEOREM AuditsTellTheTruth == Spec => []AuditIsTrue
  <1>1. WInv => AuditIsTrue
    BY DEF WInv
  <1>. QED
    BY <1>1, WorkerInvariant, PTL

\* An offset is committed only past messages that are done or whose handler
\* returned an error: a restart skips nothing else (the loop of cmd/worker).
THEOREM CommitsFollowHandling == Spec => []CommittedWasHandled
  <1>1. WInv => CommittedWasHandled
    <2> SUFFICES ASSUME WInv, NEW p \in Partitions, NEW i \in 1..committed[p]
                 PROVE  Done(log[p][i]) \/ <<p, i>> \in failed
      BY DEF CommittedWasHandled
    <2>1. i \in 1..position[p] /\ i <= committed[p] /\ committed[p] \in Nat
      BY DEF WInv, TypeOK
    <2>2. ~InHand(p, i)
      BY <2>1 DEF WInv, TypeOK, HandIsFresh, InHand
    <2>. QED
      BY <2>1, <2>2 DEF WInv, PassedIsDone
  <1>. QED
    BY <1>1, WorkerInvariant, PTL
=============================================================================

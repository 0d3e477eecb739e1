-------------------------- MODULE OutboxRelayProofs --------------------------
(***************************************************************************)
(* The relay loses no event, for any number of rows, replicas and faults.  *)
(***************************************************************************)
EXTENDS OutboxRelay, FiniteSetTheorems, TLAPS

(***************************************************************************)
(* PublishedWasSent is not inductive: a mark follows an acknowledgement    *)
(* that happened in an earlier step.  AckedWasSent carries it over: a      *)
(* relay that waits to mark has a row in hand, its oldest, and has sent    *)
(* that row.                                                               *)
(***************************************************************************)
AckedWasSent ==
    /\ \A r \in Replicas : acked[r] => batch[r] # {}
    /\ \A r \in Replicas, e \in Rows :
          acked[r] /\ e \in batch[r] /\ (\A f \in batch[r] : e <= f) => sent[e] > 0

IInv == TypeOK /\ PublishedWasSent /\ AckedWasSent

\* An empty outbox and idle relays are within their domains.
LEMMA TypeInit == Init => TypeOK
  <1> SUFFICES ASSUME Init PROVE TypeOK
    OBVIOUS
  <1> USE RelayAssumption
  <1>1. inserted \in 0..MaxRows /\ faults \in 0..MaxFaults /\ pauses \in 0..MaxPauses
    BY DEF Init
  <1>2. published \subseteq 1..inserted /\ sent \in [Rows -> Nat] /\ counted \in Nat
    BY DEF Init
  <1>3. /\ locked \in [Replicas -> SUBSET (1..inserted)]
        /\ batch \in [Replicas -> SUBSET (1..inserted)]
    BY DEF Init
  <1>4. acked \in [Replicas -> BOOLEAN] /\ paused \in [Replicas -> BOOLEAN]
    BY DEF Init
  <1>5. flag \in {"unset", "0", "1"} /\ redisUp \in BOOLEAN
    BY DEF Init
  <1>. QED
    BY <1>1, <1>2, <1>3, <1>4, <1>5 DEF TypeOK

\* The SELECT returns committed rows only.
LEMMA SelectType ==
    ASSUME TypeOK, NEW r \in Replicas, SelectRows(r) PROVE TypeOK'
  <1>1. FirstRows(Selectable(r)) \in SUBSET (1..inserted)
    BY DEF FirstRows, Selectable
  <1>. QED
    BY <1>1 DEF TypeOK, SelectRows, pauseVars

\* Every step keeps rows, batches and flags within their domains.
LEMMA TypeStep == TypeOK /\ [Next]_vars => TypeOK'
  <1> SUFFICES ASSUME TypeOK, [Next]_vars PROVE TypeOK'
    OBVIOUS
  <1> USE RelayAssumption
  <1>1. CASE Enqueue
    <2>1. inserted' \in 0..MaxRows /\ 1..inserted \subseteq 1..inserted'
      BY <1>1 DEF Enqueue, TypeOK
    <2>. QED
      BY <1>1, <2>1 DEF Enqueue, TypeOK, relayVars, pauseVars
  <1>2. ASSUME NEW r \in Replicas, RunTick(r) \/ ManualRelayOnce(r) PROVE TypeOK'
    BY <1>2, SelectType DEF RunTick, ManualRelayOnce
  <1>3. ASSUME NEW r \in Replicas, SelectReturns(r) PROVE TypeOK'
    BY <1>3 DEF SelectReturns, TypeOK, pauseVars
  <1>4. ASSUME NEW r \in Replicas, NEW e \in Rows, Publish(r, e) PROVE TypeOK'
    BY <1>4 DEF Publish, Send, TypeOK, pauseVars
  <1>5. ASSUME NEW r \in Replicas, NEW e \in Rows, PublishFails(r, e) PROVE TypeOK'
    <2>1. sent' \in [Rows -> Nat]
      BY <1>5 DEF PublishFails, Send, TypeOK
    <2>2. faults' \in 0..MaxFaults
      BY <1>5 DEF PublishFails, TypeOK
    <2>. QED
      BY <1>5, <2>1, <2>2 DEF PublishFails, GiveUp, TypeOK, pauseVars
  <1>5a. ASSUME NEW r \in Replicas, NEW e \in Rows, PublishRetries(r, e) PROVE TypeOK'
    <2>1. sent' \in [Rows -> Nat]
      BY <1>5a DEF PublishRetries, Send, TypeOK
    <2>2. faults' \in 0..MaxFaults
      BY <1>5a DEF PublishRetries, TypeOK
    <2>. QED
      BY <1>5a, <2>1, <2>2 DEF PublishRetries, TypeOK, relayVars, pauseVars
  <1>6. ASSUME NEW r \in Replicas, NEW e \in Rows, Mark(r, e) PROVE TypeOK'
    <2>1. e \in 1..inserted
      BY <1>6 DEF Mark, Handling, TypeOK
    <2>2. counted' \in Nat
      BY <1>6 DEF Mark, TypeOK
    <2>. QED
      BY <1>6, <2>1, <2>2 DEF Mark, NextRow, TypeOK, pauseVars
  <1>7. ASSUME NEW r \in Replicas, NEW e \in Rows, MarkFails(r, e) PROVE TypeOK'
    <2>1. faults' \in 0..MaxFaults
      BY <1>7 DEF MarkFails, TypeOK
    <2>. QED
      BY <1>7, <2>1 DEF MarkFails, GiveUp, TypeOK, pauseVars
  <1>8. ASSUME NEW r \in Replicas, Restart(r) PROVE TypeOK'
    <2>1. faults' \in 0..MaxFaults
      BY <1>8 DEF Restart, TypeOK
    <2>. QED
      BY <1>8, <2>1 DEF Restart, GiveUp, TypeOK
  <1>9. ASSUME NEW r \in Replicas, NEW b \in BOOLEAN, SetPaused(r, b) PROVE TypeOK'
    <2>1. pauses' \in 0..MaxPauses
      BY <1>9 DEF SetPaused, TypeOK
    <2>2. flag' \in {"unset", "0", "1"}
      BY <1>9 DEF SetPaused, TypeOK
    <2>. QED
      BY <1>9, <2>1, <2>2 DEF SetPaused, TypeOK, relayVars
  <1>10. CASE RedisGoesDown \/ RedisComesBack
    <2>1. faults' \in 0..MaxFaults
      BY <1>10 DEF RedisGoesDown, RedisComesBack, TypeOK
    <2>. QED
      BY <1>10, <2>1 DEF RedisGoesDown, RedisComesBack, TypeOK, relayVars
  <1>11. CASE UNCHANGED vars
    BY <1>11 DEF TypeOK, vars, relayVars, pauseVars
  <1>. QED
    BY <1>1, <1>2, <1>3, <1>4, <1>5, <1>5a, <1>6, <1>7, <1>8, <1>9, <1>10, <1>11 DEF Next

\* A step that marks nothing and takes no message back, and leaves every relay's
\* acknowledgement and batch alone or drops the acknowledgement, keeps both facts.
LEMMA Harmless ==
    ASSUME TypeOK, PublishedWasSent, AckedWasSent, published' = published,
           \A e \in Rows : sent'[e] \in Nat /\ sent'[e] >= sent[e],
           \A r \in Replicas : \/ acked'[r] = acked[r] /\ batch'[r] = batch[r]
                               \/ ~acked'[r]
    PROVE  PublishedWasSent' /\ AckedWasSent'
  <1>1. \A e \in Rows : sent[e] \in Nat
    BY DEF TypeOK
  <1>2. published \subseteq Rows
    BY RelayAssumption DEF TypeOK, Rows
  <1>3. PublishedWasSent'
    BY <1>1, <1>2 DEF PublishedWasSent
  <1>4. \A r \in Replicas : acked'[r] => batch'[r] # {}
    BY DEF AckedWasSent
  <1>5. ASSUME NEW r \in Replicas, NEW e \in Rows,
               acked'[r], e \in batch'[r], \A f \in batch'[r] : e <= f
        PROVE  sent'[e] > 0
    <2>1. acked[r] /\ batch'[r] = batch[r]
      BY <1>5
    <2>2. sent[e] > 0
      BY <1>5, <2>1 DEF AckedWasSent
    <2>. QED
      BY <1>1, <2>2
  <1>6. AckedWasSent'
    BY <1>4, <1>5 DEF AckedWasSent
  <1>. QED
    BY <1>3, <1>6

\* A step that leaves the rows, the topic and the relays alone.
LEMMA Idle ==
    ASSUME TypeOK, PublishedWasSent, AckedWasSent, UNCHANGED <<published, sent, acked, batch>>
    PROVE  PublishedWasSent' /\ AckedWasSent'
  <1>1. \A e \in Rows : sent'[e] \in Nat /\ sent'[e] >= sent[e]
    BY DEF TypeOK
  <1>. QED
    BY <1>1, Harmless

\* A relay starts a new batch: it has nothing acknowledged yet.
LEMMA SelectKeeps ==
    ASSUME TypeOK, PublishedWasSent, AckedWasSent, NEW r \in Replicas, SelectRows(r)
    PROVE  PublishedWasSent' /\ AckedWasSent'
  <1>1. ~acked[r]
    BY DEF SelectRows, AckedWasSent
  <1>2. published' = published /\ acked' = acked /\ sent' = sent
    BY DEF SelectRows
  <1>3. \A s \in Replicas : s # r => batch'[s] = batch[s]
    BY DEF SelectRows, TypeOK
  <1>4. \A e \in Rows : sent'[e] \in Nat /\ sent'[e] >= sent[e]
    BY <1>2 DEF TypeOK
  <1>5. \A s \in Replicas : \/ acked'[s] = acked[s] /\ batch'[s] = batch[s]
                            \/ ~acked'[s]
    BY <1>1, <1>2, <1>3
  <1>. QED
    BY <1>2, <1>4, <1>5, Harmless

\* Giving a batch up, with or without one more message in the topic.
LEMMA GiveUpKeeps ==
    ASSUME TypeOK, PublishedWasSent, AckedWasSent, NEW r \in Replicas, GiveUp(r),
           published' = published,
           \A e \in Rows : sent'[e] \in Nat /\ sent'[e] >= sent[e]
    PROVE  PublishedWasSent' /\ AckedWasSent'
  <1>1. ~acked'[r]
    BY DEF GiveUp, TypeOK
  <1>2. \A s \in Replicas : s # r => acked'[s] = acked[s] /\ batch'[s] = batch[s]
    BY DEF GiveUp, TypeOK
  <1>3. \A s \in Replicas : \/ acked'[s] = acked[s] /\ batch'[s] = batch[s]
                            \/ ~acked'[s]
    BY <1>1, <1>2
  <1>. QED
    BY <1>3, Harmless

\* One more message of row e takes none back.
LEMMA SendGrows ==
    ASSUME TypeOK, NEW e \in Rows, Send(e)
    PROVE  /\ \A f \in Rows : sent'[f] \in Nat /\ sent'[f] >= sent[f]
           /\ sent'[e] > 0
  BY DEF Send, TypeOK

\* After the acknowledgement the oldest row of the batch is in the topic.
LEMMA PublishKeeps ==
    ASSUME TypeOK, PublishedWasSent, AckedWasSent,
           NEW r \in Replicas, NEW e \in Rows, Publish(r, e)
    PROVE  PublishedWasSent' /\ AckedWasSent'
  <1>1. /\ \A f \in Rows : sent'[f] \in Nat /\ sent'[f] >= sent[f]
        /\ sent'[e] > 0
    BY SendGrows DEF Publish
  <1>2. published' = published /\ batch' = batch /\ published \subseteq Rows
    BY RelayAssumption DEF Publish, TypeOK, Rows
  <1>3. \A s \in Replicas : s # r => acked'[s] = acked[s]
    BY DEF Publish, TypeOK
  <1>4. e \in batch[r] /\ \A f \in batch[r] : e <= f
    BY DEF Publish, Handling
  <1>5. \A f \in Rows : sent[f] \in Nat
    BY DEF TypeOK
  <1>6. PublishedWasSent'
    BY <1>1, <1>2, <1>5 DEF PublishedWasSent
  <1>7. \A s \in Replicas : acked'[s] => batch'[s] # {}
    BY <1>2, <1>3, <1>4 DEF AckedWasSent
  <1>8. ASSUME NEW s \in Replicas, NEW g \in Rows,
               acked'[s], g \in batch'[s], \A f \in batch'[s] : g <= f
        PROVE  sent'[g] > 0
    <2>1. CASE s = r
      <3>1. g <= e /\ e <= g
        BY <1>2, <1>4, <1>8, <2>1
      <3>2. g = e
        BY <3>1, RelayAssumption DEF Rows
      <3>. QED
        BY <1>1, <3>2
    <2>2. CASE s # r
      <3>1. sent[g] > 0
        BY <1>2, <1>3, <1>8, <2>2 DEF AckedWasSent
      <3>. QED
        BY <1>1, <1>5, <3>1
    <2>. QED
      BY <2>1, <2>2
  <1>9. AckedWasSent'
    BY <1>7, <1>8 DEF AckedWasSent
  <1>. QED
    BY <1>6, <1>9

\* The row that is marked is the acknowledged one, so the topic has it.
LEMMA MarkKeeps ==
    ASSUME TypeOK, PublishedWasSent, AckedWasSent,
           NEW r \in Replicas, NEW e \in Rows, Mark(r, e)
    PROVE  PublishedWasSent' /\ AckedWasSent'
  <1>1. sent[e] > 0
    BY DEF Mark, Handling, AckedWasSent
  <1>2. sent' = sent /\ published' = published \cup {e}
    BY DEF Mark
  <1>3. PublishedWasSent'
    BY <1>1, <1>2 DEF PublishedWasSent
  <1>4. ~acked'[r]
    BY DEF Mark, NextRow, TypeOK
  <1>5. \A s \in Replicas : s # r => acked'[s] = acked[s] /\ batch'[s] = batch[s]
    BY DEF Mark, NextRow, TypeOK
  <1>6. \A s \in Replicas : acked'[s] => batch'[s] # {}
    BY <1>4, <1>5 DEF AckedWasSent
  <1>7. ASSUME NEW s \in Replicas, NEW g \in Rows,
               acked'[s], g \in batch'[s], \A f \in batch'[s] : g <= f
        PROVE  sent'[g] > 0
    <2>1. acked[s] /\ batch'[s] = batch[s]
      BY <1>4, <1>5, <1>7
    <2>. QED
      BY <1>2, <1>7, <2>1 DEF AckedWasSent
  <1>8. AckedWasSent'
    BY <1>6, <1>7 DEF AckedWasSent
  <1>. QED
    BY <1>3, <1>8

\* A failed publish sends the message or does not, and gives the batch up.
LEMMA PublishFailsKeeps ==
    ASSUME TypeOK, PublishedWasSent, AckedWasSent,
           NEW r \in Replicas, NEW e \in Rows, PublishFails(r, e)
    PROVE  PublishedWasSent' /\ AckedWasSent'
  <1>1. GiveUp(r) /\ published' = published
    BY DEF PublishFails
  <1>2. CASE sent' = sent
    <2>1. \A f \in Rows : sent'[f] \in Nat /\ sent'[f] >= sent[f]
      BY <1>2 DEF TypeOK
    <2>. QED
      BY <1>1, <2>1, GiveUpKeeps
  <1>3. CASE Send(e)
    <2>1. \A f \in Rows : sent'[f] \in Nat /\ sent'[f] >= sent[f]
      BY <1>3, SendGrows
    <2>. QED
      BY <1>1, <2>1, GiveUpKeeps
  <1>. QED
    BY <1>2, <1>3 DEF PublishFails

\* Every step of relays, operators and failures keeps the invariant.
LEMMA IInvStep == IInv /\ [Next]_vars => IInv'
  <1> SUFFICES ASSUME IInv, [Next]_vars PROVE PublishedWasSent' /\ AckedWasSent'
    BY TypeStep DEF IInv
  <1>0. TypeOK /\ PublishedWasSent /\ AckedWasSent
    BY DEF IInv
  <1>1. CASE Enqueue
    BY <1>0, <1>1, Idle DEF Enqueue, relayVars
  <1>2. CASE RedisGoesDown
    BY <1>0, <1>2, Idle DEF RedisGoesDown, relayVars
  <1>3. CASE RedisComesBack
    BY <1>0, <1>3, Idle DEF RedisComesBack, relayVars
  <1>4. CASE UNCHANGED vars
    BY <1>0, <1>4, Idle DEF vars, relayVars
  <1>5. ASSUME NEW r \in Replicas, RunTick(r) \/ ManualRelayOnce(r)
        PROVE  PublishedWasSent' /\ AckedWasSent'
    BY <1>0, <1>5, SelectKeeps DEF RunTick, ManualRelayOnce
  <1>6. ASSUME NEW r \in Replicas, SelectReturns(r)
        PROVE  PublishedWasSent' /\ AckedWasSent'
    BY <1>0, <1>6, Idle DEF SelectReturns
  <1>7. ASSUME NEW r \in Replicas, NEW b \in BOOLEAN, SetPaused(r, b)
        PROVE  PublishedWasSent' /\ AckedWasSent'
    BY <1>0, <1>7, Idle DEF SetPaused, relayVars
  <1>8. ASSUME NEW r \in Replicas, NEW e \in Rows, Publish(r, e)
        PROVE  PublishedWasSent' /\ AckedWasSent'
    BY <1>0, <1>8, PublishKeeps
  <1>9. ASSUME NEW r \in Replicas, NEW e \in Rows, PublishFails(r, e)
        PROVE  PublishedWasSent' /\ AckedWasSent'
    BY <1>0, <1>9, PublishFailsKeeps
  <1>9a. ASSUME NEW r \in Replicas, NEW e \in Rows, PublishRetries(r, e)
         PROVE  PublishedWasSent' /\ AckedWasSent'
    <2>1. Send(e) /\ UNCHANGED <<published, acked, batch>>
      BY <1>9a DEF PublishRetries, relayVars
    <2>2. \A f \in Rows : sent'[f] \in Nat /\ sent'[f] >= sent[f]
      BY <1>0, <2>1, SendGrows
    <2>. QED
      BY <1>0, <2>1, <2>2, Harmless
  <1>10. ASSUME NEW r \in Replicas, NEW e \in Rows, Mark(r, e)
         PROVE  PublishedWasSent' /\ AckedWasSent'
    BY <1>0, <1>10, MarkKeeps
  <1>11. ASSUME NEW r \in Replicas, NEW e \in Rows, MarkFails(r, e)
         PROVE  PublishedWasSent' /\ AckedWasSent'
    <2>1. GiveUp(r) /\ published' = published /\ sent' = sent
      BY <1>11 DEF MarkFails
    <2>2. \A f \in Rows : sent'[f] \in Nat /\ sent'[f] >= sent[f]
      BY <1>0, <2>1 DEF TypeOK
    <2>. QED
      BY <1>0, <2>1, <2>2, GiveUpKeeps
  <1>12. ASSUME NEW r \in Replicas, Restart(r)
         PROVE  PublishedWasSent' /\ AckedWasSent'
    <2>1. GiveUp(r) /\ published' = published /\ sent' = sent
      BY <1>12 DEF Restart
    <2>2. \A f \in Rows : sent'[f] \in Nat /\ sent'[f] >= sent[f]
      BY <1>0, <2>1 DEF TypeOK
    <2>. QED
      BY <1>0, <2>1, <2>2, GiveUpKeeps
  <1>. QED
    BY <1>1, <1>2, <1>3, <1>4, <1>5, <1>6, <1>7, <1>8, <1>9, <1>9a, <1>10, <1>11, <1>12 DEF Next

\* Rows, batches and flags stay within their domains: the relay reads and marks
\* committed rows only.
THEOREM RelayTypeCorrect == Spec => []TypeOK
  BY TypeInit, TypeStep, PTL DEF Spec

\* The relay loses no event: a row is marked published only if Kafka has it, for
\* any number of rows and replicas, any batch size, and any interleaving of
\* publishes, marks, failures, restarts and pauses (RelayOnce).
THEOREM NothingIsLost == Spec => []PublishedWasSent
  <1>1. Init => IInv
    <2>1. Init => PublishedWasSent /\ AckedWasSent
      BY DEF Init, PublishedWasSent, AckedWasSent
    <2>. QED
      BY <2>1, TypeInit DEF IInv
  <1>2. IInv => PublishedWasSent
    BY DEF IInv
  <1>. QED
    BY <1>1, <1>2, IInvStep, PTL DEF Spec

(***************************************************************************)
(* How many messages a row may have.  Before the row is marked, every      *)
(* message of it belongs to a relay that waits to mark it, or to a fault.  *)
(* After that no relay reads it again: what is still to come are the       *)
(* relays that have it in their batch and have not sent it.                *)
(***************************************************************************)

\* The relays that sent row e in this cycle and wait to mark it.
Ackers(e) ==
    {r \in Replicas : acked[r] /\ e \in batch[r] /\ \A f \in batch[r] : e <= f}

\* The relays that have row e still to send.
Senders(e) == {r \in Replicas : e \in batch[r]} \ Ackers(e)

Fits(e, marked, messages, A, W, n) ==
    IF e \in marked
    THEN messages + Cardinality(W) <= Cardinality(Replicas) + n
    ELSE messages <= Cardinality(A) + n

MessagesFit ==
    \A e \in Rows : Fits(e, published, sent[e], Ackers(e), Senders(e), faults)

CountsRows == counted = Cardinality(published)

BoundInv == IInv /\ MessagesFit /\ CountsRows

\* Sets of relays are finite.
LEMMA RelaysFinite ==
    ASSUME NEW A \in SUBSET Replicas
    PROVE  /\ IsFiniteSet(A) /\ Cardinality(A) \in Nat
           /\ Cardinality(Replicas) \in Nat
           /\ Cardinality(A) <= Cardinality(Replicas)
  BY RelayAssumption, FS_Subset, FS_CardinalityType

\* One relay more or less.
LEMMA RelaysStep ==
    ASSUME NEW A \in SUBSET Replicas, NEW r
    PROVE  /\ Cardinality(A \ {r}) = IF r \in A THEN Cardinality(A) - 1 ELSE Cardinality(A)
           /\ Cardinality(A \cup {r}) = IF r \in A THEN Cardinality(A) ELSE Cardinality(A) + 1
  BY RelaysFinite, FS_AddElement, FS_RemoveElement

\* A publish: the relay goes from the senders to the ones that wait to mark.
LEMMA FitsSend ==
    ASSUME NEW e, NEW m, NEW s \in Nat, NEW n \in Nat,
           NEW A \in SUBSET Replicas, NEW W \in SUBSET Replicas, NEW r \in W, r \notin A,
           Fits(e, m, s, A, W, n)
    PROVE  Fits(e, m, s + 1, A \cup {r}, W \ {r}, n)
  BY RelaysFinite, RelaysStep DEF Fits

\* A relay that gives its batch up costs a fault, and sent the row at most once.
LEMMA FitsGiveUp ==
    ASSUME NEW e, NEW m, NEW s \in Nat, NEW s2 \in Nat, NEW n \in Nat, NEW r,
           NEW A \in SUBSET Replicas, NEW W \in SUBSET Replicas, A \cap W = {},
           s2 = s \/ (s2 = s + 1 /\ r \in W),
           Fits(e, m, s, A, W, n)
    PROVE  Fits(e, m, s2, A \ {r}, W \ {r}, n + 1)
  <1>1. /\ Cardinality(A) \in Nat /\ Cardinality(W) \in Nat
        /\ Cardinality(Replicas) \in Nat
    BY RelaysFinite
  <1>2. /\ Cardinality(A \ {r}) = IF r \in A THEN Cardinality(A) - 1 ELSE Cardinality(A)
        /\ Cardinality(W \ {r}) = IF r \in W THEN Cardinality(W) - 1 ELSE Cardinality(W)
    BY RelaysStep
  <1>3. CASE e \in m
    BY <1>1, <1>2, <1>3 DEF Fits
  <1>4. CASE e \notin m
    BY <1>1, <1>2, <1>4 DEF Fits
  <1>. QED
    BY <1>3, <1>4

\* A mark: the relays that hold the row are at most all of them.
LEMMA FitsMark ==
    ASSUME NEW e, NEW m, NEW s \in Nat, NEW n \in Nat, NEW r \in Replicas,
           NEW A \in SUBSET Replicas, NEW W \in SUBSET Replicas, A \cap W = {},
           Fits(e, m, s, A, W, n)
    PROVE  Fits(e, m \cup {e}, s, A \ {r}, W, n)
  <1>1. Cardinality(A \cup W) = Cardinality(A) + Cardinality(W)
    <2>1. IsFiniteSet(A) /\ IsFiniteSet(W) /\ Cardinality(A) \in Nat /\ Cardinality(W) \in Nat
      BY RelaysFinite
    <2>2. Cardinality(A \cap W) = 0
      BY FS_EmptySet
    <2>3. Cardinality(A \cup W) = Cardinality(A) + Cardinality(W) - Cardinality(A \cap W)
      BY <2>1, FS_Union
    <2>. QED
      BY <2>1, <2>2, <2>3
  <1>2. Cardinality(A \cup W) <= Cardinality(Replicas)
    BY RelaysFinite
  <1>. QED
    BY <1>1, <1>2, RelaysFinite DEF Fits

\* More faults leave more room; a row not marked may be read by any relay.
LEMMA FitsMore ==
    ASSUME NEW e, NEW m, NEW s \in Nat, NEW n \in Nat, NEW n2 \in Nat, n <= n2,
           NEW A \in SUBSET Replicas, NEW W \in SUBSET Replicas, NEW W2 \in SUBSET Replicas,
           e \notin m \/ W2 = W, Fits(e, m, s, A, W, n)
    PROVE  Fits(e, m, s, A, W2, n2)
  BY RelaysFinite DEF Fits

\* The two kinds of relays are different ones.
LEMMA AckersSenders ==
    /\ \A e : Ackers(e) \in SUBSET Replicas /\ Senders(e) \in SUBSET Replicas
    /\ \A e : Ackers(e) \cap Senders(e) = {}
  BY DEF Ackers, Senders

\* What a relay does leaves the other relays where they were.
LEMMA OthersStay ==
    ASSUME NEW r \in Replicas, NEW f,
           \A s \in Replicas : s # r => acked'[s] = acked[s] /\ batch'[s] = batch[s]
    PROVE  \A s : s # r => /\ s \in Ackers(f)' <=> s \in Ackers(f)
                           /\ s \in Senders(f)' <=> s \in Senders(f)
  BY DEF Ackers, Senders

\* A step that touches no relay, no mark and no message.
LEMMA BoundIdle ==
    ASSUME BoundInv, TypeOK', UNCHANGED <<published, sent, counted, acked, batch>>,
           faults <= faults'
    PROVE  MessagesFit' /\ CountsRows'
  <1>1. CountsRows'
    BY DEF BoundInv, CountsRows
  <1>2. ASSUME NEW f \in Rows
        PROVE  Fits(f, published, sent[f], Ackers(f), Senders(f), faults')
    <2>1. sent[f] \in Nat /\ faults \in Nat /\ faults' \in Nat
      BY RelayAssumption DEF BoundInv, IInv, TypeOK
    <2>2. Fits(f, published, sent[f], Ackers(f), Senders(f), faults)
      BY DEF BoundInv, MessagesFit
    <2>. QED
      BY <2>1, <2>2, AckersSenders, FitsMore
  <1>3. \A f \in Rows : Ackers(f)' = Ackers(f) /\ Senders(f)' = Senders(f)
    BY DEF Ackers, Senders
  <1>4. MessagesFit'
    BY <1>2, <1>3 DEF MessagesFit
  <1>. QED
    BY <1>1, <1>4

\* A retry inside Publish: one fault, and one message more.
LEMMA BoundRetry ==
    ASSUME BoundInv, NEW r \in Replicas, NEW e \in Rows, PublishRetries(r, e)
    PROVE  MessagesFit' /\ CountsRows'
  <1>0. /\ TypeOK /\ UNCHANGED <<published, counted, acked, batch>>
        /\ faults' = faults + 1 /\ Send(e)
    BY DEF BoundInv, IInv, PublishRetries, relayVars
  <1>1. CountsRows'
    BY <1>0 DEF BoundInv, CountsRows
  <1>2. \A f \in Rows : Ackers(f)' = Ackers(f) /\ Senders(f)' = Senders(f)
    BY <1>0 DEF Ackers, Senders
  <1>3. ASSUME NEW f \in Rows
        PROVE  Fits(f, published, sent'[f], Ackers(f), Senders(f), faults + 1)
    <2>1. /\ sent[f] \in Nat /\ faults \in Nat
          /\ sent'[f] = sent[f] \/ sent'[f] = sent[f] + 1
      BY <1>0, RelayAssumption DEF TypeOK, Send
    <2>2. Fits(f, published, sent[f], Ackers(f), Senders(f), faults)
      BY DEF BoundInv, MessagesFit
    <2>3. /\ Cardinality(Ackers(f)) \in Nat /\ Cardinality(Senders(f)) \in Nat
          /\ Cardinality(Replicas) \in Nat
      BY AckersSenders, RelaysFinite
    <2>. QED
      BY <2>1, <2>2, <2>3 DEF Fits
  <1>4. MessagesFit'
    BY <1>0, <1>2, <1>3 DEF MessagesFit
  <1>. QED
    BY <1>1, <1>4

\* A SELECT gives the relay rows that are not marked.
LEMMA BoundSelect ==
    ASSUME BoundInv, NEW r \in Replicas, SelectRows(r)
    PROVE  MessagesFit' /\ CountsRows'
  <1>0. TypeOK /\ UNCHANGED <<published, sent, counted, acked, faults>>
    BY DEF BoundInv, IInv, SelectRows
  <1>1. CountsRows'
    BY <1>0 DEF BoundInv, CountsRows
  <1>2. batch[r] = {} /\ batch' = [batch EXCEPT ![r] = FirstRows(Selectable(r))]
    BY DEF SelectRows
  <1>3. ~acked[r] /\ ~acked'[r]
    BY <1>0, <1>2 DEF BoundInv, IInv, AckedWasSent
  <1>4. ASSUME NEW f \in Rows
        PROVE  Fits(f, published, sent[f], Ackers(f)', Senders(f)', faults)
    <2>1. \A s : s # r => /\ s \in Ackers(f)' <=> s \in Ackers(f)
                          /\ s \in Senders(f)' <=> s \in Senders(f)
      BY <1>0, <1>2, OthersStay DEF TypeOK
    <2>2. r \notin Ackers(f) /\ r \notin Ackers(f)' /\ r \notin Senders(f)
      BY <1>2, <1>3 DEF Ackers, Senders
    <2>3. Ackers(f)' = Ackers(f)
      BY <2>1, <2>2
    <2>4. f \in published => r \notin Senders(f)'
      BY <1>0, <1>2 DEF Senders, FirstRows, Selectable, TypeOK
    <2>5. f \in published => Senders(f)' = Senders(f)
      BY <2>1, <2>2, <2>4
    <2>6. Senders(f)' \in SUBSET Replicas
      BY DEF Senders
    <2>7. sent[f] \in Nat /\ faults \in Nat
      BY <1>0, RelayAssumption DEF TypeOK
    <2>8. Fits(f, published, sent[f], Ackers(f), Senders(f), faults)
      BY DEF BoundInv, MessagesFit
    <2>. QED
      BY <2>3, <2>5, <2>6, <2>7, <2>8, AckersSenders, FitsMore
  <1>5. MessagesFit'
    BY <1>0, <1>4 DEF MessagesFit
  <1>. QED
    BY <1>1, <1>5

\* A publish adds one message and one relay that waits to mark.
LEMMA BoundPublish ==
    ASSUME BoundInv, NEW r \in Replicas, NEW e \in Rows, Publish(r, e)
    PROVE  MessagesFit' /\ CountsRows'
  <1>0. TypeOK /\ UNCHANGED <<published, counted, batch, faults>>
    BY DEF BoundInv, IInv, Publish
  <1>1. CountsRows'
    BY <1>0 DEF BoundInv, CountsRows
  <1>2. /\ ~acked[r] /\ acked' = [acked EXCEPT ![r] = TRUE]
        /\ e \in batch[r] /\ \A f \in batch[r] : e <= f
        /\ sent' = [sent EXCEPT ![e] = @ + 1]
    BY DEF Publish, Handling, Send
  <1>3. acked'[r]
    BY <1>0, <1>2 DEF TypeOK
  <1>4. ASSUME NEW f \in Rows
        PROVE  Fits(f, published, sent'[f], Ackers(f)', Senders(f)', faults)
    <2>1. \A s : s # r => /\ s \in Ackers(f)' <=> s \in Ackers(f)
                          /\ s \in Senders(f)' <=> s \in Senders(f)
      BY <1>0, <1>2, OthersStay DEF TypeOK
    <2>2. sent[f] \in Nat /\ faults \in Nat
      BY <1>0, RelayAssumption DEF TypeOK
    <2>3. Fits(f, published, sent[f], Ackers(f), Senders(f), faults)
      BY DEF BoundInv, MessagesFit
    <2>4. r \notin Ackers(f)
      BY <1>2 DEF Ackers
    <2>5. CASE f = e
      <3>1. r \in Senders(f) /\ r \in Ackers(f)' /\ r \notin Senders(f)'
        BY <1>0, <1>2, <1>3, <2>4, <2>5 DEF Ackers, Senders
      <3>2. Ackers(f)' = Ackers(f) \cup {r} /\ Senders(f)' = Senders(f) \ {r}
        BY <2>1, <3>1
      <3>3. sent'[f] = sent[f] + 1
        BY <1>0, <1>2, <2>5 DEF TypeOK
      <3>. QED
        BY <2>2, <2>3, <2>4, <3>1, <3>2, <3>3, AckersSenders, FitsSend
    <2>6. CASE f # e
      <3>1. r \notin Ackers(f)'
        <4>1. f \in batch[r] => ~(f <= e)
          BY <1>2, <2>6, RelayAssumption DEF Rows
        <4>. QED
          BY <1>0, <1>2, <4>1 DEF Ackers
      <3>2. r \in Senders(f)' <=> r \in Senders(f)
        BY <1>0, <2>4, <3>1 DEF Senders
      <3>3. Ackers(f)' = Ackers(f) /\ Senders(f)' = Senders(f)
        BY <2>1, <2>4, <3>1, <3>2
      <3>4. sent'[f] = sent[f]
        BY <1>0, <1>2, <2>6 DEF TypeOK
      <3>. QED
        BY <2>3, <3>3, <3>4
    <2>. QED
      BY <2>5, <2>6
  <1>5. MessagesFit'
    BY <1>0, <1>4 DEF MessagesFit
  <1>. QED
    BY <1>1, <1>5

\* A relay gives its batch up: one fault, and at most one message that nobody
\* waits to mark.
LEMMA BoundGiveUp ==
    ASSUME BoundInv, NEW r \in Replicas, GiveUp(r),
           UNCHANGED <<published, counted>>, faults' = faults + 1,
           \A f \in Rows : \/ sent'[f] = sent[f]
                           \/ sent'[f] = sent[f] + 1 /\ f \in batch[r] /\ ~acked[r]
    PROVE  MessagesFit' /\ CountsRows'
  <1>0. TypeOK
    BY DEF BoundInv, IInv
  <1>1. CountsRows'
    BY <1>0 DEF BoundInv, CountsRows
  <1>2. batch'[r] = {} /\ \A s \in Replicas : s # r => acked'[s] = acked[s] /\ batch'[s] = batch[s]
    BY <1>0 DEF GiveUp, TypeOK
  <1>3. ASSUME NEW f \in Rows
        PROVE  Fits(f, published, sent'[f], Ackers(f)', Senders(f)', faults + 1)
    <2>1. \A s : s # r => /\ s \in Ackers(f)' <=> s \in Ackers(f)
                          /\ s \in Senders(f)' <=> s \in Senders(f)
      BY <1>2, OthersStay
    <2>2. r \notin Ackers(f)' /\ r \notin Senders(f)'
      BY <1>2 DEF Ackers, Senders
    <2>3. Ackers(f)' = Ackers(f) \ {r} /\ Senders(f)' = Senders(f) \ {r}
      BY <2>1, <2>2
    <2>4. sent[f] \in Nat /\ sent'[f] \in Nat /\ faults \in Nat
      BY <1>0, RelayAssumption DEF TypeOK
    <2>5. Fits(f, published, sent[f], Ackers(f), Senders(f), faults)
      BY DEF BoundInv, MessagesFit
    <2>6. sent'[f] = sent[f] \/ (sent'[f] = sent[f] + 1 /\ r \in Senders(f))
      BY DEF Senders, Ackers
    <2>. QED
      BY <2>3, <2>4, <2>5, <2>6, AckersSenders, FitsGiveUp
  <1>4. MessagesFit'
    BY <1>3 DEF MessagesFit
  <1>. QED
    BY <1>1, <1>4

\* A mark turns the relays that hold the row into the last ones that may send it.
LEMMA BoundMark ==
    ASSUME BoundInv, NEW r \in Replicas, NEW e \in Rows, Mark(r, e)
    PROVE  MessagesFit' /\ CountsRows'
  <1>0. TypeOK /\ UNCHANGED <<sent, faults>>
    BY DEF BoundInv, IInv, Mark
  <1>1. CountsRows'
    <2>1. IsFiniteSet(published)
      <3>1. IsFiniteSet(1..inserted)
        BY <1>0, FS_Interval, RelayAssumption DEF TypeOK
      <3>. QED
        BY <1>0, <3>1, FS_Subset DEF TypeOK
    <2>2. Cardinality(published \cup {e})
            = IF e \in published THEN Cardinality(published) ELSE Cardinality(published) + 1
      BY <2>1, FS_AddElement
    <2>. QED
      BY <2>2 DEF Mark, BoundInv, CountsRows
  <1>2. /\ acked[r] /\ e \in batch[r] /\ \A f \in batch[r] : e <= f
        /\ published' = published \cup {e}
        /\ ~acked'[r] /\ batch'[r] = batch[r] \ {e}
        /\ \A s \in Replicas : s # r => acked'[s] = acked[s] /\ batch'[s] = batch[s]
    BY <1>0 DEF Mark, Handling, NextRow, TypeOK
  <1>3. ASSUME NEW f \in Rows
        PROVE  Fits(f, published', sent[f], Ackers(f)', Senders(f)', faults)
    <2>1. \A s : s # r => /\ s \in Ackers(f)' <=> s \in Ackers(f)
                          /\ s \in Senders(f)' <=> s \in Senders(f)
      BY <1>2, OthersStay
    <2>2. sent[f] \in Nat /\ faults \in Nat
      BY <1>0, RelayAssumption DEF TypeOK
    <2>3. Fits(f, published, sent[f], Ackers(f), Senders(f), faults)
      BY DEF BoundInv, MessagesFit
    <2>4. r \notin Ackers(f)'
      BY <1>2 DEF Ackers
    <2>5. CASE f = e
      <3>1. r \notin Senders(f) /\ r \notin Senders(f)'
        BY <1>2, <2>5 DEF Ackers, Senders
      <3>2. Ackers(f)' = Ackers(f) \ {r} /\ Senders(f)' = Senders(f)
        BY <2>1, <2>4, <3>1
      <3>. QED
        BY <1>2, <2>2, <2>3, <2>5, <3>2, AckersSenders, FitsMark
    <2>6. CASE f # e
      <3>1. r \notin Ackers(f)
        <4>1. f \in batch[r] => ~(f <= e)
          BY <1>2, <2>6, RelayAssumption DEF Rows
        <4>. QED
          BY <1>2, <4>1 DEF Ackers
      <3>2. r \in Senders(f)' <=> r \in Senders(f)
        BY <1>2, <2>4, <2>6, <3>1 DEF Senders
      <3>3. Ackers(f)' = Ackers(f) /\ Senders(f)' = Senders(f)
        BY <2>1, <2>4, <3>1, <3>2
      <3>. QED
        BY <1>2, <2>3, <2>6, <3>3 DEF Fits
    <2>. QED
      BY <2>5, <2>6
  <1>4. MessagesFit'
    BY <1>0, <1>3 DEF MessagesFit
  <1>. QED
    BY <1>1, <1>4

\* Every step keeps the number of messages within the bound.
LEMMA BoundStep == BoundInv /\ [Next]_vars => BoundInv'
  <1> SUFFICES ASSUME BoundInv, [Next]_vars PROVE MessagesFit' /\ CountsRows'
    BY IInvStep DEF BoundInv
  <1>0. TypeOK /\ TypeOK' /\ faults \in Nat
    BY TypeStep, RelayAssumption DEF BoundInv, IInv, TypeOK
  <1>1. CASE \/ Enqueue \/ RedisGoesDown \/ RedisComesBack \/ UNCHANGED vars
             \/ \E r \in Replicas : SelectReturns(r)
             \/ \E r \in Replicas, b \in BOOLEAN : SetPaused(r, b)
    <2>1. UNCHANGED <<published, sent, counted, acked, batch>> /\ faults <= faults'
      BY <1>0, <1>1 DEF Enqueue, RedisGoesDown, RedisComesBack, SelectReturns, SetPaused,
                        vars, relayVars
    <2>. QED
      BY <1>0, <2>1, BoundIdle
  <1>2. ASSUME NEW r \in Replicas, RunTick(r) \/ ManualRelayOnce(r)
        PROVE  MessagesFit' /\ CountsRows'
    BY <1>2, BoundSelect DEF RunTick, ManualRelayOnce
  <1>3. ASSUME NEW r \in Replicas, NEW e \in Rows, Publish(r, e)
        PROVE  MessagesFit' /\ CountsRows'
    BY <1>3, BoundPublish
  <1>4. ASSUME NEW r \in Replicas, NEW e \in Rows, PublishFails(r, e)
        PROVE  MessagesFit' /\ CountsRows'
    <2>1. /\ GiveUp(r) /\ UNCHANGED <<published, counted>> /\ faults' = faults + 1
          /\ e \in batch[r] /\ ~acked[r]
      BY <1>4 DEF PublishFails, Handling
    <2>2. \A f \in Rows : \/ sent'[f] = sent[f]
                          \/ sent'[f] = sent[f] + 1 /\ f = e
      BY <1>0, <1>4 DEF PublishFails, Send, TypeOK
    <2>. QED
      BY <2>1, <2>2, BoundGiveUp
  <1>5. ASSUME NEW r \in Replicas, NEW e \in Rows, Mark(r, e)
        PROVE  MessagesFit' /\ CountsRows'
    BY <1>5, BoundMark
  <1>6. ASSUME NEW r \in Replicas, NEW e \in Rows, MarkFails(r, e)
        PROVE  MessagesFit' /\ CountsRows'
    BY <1>6, BoundGiveUp DEF MarkFails
  <1>7. ASSUME NEW r \in Replicas, Restart(r)
        PROVE  MessagesFit' /\ CountsRows'
    BY <1>7, BoundGiveUp DEF Restart
  <1>8. ASSUME NEW r \in Replicas, NEW e \in Rows, PublishRetries(r, e)
        PROVE  MessagesFit' /\ CountsRows'
    BY <1>8, BoundRetry
  <1>. QED
    BY <1>1, <1>2, <1>3, <1>4, <1>5, <1>6, <1>7, <1>8 DEF Next

\* Duplicates are bounded for any number of replicas and any interleaving: a row
\* has one message per replica and one per fault at most, and the metric counts
\* each row once (RelayOnce's UPDATE ... WHERE published_at IS NULL).
THEOREM MessagesAreBounded == Spec => []DuplicatesBounded
  <1>1. Init => BoundInv
    <2> SUFFICES ASSUME Init PROVE BoundInv
      OBVIOUS
    <2>1. PublishedWasSent /\ AckedWasSent
      BY DEF Init, PublishedWasSent, AckedWasSent
    <2>2. MessagesFit
      <3>1. \A e \in Rows : Ackers(e) \in SUBSET Replicas
        BY AckersSenders
      <3>2. \A e \in Rows : Cardinality(Ackers(e)) \in Nat
        BY <3>1, RelaysFinite
      <3>. QED
        BY <3>2 DEF MessagesFit, Fits, Init
    <2>3. CountsRows
      BY FS_EmptySet DEF Init, CountsRows
    <2>. QED
      BY <2>1, <2>2, <2>3, TypeInit DEF BoundInv, IInv
  <1>2. BoundInv => DuplicatesBounded
    <2> SUFFICES ASSUME BoundInv, NEW e \in Rows
                 PROVE  sent[e] <= Cardinality(Replicas) + faults
      BY DEF BoundInv, CountsRows, DuplicatesBounded
    <2>1. Fits(e, published, sent[e], Ackers(e), Senders(e), faults)
      BY DEF BoundInv, MessagesFit
    <2>2. /\ Cardinality(Ackers(e)) \in Nat /\ Cardinality(Senders(e)) \in Nat
          /\ Cardinality(Replicas) \in Nat /\ Cardinality(Ackers(e)) <= Cardinality(Replicas)
      BY AckersSenders, RelaysFinite
    <2>3. sent[e] \in Nat /\ faults \in Nat
      BY RelayAssumption DEF BoundInv, IInv, TypeOK
    <2>. QED
      BY <2>1, <2>2, <2>3 DEF Fits
  <1>. QED
    BY <1>1, <1>2, BoundStep, PTL DEF Spec

(***************************************************************************)
(* The relay keeps the promise of AtLeastOnce.  Of all its steps only      *)
(* Enqueue, the three outcomes of Publish and Mark are seen from outside;  *)
(* IInv says that what they send was committed and what they mark, sent.   *)
(***************************************************************************)
Told == {e \in Rows : sent[e] > 0}

\* A message for a row in hand tells a committed event, or one told before.
LEMMA SendTells ==
    ASSUME TypeOK, NEW r \in Replicas, NEW e \in Rows, Handling(r, e), Send(e),
           UNCHANGED <<inserted, published>>
    PROVE  [Delivery!ANext]_Delivery!avars
  <1>1. sent \in [Rows -> Nat] /\ e \in 1..inserted
    BY DEF TypeOK, Handling
  <1>2. Told' = Told \cup {e}
    BY <1>1 DEF Send, Told
  <1>3. CASE e \in Told
    BY <1>2, <1>3 DEF Told, Delivery!avars
  <1>4. CASE e \notin Told
    BY <1>1, <1>2, <1>4 DEF Told, Delivery!ANext, Delivery!Tell
  <1>. QED
    BY <1>3, <1>4

\* The UPDATE marks an event that was told, or one another relay has marked.
LEMMA MarkIsPromised ==
    ASSUME IInv, NEW r \in Replicas, NEW e \in Rows, Mark(r, e)
    PROVE  [Delivery!ANext]_Delivery!avars
  <1>1. e \in Told
    BY DEF IInv, AckedWasSent, Mark, Handling, Told
  <1>2. UNCHANGED <<inserted, sent>> /\ published' = published \cup {e}
    BY DEF Mark
  <1>3. CASE e \in published
    BY <1>2, <1>3 DEF Told, Delivery!avars
  <1>4. CASE e \notin published
    BY <1>1, <1>2, <1>4 DEF Told, Delivery!ANext, Delivery!MarkTold
  <1>. QED
    BY <1>3, <1>4

\* Every step of the relay is a step of the promise or none.
LEMMA RelayStepIsPromised ==
    ASSUME IInv, [Next]_vars
    PROVE  [Delivery!ANext]_Delivery!avars
  <1>0. TypeOK
    BY DEF IInv
  <1>1. CASE Enqueue
    <2>1. 1..inserted \subseteq 1..inserted' /\ UNCHANGED <<published, sent>>
      BY <1>0, <1>1, RelayAssumption DEF Enqueue, TypeOK
    <2>. QED
      BY <2>1 DEF Delivery!ANext, Delivery!Write
  <1>2. ASSUME UNCHANGED <<inserted, published, sent>>
        PROVE  UNCHANGED Delivery!avars
    BY <1>2 DEF Delivery!avars
  <1>3. ASSUME NEW r \in Replicas, NEW e \in Rows, Publish(r, e)
        PROVE  [Delivery!ANext]_Delivery!avars
    BY <1>0, <1>3, SendTells DEF Publish
  <1>4. ASSUME NEW r \in Replicas, NEW e \in Rows, PublishFails(r, e)
        PROVE  [Delivery!ANext]_Delivery!avars
    BY <1>0, <1>2, <1>4, SendTells DEF PublishFails
  <1>4a. ASSUME NEW r \in Replicas, NEW e \in Rows, PublishRetries(r, e)
         PROVE  [Delivery!ANext]_Delivery!avars
    BY <1>0, <1>4a, SendTells DEF PublishRetries
  <1>5. ASSUME NEW r \in Replicas, NEW e \in Rows, Mark(r, e)
        PROVE  [Delivery!ANext]_Delivery!avars
    BY <1>5, MarkIsPromised
  <1>6. ASSUME NEW r \in Replicas,
               \/ RunTick(r) \/ ManualRelayOnce(r) \/ SelectReturns(r) \/ Restart(r)
               \/ \E e \in Rows : MarkFails(r, e)
               \/ \E b \in BOOLEAN : SetPaused(r, b)
        PROVE  UNCHANGED <<inserted, published, sent>>
    BY <1>6 DEF RunTick, ManualRelayOnce, SelectRows, SelectReturns, Restart, MarkFails, SetPaused
  <1>7. RedisGoesDown \/ RedisComesBack \/ UNCHANGED vars
          => UNCHANGED <<inserted, published, sent>>
    BY DEF RedisGoesDown, RedisComesBack, vars
  <1>. QED
    BY <1>1, <1>2, <1>3, <1>4, <1>4a, <1>5, <1>6, <1>7 DEF Next

\* RelayOnce, with its locks, batches, failures and restarts, on any number of
\* replicas, is an at-least-once delivery of committed events.
THEOREM RelayImplementsPromise == Spec => RelayKeepsPromise
  <1>1. Init => IInv
    BY TypeInit DEF Init, IInv, PublishedWasSent, AckedWasSent
  <1>2. Init => Delivery!AInit
    BY DEF Init, Delivery!AInit
  <1>3. IInv /\ [Next]_vars => [Delivery!ANext]_Delivery!avars
    BY RelayStepIsPromised
  <1>. QED
    BY <1>1, <1>2, <1>3, IInvStep, PTL DEF Spec, RelayKeepsPromise, Delivery!ASpec
=============================================================================

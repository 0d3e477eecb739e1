--------------------------- MODULE CheckoutProofs ---------------------------
(***************************************************************************)
(* Safety of the idempotent checkout, for any number of requests, keys,    *)
(* baskets, products and faults.                                           *)
(***************************************************************************)
EXTENDS Checkout, Sums, SequenceTheorems, TLAPS

(***************************************************************************)
(* The invariant ties the steps of a request together: only an open        *)
(* transaction has lines taken, an order exists once the handler has left  *)
(* the transaction, and a key remembers an order that was placed under it. *)
(* The orders of a key are counted over two sets: as long as nothing is    *)
(* remembered, every order whose handler has returned cost a failure, and  *)
(* a request that passes the lookup alone finds only such orders before    *)
(* it.                                                                     *)
(***************************************************************************)

\* Only an open transaction has lines taken, and never more than it has.
LinesAreOpen ==
    \A q \in Requests : /\ lines[q] <= Len(BodyOf[q])
                        /\ lines[q] > 0 => pc[q] = "checked"

\* An order exists once the handler has left the transaction with success.
PlacedByNow ==
    /\ \A q \in placed : pc[q] \in {"created", "done"}
    /\ \A q \in Requests : pc[q] = "created" => q \in placed

\* A key remembers an order that was placed under it.
RemembersOwnOrder ==
    \A k \in Keys : stored[k] # NoRequest => stored[k] \in placed /\ KeyOf[stored[k]] = k

\* Orders of a key whose handler has returned.
Settled(k) == {q \in placed : KeyOf[q] = k /\ pc[q] = "done"}

\* Requests of a key that passed the lookup alone and have ordered, or may.
Alone(k) ==
    {q \in Requests \ overlapped : KeyOf[q] = k /\ (q \in placed \/ pc[q] = "checked")}

KeyBudget ==
    \A k \in Keys : /\ stored[k] = NoRequest => Cardinality(Settled(k)) <= faults
                    /\ Cardinality(Alone(k)) <= 1 + faults

CInv ==
    /\ TypeOK
    /\ LinesAreOpen
    /\ PlacedByNow
    /\ RemembersOwnOrder
    /\ AnswersNameOwnOrder
    /\ BasketsAreWhole
    /\ KeyBudget

(***************************************************************************)
(* Units of a product in the first lines of a basket.                      *)
(***************************************************************************)

\* The units in the first n lines are a natural number.
LEMMA UnitsType ==
    ASSUME NEW q, NEW p, NEW n \in Nat
    PROVE  Units(q, p, n) \in Nat
  <1>1. IsFiniteSet(1..n)
    BY FS_Interval
  <1>2. IsFiniteSet({i \in 1..n : BodyOf[q][i] = p})
    BY <1>1, FS_Subset
  <1>. QED
    BY <1>2, FS_CardinalityType DEF Units

\* No line, no unit.
LEMMA UnitsNone == ASSUME NEW q, NEW p PROVE Units(q, p, 0) = 0
  <1>1. {i \in 1..0 : BodyOf[q][i] = p} = {}
    OBVIOUS
  <1>. QED
    BY <1>1, FS_EmptySet DEF Units

\* One line more has one unit more of its own product.
LEMMA UnitsNext ==
    ASSUME NEW q, NEW p, NEW n \in Nat
    PROVE  Units(q, p, n + 1) = Units(q, p, n) + (IF BodyOf[q][n + 1] = p THEN 1 ELSE 0)
  <1> DEFINE S == {i \in 1..n : BodyOf[q][i] = p}
  <1>1. IsFiniteSet(1..n)
    BY FS_Interval
  <1>2. IsFiniteSet(S) /\ n + 1 \notin S
    BY <1>1, FS_Subset
  <1>3. Cardinality(S) \in Nat
    BY <1>2, FS_CardinalityType
  <1>4. CASE BodyOf[q][n + 1] = p
    <2>1. {i \in 1..(n + 1) : BodyOf[q][i] = p} = S \cup {n + 1}
      BY <1>4
    <2>2. Cardinality(S \cup {n + 1}) = Cardinality(S) + 1
      BY <1>2, FS_AddElement
    <2>. QED
      BY <1>4, <2>1, <2>2 DEF Units
  <1>5. CASE BodyOf[q][n + 1] # p
    <2>1. {i \in 1..(n + 1) : BodyOf[q][i] = p} = S
      BY <1>5
    <2>. QED
      BY <1>3, <1>5, <2>1 DEF Units
  <1>. QED
    BY <1>4, <1>5

(***************************************************************************)
(* What the steps do, whatever their reason.                               *)
(***************************************************************************)

\* The handler looks the key up, or answers after the transaction; it does not
\* touch the products.
Talks(q) ==
    \/ FindIdempotency(q) \/ FindFails(q)
    \/ RememberIdempotent(q) \/ RememberFails(q) \/ ReadBackFails(q)

\* The transaction is given up.
GivenUp(q) ==
    /\ pc[q] \in {"checked", "created"}
    /\ pc' = [pc EXCEPT ![q] = "done"]
    /\ Rollback(q)
    /\ \/ UNCHANGED answer
       \/ answer' = [answer EXCEPT ![q] = [kind |-> "error", order |-> NoRequest]]
    /\ pc[q] = "checked" \/ Fault
    /\ UNCHANGED <<placed, stored, overlapped>>

\* A request in a circle of waiting transactions is filling its basket.
LEMMA VictimFills ==
    ASSUME NEW q \in Requests, Deadlocked(q)
    PROVE  pc[q] = "checked"
  <1>1. PICK S \in SUBSET Requests : q \in S /\ {Blocker(r) : r \in S} = S
    BY DEF Deadlocked
  <1>2. Blocker(q) \in Requests
    BY <1>1
  <1>. QED
    BY <1>2, CheckoutAssumption DEF Blocker, Filling

\* The ways a request is cut short all roll its transaction back.
LEMMA EndsGivenUp ==
    ASSUME NEW q \in Requests,
           CreateRefused(q) \/ DeadlockVictim(q) \/ TimesOut(q) \/ Abandon(q)
    PROVE  GivenUp(q) /\ (UNCHANGED faults \/ Fault)
  <1>1. pc[q] \in {"checked", "created"}
    BY VictimFills DEF CreateRefused, DeadlockVictim, TimesOut, Abandon, Filling
  <1>2. pc[q] = "checked" \/ Fault
    BY VictimFills DEF CreateRefused, DeadlockVictim, TimesOut, Abandon, Filling
  <1>. QED
    BY <1>1, <1>2 DEF CreateRefused, DeadlockVictim, TimesOut, Abandon, Reply, GivenUp

\* The requests and the rows they name.
LEMMA RequestFacts ==
    ASSUME TypeOK, NEW q \in Requests
    PROVE  /\ BodyOf[q] \in Seq(Products) /\ Len(BodyOf[q]) \in Nat
           /\ KeyOf[q] \in Keys /\ lines[q] \in Nat
           /\ Filling(q) => Wanted(q) \in Products
  <1>1. BodyOf[q] \in Seq(Products) /\ Len(BodyOf[q]) \in Nat
    BY CheckoutAssumption DEF Products
  <1>2. lines[q] \in Nat
    BY DEF TypeOK
  <1>3. Filling(q) => Wanted(q) \in Products
    BY <1>1, <1>2 DEF Filling, Wanted
  <1>. QED
    BY <1>1, <1>2, <1>3 DEF Keys

\* Every step is one of four kinds.
LEMMA StepKinds ==
    ASSUME NEW q \in Requests,
           \/ Proceeds(q) \/ FindFails(q) \/ RememberFails(q) \/ ReadBackFails(q)
           \/ TimesOut(q) \/ Abandon(q)
    PROVE  \/ Talks(q) \/ TakeLine(q) \/ CreateOrder(q)
           \/ GivenUp(q) /\ (UNCHANGED faults \/ Fault)
  BY EndsGivenUp DEF Proceeds, Talks

\* A fault more is within the bound.
LEMMA FaultType == TypeOK /\ (UNCHANGED faults \/ Fault) => faults' \in 0..MaxFaults
  BY CheckoutAssumption DEF TypeOK, Fault

\* A reply keeps program counters and answers well typed.
LEMMA ReplyType ==
    ASSUME TypeOK, NEW q \in Requests, NEW kind \in Answers,
           NEW order \in Requests \cup {NoRequest}, Reply(q, kind, order)
    PROVE  /\ pc' \in [Requests -> {"new", "checked", "created", "done"}]
           /\ answer' \in [Requests -> [kind : Answers, order : Requests \cup {NoRequest}]]
  BY DEF TypeOK, Reply

\* What the handler does outside the transaction.
LEMMA TalksType ==
    ASSUME TypeOK, NEW q \in Requests, Talks(q)
    PROVE  /\ TypeOK'
           /\ UNCHANGED <<placed, stock, owner, lines>>
           /\ pc[q] \in {"new", "created"} /\ pc'[q] \in {"checked", "done"}
           /\ \A r \in Requests : r # q => pc'[r] = pc[r] /\ answer'[r] = answer[r]
  <1>0. /\ UNCHANGED <<placed, stock, owner, lines>>
        /\ faults' \in 0..MaxFaults /\ overlapped' \subseteq Requests
    <2>1. UNCHANGED <<placed, stock, owner, lines>> /\ faults' \in 0..MaxFaults
      BY FaultType
         DEF Talks, FindIdempotency, FindFails, RememberIdempotent, RememberFails,
             ReadBackFails, orderVars
    <2>2. overlapped' \subseteq overlapped \cup {q}
      BY DEF Talks, FindIdempotency, FindFails, GoesOn, RememberIdempotent, RememberFails,
             ReadBackFails
    <2>. QED
      BY <2>1, <2>2 DEF TypeOK
  <1>1. KeyOf[q] \in Keys /\ Row(q) \in Requests \cup {NoRequest}
    BY RequestFacts DEF Row, TypeOK
  <1>2. CASE pc[q] = "new" /\ pc' = [pc EXCEPT ![q] = "checked"] /\ UNCHANGED <<answer, stored>>
    BY <1>0, <1>2 DEF TypeOK
  <1>3. ASSUME NEW kind \in Answers, NEW order \in Requests \cup {NoRequest},
               Reply(q, kind, order), pc[q] \in {"new", "created"},
               stored' \in [Keys -> Requests \cup {NoRequest}]
        PROVE  /\ TypeOK'
               /\ pc'[q] \in {"checked", "done"}
               /\ \A r \in Requests : r # q => pc'[r] = pc[r] /\ answer'[r] = answer[r]
    <2>1. /\ pc' \in [Requests -> {"new", "checked", "created", "done"}]
          /\ answer' \in [Requests -> [kind : Answers, order : Requests \cup {NoRequest}]]
      BY <1>3, ReplyType
    <2>2. /\ pc'[q] \in {"checked", "done"}
          /\ \A r \in Requests : r # q => pc'[r] = pc[r] /\ answer'[r] = answer[r]
      BY <1>3 DEF Reply, TypeOK
    <2>. QED
      BY <1>0, <1>3, <2>1, <2>2 DEF TypeOK
  <1>4. CASE FindIdempotency(q)
    <2>1. pc[q] = "new" /\ stored' \in [Keys -> Requests \cup {NoRequest}] /\ UNCHANGED stored
      BY <1>4 DEF FindIdempotency, TypeOK
    <2>2. \/ pc' = [pc EXCEPT ![q] = "checked"] /\ UNCHANGED answer
          \/ Reply(q, "conflict", NoRequest)
          \/ Reply(q, "replay", Row(q))
      BY <1>4 DEF FindIdempotency, GoesOn
    <2>3. CASE pc' = [pc EXCEPT ![q] = "checked"] /\ UNCHANGED answer
      BY <1>0, <1>2, <2>1, <2>3 DEF TypeOK
    <2>4. CASE Reply(q, "conflict", NoRequest)
      BY <1>0, <1>3, <2>1, <2>4 DEF Answers
    <2>5. CASE Reply(q, "replay", Row(q))
      BY <1>0, <1>1, <1>3, <2>1, <2>5 DEF Answers
    <2>. QED
      BY <2>2, <2>3, <2>4, <2>5
  <1>5. CASE RememberIdempotent(q) \/ RememberFails(q) \/ ReadBackFails(q)
    <2>1. pc[q] = "created" /\ (Reply(q, "created", q) \/ Reply(q, "error", NoRequest))
      BY <1>5 DEF RememberIdempotent, RememberFails, ReadBackFails
    <2>2. stored' \in [Keys -> Requests \cup {NoRequest}]
      BY <1>1, <1>5 DEF RememberIdempotent, RememberFails, ReadBackFails,
                        SaveIdempotencyResponse, TypeOK
    <2>. QED
      BY <1>0, <1>3, <2>1, <2>2 DEF Answers
  <1>6. CASE FindFails(q)
    <2>1. /\ pc[q] = "new" /\ Reply(q, "error", NoRequest)
          /\ stored' \in [Keys -> Requests \cup {NoRequest}]
      BY <1>6 DEF FindFails, TypeOK
    <2>. QED
      BY <1>0, <1>3, <2>1 DEF Answers
  <1>. QED
    BY <1>4, <1>5, <1>6 DEF Talks

\* The next line is taken from a product that has it.
LEMMA TakeLineType == ASSUME TypeOK, NEW q \in Requests, TakeLine(q) PROVE TypeOK'
  <1>1. Wanted(q) \in Products
    BY RequestFacts DEF TakeLine
  <1>2. stock' \in [Products -> Nat]
    BY <1>1 DEF TakeLine, TypeOK
  <1>. QED
    BY <1>1, <1>2 DEF TakeLine, TypeOK

\* The commit and the rollback keep rows and counters well typed.
LEMMA EndType ==
    ASSUME TypeOK, NEW q \in Requests,
           CreateOrder(q) \/ (GivenUp(q) /\ (UNCHANGED faults \/ Fault))
    PROVE  TypeOK'
  <1>1. Unlocked(q) \in [Products -> Requests \cup {NoRequest}]
    BY DEF TypeOK, Unlocked
  <1>2. CASE CreateOrder(q)
    BY <1>1, <1>2 DEF CreateOrder, TypeOK
  <1>3. CASE GivenUp(q) /\ (UNCHANGED faults \/ Fault)
    <2>1. \A p \in Products : Units(q, p, lines[q]) \in Nat
      BY UnitsType, RequestFacts
    <2>2. stock' \in [Products -> Nat]
      BY <1>3, <2>1 DEF GivenUp, Rollback, TypeOK
    <2>3. faults' \in 0..MaxFaults
      BY <1>3, FaultType
    <2>4. answer' \in [Requests -> [kind : Answers, order : Requests \cup {NoRequest}]]
      BY <1>3 DEF GivenUp, TypeOK, Answers
    <2>. QED
      BY <1>1, <1>3, <2>2, <2>3, <2>4 DEF GivenUp, Rollback, TypeOK
  <1>. QED
    BY <1>2, <1>3

\* Every step keeps requests, rows and answers within their domains.
LEMMA TypeStep == TypeOK /\ [Next]_vars => TypeOK'
  <1> SUFFICES ASSUME TypeOK, [Next]_vars PROVE TypeOK'
    OBVIOUS
  <1>1. CASE UNCHANGED vars
    BY <1>1 DEF vars, orderVars, TypeOK
  <1>. QED
    BY <1>1, StepKinds, TalksType, TakeLineType, EndType DEF Next

\* What a rollback does to the request and to the others.
LEMMA GivenUpFacts ==
    ASSUME TypeOK, NEW q \in Requests, GivenUp(q)
    PROVE  /\ pc'[q] = "done" /\ lines'[q] = 0
           /\ \A r \in Requests : r # q => pc'[r] = pc[r] /\ lines'[r] = lines[r]
           /\ UNCHANGED <<placed, stored>>
           /\ owner' = Unlocked(q)
           /\ \A p \in Products : stock'[p] = stock[p] + Units(q, p, lines[q])
           /\ \A r \in Requests : answer'[r] = answer[r] \/ answer'[r].kind = "error"
  <1>1. \A r \in Requests : answer'[r] = answer[r] \/ answer'[r].kind = "error"
    BY DEF GivenUp, TypeOK
  <1>. QED
    BY <1>1 DEF GivenUp, Rollback, TypeOK

\* Only an open transaction has lines.
LEMMA LinesStep ==
    ASSUME CInv, NEW q \in Requests,
           Talks(q) \/ TakeLine(q) \/ CreateOrder(q) \/ GivenUp(q)
    PROVE  LinesAreOpen'
  <1>0. TypeOK /\ LinesAreOpen /\ \A r \in Requests : lines[r] \in Nat /\ Len(BodyOf[r]) \in Nat
    BY RequestFacts DEF CInv
  <1>1. CASE Talks(q)
    BY <1>0, <1>1, TalksType DEF LinesAreOpen
  <1>2. CASE TakeLine(q)
    <2>1. /\ pc[q] = "checked" /\ lines[q] < Len(BodyOf[q])
          /\ lines'[q] = lines[q] + 1 /\ UNCHANGED pc
          /\ \A r \in Requests : r # q => lines'[r] = lines[r]
      BY <1>0, <1>2 DEF TakeLine, Filling, TypeOK
    <2>. QED
      BY <1>0, <2>1 DEF LinesAreOpen
  <1>3. CASE CreateOrder(q)
    <2>1. /\ lines'[q] = 0
          /\ \A r \in Requests : r # q => lines'[r] = lines[r] /\ pc'[r] = pc[r]
      BY <1>0, <1>3 DEF CreateOrder, TypeOK
    <2>. QED
      BY <1>0, <2>1 DEF LinesAreOpen
  <1>4. CASE GivenUp(q)
    BY <1>0, <1>4, GivenUpFacts DEF LinesAreOpen
  <1>. QED
    BY <1>1, <1>2, <1>3, <1>4

\* An order exists exactly when its transaction committed.
LEMMA PlacedStep ==
    ASSUME CInv, NEW q \in Requests,
           Talks(q) \/ TakeLine(q) \/ CreateOrder(q) \/ GivenUp(q)
    PROVE  PlacedByNow' /\ placed \subseteq placed'
  <1>0. TypeOK /\ PlacedByNow /\ placed \subseteq Requests
    BY DEF CInv, TypeOK
  <1>1. CASE Talks(q)
    <2>1. pc[q] = "new" \/ pc'[q] = "done"
      BY <1>0, <1>1 DEF Talks, FindIdempotency, FindFails, RememberIdempotent, RememberFails,
                        ReadBackFails, Reply, TypeOK
    <2>. QED
      BY <1>0, <1>1, <2>1, TalksType DEF PlacedByNow
  <1>2. CASE TakeLine(q)
    BY <1>0, <1>2 DEF TakeLine, PlacedByNow
  <1>3. CASE CreateOrder(q)
    BY <1>0, <1>3 DEF CreateOrder, PlacedByNow, TypeOK
  <1>4. CASE GivenUp(q)
    BY <1>0, <1>4, GivenUpFacts DEF PlacedByNow
  <1>. QED
    BY <1>1, <1>2, <1>3, <1>4

\* SaveIdempotencyResponse fills an empty row and changes no other.
LEMMA StoredStep ==
    ASSUME CInv, NEW q \in Requests,
           Talks(q) \/ TakeLine(q) \/ CreateOrder(q) \/ GivenUp(q)
    PROVE  /\ \A k \in Keys : stored[k] # NoRequest => stored'[k] = stored[k]
           /\ \A k \in Keys : stored'[k] # stored[k] =>
                 stored'[k] = q /\ k = KeyOf[q] /\ q \in placed /\ UNCHANGED placed
  <1>0. TypeOK /\ PlacedByNow
    BY DEF CInv
  <1>1. CASE RememberIdempotent(q)
    BY <1>0, <1>1 DEF RememberIdempotent, SaveIdempotencyResponse, PlacedByNow, TypeOK
  <1>2. CASE ~RememberIdempotent(q)
    <2>1. UNCHANGED stored
      BY <1>2 DEF Talks, FindIdempotency, FindFails, RememberFails, ReadBackFails, TakeLine,
                  CreateOrder, GivenUp
    <2>. QED
      BY <2>1
  <1>. QED
    BY <1>1, <1>2

\* So a key keeps remembering an order of its own.
LEMMA RemembersStep ==
    ASSUME CInv, NEW q \in Requests,
           Talks(q) \/ TakeLine(q) \/ CreateOrder(q) \/ GivenUp(q)
    PROVE  RemembersOwnOrder'
  BY StoredStep, PlacedStep DEF CInv, RemembersOwnOrder

\* Answers name an order of the same key and body, and the key remembers it.
LEMMA AnswerStep ==
    ASSUME CInv, NEW q \in Requests,
           Talks(q) \/ TakeLine(q) \/ CreateOrder(q)
           \/ (GivenUp(q) /\ (UNCHANGED faults \/ Fault))
    PROVE  AnswersNameOwnOrder'
  <1>0. TypeOK /\ PlacedByNow /\ RemembersOwnOrder /\ AnswersNameOwnOrder
    BY DEF CInv
  <1>1. placed \subseteq placed' /\ (\A k \in Keys : stored[k] # NoRequest => stored'[k] = stored[k])
    BY PlacedStep, StoredStep
  <1>2. faults' = 0 => faults = 0
    BY <1>0, CheckoutAssumption
       DEF Talks, FindIdempotency, FindFails, RememberIdempotent, RememberFails,
           ReadBackFails, TakeLine, CreateOrder, Fault, TypeOK
  <1>3. \A r \in Requests : KeyOf[r] \in Keys
    BY <1>0, RequestFacts
  <1> SUFFICES ASSUME NEW r \in Requests, answer'[r].kind \in {"created", "replay"}
               PROVE  LET o == answer'[r].order
                      IN  /\ o \in placed' /\ KeyOf[o] = KeyOf[r] /\ BodyOf[o] = BodyOf[r]
                          /\ faults' = 0 => stored'[KeyOf[r]] # NoRequest
    BY DEF AnswersNameOwnOrder, Row
  <1>4. CASE answer'[r] = answer[r]
    <2>1. LET o == answer[r].order
          IN  /\ o \in placed /\ KeyOf[o] = KeyOf[r] /\ BodyOf[o] = BodyOf[r]
              /\ faults = 0 => stored[KeyOf[r]] # NoRequest
      BY <1>0, <1>4 DEF AnswersNameOwnOrder, Row
    <2>. QED
      BY <1>1, <1>2, <1>3, <1>4, <2>1
  <1>5. CASE answer'[r] # answer[r]
    <2>1. Talks(q) /\ r = q
      <3>1. ~GivenUp(q)
        BY <1>0, <1>5, GivenUpFacts
      <3>2. Talks(q)
        BY <1>5, <3>1 DEF TakeLine, CreateOrder
      <3>. QED
        BY <1>0, <1>5, <3>2, TalksType
    <2>2. \/ FindIdempotency(q) /\ Row(q) # NoRequest /\ BodyOf[Row(q)] = BodyOf[q]
             /\ answer'[q] = [kind |-> "replay", order |-> Row(q)] /\ UNCHANGED stored
          \/ RememberIdempotent(q) /\ answer'[q] = [kind |-> "created", order |-> q]
          \/ RememberFails(q) /\ answer'[q] = [kind |-> "created", order |-> q]
      BY <1>0, <1>5, <2>1 DEF Talks, FindIdempotency, FindFails, GoesOn, RememberIdempotent,
                              RememberFails, ReadBackFails, Reply, TypeOK
    <2>3. CASE /\ Row(q) # NoRequest /\ BodyOf[Row(q)] = BodyOf[q]
               /\ answer'[q] = [kind |-> "replay", order |-> Row(q)] /\ UNCHANGED stored
      <3>1. Row(q) \in placed /\ KeyOf[Row(q)] = KeyOf[q]
        BY <1>0, <1>3, <2>3 DEF RemembersOwnOrder, Row
      <3>2. answer'[q].order = Row(q)
        BY <2>3
      <3>. QED
        BY <1>1, <2>1, <2>3, <3>1, <3>2 DEF Row
    <2>4. CASE RememberIdempotent(q) /\ answer'[q] = [kind |-> "created", order |-> q]
      <3>1. q \in placed
        BY <1>0, <2>4 DEF RememberIdempotent, PlacedByNow
      <3>2. stored'[KeyOf[q]] # NoRequest
        BY <1>0, <1>3, <2>4, CheckoutAssumption
           DEF RememberIdempotent, SaveIdempotencyResponse, TypeOK
      <3>. QED
        BY <1>1, <2>1, <2>4, <3>1, <3>2
    <2>5. CASE RememberFails(q) /\ answer'[q] = [kind |-> "created", order |-> q]
      <3>1. q \in placed
        BY <1>0, <2>5 DEF RememberFails, PlacedByNow
      <3>2. faults' # 0
        BY <1>0, <2>5, CheckoutAssumption DEF RememberFails, Fault, TypeOK
      <3>. QED
        BY <1>1, <2>1, <2>5, <3>1, <3>2
    <2>. QED
      BY <2>2, <2>3, <2>4, <2>5
  <1>. QED
    BY <1>4, <1>5

\* Only open transactions hold rows, and only of products they took.
LEMMA OwnerStep ==
    ASSUME CInv, TypeOK', NEW q \in Requests,
           Talks(q) \/ TakeLine(q) \/ CreateOrder(q) \/ GivenUp(q),
           NEW p \in Products, owner'[p] # NoRequest
    PROVE  pc'[owner'[p]] = "checked" /\ Units(owner'[p], p, lines'[owner'[p]]) > 0
  <1>0. /\ TypeOK
        /\ owner[p] # NoRequest =>
             pc[owner[p]] = "checked" /\ Units(owner[p], p, lines[owner[p]]) > 0
    BY DEF CInv, BasketsAreWhole
  <1>1. PICK o \in Requests : o = owner'[p]
    BY DEF TypeOK
  <1>2. ASSUME owner[p] = o, o # q,
               pc'[o] = pc[o], lines'[o] = lines[o]
        PROVE  pc'[o] = "checked" /\ Units(o, p, lines'[o]) > 0
    BY <1>0, <1>1, <1>2
  <1>3. CASE Talks(q)
    <2>1. owner[p] = o /\ lines'[o] = lines[o] /\ pc[q] # "checked"
      BY <1>0, <1>1, <1>3, TalksType
    <2>2. o # q
      BY <1>0, <1>1, <2>1
    <2>3. pc'[o] = pc[o]
      BY <1>0, <1>3, <2>2, TalksType
    <2>. QED
      BY <1>1, <1>2, <2>1, <2>2, <2>3
  <1>4. CASE TakeLine(q)
    <2>1. /\ pc[q] = "checked" /\ UNCHANGED pc /\ Wanted(q) \in Products
          /\ lines'[q] = lines[q] + 1 /\ \A r \in Requests : r # q => lines'[r] = lines[r]
          /\ owner'[p] = IF p = Wanted(q) THEN q ELSE owner[p]
      BY <1>0, <1>4, RequestFacts DEF TakeLine, Filling, TypeOK
    <2>2. CASE o # q
      BY <1>1, <1>2, <2>1, <2>2
    <2>3. CASE o = q
      <3>1. /\ lines[q] \in Nat /\ Units(q, p, lines[q]) \in Nat
            /\ Units(q, p, lines[q] + 1)
                 = Units(q, p, lines[q]) + (IF Wanted(q) = p THEN 1 ELSE 0)
        BY <1>0, RequestFacts, UnitsType, UnitsNext DEF Wanted
      <3>2. p = Wanted(q) \/ Units(q, p, lines[q]) > 0
        BY <1>0, <1>1, <2>1, <2>3
      <3>3. Units(q, p, lines[q] + 1) > 0
        BY <3>1, <3>2
      <3>. QED
        BY <1>1, <2>1, <2>3, <3>3
    <2>. QED
      BY <2>2, <2>3
  <1>5. CASE CreateOrder(q) \/ GivenUp(q)
    <2>1. /\ owner' = Unlocked(q)
          /\ \A r \in Requests : r # q => pc'[r] = pc[r] /\ lines'[r] = lines[r]
      BY <1>0, <1>5, GivenUpFacts DEF CreateOrder, TypeOK
    <2>2. owner[p] = o /\ o # q
      BY <1>1, <2>1, CheckoutAssumption DEF Unlocked
    <2>. QED
      BY <1>1, <1>2, <2>1, <2>2
  <1>. QED
    BY <1>3, <1>4, <1>5

\* Every step leaves stock and what the requests took in balance.
LEMMA BalanceStep ==
    ASSUME CInv, TypeOK', NEW q \in Requests,
           Talks(q) \/ TakeLine(q) \/ CreateOrder(q) \/ GivenUp(q),
           NEW p \in Products
    PROVE  stock'[p] + SumFunctionOnSet(Took(p)', Requests) = InitStock[p]
  <1> DEFINE f == Took(p)
             g == Took(p)'
             Total(h) == SumFunctionOnSet(h, Requests)
             Kept == stock'[p] + Total(g) = InitStock[p]
  <1> SUFFICES Kept
    OBVIOUS
  <1>0. /\ TypeOK /\ PlacedByNow /\ LinesAreOpen
        /\ IsFiniteSet(Requests)
        /\ stock[p] + Total(f) = InitStock[p]
        /\ stock[p] \in Nat /\ stock'[p] \in Nat
    BY CheckoutAssumption DEF CInv, BasketsAreWhole, TypeOK
  <1>1. \A r \in Requests : f[r] \in Nat /\ g[r] \in Nat
    <2> SUFFICES ASSUME NEW r \in Requests PROVE f[r] \in Nat /\ g[r] \in Nat
      OBVIOUS
    <2>1. lines[r] \in Nat /\ lines'[r] \in Nat /\ Len(BodyOf[r]) \in Nat
      BY <1>0, RequestFacts DEF TypeOK
    <2>2. /\ Units(r, p, lines[r]) \in Nat /\ Units(r, p, lines'[r]) \in Nat
          /\ Units(r, p, Len(BodyOf[r])) \in Nat
      BY <2>1, UnitsType
    <2>. QED
      BY <2>2 DEF Took
  <1>2. Total(f) \in Nat /\ Total(g) \in Nat
    <2> HIDE DEF f, g
    <2>. QED
      BY <1>0, <1>1, SumType
  <1>3. ASSUME \A r \in Requests \ {q} : f[r] = g[r], stock'[p] + g[q] = stock[p] + f[q]
        PROVE  Kept
    <2>1. Total(g) + f[q] = Total(f) + g[q]
      <3> HIDE DEF f, g
      <3>. QED
        BY <1>0, <1>1, <1>3, SumChange
    <2>2. f[q] \in Nat /\ g[q] \in Nat
      BY <1>1
    <2> HIDE DEF f, g, Total
    <2>. QED
      BY <1>0, <1>2, <1>3, <2>1, <2>2
  <1>4. lines[q] \in Nat /\ Units(q, p, lines[q]) \in Nat /\ Len(BodyOf[q]) \in Nat
    BY <1>0, RequestFacts, UnitsType
  <1>5. CASE Talks(q)
    <2>1. UNCHANGED <<placed, stock, lines>>
      BY <1>0, <1>5, TalksType
    <2>2. \A r \in Requests : f[r] = g[r]
      BY <2>1 DEF Took
    <2>3. stock'[p] + g[q] = stock[p] + f[q]
      BY <2>1, <2>2
    <2> HIDE DEF f, g, Kept
    <2>. QED
      BY <1>3, <2>2, <2>3
  <1>6. CASE TakeLine(q)
    <2>1. /\ UNCHANGED placed /\ Wanted(q) \in Products
          /\ lines'[q] = lines[q] + 1 /\ \A r \in Requests : r # q => lines'[r] = lines[r]
          /\ stock[Wanted(q)] > 0
          /\ stock'[p] = IF p = Wanted(q) THEN stock[p] - 1 ELSE stock[p]
      BY <1>0, <1>6, RequestFacts DEF TakeLine, Filling, TypeOK
    <2>2. Units(q, p, lines[q] + 1) = Units(q, p, lines[q]) + (IF Wanted(q) = p THEN 1 ELSE 0)
      BY <1>4, UnitsNext DEF Wanted
    <2>3. \A r \in Requests \ {q} : f[r] = g[r]
      BY <2>1 DEF Took
    <2>4. f[q] \in Nat /\ g[q] = f[q] + (IF Wanted(q) = p THEN 1 ELSE 0)
      <3>1. (IF q \in placed THEN Units(q, p, Len(BodyOf[q])) ELSE 0) \in Nat
        BY <1>4, UnitsType
      <3>. QED
        BY <1>4, <2>1, <2>2, <3>1 DEF Took
    <2> HIDE DEF f, g, Kept
    <2>5. stock'[p] + g[q] = stock[p] + f[q]
      BY <1>0, <2>1, <2>4
    <2>. QED
      BY <1>3, <2>3, <2>5
  <1>7. CASE CreateOrder(q)
    <2>1. /\ placed' = placed \cup {q} /\ lines[q] = Len(BodyOf[q]) /\ pc[q] = "checked"
          /\ lines'[q] = 0 /\ \A r \in Requests : r # q => lines'[r] = lines[r]
          /\ stock'[p] = stock[p]
      BY <1>0, <1>7 DEF CreateOrder, TypeOK
    <2>2. q \notin placed
      BY <1>0, <2>1 DEF PlacedByNow
    <2>3. \A r \in Requests \ {q} : f[r] = g[r]
      BY <2>1 DEF Took
    <2>4. f[q] = Units(q, p, lines[q]) /\ g[q] = Units(q, p, lines[q])
      BY <1>4, <2>1, <2>2, UnitsNone DEF Took
    <2> HIDE DEF f, g, Kept
    <2>5. stock'[p] + g[q] = stock[p] + f[q]
      BY <2>1, <2>4
    <2>. QED
      BY <1>3, <2>3, <2>5
  <1>8. CASE GivenUp(q)
    <2>1. /\ UNCHANGED placed
          /\ lines'[q] = 0 /\ \A r \in Requests : r # q => lines'[r] = lines[r]
          /\ stock'[p] = stock[p] + Units(q, p, lines[q])
      BY <1>0, <1>8, GivenUpFacts
    <2>2. \A r \in Requests \ {q} : f[r] = g[r]
      BY <2>1 DEF Took
    <2>3. f[q] = g[q] + Units(q, p, lines[q]) /\ g[q] \in Nat
      <3>1. (IF q \in placed THEN Units(q, p, Len(BodyOf[q])) ELSE 0) \in Nat
        BY <1>4, UnitsType
      <3>. QED
        BY <1>4, <2>1, <3>1, UnitsNone DEF Took
    <2> HIDE DEF f, g, Kept
    <2>4. stock'[p] + g[q] = stock[p] + f[q]
      BY <1>0, <1>4, <2>1, <2>3
    <2>. QED
      BY <1>3, <2>2, <2>4
  <1>. QED
    BY <1>5, <1>6, <1>7, <1>8

(***************************************************************************)
(* The orders of a key.                                                    *)
(***************************************************************************)

\* Sets of requests are finite, and one element more counts one more.
LEMMA Counting ==
    ASSUME NEW S \in SUBSET Requests, NEW T \in SUBSET Requests, NEW q \in Requests
    PROVE  /\ IsFiniteSet(S) /\ Cardinality(S) \in Nat
           /\ T \subseteq S => Cardinality(T) <= Cardinality(S)
           /\ T \subseteq S \cup {q} => Cardinality(T) <= Cardinality(S) + 1
  <1>1. IsFiniteSet(S) /\ IsFiniteSet(T)
    BY CheckoutAssumption, FS_Subset
  <1>2. Cardinality(S) \in Nat /\ Cardinality(T) \in Nat
    BY <1>1, FS_CardinalityType
  <1>3. T \subseteq S => Cardinality(T) <= Cardinality(S)
    BY <1>1, FS_Subset
  <1>4. IsFiniteSet(S \cup {q}) /\ Cardinality(S \cup {q}) <= Cardinality(S) + 1
    <2>1. Cardinality(S \cup {q}) = IF q \in S THEN Cardinality(S) ELSE Cardinality(S) + 1
      BY <1>1, FS_AddElement
    <2>. QED
      BY <1>1, <1>2, <2>1, FS_AddElement
  <1>5. T \subseteq S \cup {q} => Cardinality(T) <= Cardinality(S \cup {q})
    BY <1>4, FS_Subset
  <1>6. Cardinality(S \cup {q}) \in Nat
    BY <1>4, FS_CardinalityType
  <1>. QED
    BY <1>1, <1>2, <1>3, <1>4, <1>5, <1>6

\* As long as a key remembers nothing, its handlers return with an order only
\* through a failure.
LEMMA SettledStep ==
    ASSUME CInv, NEW q \in Requests,
           Talks(q) \/ TakeLine(q) \/ CreateOrder(q)
           \/ (GivenUp(q) /\ (UNCHANGED faults \/ Fault)),
           NEW k \in Keys, stored'[k] = NoRequest
    PROVE  /\ stored[k] = NoRequest
           /\ \/ Settled(k)' \subseteq Settled(k) /\ (faults' = faults \/ faults' = faults + 1)
              \/ Settled(k)' \subseteq Settled(k) \cup {q} /\ faults' = faults + 1
  <1>0. TypeOK /\ PlacedByNow /\ placed \subseteq Requests
    BY DEF CInv, TypeOK
  <1>1. stored[k] = NoRequest
    BY StoredStep
  <1>2. CASE FindIdempotency(q) \/ FindFails(q)
    <2>1. /\ pc[q] = "new" /\ UNCHANGED placed /\ (faults' = faults \/ faults' = faults + 1)
          /\ \A r \in Requests : r # q => pc'[r] = pc[r]
      BY <1>0, <1>2, TalksType DEF Talks, FindIdempotency, FindFails, Fault
    <2>2. q \notin placed
      BY <1>0, <2>1 DEF PlacedByNow
    <2>. QED
      BY <1>0, <1>1, <2>1, <2>2 DEF Settled
  <1>3. CASE RememberIdempotent(q)
    <2>1. stored'[KeyOf[q]] # NoRequest
      BY <1>0, <1>3, RequestFacts, CheckoutAssumption
         DEF RememberIdempotent, SaveIdempotencyResponse, TypeOK
    <2>2. /\ UNCHANGED <<placed, faults>> /\ k # KeyOf[q]
          /\ \A r \in Requests : r # q => pc'[r] = pc[r]
      BY <1>0, <1>3, <2>1, TalksType DEF Talks, RememberIdempotent
    <2>. QED
      BY <1>0, <1>1, <2>2 DEF Settled
  <1>4. CASE RememberFails(q) \/ ReadBackFails(q)
    <2>1. /\ UNCHANGED placed /\ faults' = faults + 1
          /\ \A r \in Requests : r # q => pc'[r] = pc[r]
      BY <1>0, <1>4, TalksType DEF Talks, RememberFails, ReadBackFails, Fault
    <2>. QED
      BY <1>0, <1>1, <2>1 DEF Settled
  <1>5. CASE TakeLine(q)
    BY <1>1, <1>5 DEF TakeLine, Settled
  <1>6. CASE CreateOrder(q)
    BY <1>0, <1>1, <1>6 DEF CreateOrder, Settled, TypeOK
  <1>7. CASE GivenUp(q) /\ (UNCHANGED faults \/ Fault)
    <2>1. /\ UNCHANGED placed /\ \A r \in Requests : r # q => pc'[r] = pc[r]
          /\ faults' = faults \/ faults' = faults + 1
          /\ pc[q] = "checked" \/ faults' = faults + 1
      BY <1>0, <1>7, GivenUpFacts DEF GivenUp, Fault
    <2>2. pc[q] = "checked" => q \notin placed
      BY <1>0 DEF PlacedByNow
    <2>. QED
      BY <1>0, <1>1, <2>1, <2>2 DEF Settled
  <1>. QED
    BY <1>2, <1>3, <1>4, <1>5, <1>6, <1>7 DEF Talks

\* A request joins the ones that were alone only at its lookup, and then finds
\* only orders whose handler has returned.
LEMMA AloneStep ==
    ASSUME CInv, NEW q \in Requests,
           Talks(q) \/ TakeLine(q) \/ CreateOrder(q) \/ GivenUp(q),
           NEW k \in Keys
    PROVE  \/ Alone(k)' \subseteq Alone(k)
           \/ stored[k] = NoRequest /\ Alone(k)' \subseteq Settled(k) \cup {q}
  <1>0. TypeOK /\ PlacedByNow /\ placed \subseteq Requests
    BY DEF CInv, TypeOK
  <1>1. CASE GoesOn(q) /\ FindIdempotency(q) /\ Row(q) = NoRequest /\ k = KeyOf[q]
    <2>1. /\ pc[q] = "new" /\ UNCHANGED placed /\ stored[k] = NoRequest
          /\ \A r \in Requests : r # q => pc'[r] = pc[r]
          /\ overlapped' = IF \E r \in InFlight : KeyOf[r] = KeyOf[q]
                           THEN overlapped \cup {q} ELSE overlapped
      BY <1>0, <1>1, TalksType DEF Talks, FindIdempotency, GoesOn, Row
    <2>2. CASE \E r \in InFlight : KeyOf[r] = KeyOf[q]
      BY <1>0, <2>1, <2>2 DEF Alone
    <2>3. CASE ~ \E r \in InFlight : KeyOf[r] = KeyOf[q]
      <3>1. \A r \in Requests : KeyOf[r] = k => pc[r] \notin {"checked", "created"}
        BY <1>1, <2>3 DEF InFlight
      <3>2. \A r \in placed : KeyOf[r] = k => pc[r] = "done"
        BY <1>0, <3>1 DEF PlacedByNow
      <3>. QED
        BY <1>0, <2>1, <3>1, <3>2 DEF Alone, Settled
    <2>. QED
      BY <2>2, <2>3
  <1>2. CASE UNCHANGED overlapped /\ UNCHANGED placed /\ pc'[q] # "checked"
             /\ \A r \in Requests : r # q => pc'[r] = pc[r]
    BY <1>0, <1>2 DEF Alone
  <1>3. CASE FindIdempotency(q)
    <2>1. /\ UNCHANGED placed /\ \A r \in Requests : r # q => pc'[r] = pc[r]
          /\ overlapped \subseteq overlapped'
      BY <1>0, <1>3, TalksType DEF Talks, FindIdempotency, GoesOn
    <2>2. CASE k # KeyOf[q]
      BY <1>0, <2>1, <2>2 DEF Alone
    <2>3. \/ GoesOn(q) /\ Row(q) = NoRequest
          \/ UNCHANGED overlapped /\ pc'[q] = "done"
      BY <1>0, <1>3 DEF FindIdempotency, Reply, TypeOK
    <2>. QED
      BY <1>1, <1>2, <1>3, <2>1, <2>2, <2>3
  <1>4. CASE FindFails(q) \/ RememberIdempotent(q) \/ RememberFails(q) \/ ReadBackFails(q)
    <2>1. /\ UNCHANGED <<placed, overlapped>> /\ pc'[q] = "done"
          /\ \A r \in Requests : r # q => pc'[r] = pc[r]
      BY <1>0, <1>4 DEF FindFails, RememberIdempotent, RememberFails, ReadBackFails, Reply, TypeOK
    <2>. QED
      BY <1>2, <2>1
  <1>5. CASE TakeLine(q)
    BY <1>5 DEF TakeLine, Alone
  <1>6. CASE CreateOrder(q)
    BY <1>0, <1>6 DEF CreateOrder, Alone, TypeOK
  <1>7. CASE GivenUp(q)
    <2>1. /\ UNCHANGED <<placed, overlapped>> /\ pc'[q] = "done"
          /\ \A r \in Requests : r # q => pc'[r] = pc[r]
      BY <1>0, <1>7, GivenUpFacts DEF GivenUp
    <2>. QED
      BY <1>2, <2>1
  <1>. QED
    BY <1>3, <1>4, <1>5, <1>6, <1>7 DEF Talks

\* No step spends more than its key's budget.
LEMMA BudgetStep ==
    ASSUME CInv, TypeOK', NEW q \in Requests,
           Talks(q) \/ TakeLine(q) \/ CreateOrder(q)
           \/ (GivenUp(q) /\ (UNCHANGED faults \/ Fault))
    PROVE  KeyBudget'
  <1> SUFFICES ASSUME NEW k \in Keys
               PROVE  /\ stored'[k] = NoRequest => Cardinality(Settled(k)') <= faults'
                      /\ Cardinality(Alone(k)') <= 1 + faults'
    BY DEF KeyBudget
  <1> DEFINE S == Settled(k)
             T == Settled(k)'
             A == Alone(k)
             B == Alone(k)'
  <1>0. /\ S \in SUBSET Requests /\ T \in SUBSET Requests
        /\ A \in SUBSET Requests /\ B \in SUBSET Requests
        /\ faults \in Nat /\ faults' \in Nat
    BY DEF CInv, TypeOK, Settled, Alone
  <1>1. /\ stored[k] = NoRequest => Cardinality(S) <= faults
        /\ Cardinality(A) <= 1 + faults
    BY DEF CInv, KeyBudget
  <1>2. faults <= faults'
    BY <1>0 DEF Talks, FindIdempotency, FindFails, RememberIdempotent, RememberFails,
                ReadBackFails, TakeLine, CreateOrder, Fault
  <1>3. ASSUME stored'[k] = NoRequest
        PROVE  /\ stored[k] = NoRequest
               /\ \/ T \subseteq S /\ (faults' = faults \/ faults' = faults + 1)
                  \/ T \subseteq S \cup {q} /\ faults' = faults + 1
    BY <1>3, SettledStep
  <1>4. \/ B \subseteq A
        \/ stored[k] = NoRequest /\ B \subseteq S \cup {q}
    BY AloneStep
  <1> HIDE DEF S, T, A, B
  <1>5. /\ Cardinality(S) \in Nat /\ Cardinality(T) \in Nat
        /\ Cardinality(A) \in Nat /\ Cardinality(B) \in Nat
        /\ T \subseteq S => Cardinality(T) <= Cardinality(S)
        /\ T \subseteq S \cup {q} => Cardinality(T) <= Cardinality(S) + 1
        /\ B \subseteq A => Cardinality(B) <= Cardinality(A)
        /\ B \subseteq S \cup {q} => Cardinality(B) <= Cardinality(S) + 1
    BY <1>0, Counting
  <1>6. stored'[k] = NoRequest => Cardinality(T) <= faults'
    BY <1>0, <1>1, <1>3, <1>5
  <1>7. Cardinality(B) <= 1 + faults'
    BY <1>0, <1>1, <1>2, <1>4, <1>5
  <1>. QED
    BY <1>6, <1>7 DEF T, B

\* The orders of a key are those that passed the lookup alone, and others.
LEMMA BudgetBounds == CInv => OrdersPerKeyBounded
  <1> SUFFICES ASSUME CInv, NEW k \in Keys
               PROVE  Cardinality({q \in placed : KeyOf[q] = k})
                        <= 1 + faults + Cardinality({q \in overlapped : KeyOf[q] = k})
    BY DEF OrdersPerKeyBounded
  <1> DEFINE P == {q \in placed : KeyOf[q] = k}
             A == Alone(k)
             V == {q \in overlapped : KeyOf[q] = k}
  <1>1. /\ P \in SUBSET Requests /\ A \in SUBSET Requests /\ V \in SUBSET Requests
        /\ P \subseteq A \cup V /\ faults \in Nat
    BY DEF CInv, TypeOK, Alone
  <1>2. Cardinality(A) <= 1 + faults
    BY DEF CInv, KeyBudget
  <1> HIDE DEF P, A, V
  <1>3. IsFiniteSet(P) /\ IsFiniteSet(A) /\ IsFiniteSet(V)
    BY <1>1, CheckoutAssumption, FS_Subset
  <1>4. /\ IsFiniteSet(A \cup V) /\ IsFiniteSet(A \cap V)
        /\ Cardinality(A \cup V) = Cardinality(A) + Cardinality(V) - Cardinality(A \cap V)
    BY <1>3, FS_Union, FS_Intersection
  <1>5. Cardinality(P) <= Cardinality(A \cup V)
    BY <1>1, <1>4, FS_Subset
  <1>6. /\ Cardinality(P) \in Nat /\ Cardinality(A) \in Nat /\ Cardinality(V) \in Nat
        /\ Cardinality(A \cap V) \in Nat /\ Cardinality(A \cup V) \in Nat
    BY <1>3, <1>4, FS_CardinalityType
  <1>7. Cardinality(P) <= 1 + faults + Cardinality(V)
    BY <1>1, <1>2, <1>4, <1>5, <1>6
  <1>. QED
    BY <1>7 DEF P, V

\* The invariant is inductive.
LEMMA CInvStep == CInv /\ [Next]_vars => CInv'
  <1> SUFFICES ASSUME CInv, [Next]_vars PROVE CInv'
    OBVIOUS
  <1>0. TypeOK'
    BY TypeStep DEF CInv
  <1>1. CASE UNCHANGED vars
    <2>1. BasketsAreWhole'
      BY <1>1 DEF CInv, BasketsAreWhole, Took, vars, orderVars
    <2>2. AnswersNameOwnOrder'
      BY <1>1 DEF CInv, AnswersNameOwnOrder, Row, vars
    <2>3. KeyBudget'
      BY <1>1 DEF CInv, KeyBudget, Settled, Alone, vars
    <2>. QED
      BY <1>0, <1>1, <2>1, <2>2, <2>3
         DEF CInv, LinesAreOpen, PlacedByNow, RemembersOwnOrder, vars, orderVars
  <1>2. ASSUME NEW q \in Requests,
               \/ Talks(q) \/ TakeLine(q) \/ CreateOrder(q)
               \/ GivenUp(q) /\ (UNCHANGED faults \/ Fault)
        PROVE  CInv'
    <2>1. LinesAreOpen' /\ PlacedByNow' /\ RemembersOwnOrder' /\ AnswersNameOwnOrder'
      BY <1>2, LinesStep, PlacedStep, RemembersStep, AnswerStep
    <2>2. BasketsAreWhole'
      BY <1>0, <1>2, OwnerStep, BalanceStep DEF BasketsAreWhole
    <2>3. KeyBudget'
      BY <1>0, <1>2, BudgetStep
    <2>. QED
      BY <1>0, <2>1, <2>2, <2>3 DEF CInv
  <1>. QED
    BY <1>1, <1>2, StepKinds DEF Next

\* Before the first request nothing is taken, remembered or answered.
LEMMA CInvInit == Init => CInv
  <1> SUFFICES ASSUME Init PROVE CInv
    OBVIOUS
  <1>1. TypeOK
    <2>1. faults \in 0..MaxFaults /\ stock \in [Products -> Nat]
      BY CheckoutAssumption DEF Init, Products
    <2>. QED
      BY <2>1 DEF Init, TypeOK, Answers
  <1>2. LinesAreOpen
    BY <1>1, RequestFacts DEF Init, LinesAreOpen
  <1>3. PlacedByNow /\ RemembersOwnOrder /\ AnswersNameOwnOrder
    BY DEF Init, PlacedByNow, RemembersOwnOrder, AnswersNameOwnOrder
  <1>4. ASSUME NEW p \in Products
        PROVE  stock[p] + SumFunctionOnSet(Took(p), Requests) = InitStock[p]
    <2> DEFINE f == Took(p)
    <2>1. \A q \in Requests : f[q] = 0
      BY UnitsNone DEF Took, Init
    <2>2. SumFunctionOnSet(f, Requests) = 0
      <3> HIDE DEF f
      <3>. QED
        BY <2>1, SumOfZeros, CheckoutAssumption
    <2>3. stock[p] = InitStock[p] /\ stock[p] \in Nat
      BY <1>1 DEF Init, TypeOK
    <2>. QED
      BY <2>2, <2>3
  <1>5. BasketsAreWhole
    BY <1>4 DEF Init, BasketsAreWhole
  <1>6. KeyBudget
    <2> SUFFICES ASSUME NEW k \in Keys
                 PROVE  Cardinality(Settled(k)) <= 0 /\ Cardinality(Alone(k)) <= 1
      BY DEF Init, KeyBudget
    <2>1. Settled(k) = {} /\ Alone(k) = {}
      BY DEF Init, Settled, Alone
    <2>. QED
      BY <2>1, FS_EmptySet
  <1>. QED
    BY <1>1, <1>2, <1>3, <1>5, <1>6 DEF CInv

\* The checkout's invariant holds in every reachable state.
THEOREM CheckoutInvariant == Spec => []CInv
  BY CInvInit, CInvStep, PTL DEF Spec

\* Requests, rows and answers stay within their domains; no stock goes negative.
THEOREM CheckoutTypeCorrect == Spec => []TypeOK
  <1>1. CInv => TypeOK
    BY DEF CInv
  <1>. QED
    BY <1>1, CheckoutInvariant, PTL

\* A key never answers with somebody else's order, for any interleaving of
\* lookups, transactions, answers and failures (Service.Create, handler.create).
THEOREM KeysAnswerOwnOrders == Spec => []AnswersNameOwnOrder
  <1>1. CInv => AnswersNameOwnOrder
    BY DEF CInv
  <1>. QED
    BY <1>1, CheckoutInvariant, PTL

\* A basket is taken whole or not at all, whoever waits, fails, times out or is
\* the victim of a deadlock (CreateOrder's transaction).
THEOREM BasketsStayWhole == Spec => []BasketsAreWhole
  <1>1. CInv => BasketsAreWhole
    BY DEF CInv
  <1>. QED
    BY <1>1, CheckoutInvariant, PTL

\* A key orders at most once, and once more for every request that overlapped
\* another of its key and for every failure (service.Create's lookup, CreateOrder
\* and SaveIdempotencyResponse are separate statements).
THEOREM KeysOrderWithinBudget == Spec => []OrdersPerKeyBounded
  <1>1. CInv => OrdersPerKeyBounded
    BY BudgetBounds
  <1>. QED
    BY <1>1, CheckoutInvariant, PTL
=============================================================================

--------------------------- MODULE SessionsProofs ---------------------------
(***************************************************************************)
(* The three properties of Sessions for any number of accounts, requests,  *)
(* tokens and failures.  The inductive invariant counts the rights to a    *)
(* login's next token: a key that nobody is using is one, and so is a      *)
(* request that has passed EXISTS, whether its DEL is still to come or     *)
(* not.  Only a request that comes to a token in use makes one more; a     *)
(* logout takes one away.                                                  *)
(***************************************************************************)
EXTENDS Sessions, FiniteSetTheorems, TLAPS

-----------------------------------------------------------------------------
(* The inductive invariant. *)

\* Every token descends from a login, and requests hold tokens that exist.
TokensAreRooted ==
    /\ \A t \in 1..issued : root[t] \in 1..issued /\ root[root[t]] = root[t]
    /\ \A c \in Requests :
          /\ req[c].token \in 0..issued
          /\ req[c].at = "del" => req[c].token # NoToken

\* Keys of a login that nobody is using.
FreeKeys(r) == {t \in Chain(r) \cap keys : Using(t) = {}}

\* Requests that have passed EXISTS with a token of the login.
Holders(r) == {c \in Requests : req[c].at \in {"del", "issue"} /\ req[c].token \in Chain(r)}

Ended(r) == IF Chain(r) \cap revoked = {} THEN 0 ELSE 1

SlotsCounted ==
    \A r \in Logins :
        Cardinality(FreeKeys(r)) + Cardinality(Holders(r)) + Ended(r) <= 1 + overlaps[r]

SInv == TypeOK /\ TokensAreRooted /\ SlotsCounted

-----------------------------------------------------------------------------
(* Counting. *)

\* An element more or less in a finite set.
LEMMA Counting ==
    ASSUME NEW S, IsFiniteSet(S), NEW T, NEW x
    PROVE  /\ Cardinality(S) \in Nat
           /\ T \subseteq S \cup {x} =>
                IsFiniteSet(T) /\ Cardinality(T) \in Nat /\ Cardinality(T) <= Cardinality(S) + 1
           /\ T \subseteq S => Cardinality(T) <= Cardinality(S)
           /\ T \subseteq S \ {x} /\ x \in S => Cardinality(T) <= Cardinality(S) - 1
<1>1. Cardinality(S) \in Nat
  BY FS_CardinalityType
<1>2. IsFiniteSet(S \cup {x}) /\ Cardinality(S \cup {x}) <= Cardinality(S) + 1
  <2>1. Cardinality(S \cup {x}) = IF x \in S THEN Cardinality(S) ELSE Cardinality(S) + 1
    BY FS_AddElement
  <2> QED
    BY <1>1, <2>1, FS_AddElement
<1>3. Cardinality(S \cup {x}) \in Nat
  BY <1>2, FS_CardinalityType
<1>4. T \subseteq S \cup {x} => IsFiniteSet(T) /\ Cardinality(T) <= Cardinality(S \cup {x})
  BY <1>2, FS_Subset
<1>5. IsFiniteSet(T) => Cardinality(T) \in Nat
  BY FS_CardinalityType
<1>6. T \subseteq S => Cardinality(T) <= Cardinality(S)
  BY FS_Subset
<1>7. x \in S => IsFiniteSet(S \ {x}) /\ Cardinality(S \ {x}) = Cardinality(S) - 1
  BY FS_RemoveElement
<1>8. T \subseteq S \ {x} /\ x \in S => Cardinality(T) <= Cardinality(S) - 1
  BY <1>7, FS_Subset
<1> QED
  BY <1>1, <1>2, <1>3, <1>4, <1>5, <1>6, <1>8

\* The ways a step may move the rights of a login: F and G are its free keys, H
\* and K its holders, d and e whether it has ended, o and p its overlaps, before
\* and after.
LEMMA Balance ==
    ASSUME NEW F, NEW G, NEW H, NEW K, IsFiniteSet(F), IsFiniteSet(H),
           NEW d \in 0..1, NEW e \in 0..1, NEW o \in Nat, NEW p \in Nat, o <= p,
           Cardinality(F) + Cardinality(H) + d <= 1 + o,
           NEW t, NEW c,
           \/ G \subseteq F /\ K \subseteq H /\ e = d
           \/ t \in F /\ G \subseteq F \ {t} /\ K \subseteq H \cup {c} /\ e = d
           \/ G \subseteq F /\ K \subseteq H \cup {c} /\ e = d /\ o < p
           \/ G \subseteq F \cup {t} /\ c \in H /\ K \subseteq H \ {c} /\ e = d
           \/ t \in F /\ G \subseteq F \ {t} /\ K \subseteq H
           \/ G \subseteq F /\ K \subseteq H /\ o < p
    PROVE  Cardinality(G) + Cardinality(K) + e <= 1 + p
<1>1. /\ Cardinality(F) \in Nat
      /\ G \subseteq F \cup {t} => Cardinality(G) \in Nat /\ Cardinality(G) <= Cardinality(F) + 1
      /\ G \subseteq F => Cardinality(G) <= Cardinality(F)
      /\ G \subseteq F \ {t} /\ t \in F => Cardinality(G) <= Cardinality(F) - 1
  BY Counting
<1>2. /\ Cardinality(H) \in Nat
      /\ K \subseteq H \cup {c} => Cardinality(K) \in Nat /\ Cardinality(K) <= Cardinality(H) + 1
      /\ K \subseteq H => Cardinality(K) <= Cardinality(H)
      /\ K \subseteq H \ {c} /\ c \in H => Cardinality(K) <= Cardinality(H) - 1
  BY Counting
<1>3. G \subseteq F \cup {t} /\ K \subseteq H \cup {c}
  OBVIOUS
<1>4. Cardinality(G) \in Nat /\ Cardinality(K) \in Nat
  BY <1>1, <1>2, <1>3
<1> QED
  BY <1>1, <1>2, <1>4

\* The sets that are counted are finite.
LEMMA SlotsAreFinite ==
    ASSUME SInv, SessionsAssumption, NEW r \in Logins
    PROVE  /\ IsFiniteSet(FreeKeys(r)) /\ IsFiniteSet(Holders(r))
           /\ Ended(r) \in 0..1 /\ overlaps[r] \in Nat /\ r \in Tokens
           /\ Cardinality(FreeKeys(r)) + Cardinality(Holders(r)) + Ended(r) <= 1 + overlaps[r]
<1>1. issued \in Nat /\ issued <= MaxTokens /\ MaxTokens \in Nat /\ IsFiniteSet(Requests)
  BY DEF SInv, TypeOK, SessionsAssumption
<1>2. IsFiniteSet(1..issued)
  BY <1>1, FS_Interval
<1>3. FreeKeys(r) \subseteq 1..issued /\ Holders(r) \subseteq Requests
  BY DEF FreeKeys, Holders, Chain
<1>4. IsFiniteSet(FreeKeys(r)) /\ IsFiniteSet(Holders(r))
  BY <1>1, <1>2, <1>3, FS_Subset
<1>5. r \in Tokens
  BY <1>1 DEF Logins, Tokens
<1>6. overlaps[r] \in Nat
  BY <1>5 DEF SInv, TypeOK
<1> QED
  BY <1>4, <1>5, <1>6 DEF SInv, SlotsCounted, Ended

\* A step that issues nothing keeps the count if it moves each login's rights in
\* one of these ways.
LEMMA SlotsMove ==
    ASSUME SInv, SessionsAssumption, TypeOK', UNCHANGED <<issued, root>>, NEW t, NEW c,
           \A r \in Logins :
              /\ overlaps[r] <= overlaps'[r]
              /\ \/ /\ FreeKeys(r)' \subseteq FreeKeys(r) /\ Holders(r)' \subseteq Holders(r)
                    /\ Ended(r)' = Ended(r)
                 \/ /\ t \in FreeKeys(r) /\ FreeKeys(r)' \subseteq FreeKeys(r) \ {t}
                    /\ Holders(r)' \subseteq Holders(r) \cup {c} /\ Ended(r)' = Ended(r)
                 \/ /\ FreeKeys(r)' \subseteq FreeKeys(r) /\ Holders(r)' \subseteq Holders(r) \cup {c}
                    /\ Ended(r)' = Ended(r) /\ overlaps[r] < overlaps'[r]
                 \/ /\ FreeKeys(r)' \subseteq FreeKeys(r) \cup {t} /\ c \in Holders(r)
                    /\ Holders(r)' \subseteq Holders(r) \ {c} /\ Ended(r)' = Ended(r)
                 \/ /\ t \in FreeKeys(r) /\ FreeKeys(r)' \subseteq FreeKeys(r) \ {t}
                    /\ Holders(r)' \subseteq Holders(r)
                 \/ /\ FreeKeys(r)' \subseteq FreeKeys(r) /\ Holders(r)' \subseteq Holders(r)
                    /\ overlaps[r] < overlaps'[r]
    PROVE  SlotsCounted'
<1> SUFFICES ASSUME NEW r \in Logins
             PROVE  Cardinality(FreeKeys(r)') + Cardinality(Holders(r)') + Ended(r)'
                      <= 1 + overlaps'[r]
  BY DEF SlotsCounted, Logins
<1>1. /\ IsFiniteSet(FreeKeys(r)) /\ IsFiniteSet(Holders(r))
      /\ Ended(r) \in 0..1 /\ overlaps[r] \in Nat /\ r \in Tokens
      /\ Cardinality(FreeKeys(r)) + Cardinality(Holders(r)) + Ended(r) <= 1 + overlaps[r]
  BY SlotsAreFinite
<1>2. Ended(r)' \in 0..1 /\ overlaps'[r] \in Nat
  BY <1>1 DEF Ended, TypeOK
<1> DEFINE F == FreeKeys(r)
           G == FreeKeys(r)'
           H == Holders(r)
           K == Holders(r)'
           d == Ended(r)
           e == Ended(r)'
           o == overlaps[r]
           p == overlaps'[r]
<1>3. /\ IsFiniteSet(F) /\ IsFiniteSet(H) /\ d \in 0..1 /\ e \in 0..1 /\ o \in Nat /\ p \in Nat
      /\ Cardinality(F) + Cardinality(H) + d <= 1 + o /\ o <= p
      /\ \/ G \subseteq F /\ K \subseteq H /\ e = d
         \/ t \in F /\ G \subseteq F \ {t} /\ K \subseteq H \cup {c} /\ e = d
         \/ G \subseteq F /\ K \subseteq H \cup {c} /\ e = d /\ o < p
         \/ G \subseteq F \cup {t} /\ c \in H /\ K \subseteq H \ {c} /\ e = d
         \/ t \in F /\ G \subseteq F \ {t} /\ K \subseteq H
         \/ G \subseteq F /\ K \subseteq H /\ o < p
  BY <1>1, <1>2
<1> HIDE DEF F, G, H, K, d, e, o, p
<1>4. Cardinality(G) + Cardinality(K) + e <= 1 + p
  <2>1. CASE G \subseteq F /\ K \subseteq H /\ e = d
    BY <1>3, <2>1, Balance
  <2>2. CASE t \in F /\ G \subseteq F \ {t} /\ K \subseteq H \cup {c} /\ e = d
    BY <1>3, <2>2, Balance
  <2>3. CASE G \subseteq F /\ K \subseteq H \cup {c} /\ e = d /\ o < p
    BY <1>3, <2>3, Balance
  <2>4. CASE G \subseteq F \cup {t} /\ c \in H /\ K \subseteq H \ {c} /\ e = d
    BY <1>3, <2>4, Balance
  <2>5. CASE t \in F /\ G \subseteq F \ {t} /\ K \subseteq H
    BY <1>3, <2>5, Balance
  <2>6. CASE G \subseteq F /\ K \subseteq H /\ o < p
    BY <1>3, <2>6, Balance
  <2> QED
    BY <1>3, <2>1, <2>2, <2>3, <2>4, <2>5, <2>6
<1> QED
  BY <1>4 DEF G, K, e, p

-----------------------------------------------------------------------------
(* issueTokens. *)

\* What a new token changes.
LEMMA NewToken ==
    ASSUME SInv, SessionsAssumption, NEW c \in Requests, StoreRefreshJTI(c),
           NEW n, n = issued + 1
    PROVE  /\ issued \in Nat /\ n \in Tokens /\ issued' = n /\ keys' = keys \cup {n}
           /\ fresh' = fresh \cup {n} /\ UNCHANGED <<users, revoked, overlaps>>
           /\ req[c].at = "issue" /\ req[c].token \in 0..issued
           /\ req'[c] = Idle /\ \A d \in Requests \ {c} : req'[d] = req[d]
           /\ \A t \in 1..issued : root'[t] = root[t] /\ root[t] \in 1..issued /\ root[t] # n
           /\ root'[n] = IF req[c].token = NoToken THEN n ELSE root[req[c].token]
           /\ 1..issued' = 1..issued \cup {n} /\ n \notin 1..issued
<1>1. /\ issued \in Nat /\ n \in Tokens /\ issued' = n /\ keys' = keys \cup {n}
      /\ fresh' = fresh \cup {n} /\ UNCHANGED <<users, revoked, overlaps>>
      /\ req' = [req EXCEPT ![c] = Idle] /\ req[c].at = "issue" /\ req[c].token \in 0..issued
  BY DEF StoreRefreshJTI, SetKey, SInv, TypeOK, TokensAreRooted, SessionsAssumption
<1>2. req'[c] = Idle /\ \A d \in Requests \ {c} : req'[d] = req[d]
  BY <1>1 DEF SInv, TypeOK
<1>3. \A t \in 1..issued : root[t] \in 1..issued /\ root[t] # n
  BY <1>1 DEF SInv, TokensAreRooted
<1>4. /\ \A t \in 1..issued : root'[t] = root[t]
      /\ root'[n] = IF req[c].token = NoToken THEN n ELSE root[req[c].token]
  <2>1. root' = [root EXCEPT ![n] = IF req[c].token = NoToken THEN n ELSE root[req[c].token]]
    BY DEF StoreRefreshJTI
  <2>2. root \in [Tokens -> Tokens \cup {NoToken}]
    BY DEF SInv, TypeOK
  <2> QED
    BY <1>1, <2>1, <2>2 DEF Tokens
<1>5. 1..issued' = 1..issued \cup {n} /\ n \notin 1..issued
  BY <1>1
<1> QED
  BY <1>1, <1>2, <1>3, <1>4, <1>5

\* The chains after it: one has the new token, the others are as they were.
LEMMA NewChains ==
    ASSUME SInv, SessionsAssumption, NEW c \in Requests, StoreRefreshJTI(c),
           NEW n, n = issued + 1, NEW r \in Logins'
    PROVE  \/ r = n /\ req[c].token = NoToken /\ Chain(r)' = {n} /\ root'[n] = n
           \/ /\ r \in Logins /\ req[c].token \in Chain(r)
              /\ Chain(r)' = Chain(r) \cup {n} /\ root'[n] = r
           \/ /\ r \in Logins /\ req[c].token \notin Chain(r)
              /\ Chain(r)' = Chain(r) /\ root'[n] # r
<1> DEFINE tok == req[c].token
<1>1. /\ issued \in Nat /\ tok \in 0..issued
      /\ \A t \in 1..issued : root'[t] = root[t] /\ root[t] \in 1..issued /\ root[t] # n
      /\ root'[n] = IF tok = NoToken THEN n ELSE root[tok]
      /\ 1..issued' = 1..issued \cup {n} /\ n \notin 1..issued
  BY NewToken
<1>2. r \in 1..issued \cup {n} /\ root'[r] = r
  BY <1>1 DEF Logins
<1>3. tok \notin 1..issued => tok = NoToken
  BY <1>1 DEF NoToken
<1>4. NoToken \notin 1..issued
  BY <1>1 DEF NoToken
<1> HIDE DEF tok
<1>5. CASE r = n
  <2>1. tok = NoToken
    BY <1>1, <1>2, <1>3, <1>5
  <2>2. Chain(r)' = {n}
    BY <1>1, <1>2, <1>5 DEF Chain
  <2> QED
    BY <1>2, <1>5, <2>1, <2>2 DEF tok
<1>6. CASE r # n
  <2>1. r \in Logins
    BY <1>1, <1>2, <1>6 DEF Logins
  <2>2. CASE tok \in Chain(r)
    <3>1. tok \in 1..issued /\ root[tok] = r
      BY <2>2 DEF Chain
    <3>2. root'[n] = r
      BY <1>1, <1>4, <3>1
    <3>3. Chain(r)' = Chain(r) \cup {n}
      BY <1>1, <3>2 DEF Chain
    <3> QED
      BY <2>1, <2>2, <3>2, <3>3 DEF tok
  <2>3. CASE tok \notin Chain(r)
    <3>1. root'[n] # r
      BY <1>1, <1>3, <1>6, <2>3 DEF Chain
    <3>2. Chain(r)' = Chain(r)
      BY <1>1, <3>1 DEF Chain
    <3> QED
      BY <2>1, <2>3, <3>1, <3>2 DEF tok
  <2> QED
    BY <2>2, <2>3
<1> QED
  BY <1>5, <1>6

\* The new key takes over the right of the request that sets it; a login opens
\* a chain of its own.
LEMMA SlotIsHandedOver ==
    ASSUME SInv, SessionsAssumption, NEW c \in Requests, StoreRefreshJTI(c), TypeOK'
    PROVE  TokensAreRooted' /\ SlotsCounted'
<1>0. PICK n : n = issued + 1
  OBVIOUS
<1>1. /\ issued \in Nat /\ n \in Tokens /\ issued' = n /\ keys' = keys \cup {n}
      /\ UNCHANGED <<revoked, overlaps>>
      /\ req[c].at = "issue" /\ req[c].token \in 0..issued
      /\ req'[c] = Idle /\ \A d \in Requests \ {c} : req'[d] = req[d]
      /\ \A t \in 1..issued : root'[t] = root[t] /\ root[t] \in 1..issued /\ root[t] # n
      /\ root'[n] = IF req[c].token = NoToken THEN n ELSE root[req[c].token]
      /\ 1..issued' = 1..issued \cup {n} /\ n \notin 1..issued
  BY <1>0, NewToken
<1>2. \A t \in 1..issued : root[root[t]] = root[t]
  BY DEF SInv, TokensAreRooted
<1>3. \A d \in Requests : req[d].token \in 0..issued /\ (req[d].at = "del" => req[d].token # NoToken)
  BY DEF SInv, TokensAreRooted
<1>4. TokensAreRooted'
  <2>1. \A t \in 1..issued' : root'[t] \in 1..issued' /\ root'[root'[t]] = root'[t]
    <3> SUFFICES ASSUME NEW t \in 1..issued'
                 PROVE  root'[t] \in 1..issued' /\ root'[root'[t]] = root'[t]
      OBVIOUS
    <3>1. CASE t \in 1..issued
      BY <1>1, <1>2, <3>1
    <3>2. CASE t = n /\ req[c].token = NoToken
      BY <1>1, <3>2
    <3>3. CASE t = n /\ req[c].token # NoToken
      <4>1. PICK tok : tok = req[c].token
        OBVIOUS
      <4>2. tok \in 1..issued
        BY <1>1, <3>3, <4>1 DEF NoToken
      <4>3. root'[t] = root[tok] /\ root[tok] \in 1..issued /\ root[root[tok]] = root[tok]
        BY <1>1, <1>2, <3>3, <4>1, <4>2
      <4>4. root'[root[tok]] = root[root[tok]]
        BY <1>1, <4>3
      <4> QED
        BY <1>1, <4>3, <4>4
    <3> QED
      BY <1>1, <3>1, <3>2, <3>3
  <2>2. \A d \in Requests : /\ req'[d].token \in 0..issued'
                            /\ req'[d].at = "del" => req'[d].token # NoToken
    <3> SUFFICES ASSUME NEW d \in Requests
                 PROVE  /\ req'[d].token \in 0..issued'
                        /\ req'[d].at = "del" => req'[d].token # NoToken
      OBVIOUS
    <3>1. CASE d = c
      BY <1>0, <1>1, <3>1 DEF Idle, NoToken
    <3>2. CASE d # c
      BY <1>0, <1>1, <1>3, <3>2
    <3> QED
      BY <3>1, <3>2
  <2> QED
    BY <2>1, <2>2 DEF TokensAreRooted, NoToken
<1>5. \A t \in 1..issued : Using(t)' = Using(t)
  BY <1>1 DEF Using, Idle
<1>6. Using(n)' = {}
  <2> SUFFICES ASSUME NEW d \in Requests, req'[d].at = "del", req'[d].token = n
               PROVE  FALSE
    BY DEF Using
  <2>1. d # c
    BY <1>1 DEF Idle
  <2> QED
    BY <1>0, <1>1, <1>3, <2>1
<1>7. ASSUME NEW r \in Logins'
      PROVE  Cardinality(FreeKeys(r)') + Cardinality(Holders(r)') + Ended(r)' <= 1 + overlaps'[r]
  <2>0. revoked \subseteq 1..issued /\ keys \subseteq 1..issued
    BY DEF SInv, TypeOK
  <2>1. CASE r = n /\ Chain(r)' = {n}
    <3>1. FreeKeys(r)' = {n}
      BY <1>1, <1>6, <2>1 DEF FreeKeys
    <3>2. Holders(r)' = {}
      <4> SUFFICES ASSUME NEW d \in Requests, req'[d].at \in {"del", "issue"}, req'[d].token = n
                   PROVE  FALSE
        BY <2>1 DEF Holders
      <4>1. d # c
        BY <1>1 DEF Idle
      <4> QED
        BY <1>0, <1>1, <1>3, <4>1
    <3>3. Ended(r)' = 0
      BY <1>1, <2>0, <2>1 DEF Ended
    <3>4. overlaps'[r] \in Nat
      BY <1>1, <2>1 DEF TypeOK
    <3>5. Cardinality({n}) = 1 /\ Cardinality({}) = 0
      BY FS_Singleton, FS_EmptySet
    <3> QED
      BY <3>1, <3>2, <3>3, <3>4, <3>5
  <2>2. CASE r \in Logins
    <3>1. /\ IsFiniteSet(FreeKeys(r)) /\ IsFiniteSet(Holders(r))
          /\ Ended(r) \in 0..1 /\ overlaps[r] \in Nat
          /\ Cardinality(FreeKeys(r)) + Cardinality(Holders(r)) + Ended(r) <= 1 + overlaps[r]
      BY <2>2, SlotsAreFinite
    <3>2. r # n /\ Chain(r) \subseteq 1..issued
      BY <1>1, <2>2 DEF Logins, Chain
    <3>3. CASE Chain(r)' = Chain(r) /\ req[c].token \notin Chain(r)
      <4>1. FreeKeys(r)' \subseteq FreeKeys(r)
        BY <1>1, <1>5, <3>2, <3>3 DEF FreeKeys
      <4>2. Holders(r)' \subseteq Holders(r)
        BY <1>1, <3>3 DEF Holders, Idle
      <4>3. Ended(r)' = Ended(r)
        BY <1>1, <3>3 DEF Ended
      <4> DEFINE G == FreeKeys(r)'
                 K == Holders(r)'
      <4>4. G \subseteq FreeKeys(r) /\ K \subseteq Holders(r)
        BY <4>1, <4>2
      <4> HIDE DEF G, K
      <4>5. Cardinality(G) + Cardinality(K) + Ended(r) <= 1 + overlaps[r]
        BY <3>1, <4>4, Balance
      <4> QED
        BY <1>1, <4>3, <4>5 DEF G, K
    <3>4. CASE Chain(r)' = Chain(r) \cup {n} /\ req[c].token \in Chain(r)
      <4>1. FreeKeys(r)' \subseteq FreeKeys(r) \cup {n}
        BY <1>1, <1>5, <3>2, <3>4 DEF FreeKeys
      <4>2. c \in Holders(r)
        BY <1>1, <3>4 DEF Holders
      <4>3. Holders(r)' \subseteq Holders(r) \ {c}
        <5> SUFFICES ASSUME NEW d \in Requests, req'[d].at \in {"del", "issue"},
                            req'[d].token \in Chain(r) \cup {n}
                     PROVE  d \in Holders(r) /\ d # c
          BY <3>4 DEF Holders
        <5>1. d # c
          BY <1>1 DEF Idle
        <5>2. req'[d] = req[d] /\ req[d].token # n
          BY <1>0, <1>1, <1>3, <5>1
        <5> QED
          BY <5>1, <5>2 DEF Holders
      <4>4. Ended(r)' = Ended(r)
        BY <1>1, <2>0, <3>4 DEF Ended
      <4> DEFINE G == FreeKeys(r)'
                 K == Holders(r)'
      <4>5. G \subseteq FreeKeys(r) \cup {n} /\ K \subseteq Holders(r) \ {c}
        BY <4>1, <4>3
      <4> HIDE DEF G, K
      <4>6. Cardinality(G) + Cardinality(K) + Ended(r) <= 1 + overlaps[r]
        BY <3>1, <4>2, <4>5, Balance
      <4> QED
        BY <1>1, <4>4, <4>6 DEF G, K
    <3> QED
      BY <1>0, <3>2, <3>3, <3>4, NewChains
  <2> QED
    BY <1>0, <2>1, <2>2, NewChains
<1>8. SlotsCounted'
  BY <1>7 DEF SlotsCounted
<1> QED
  BY <1>4, <1>8

-----------------------------------------------------------------------------
(* The invariant is inductive. *)

LEMMA SessionsStart ==
    ASSUME SessionsAssumption, Init
    PROVE  SInv
<1>1. TypeOK
  BY DEF Init, TypeOK, SessionsAssumption, Tokens, NoToken, Idle
<1>2. \A c \in Requests : req[c].at = "idle" /\ req[c].token = NoToken
  BY DEF Init, Idle
<1>3. 1..issued = {}
  BY DEF Init
<1> QED
  BY <1>1, <1>2, <1>3 DEF Init, SInv, TokensAreRooted, SlotsCounted, Logins, NoToken

\* Every step keeps accounts, keys, tokens and requests within their domains.
LEMMA SessionsTypes ==
    ASSUME SessionsAssumption, SInv, [Next]_vars
    PROVE  TypeOK'
<1> USE DEF tokenVars
<1>0. /\ req \in [Requests -> [at : {"idle", "del", "issue"}, email : Emails \cup {NoEmail},
                               token : Tokens \cup {NoToken}]]
      /\ issued \in Nat /\ issued <= MaxTokens /\ MaxTokens \in Nat
      /\ overlaps \in [Tokens -> Nat]
  BY DEF SInv, TypeOK, SessionsAssumption
<1>1. ASSUME NEW c \in Requests, NEW e \in Emails, Register(c, e) \/ Login(c, e)
      PROVE  TypeOK'
  <2>1. req' \in [Requests -> [at : {"idle", "del", "issue"}, email : Emails \cup {NoEmail},
                              token : Tokens \cup {NoToken}]]
    BY <1>0, <1>1 DEF Register, Login, Goto
  <2> QED
    BY <1>1, <2>1 DEF Register, Login, Goto, SInv, TypeOK, SessionsAssumption
<1>2. ASSUME NEW t \in Tokens, Overlap(t)
      PROVE  overlaps' \in [Tokens -> Nat]
  <2>1. PICK x : x = root[t]
    OBVIOUS
  <2>2. overlaps' = overlaps \/ overlaps' = [overlaps EXCEPT ![x] = overlaps[x] + 1]
    BY <1>2, <2>1 DEF Overlap
  <2>3. CASE x \in Tokens
    <3>1. overlaps[x] + 1 \in Nat
      BY <1>0, <2>3
    <3> QED
      BY <1>0, <2>2, <2>3, <3>1
  <2>4. CASE x \notin Tokens
    BY <1>0, <2>2, <2>4
  <2> QED
    BY <2>3, <2>4
<1>3. ASSUME NEW c \in Requests, NEW t \in Tokens, RefreshExists(c, t)
      PROVE  TypeOK'
  <2>1. overlaps' \in [Tokens -> Nat]
    BY <1>2, <1>3 DEF RefreshExists
  <2> QED
    BY <1>0, <1>3, <2>1 DEF RefreshExists, ParseRefresh, Goto, SInv, TypeOK
<1>4. ASSUME NEW c \in Requests, RefreshDel(c)
      PROVE  TypeOK'
  BY <1>0, <1>4 DEF RefreshDel, Goto, SInv, TypeOK
<1>5. ASSUME NEW c \in Requests, IssueTokens(c) \/ IssueLost(c)
      PROVE  TypeOK'
  <2>0. StoreRefreshJTI(c)
    BY <1>5 DEF IssueTokens, IssueLost
  <2> DEFINE n == issued + 1
  <2>1. /\ n \in Tokens /\ issued' = n /\ keys' = keys \cup {n} /\ fresh' = fresh \cup {n}
        /\ UNCHANGED <<users, revoked, overlaps>>
        /\ known' \in {known, known \cup {n}} /\ faults' \in 0..MaxFaults
    BY <1>5, <2>0 DEF StoreRefreshJTI, SetKey, IssueTokens, IssueLost, Fault, SInv, TypeOK,
                      SessionsAssumption
  <2>2. root' \in [Tokens -> Tokens \cup {NoToken}]
    BY <1>0, <2>0, <2>1 DEF StoreRefreshJTI, SInv, TypeOK, TokensAreRooted, Tokens, NoToken
  <2>3. /\ owner' \in [Tokens -> Emails \cup {NoEmail}]
        /\ req' \in [Requests -> [at : {"idle", "del", "issue"}, email : Emails \cup {NoEmail},
                                  token : Tokens \cup {NoToken}]]
    BY <1>0, <2>0, <2>1 DEF StoreRefreshJTI, SInv, TypeOK, Idle
  <2> QED
    BY <1>0, <2>1, <2>2, <2>3 DEF SInv, TypeOK, Tokens
<1>6. ASSUME NEW c \in Requests, Fail(c) \/ DelLost(c)
      PROVE  TypeOK'
  <2>1. req' \in [Requests -> [at : {"idle", "del", "issue"}, email : Emails \cup {NoEmail},
                              token : Tokens \cup {NoToken}]]
    BY <1>0, <1>6 DEF Fail, DelLost, Fault, Idle
  <2>2. faults' \in 0..MaxFaults
    BY <1>6 DEF Fail, DelLost, Fault, SInv, TypeOK, SessionsAssumption
  <2>3. /\ UNCHANGED <<users, issued, root, owner, known, fresh, revoked, overlaps>>
        /\ keys' \subseteq keys
    BY <1>6 DEF Fail, DelLost
  <2> QED
    BY <2>1, <2>2, <2>3 DEF SInv, TypeOK
<1>7. ASSUME NEW t \in Tokens, Logout(t)
      PROVE  TypeOK'
  <2>1. overlaps' \in [Tokens -> Nat]
    BY <1>2, <1>7 DEF Logout
  <2> QED
    BY <1>7, <2>1 DEF Logout, ParseRefresh, SInv, TypeOK
<1>8. ASSUME NEW t \in Tokens, RefreshExpires(t)
      PROVE  TypeOK'
  BY <1>8 DEF RefreshExpires, SInv, TypeOK
<1>9. CASE UNCHANGED vars
  BY <1>9 DEF vars, SInv, TypeOK
<1> QED
  BY <1>1, <1>3, <1>4, <1>5, <1>6, <1>7, <1>8, <1>9 DEF Next

\* A request that comes to t counts an overlap of t's login, and only if t is
\* in use.
LEMMA OverlapCounts ==
    ASSUME SInv, SessionsAssumption, NEW t \in 1..issued, Overlap(t)
    PROVE  /\ \A r \in Logins : overlaps[r] <= overlaps'[r]
           /\ Using(t) # {} => \A r \in Logins : t \in Chain(r) => overlaps[r] < overlaps'[r]
<1>1. /\ overlaps \in [Tokens -> Nat] /\ issued \in Nat /\ issued <= MaxTokens
      /\ MaxTokens \in Nat
  BY DEF SInv, TypeOK, SessionsAssumption
<1>2. \A r \in Logins : r \in Tokens /\ overlaps[r] \in Nat
  BY <1>1 DEF Logins, Tokens
<1>3. \A r \in Logins : t \in Chain(r) => root[t] = r
  BY DEF Chain
<1>4. CASE Using(t) = {}
  BY <1>2, <1>4 DEF Overlap
<1>5. CASE Using(t) # {}
  <2>1. overlaps' = [overlaps EXCEPT ![root[t]] = @ + 1]
    BY <1>5 DEF Overlap
  <2>2. \A r \in Logins : overlaps'[r] = IF r = root[t] THEN overlaps[r] + 1 ELSE overlaps[r]
    BY <1>1, <1>2, <2>1
  <2> QED
    BY <1>2, <1>3, <2>2
<1> QED
  BY <1>4, <1>5

\* EXISTS: the right moves from the key to the request, or is one more.
LEMMA ExistsStep ==
    ASSUME SInv, SessionsAssumption, TypeOK', NEW c \in Requests, NEW t \in Tokens,
           RefreshExists(c, t)
    PROVE  TokensAreRooted' /\ SlotsCounted'
<1>1. /\ req[c] = Idle /\ req'[c].at = "del" /\ req'[c].token = t /\ t \in keys
      /\ \A d \in Requests \ {c} : req'[d] = req[d]
      /\ UNCHANGED <<issued, root, keys, revoked>> /\ Overlap(t)
  BY DEF RefreshExists, Goto, SInv, TypeOK
<1>2. issued \in Nat /\ t \in 1..issued
  BY <1>1 DEF SInv, TypeOK, SessionsAssumption
<1>3. TokensAreRooted'
  <2>1. t \in 0..issued /\ t # NoToken
    BY <1>2 DEF NoToken
  <2> QED
    BY <1>1, <2>1 DEF SInv, TokensAreRooted
<1>4. /\ \A r \in Logins : overlaps[r] <= overlaps'[r]
      /\ Using(t) # {} => \A r \in Logins : t \in Chain(r) => overlaps[r] < overlaps'[r]
  BY <1>1, <1>2, OverlapCounts
<1>5. \A r \in Logins : Chain(r)' = Chain(r) /\ Ended(r)' = Ended(r)
  BY <1>1 DEF Chain, Ended
<1>6. \A u : u # t => Using(u)' = Using(u)
  BY <1>1 DEF Using, Idle
<1>7. Using(t)' # {}
  BY <1>1 DEF Using
<1>8. \A r \in Logins : FreeKeys(r)' \subseteq FreeKeys(r) \ {t}
  BY <1>1, <1>5, <1>6, <1>7 DEF FreeKeys
<1>9. \A r \in Logins : Holders(r)' \subseteq Holders(r) \cup {c}
  BY <1>1, <1>5 DEF Holders
<1>10. \A r \in Logins : t \notin Chain(r) => Holders(r)' \subseteq Holders(r)
  BY <1>1, <1>5 DEF Holders
<1>11. \A r \in Logins : t \in Chain(r) /\ Using(t) = {} => t \in FreeKeys(r)
  BY <1>1 DEF FreeKeys
<1>12. SlotsCounted'
  BY <1>1, <1>4, <1>5, <1>8, <1>9, <1>10, <1>11, SlotsMove
<1> QED
  BY <1>3, <1>12

\* Steps that add no right: the DEL, whose request keeps it; a login's first
\* step; an expiry.
LEMMA QuietStep ==
    ASSUME SInv, SessionsAssumption, TypeOK',
           UNCHANGED <<issued, root, revoked, overlaps>>, keys' \subseteq keys,
           \A d \in Requests :
              \/ req'[d] = req[d]
              \/ req[d].at = "idle" /\ req'[d].at = "issue" /\ req'[d].token = NoToken
              \/ /\ req[d].at = "del" /\ req'[d].at = "issue" /\ req'[d].token = req[d].token
                 /\ req[d].token \notin keys'
    PROVE  TokensAreRooted' /\ SlotsCounted'
<1>0. issued \in Nat
  BY DEF SInv, TypeOK, SessionsAssumption
<1>1. TokensAreRooted'
  <2>1. \A d \in Requests : /\ req'[d].token \in 0..issued'
                            /\ req'[d].at = "del" => req'[d].token # NoToken
    BY <1>0 DEF SInv, TokensAreRooted, NoToken
  <2> QED
    BY <2>1 DEF SInv, TokensAreRooted
<1>2. \A r \in Logins : Chain(r)' = Chain(r) /\ Ended(r)' = Ended(r)
  BY DEF Chain, Ended
<1>3. ASSUME NEW u \in keys', Using(u)' = {}
      PROVE  Using(u) = {}
  BY <1>3 DEF Using
<1>4. \A r \in Logins : FreeKeys(r)' \subseteq FreeKeys(r)
  BY <1>2, <1>3 DEF FreeKeys
<1>5. \A r \in Logins : NoToken \notin Chain(r)
  BY <1>0 DEF Chain, NoToken
<1>6. \A r \in Logins : Holders(r)' \subseteq Holders(r)
  BY <1>2, <1>5 DEF Holders
<1>7. \A r \in Logins : overlaps[r] <= overlaps'[r]
  BY SlotsAreFinite
<1>8. SlotsCounted'
  BY <1>2, <1>4, <1>6, <1>7, SlotsMove
<1> QED
  BY <1>1, <1>8

\* A request that is cut short gives its right back to the key, or loses it.
LEMMA CutStep ==
    ASSUME SInv, SessionsAssumption, TypeOK', NEW c \in Requests, Fail(c) \/ DelLost(c)
    PROVE  TokensAreRooted' /\ SlotsCounted'
<1>1. /\ req[c] # Idle /\ req'[c] = Idle /\ \A d \in Requests \ {c} : req'[d] = req[d]
      /\ UNCHANGED <<issued, root, revoked, overlaps>> /\ keys' \subseteq keys
  BY DEF Fail, DelLost, SInv, TypeOK, tokenVars, Idle
<1>2. issued \in Nat
  BY DEF SInv, TypeOK, SessionsAssumption
<1>3. TokensAreRooted'
  BY <1>1, <1>2 DEF SInv, TokensAreRooted, Idle, NoToken
<1>4. PICK t : t = req[c].token
  OBVIOUS
<1>5. \A r \in Logins : Chain(r)' = Chain(r) /\ Ended(r)' = Ended(r)
  BY <1>1 DEF Chain, Ended
<1>6. \A u : u # t => Using(u)' = Using(u)
  BY <1>1, <1>4 DEF Using, Idle
<1>7. \A r \in Logins : FreeKeys(r)' \subseteq FreeKeys(r) \cup {t}
  BY <1>1, <1>5, <1>6 DEF FreeKeys
<1>8. \A r \in Logins : t \notin Chain(r) => FreeKeys(r)' \subseteq FreeKeys(r)
  BY <1>1, <1>5, <1>6 DEF FreeKeys
<1>9. \A r \in Logins : Holders(r)' \subseteq Holders(r) \ {c}
  BY <1>1, <1>5 DEF Holders, Idle
<1>10. \A r \in Logins : overlaps[r] <= overlaps'[r]
  BY <1>1, SlotsAreFinite
<1>11. \A r \in Logins : t \in Chain(r) /\ c \notin Holders(r) => FreeKeys(r)' \subseteq FreeKeys(r)
  <2> SUFFICES ASSUME NEW r \in Logins, t \in Chain(r), c \notin Holders(r)
               PROVE  FreeKeys(r)' \subseteq FreeKeys(r)
    OBVIOUS
  <2>1. req[c].at # "del"
    BY <1>4 DEF Holders
  <2>2. Using(t)' = Using(t)
    BY <1>1, <2>1 DEF Using, Idle
  <2> QED
    BY <1>1, <1>5, <1>6, <2>2 DEF FreeKeys
<1>12. SlotsCounted'
  <2>1. \A r \in Logins : Holders(r)' \subseteq Holders(r)
    BY <1>9
  <2>2. \A r \in Logins :
          \/ /\ FreeKeys(r)' \subseteq FreeKeys(r) /\ Holders(r)' \subseteq Holders(r)
             /\ Ended(r)' = Ended(r)
          \/ /\ FreeKeys(r)' \subseteq FreeKeys(r) \cup {t} /\ c \in Holders(r)
             /\ Holders(r)' \subseteq Holders(r) \ {c} /\ Ended(r)' = Ended(r)
    BY <1>5, <1>7, <1>8, <1>9, <1>11, <2>1
  <2> QED
    BY <1>1, <1>10, <2>2, SlotsMove
<1> QED
  BY <1>3, <1>12

\* A logout takes a free key away, or overlaps the request that uses it.
LEMMA LogoutStep ==
    ASSUME SInv, SessionsAssumption, TypeOK', NEW t \in Tokens, Logout(t)
    PROVE  TokensAreRooted' /\ SlotsCounted'
<1>1. /\ t \in keys /\ keys' = keys \ {t} /\ revoked' = revoked \cup {t} /\ Overlap(t)
      /\ UNCHANGED <<issued, root, req>>
  BY DEF Logout
<1>2. t \in 1..issued
  BY <1>1 DEF SInv, TypeOK
<1>3. TokensAreRooted'
  BY <1>1 DEF SInv, TokensAreRooted
<1>4. /\ \A r \in Logins : overlaps[r] <= overlaps'[r]
      /\ Using(t) # {} => \A r \in Logins : t \in Chain(r) => overlaps[r] < overlaps'[r]
  BY <1>1, <1>2, OverlapCounts
<1>5. \A r \in Logins : Chain(r)' = Chain(r)
  BY <1>1 DEF Chain
<1>6. \A r \in Logins : t \notin Chain(r) => Ended(r)' = Ended(r)
  BY <1>1, <1>5 DEF Ended
<1>7. \A u : Using(u)' = Using(u)
  BY <1>1 DEF Using
<1>8. \A r \in Logins : FreeKeys(r)' \subseteq FreeKeys(r) \ {t}
  BY <1>1, <1>5, <1>7 DEF FreeKeys
<1>9. \A r \in Logins : Holders(r)' \subseteq Holders(r)
  BY <1>1, <1>5 DEF Holders
<1>10. \A r \in Logins : t \in Chain(r) /\ Using(t) = {} => t \in FreeKeys(r)
  BY <1>1 DEF FreeKeys
<1>11. SlotsCounted'
  BY <1>1, <1>4, <1>5, <1>6, <1>8, <1>9, <1>10, SlotsMove
<1> QED
  BY <1>3, <1>11

\* Every step keeps the invariant.
LEMMA SessionsStep ==
    ASSUME SessionsAssumption, SInv, [Next]_vars
    PROVE  SInv'
<1> USE DEF tokenVars
<1>0. TypeOK'
  BY SessionsTypes
<1>1. ASSUME NEW c \in Requests, NEW e \in Emails, Register(c, e) \/ Login(c, e)
      PROVE  SInv'
  <2>1. /\ req[c].at = "idle" /\ req'[c].token = NoToken /\ req'[c].at = "issue"
        /\ \A d \in Requests \ {c} : req'[d] = req[d]
    BY <1>1 DEF Register, Login, Goto, Idle, SInv, TypeOK
  <2>2. UNCHANGED <<issued, root, revoked, overlaps, keys>>
    BY <1>1 DEF Register, Login
  <2> QED
    BY <1>0, <2>1, <2>2, QuietStep DEF SInv
<1>2. ASSUME NEW c \in Requests, NEW t \in Tokens, RefreshExists(c, t)
      PROVE  SInv'
  BY <1>0, <1>2, ExistsStep DEF SInv
<1>3. ASSUME NEW c \in Requests, RefreshDel(c)
      PROVE  SInv'
  <2>1. /\ req[c].at = "del" /\ req'[c].token = req[c].token /\ req'[c].at = "issue"
        /\ \A d \in Requests \ {c} : req'[d] = req[d]
    BY <1>3 DEF RefreshDel, Goto, SInv, TypeOK
  <2>2. /\ UNCHANGED <<issued, root, revoked, overlaps>> /\ keys' = keys \ {req[c].token}
    BY <1>3 DEF RefreshDel
  <2> QED
    BY <1>0, <2>1, <2>2, QuietStep DEF SInv
<1>4. ASSUME NEW c \in Requests, IssueTokens(c) \/ IssueLost(c)
      PROVE  SInv'
  <2>1. StoreRefreshJTI(c)
    BY <1>4 DEF IssueTokens, IssueLost
  <2> QED
    BY <1>0, <2>1, SlotIsHandedOver DEF SInv
<1>5. ASSUME NEW c \in Requests, Fail(c) \/ DelLost(c)
      PROVE  SInv'
  BY <1>0, <1>5, CutStep DEF SInv
<1>6. ASSUME NEW t \in Tokens, Logout(t)
      PROVE  SInv'
  BY <1>0, <1>6, LogoutStep DEF SInv
<1>7. ASSUME NEW t \in Tokens, RefreshExpires(t)
      PROVE  SInv'
  <2>1. /\ UNCHANGED <<issued, root, revoked, overlaps, req>> /\ keys' \subseteq keys
    BY <1>7 DEF RefreshExpires
  <2> QED
    BY <1>0, <2>1, QuietStep DEF SInv
<1>8. CASE UNCHANGED vars
  BY <1>0, <1>8, QuietStep DEF SInv, vars
<1> QED
  BY <1>1, <1>2, <1>3, <1>4, <1>5, <1>6, <1>7, <1>8 DEF Next

-----------------------------------------------------------------------------
(* The theorems. *)

\* Accounts, keys and requests keep the invariant, whatever requests overlap,
\* fail or expire.
THEOREM SessionsInvariant == Spec => []SInv
<1>1. Init => SInv
  BY SessionsStart, SessionsAssumption
<1>2. SInv /\ [Next]_vars => SInv'
  BY SessionsStep, SessionsAssumption
<1> QED
  BY <1>1, <1>2, PTL DEF Spec

\* The rights counted by the invariant are at least the usable tokens and the
\* ones on their way: a key in use stands for the request that uses it.
LEMMA RightsCoverWorth ==
    ASSUME SInv, SessionsAssumption, NEW r \in Logins
    PROVE  /\ Worth(r) \in Nat
           /\ Worth(r) + Ended(r) <= 1 + overlaps[r]
<1> DEFINE U == {c \in Requests : req[c].at = "del" /\ req[c].token \in Chain(r)}
           P == Replacing(r)
           F == FreeKeys(r)
           V == {t \in Chain(r) \cap keys : Using(t) # {}}
           W == {req[c].token : c \in U}
<1>1. /\ IsFiniteSet(F) /\ IsFiniteSet(Holders(r))
      /\ Ended(r) \in 0..1 /\ overlaps[r] \in Nat
      /\ Cardinality(F) + Cardinality(Holders(r)) + Ended(r) <= 1 + overlaps[r]
  BY SlotsAreFinite
<1>2. Holders(r) = U \cup P /\ U \cap P = {}
  BY DEF Holders, Replacing
<1>3. Chain(r) \cap keys = F \cup V /\ F \cap V = {}
  BY DEF FreeKeys
<1>4. V \subseteq W
  BY DEF Using
<1>5. IsFiniteSet(U) /\ IsFiniteSet(P)
  BY <1>1, <1>2, FS_Subset
<1>6. IsFiniteSet(W) /\ Cardinality(W) <= Cardinality(U)
  <2> DEFINE f == [c \in U |-> req[c].token]
  <2>1. f \in Surjection(U, W)
    BY DEF Surjection
  <2> QED
    BY <1>5, <2>1, FS_Surjection
<1> HIDE DEF U, P, F, V, W
<1>7. IsFiniteSet(V) /\ Cardinality(V) <= Cardinality(W)
  BY <1>4, <1>6, FS_Subset
<1>8. Cardinality(F \cup V) = Cardinality(F) + Cardinality(V) - Cardinality(F \cap V)
  BY <1>1, <1>7, FS_Union
<1>9. Cardinality(U \cup P) = Cardinality(U) + Cardinality(P) - Cardinality(U \cap P)
  BY <1>5, FS_Union
<1>10. Cardinality({}) = 0
  BY FS_EmptySet
<1>11. /\ Cardinality(F) \in Nat /\ Cardinality(V) \in Nat /\ Cardinality(U) \in Nat
       /\ Cardinality(P) \in Nat /\ Cardinality(W) \in Nat
  BY <1>1, <1>5, <1>6, <1>7, FS_CardinalityType
<1>12. /\ Cardinality(Chain(r) \cap keys) = Cardinality(F) + Cardinality(V)
       /\ Cardinality(Holders(r)) = Cardinality(U) + Cardinality(P)
  <2>1. Cardinality(F \cap V) = 0 /\ Cardinality(U \cap P) = 0
    BY <1>2, <1>3, <1>10
  <2>2. /\ Cardinality(F \cup V) = Cardinality(F) + Cardinality(V)
        /\ Cardinality(U \cup P) = Cardinality(U) + Cardinality(P)
    BY <1>8, <1>9, <1>11, <2>1
  <2>3. Cardinality(Chain(r) \cap keys) = Cardinality(F \cup V)
    BY <1>3
  <2>4. Cardinality(Holders(r)) = Cardinality(U \cup P)
    BY <1>2
  <2> QED
    BY <2>2, <2>3, <2>4
<1>13. Worth(r) = Cardinality(F) + Cardinality(V) + Cardinality(P)
  BY <1>12 DEF Worth, P
<1> QED
  BY <1>1, <1>6, <1>7, <1>11, <1>12, <1>13

\* Refresh tokens rotate (consumeRefreshJTI, issueTokens): a login has one token
\* that is usable or about to be, and one more for each overlap.
THEOREM TokensRotate == Spec => []OneTokenPerLogin
<1>1. SInv => OneTokenPerLogin
  <2> SUFFICES ASSUME SInv, NEW r \in Logins PROVE Worth(r) <= 1 + overlaps[r]
    BY DEF OneTokenPerLogin
  <2>1. /\ Worth(r) \in Nat /\ Worth(r) + Ended(r) <= 1 + overlaps[r]
        /\ Ended(r) \in 0..1 /\ overlaps[r] \in Nat
    BY RightsCoverWorth, SlotsAreFinite, SessionsAssumption
  <2> QED
    BY <2>1
<1> QED
  BY <1>1, SessionsInvariant, PTL

\* A logout that removed a key (Service.Logout) ends its login: what is usable
\* or on its way afterwards comes from requests that overlapped.
THEOREM LogoutsAreFinal == Spec => []LogoutEndsLogin
<1>1. SInv => LogoutEndsLogin
  <2> SUFFICES ASSUME SInv, NEW r \in Logins, Chain(r) \cap revoked # {}
               PROVE  Worth(r) <= overlaps[r]
    BY DEF LogoutEndsLogin
  <2>1. /\ Worth(r) \in Nat /\ Worth(r) + Ended(r) <= 1 + overlaps[r]
        /\ overlaps[r] \in Nat
    BY RightsCoverWorth, SlotsAreFinite, SessionsAssumption
  <2>2. Ended(r) = 1
    BY DEF Ended
  <2> QED
    BY <2>1, <2>2
<1> QED
  BY <1>1, SessionsInvariant, PTL

-----------------------------------------------------------------------------
(* LoginIsKept. *)

\* A step that issues nothing strands at most the login r0: of the others,
\* whoever loses a key logs out, lets it expire or replaces it, and a
\* replacement goes on.
LEMMA StrandedByOthers ==
    ASSUME SInv, SessionsAssumption, NEW r0,
           UNCHANGED <<issued, root, known>>, revoked \subseteq revoked', fresh' \subseteq fresh,
           \A c \in Requests :
              req[c].at = "issue" => req'[c] = req[c] \/ req[c].token \notin 1..issued
                                     \/ root[req[c].token] = r0,
           \A t \in keys \ keys' :
              \/ t \in revoked' \/ t \notin fresh' \/ root[t] = r0
              \/ \E c \in Requests : req'[c].at = "issue" /\ req'[c].token = t
    PROVE  Stranded' \subseteq Stranded \cup {r0}
<1> SUFFICES ASSUME NEW r \in Stranded', r # r0 PROVE r \in Stranded
  OBVIOUS
<1>1. r \in Logins /\ Chain(r)' = Chain(r) /\ \A t \in Chain(r) : t \in 1..issued /\ root[t] = r
  BY DEF Stranded, Logins, Chain
<1>2. /\ Chain(r) \cap revoked = {} /\ Chain(r) \cap revoked' = {}
      /\ Chain(r) \subseteq fresh /\ Chain(r) \subseteq fresh'
      /\ Chain(r) \cap keys' \cap known = {} /\ Replacing(r)' = {}
  BY <1>1 DEF Stranded
<1>3. Replacing(r) = {}
  BY <1>1, <1>2 DEF Replacing
<1>4. ASSUME NEW t \in Chain(r) \cap keys \cap known
      PROVE  FALSE
  <2>1. t \in keys \ keys'
    BY <1>2, <1>4
  <2>2. PICK c \in Requests : req'[c].at = "issue" /\ req'[c].token = t
    BY <1>1, <1>2, <1>4, <2>1
  <2> QED
    BY <1>1, <1>2, <1>4, <2>2 DEF Replacing
<1> QED
  BY <1>1, <1>2, <1>3, <1>4 DEF Stranded

\* A new pair strands no login but its own, and that only if it is lost.
LEMMA StrandedByIssue ==
    ASSUME SInv, SessionsAssumption, NEW c \in Requests, StoreRefreshJTI(c),
           NEW n, n = issued + 1, known' = known \/ known' = known \cup {n}
    PROVE  /\ Stranded' \subseteq Stranded \cup {root'[n]}
           /\ known' = known \cup {n} => Stranded' \subseteq Stranded
<1>1. /\ issued \in Nat /\ issued' = n /\ keys' = keys \cup {n}
      /\ fresh' = fresh \cup {n} /\ UNCHANGED revoked
      /\ req'[c] = Idle /\ \A d \in Requests \ {c} : req'[d] = req[d]
      /\ n \notin 1..issued
  BY NewToken
<1>2. ASSUME NEW r \in Stranded', r # root'[n]
      PROVE  r \in Stranded
  <2>1. r \in Logins /\ Chain(r)' = Chain(r) /\ req[c].token \notin Chain(r)
    BY <1>2, NewChains DEF Stranded
  <2>2. Chain(r) \subseteq 1..issued
    BY DEF Chain
  <2>3. /\ Chain(r) \cap revoked = {} /\ Chain(r) \subseteq fresh
        /\ Chain(r) \cap keys \cap known = {} /\ Replacing(r)' = {}
    BY <1>1, <2>1, <2>2 DEF Stranded
  <2>4. Replacing(r) = {}
    BY <1>1, <2>1, <2>3 DEF Replacing
  <2> QED
    BY <2>1, <2>3, <2>4 DEF Stranded
<1>3. ASSUME known' = known \cup {n}, root'[n] \in Stranded'
      PROVE  FALSE
  <2>1. n \in Chain(root[n])'
    <3>1. n \in 1..issued'
      BY <1>1
    <3> QED
      BY <3>1 DEF Chain
  <2>2. \A r \in Stranded' : Chain(r)' \cap keys' \cap known' = {}
    BY DEF Stranded
  <2>3. PICK r \in Stranded' : r = root'[n]
    BY <1>3
  <2>4. n \in Chain(r)'
    BY <2>1, <2>3 DEF Chain
  <2> QED
    BY <1>1, <1>3, <2>2, <2>4
<1> QED
  BY <1>2, <1>3

\* Failures strand one login each, and nothing else strands any.
LEMMA StrandedStep ==
    ASSUME SInv, SessionsAssumption, [Next]_vars
    PROVE  \/ Stranded' \subseteq Stranded /\ (faults' = faults \/ faults' = faults + 1)
           \/ \E r : Stranded' \subseteq Stranded \cup {r} /\ faults' = faults + 1
<1> DEFINE Goal == \/ Stranded' \subseteq Stranded /\ (faults' = faults \/ faults' = faults + 1)
                   \/ \E r : Stranded' \subseteq Stranded \cup {r} /\ faults' = faults + 1
<1> SUFFICES Goal
  OBVIOUS
<1>0. /\ req \in [Requests -> [at : {"idle", "del", "issue"}, email : Emails \cup {NoEmail},
                               token : Tokens \cup {NoToken}]]
      /\ keys \subseteq 1..issued /\ issued \in Nat
  BY DEF SInv, TypeOK, SessionsAssumption
<1>a. NoToken \notin Stranded'
  <2>1. issued' \in Nat
    BY SessionsTypes, SessionsAssumption DEF TypeOK, SessionsAssumption
  <2> QED
    BY <2>1 DEF Stranded, Logins, NoToken
<1>1. ASSUME NEW c \in Requests, NEW e \in Emails, Register(c, e) \/ Login(c, e)
      PROVE  Goal
  <2>1. \A d \in Requests : req[d].at = "issue" => req'[d] = req[d]
    BY <1>0, <1>1 DEF Register, Login, Goto, Idle
  <2>2. UNCHANGED <<keys, issued, root, known, fresh, revoked, faults>>
    BY <1>1 DEF Register, Login, tokenVars
  <2>3. Stranded' \subseteq Stranded \cup {NoToken}
    BY <2>1, <2>2, StrandedByOthers
  <2> QED
    BY <1>a, <2>2, <2>3
<1>2. ASSUME NEW c \in Requests, NEW t \in Tokens, RefreshExists(c, t)
      PROVE  Goal
  <2>1. \A d \in Requests : req[d].at = "issue" => req'[d] = req[d]
    BY <1>0, <1>2 DEF RefreshExists, Goto, Idle
  <2>2. UNCHANGED <<keys, issued, root, known, fresh, revoked, faults>>
    BY <1>2 DEF RefreshExists
  <2>3. Stranded' \subseteq Stranded \cup {NoToken}
    BY <2>1, <2>2, StrandedByOthers
  <2> QED
    BY <1>a, <2>2, <2>3
<1>3. ASSUME NEW c \in Requests, RefreshDel(c)
      PROVE  Goal
  <2>1. /\ \A d \in Requests : req[d].at = "issue" => req'[d] = req[d]
        /\ req'[c].at = "issue" /\ req'[c].token = req[c].token
    BY <1>0, <1>3 DEF RefreshDel, Goto
  <2>2. /\ UNCHANGED <<issued, root, known, fresh, revoked, faults>>
        /\ keys' = keys \ {req[c].token}
    BY <1>3 DEF RefreshDel
  <2>3. Stranded' \subseteq Stranded \cup {NoToken}
    BY <2>1, <2>2, StrandedByOthers
  <2> QED
    BY <1>a, <2>2, <2>3
<1>4. ASSUME NEW c \in Requests, IssueTokens(c) \/ IssueLost(c)
      PROVE  Goal
  <2>0. PICK n : n = issued + 1
    OBVIOUS
  <2>1. /\ StoreRefreshJTI(c)
        /\ \/ known' = known \cup {n} /\ faults' = faults
           \/ known' = known /\ faults' = faults + 1
    BY <1>4, <2>0 DEF IssueTokens, IssueLost, Fault
  <2>2. /\ Stranded' \subseteq Stranded \cup {root'[n]}
        /\ known' = known \cup {n} => Stranded' \subseteq Stranded
    BY <2>0, <2>1, StrandedByIssue
  <2> QED
    BY <2>1, <2>2
<1>5. ASSUME NEW c \in Requests, Fail(c) \/ DelLost(c)
      PROVE  Goal
  <2>1. /\ \A d \in Requests \ {c} : req'[d] = req[d]
        /\ UNCHANGED <<issued, root, known, fresh, revoked>> /\ faults' = faults + 1
        /\ keys' = keys \/ keys' = keys \ {req[c].token}
    BY <1>0, <1>5 DEF Fail, DelLost, Fault, tokenVars
  <2>2. PICK r0 : r0 = root[req[c].token]
    OBVIOUS
  <2>3. Stranded' \subseteq Stranded \cup {r0}
    BY <2>1, <2>2, StrandedByOthers
  <2> QED
    BY <2>1, <2>3
<1>6. ASSUME NEW t \in Tokens, Logout(t)
      PROVE  Goal
  <2>1. /\ UNCHANGED <<issued, root, known, fresh, req, faults>>
        /\ revoked' = revoked \cup {t} /\ keys' = keys \ {t}
    BY <1>6 DEF Logout
  <2>2. Stranded' \subseteq Stranded \cup {NoToken}
    BY <2>1, StrandedByOthers
  <2> QED
    BY <1>a, <2>1, <2>2
<1>7. ASSUME NEW t \in Tokens, RefreshExpires(t)
      PROVE  Goal
  <2>1. /\ UNCHANGED <<issued, root, known, revoked, req, faults>>
        /\ fresh' = fresh \ {t} /\ keys' = keys \ {t}
    BY <1>7 DEF RefreshExpires
  <2>2. Stranded' \subseteq Stranded \cup {NoToken}
    BY <2>1, StrandedByOthers
  <2> QED
    BY <1>a, <2>1, <2>2
<1>8. CASE UNCHANGED vars
  <2>1. Stranded' = Stranded /\ faults' = faults
    BY <1>8 DEF vars, Stranded, Logins, Chain, Replacing
  <2> QED
    BY <2>1
<1> QED
  BY <1>1, <1>2, <1>3, <1>4, <1>5, <1>6, <1>7, <1>8 DEF Next

\* Rotation strands a client only through a failure, and each failure at most
\* one (Refresh: DEL, then FindByID, then issueTokens).
THEOREM LoginsAreKept == Spec => []LoginIsKept
<1>1. Init => LoginIsKept
  <2> SUFFICES ASSUME Init PROVE LoginIsKept
    OBVIOUS
  <2>1. Stranded = {} /\ faults = 0
    BY DEF Init, Stranded, Logins
  <2> QED
    BY <2>1, FS_EmptySet DEF LoginIsKept
<1>2. ASSUME SInv, LoginIsKept, [Next]_vars
      PROVE  LoginIsKept'
  <2> DEFINE S == Stranded
             T == Stranded'
  <2>1. IsFiniteSet(S) /\ faults \in Nat
    <3>1. issued \in Nat /\ faults \in Nat
      BY <1>2, SessionsAssumption DEF SInv, TypeOK, SessionsAssumption
    <3>2. IsFiniteSet(1..issued)
      BY <3>1, FS_Interval
    <3>3. S \subseteq 1..issued
      BY DEF Stranded, Logins
    <3> QED
      BY <3>1, <3>2, <3>3, FS_Subset
  <2>2. \/ T \subseteq S /\ (faults' = faults \/ faults' = faults + 1)
        \/ \E r : T \subseteq S \cup {r} /\ faults' = faults + 1
    BY <1>2, StrandedStep, SessionsAssumption
  <2>3. Cardinality(S) <= faults
    BY <1>2 DEF LoginIsKept
  <2> HIDE DEF S, T
  <2>4. CASE T \subseteq S /\ (faults' = faults \/ faults' = faults + 1)
    <3>1. /\ Cardinality(S) \in Nat /\ Cardinality(T) \in Nat
          /\ Cardinality(T) <= Cardinality(S)
      BY <2>1, <2>4, Counting
    <3>2. Cardinality(T) <= faults'
      BY <2>1, <2>3, <2>4, <3>1
    <3> QED
      BY <3>2 DEF T, LoginIsKept
  <2>5. ASSUME NEW r, T \subseteq S \cup {r}, faults' = faults + 1
        PROVE  LoginIsKept'
    <3>1. /\ Cardinality(S) \in Nat /\ Cardinality(T) \in Nat
          /\ Cardinality(T) <= Cardinality(S) + 1
      BY <2>1, <2>5, Counting
    <3>2. Cardinality(T) <= faults'
      BY <2>1, <2>3, <2>5, <3>1
    <3> QED
      BY <3>2 DEF T, LoginIsKept
  <2> QED
    BY <2>2, <2>4, <2>5
<1> QED
  BY <1>1, <1>2, SessionsInvariant, PTL DEF Spec
=============================================================================

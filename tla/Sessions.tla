------------------------------ MODULE Sessions ------------------------------
(***************************************************************************)
(* Accounts and refresh-token rotation (internal/http/auth): the users     *)
(* table, the keys refresh:<jti> in Redis, and the requests between their  *)
(* statements.  A refresh token may be used while its key exists; using it *)
(* is EXISTS, then DEL, then the SET of a new key: three calls, and other  *)
(* requests run in between.                                                *)
(*                                                                         *)
(* A token stands for the pair that issueTokens hands out by its refresh   *)
(* token with its jti; the access token of the pair is recorded nowhere    *)
(* and is good until it expires.  Requests that are refused (bad input,    *)
(* wrong password, taken e-mail, unknown or expired token) change nothing  *)
(* and are no steps.                                                       *)
(***************************************************************************)
EXTENDS Integers, FiniteSets

CONSTANTS
    Emails,     \* addresses people register with
    Requests,   \* requests served at the same time
    MaxTokens,  \* bound on token pairs issued
    MaxFaults,  \* bound on failed calls and lost answers
    NoEmail     \* an empty address

ASSUME SessionsAssumption ==
    /\ IsFiniteSet(Requests)
    /\ NoEmail \notin Emails
    /\ MaxTokens \in Nat
    /\ MaxFaults \in Nat

Tokens == 1..MaxTokens   \* jtis, in the order of their issue
NoToken == 0

VARIABLES
    users,    \* users.email
    keys,     \* refresh:<jti> in Redis
    issued,   \* token pairs issued so far
    root,     \* per token: the login it descends from
    owner,    \* per token: claims.UserID
    known,    \* tokens that reached their client
    fresh,    \* tokens whose refresh JWT has not expired
    revoked,  \* history: tokens whose key a logout removed
    overlaps, \* history, per login: how often a request came to a token in use
    req,      \* per request: what it does next, for which account and token
    faults

vars == <<users, keys, issued, root, owner, known, fresh, revoked, overlaps, req, faults>>
tokenVars == <<keys, issued, root, owner, known, fresh, revoked, overlaps>>

Idle == [at |-> "idle", email |-> NoEmail, token |-> NoToken]

Init ==
    /\ users = {}
    /\ keys = {}
    /\ issued = 0
    /\ root = [t \in Tokens |-> NoToken]
    /\ owner = [t \in Tokens |-> NoEmail]
    /\ known = {}
    /\ fresh = {}
    /\ revoked = {}
    /\ overlaps = [t \in Tokens |-> 0]
    /\ req = [c \in Requests |-> Idle]
    /\ faults = 0

Goto(c, at, email, token) ==
    req' = [req EXCEPT ![c] = [at |-> at, email |-> email, token |-> token]]

\* Requests that have passed EXISTS with token t and have yet to remove it.
Using(t) == {c \in Requests : req[c].at = "del" /\ req[c].token = t}

-----------------------------------------------------------------------------
(* Register and Login. *)

\* Register: the row; the unique index refuses a second one.
Register(c, e) ==
    /\ req[c] = Idle
    /\ e \notin users
    /\ users' = users \cup {e}
    /\ Goto(c, "issue", e, NoToken)
    /\ UNCHANGED <<tokenVars, faults>>

\* Login: the account exists and the password is right.
Login(c, e) ==
    /\ req[c] = Idle
    /\ e \in users
    /\ Goto(c, "issue", e, NoToken)
    /\ UNCHANGED <<users, tokenVars, faults>>

-----------------------------------------------------------------------------
(* Refresh and Logout.  Anybody may present a token that reached a client. *)

\* parseRefresh accepts the JWT.
ParseRefresh(t) == t \in known /\ t \in fresh

\* A request comes to t, perhaps while another one is using it.
Overlap(t) ==
    overlaps' = IF Using(t) = {} THEN overlaps ELSE [overlaps EXCEPT ![root[t]] = @ + 1]

\* consumeRefreshJTI, first call: EXISTS.
RefreshExists(c, t) ==
    /\ req[c] = Idle
    /\ ParseRefresh(t)
    /\ t \in keys
    /\ Goto(c, "del", owner[t], t)
    /\ Overlap(t)
    /\ UNCHANGED <<users, keys, issued, root, owner, known, fresh, revoked, faults>>

\* A plausible slip: the old key stays until it expires.
RefreshKeepsKey(c) ==
    /\ req[c].at = "del"
    /\ Goto(c, "issue", req[c].email, req[c].token)
    /\ UNCHANGED <<users, tokenVars, faults>>

\* consumeRefreshJTI, second call: DEL, which is no error if the key is gone;
\* then FindByID finds the account.
RefreshDel(c) ==
    /\ req[c].at = "del"
    /\ keys' = keys \ {req[c].token}
    /\ Goto(c, "issue", req[c].email, req[c].token)
    /\ UNCHANGED <<users, issued, root, owner, known, fresh, revoked, overlaps, faults>>

\* A plausible slip: nothing is revoked.
LogoutForgets(t) ==
    /\ ParseRefresh(t)
    /\ t \in keys
    /\ revoked' = revoked \cup {t}
    /\ Overlap(t)
    /\ UNCHANGED <<users, keys, issued, root, owner, known, fresh, req, faults>>

\* Logout: DEL.  It answers "logged out" as well for a token that was replaced
\* long ago, and then changes nothing.
Logout(t) ==
    /\ ParseRefresh(t)
    /\ t \in keys
    /\ keys' = keys \ {t}
    /\ revoked' = revoked \cup {t}
    /\ Overlap(t)
    /\ UNCHANGED <<users, issued, root, owner, known, fresh, req, faults>>

-----------------------------------------------------------------------------
(* issueTokens, the last step of Register, Login and Refresh. *)

\* A plausible slip: the key is per user, and a second login takes it over.
SetOnlyKey(jti) == keys' = {jti}

\* SET refresh:<jti>
SetKey(jti) == keys' = keys \cup {jti}

\* A pair is signed and storeRefreshJTI sets its key.
StoreRefreshJTI(c) ==
    LET n == issued + 1
    IN  /\ req[c].at = "issue"
        /\ n \in Tokens
        /\ issued' = n
        /\ SetKey(n)
        /\ root' = [root EXCEPT ![n] = IF req[c].token = NoToken THEN n
                                       ELSE root[req[c].token]]
        /\ owner' = [owner EXCEPT ![n] = req[c].email]
        /\ fresh' = fresh \cup {n}
        /\ req' = [req EXCEPT ![c] = Idle]
        /\ UNCHANGED <<users, revoked, overlaps>>

\* The client gets the pair.
IssueTokens(c) ==
    /\ StoreRefreshJTI(c)
    /\ known' = known \cup {issued + 1}
    /\ UNCHANGED faults

-----------------------------------------------------------------------------
(* Failures. *)

Fault == faults < MaxFaults /\ faults' = faults + 1

\* SET took effect, but Redis' answer or ours is lost: nobody has the pair.
IssueLost(c) ==
    /\ Fault
    /\ StoreRefreshJTI(c)
    /\ UNCHANGED known

\* A call fails before it takes effect, FindByID fails, or the process dies.
Fail(c) ==
    /\ Fault
    /\ req[c] # Idle
    /\ req' = [req EXCEPT ![c] = Idle]
    /\ UNCHANGED <<users, tokenVars>>

\* DEL took effect, but its answer is lost.
DelLost(c) ==
    /\ Fault
    /\ req[c].at = "del"
    /\ keys' = keys \ {req[c].token}
    /\ req' = [req EXCEPT ![c] = Idle]
    /\ UNCHANGED <<users, issued, root, owner, known, fresh, revoked, overlaps>>

-----------------------------------------------------------------------------
(* Time. *)

\* JWTRefreshTTL passes: the JWT expires, and with it its key
\* in Redis, which has the same TTL from a moment later.
RefreshExpires(t) ==
    /\ t \in fresh
    /\ fresh' = fresh \ {t}
    /\ keys' = keys \ {t}
    /\ UNCHANGED <<users, issued, root, owner, known, revoked, overlaps, req, faults>>

-----------------------------------------------------------------------------
Next ==
    \/ \E c \in Requests :
         \/ \E e \in Emails : Register(c, e) \/ Login(c, e)
         \/ \E t \in Tokens : RefreshExists(c, t)
         \/ RefreshDel(c) \/ IssueTokens(c)
         \/ IssueLost(c) \/ Fail(c) \/ DelLost(c)
    \/ \E t \in Tokens : Logout(t) \/ RefreshExpires(t)

Spec == Init /\ [][Next]_vars

-----------------------------------------------------------------------------
(* Correctness. *)

\* Accounts, keys, tokens and requests stay within their domains.
TypeOK ==
    /\ users \subseteq Emails
    /\ issued \in 0..MaxTokens
    /\ root \in [Tokens -> Tokens \cup {NoToken}]
    /\ owner \in [Tokens -> Emails \cup {NoEmail}]
    /\ keys \subseteq 1..issued
    /\ known \subseteq 1..issued
    /\ fresh \subseteq 1..issued
    /\ revoked \subseteq known
    /\ overlaps \in [Tokens -> Nat]
    /\ req \in [Requests -> [at : {"idle", "del", "issue"}, email : Emails \cup {NoEmail},
                             token : Tokens \cup {NoToken}]]
    /\ faults \in 0..MaxFaults

Chain(r) == {t \in 1..issued : root[t] = r}

Logins == {t \in 1..issued : root[t] = t}

\* Refreshes on their way to replace a consumed token of the chain.
Replacing(r) == {c \in Requests : req[c].at = "issue" /\ req[c].token \in Chain(r)}

\* What a login is worth: refresh tokens that are usable or about to be.
Worth(r) == Cardinality(Chain(r) \cap keys) + Cardinality(Replacing(r))

\* Rotation: a login has one usable refresh token at a time, and one more only
\* for each time two requests were between EXISTS and DEL of the same token
\* (consumeRefreshJTI): a token presented again and again is worth no more.
OneTokenPerLogin == \A r \in Logins : Worth(r) <= 1 + overlaps[r]

\* A logout that removed a key takes one token off that: it ends the login for
\* good, and what survives it are refreshes that overlapped another request.
LogoutEndsLogin ==
    \A r \in Logins : Chain(r) \cap revoked # {} => Worth(r) <= overlaps[r]

\* Logins that are neither logged out nor expired, and of which no usable token
\* is with the client or on its way.
Stranded ==
    {r \in Logins : /\ Chain(r) \cap revoked = {}
                    /\ Chain(r) \subseteq fresh
                    /\ Chain(r) \cap keys \cap known = {}
                    /\ Replacing(r) = {}}

\* A refresh removes the old key before it sets the new one; a failure in
\* between costs the client its login, that one and no other, and nothing else
\* does.
LoginIsKept == Cardinality(Stranded) <= faults
=============================================================================

----------------------------- MODULE RefreshTokens -----------------------------
(***************************************************************************)
(* One family of refresh tokens, from the login that founds it: rotation,  *)
(* detection of a token used twice, and logout, by any number of requests  *)
(* at the same time. Whoever sends a token may have it from anywhere, so a *)
(* request names any token of the family that was issued.                  *)
(*                                                                         *)
(* Refresh and logout select the row of the token they were sent FOR       *)
(* UPDATE and keep it to their commit. revoke_family is one UPDATE: it     *)
(* revokes the tokens that are in its snapshot, waits for the rows of them *)
(* that others hold, and does not see a row inserted meanwhile.            *)
(***************************************************************************)
EXTENDS Naturals, FiniteSets

CONSTANTS
    Request,    \* refresh and logout requests in progress at a time
    MaxTokens   \* bound: tokens issued in a behaviour

ASSUME RefreshAssumption == MaxTokens \in Nat \ {0}

VARIABLES
    issued,       \* tokens of the family, numbered in the order of insertion
    revoked,      \* those with a revoked_at
    expired,      \* those past their expires_at
    replaced_by,  \* replaced_by_id of every token: NoToken is NULL
    pc,           \* how far each request is
    token,        \* the token whose row a request has locked
    seen,         \* the tokens a revoke_family in progress has in its snapshot
    logged_out,   \* history: has a logout revoked a token?
    reused,       \* history: has a request been answered refresh_token_reused?
    raced         \* history: has a rotation committed under a revoke_family?

tokenVars == <<issued, revoked, replaced_by>>
requestVars == <<pc, token, seen>>
history == <<logged_out, reused, raced>>
vars == <<tokenVars, expired, requestVars, history>>

Token == 1..MaxTokens
NoToken == 0
Live == (1..issued) \ revoked

TypeOK ==
    /\ issued \in Token
    /\ revoked \subseteq 1..issued /\ expired \subseteq 1..issued
    /\ replaced_by \in [Token -> Token \cup {NoToken}]
    /\ pc \in [Request -> {"idle", "rotating", "reused", "revoking", "leaving"}]
    /\ token \in [Request -> Token]
    /\ seen \in [Request -> SUBSET Token]
    /\ {logged_out, reused, raced} \subseteq BOOLEAN

\* login: a family of its own with one token
Init ==
    /\ issued = 1
    /\ revoked = {} /\ expired = {}
    /\ replaced_by = [t \in Token |-> NoToken]
    /\ pc = [r \in Request |-> "idle"]
    /\ token = [r \in Request |-> 1]
    /\ seen = [r \in Request |-> {}]
    /\ logged_out = FALSE /\ reused = FALSE /\ raced = FALSE

\* faulty variant of Unlocked: the row is read without FOR UPDATE
NeverLocked(t, r) == TRUE

\* no other request has the row of t
Unlocked(t, r) == \A q \in Request \ {r} : pc[q] # "idle" => token[q] # t

-----------------------------------------------------------------------------
(***************************************************************************)
(* refresh. An unknown or expired token is refused, which changes nothing. *)
(***************************************************************************)
BeginRefresh(r, t) ==
    /\ pc[r] = "idle"
    /\ Unlocked(t, r)
    /\ t \in revoked \/ t \notin expired
    /\ pc' = [pc EXCEPT ![r] = IF t \in revoked THEN "reused" ELSE "rotating"]
    /\ token' = [token EXCEPT ![r] = t]
    /\ UNCHANGED <<tokenVars, expired, seen, history>>

\* the replacement and the revocation of its predecessor are one commit
Rotate(r) ==
    /\ pc[r] = "rotating"
    /\ issued < MaxTokens
    /\ issued' = issued + 1
    /\ revoked' = revoked \cup {token[r]}
    /\ replaced_by' = [replaced_by EXCEPT ![token[r]] = issued + 1]
    /\ pc' = [pc EXCEPT ![r] = "idle"]
    /\ raced' = (raced \/ \E q \in Request : pc[q] = "revoking")
    /\ UNCHANGED <<expired, token, seen, logged_out, reused>>

\* faulty variant of FamilyTokens: only what the presented token became
Successor(r) == {t \in Live : replaced_by[token[r]] = t}

\* the rows the UPDATE of revoke_family is for
FamilyTokens(r) == Live

BeginRevokeFamily(r) ==
    /\ pc[r] = "reused"
    /\ seen' = [seen EXCEPT ![r] = FamilyTokens(r)]
    /\ pc' = [pc EXCEPT ![r] = "revoking"]
    /\ UNCHANGED <<tokenVars, expired, token, history>>

\* the UPDATE has got its rows; those revoked meanwhile are left as they are
RevokeFamily(r) ==
    /\ pc[r] = "revoking"
    /\ \A t \in seen[r] : Unlocked(t, r)
    /\ revoked' = revoked \cup seen[r]
    /\ seen' = [seen EXCEPT ![r] = {}]
    /\ pc' = [pc EXCEPT ![r] = "idle"]
    /\ reused' = TRUE
    /\ UNCHANGED <<issued, expired, replaced_by, token, logged_out, raced>>

\* logout; a token that is revoked already is left alone
BeginLogout(r, t) ==
    /\ pc[r] = "idle"
    /\ Unlocked(t, r)
    /\ t \notin revoked
    /\ pc' = [pc EXCEPT ![r] = "leaving"]
    /\ token' = [token EXCEPT ![r] = t]
    /\ UNCHANGED <<tokenVars, expired, seen, history>>

Logout(r) ==
    /\ pc[r] = "leaving"
    /\ revoked' = revoked \cup {token[r]}
    /\ pc' = [pc EXCEPT ![r] = "idle"]
    /\ logged_out' = TRUE
    /\ UNCHANGED <<issued, expired, replaced_by, token, seen, reused, raced>>

\* the process or its connection is lost and the transaction rolled back
Stop(r) ==
    /\ pc[r] # "idle"
    /\ pc' = [pc EXCEPT ![r] = "idle"]
    /\ seen' = [seen EXCEPT ![r] = {}]
    /\ UNCHANGED <<tokenVars, expired, token, history>>

Expire(t) ==
    /\ expired' = expired \cup {t}
    /\ UNCHANGED <<tokenVars, requestVars, history>>

Serve(r) ==
    \/ \E t \in 1..issued : BeginRefresh(r, t) \/ BeginLogout(r, t)
    \/ Rotate(r) \/ BeginRevokeFamily(r) \/ RevokeFamily(r) \/ Logout(r) \/ Stop(r)

Next == (\E r \in Request : Serve(r)) \/ (\E t \in 1..issued : Expire(t))

Spec == Init /\ [][Next]_vars

-----------------------------------------------------------------------------
(***************************************************************************)
(* A family is one chain: however many requests rotate the same token at   *)
(* once, at most one token of it can be used.                              *)
(***************************************************************************)
OneLiveToken == Cardinality(Live) <= 1

(***************************************************************************)
(* PROJECT_SPECIFICATION.md:124, "reuse revokes family", as far as the     *)
(* code keeps it: once a reuse was answered nothing of the family can be   *)
(* used, unless a rotation committed while the UPDATE was under way, whose *)
(* new row it does not see.                                                *)
(***************************************************************************)
ReuseEndsFamily == reused /\ ~raced => Live = {}

(***************************************************************************)
(* PROJECT_SPECIFICATION.md:125: a logout that revoked a token ended the   *)
(* session; no rotation under way at the time brings it back.              *)
(***************************************************************************)
LogoutEndsSession == logged_out => Live = {}

(***************************************************************************)
(* PROJECT_SPECIFICATION.md:123-125 as one promise: to whoever is signed   *)
(* in the family is one session, which a refresh renews and which, once it *)
(* is ended, nothing under way renews again.                               *)
(***************************************************************************)
Session == INSTANCE SignedInSession WITH usable <- Live, known <- 1..issued

ImplementsSession == Session!Spec

(***************************************************************************)
(* The inductive invariant. Only the youngest token can be live, which     *)
(* makes a chain of the family; a request that is about to change a token  *)
(* has its row to itself and knows that it is live; and an UPDATE under    *)
(* way has the live token in its snapshot unless a rotation raced with it. *)
(***************************************************************************)
OnlyYoungestLive == Live \subseteq {issued}

HoldsLiveToken ==
    \A r \in Request :
        /\ pc[r] # "idle" => Unlocked(token[r], r)
        /\ pc[r] \in {"rotating", "leaving"} => token[r] \in Live

SnapshotHasLive ==
    \A r \in Request : /\ seen[r] \subseteq 1..issued
                       /\ pc[r] = "revoking" /\ ~raced => Live \subseteq seen[r]

TokenInv ==
    /\ TypeOK
    /\ OnlyYoungestLive
    /\ HoldsLiveToken
    /\ SnapshotHasLive
    /\ ReuseEndsFamily
    /\ LogoutEndsSession

=============================================================================

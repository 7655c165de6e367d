------------------------- MODULE RefreshTokens_proofs -------------------------
(***************************************************************************)
(* Proofs about RefreshTokens for any number of requests and tokens.       *)
(***************************************************************************)
EXTENDS RefreshTokens, TLAPS, FiniteSetTheorems

LEMMA InitHasTokenInv == Init => TokenInv
<1>. SUFFICES ASSUME Init PROVE TokenInv
  OBVIOUS
<1>0. MaxTokens \in Nat \ {0}
  BY RefreshAssumption DEF RefreshAssumption
<1>1. TypeOK
  <2>1. issued \in Token /\ 1 \in Token
    BY <1>0 DEF Init, Token
  <2>2. revoked \subseteq 1..issued /\ expired \subseteq 1..issued
    BY DEF Init
  <2>3. /\ replaced_by \in [Token -> Token \cup {NoToken}]
        /\ pc \in [Request -> {"idle", "rotating", "reused", "revoking", "leaving"}]
        /\ token \in [Request -> Token]
        /\ seen \in [Request -> SUBSET Token]
    BY <2>1 DEF Init
  <2>4. {logged_out, reused, raced} \subseteq BOOLEAN
    BY Zenon DEF Init
  <2>. QED
    BY <2>1, <2>2, <2>3, <2>4 DEF TypeOK
<1>2. OnlyYoungestLive
  BY DEF Init, OnlyYoungestLive, Live
<1>3. HoldsLiveToken /\ SnapshotHasLive /\ ReuseEndsFamily /\ LogoutEndsSession
  BY DEF Init, HoldsLiveToken, SnapshotHasLive, ReuseEndsFamily, LogoutEndsSession
<1>. QED
  BY <1>1, <1>2, <1>3 DEF TokenInv

-----------------------------------------------------------------------------
(***************************************************************************)
(* One lemma per action.                                                   *)
(***************************************************************************)
LEMMA BeginKeepsInv ==
    ASSUME TokenInv, NEW r \in Request, NEW t \in 1..issued,
           BeginRefresh(r, t) \/ BeginLogout(r, t)
    PROVE  TokenInv'
<1>. USE DEF TokenInv
<1>0. /\ pc' = [pc EXCEPT ![r] = pc'[r]]
      /\ token' = [token EXCEPT ![r] = t]
      /\ pc[r] = "idle" /\ Unlocked(t, r)
      /\ pc'[r] \in {"reused", "rotating", "leaving"}
      /\ pc'[r] \in {"rotating", "leaving"} => t \notin revoked
      /\ UNCHANGED <<tokenVars, expired, seen, history>>
  BY DEF BeginRefresh, BeginLogout, TypeOK
<1>1. TypeOK'
  <2>1. t \in Token
    BY RefreshAssumption DEF RefreshAssumption, TypeOK, Token
  <2>2. /\ pc' \in [Request -> {"idle", "rotating", "reused", "revoking", "leaving"}]
        /\ token' \in [Request -> Token]
    BY <1>0, <2>1 DEF TypeOK
  <2>. QED
    BY <1>0, <2>2 DEF TypeOK, tokenVars, history
<1>2. OnlyYoungestLive' /\ ReuseEndsFamily' /\ LogoutEndsSession'
  BY <1>0 DEF tokenVars, history, OnlyYoungestLive, ReuseEndsFamily, LogoutEndsSession, Live
<1>3. HoldsLiveToken'
  <2>1. Live' = Live
    BY <1>0 DEF tokenVars, Live
  <2>2. ASSUME NEW q \in Request, pc'[q] # "idle"
        PROVE  Unlocked(token[q], q)'
    BY <1>0, <2>2 DEF HoldsLiveToken, Unlocked, TypeOK
  <2>3. ASSUME NEW q \in Request, pc'[q] \in {"rotating", "leaving"}
        PROVE  token'[q] \in Live'
    BY <1>0, <2>1, <2>3 DEF HoldsLiveToken, TypeOK, Live
  <2>. QED
    BY <2>2, <2>3 DEF HoldsLiveToken
<1>4. SnapshotHasLive'
  BY <1>0 DEF SnapshotHasLive, tokenVars, history, TypeOK, Live
<1>. QED
  BY <1>1, <1>2, <1>3, <1>4

LEMMA RotateKeepsInv ==
    ASSUME TokenInv, NEW r \in Request, Rotate(r)
    PROVE  TokenInv'
<1>. USE DEF TokenInv
<1>0. /\ MaxTokens \in Nat \ {0} /\ issued \in 1..MaxTokens /\ issued' = issued + 1
      /\ issued < MaxTokens
      /\ pc[r] = "rotating" /\ token[r] \in Live /\ token[r] = issued
  BY RefreshAssumption
     DEF RefreshAssumption, Rotate, TypeOK, Token, HoldsLiveToken, OnlyYoungestLive
<1>1. Live' = {issued + 1}
  BY <1>0 DEF Rotate, TypeOK, OnlyYoungestLive, Live
<1>2. TypeOK'
  <2>1. /\ replaced_by' \in [Token -> Token \cup {NoToken}]
        /\ pc' \in [Request -> {"idle", "rotating", "reused", "revoking", "leaving"}]
        /\ token' \in [Request -> Token] /\ seen' \in [Request -> SUBSET Token]
    BY <1>0 DEF Rotate, TypeOK, Token
  <2>2. issued' \in Token /\ revoked' \subseteq 1..issued' /\ expired' \subseteq 1..issued'
    BY <1>0 DEF Rotate, TypeOK, Token
  <2>3. raced' \in BOOLEAN
    BY Zenon DEF Rotate
  <2>. QED
    BY <2>1, <2>2, <2>3 DEF Rotate, TypeOK
<1>3. OnlyYoungestLive'
  BY <1>0, <1>1 DEF OnlyYoungestLive
<1>4. HoldsLiveToken'
  <2>1. \A q \in Request \ {r} : /\ pc'[q] = pc[q] /\ token'[q] = token[q]
                                 /\ pc[q] # "idle" => token[q] # issued
    BY <1>0 DEF Rotate, TypeOK, HoldsLiveToken, Unlocked
  <2>2. pc'[r] = "idle"
    BY DEF Rotate, TypeOK
  <2>3. ASSUME NEW q \in Request, pc'[q] # "idle"
        PROVE  Unlocked(token[q], q)' /\ pc'[q] \notin {"rotating", "leaving"}
    <3>1. q # r /\ pc[q] # "idle" /\ token[q] # issued
      BY <2>1, <2>2, <2>3
    <3>2. pc[q] \notin {"rotating", "leaving"}
      BY <3>1 DEF HoldsLiveToken, OnlyYoungestLive
    <3>. QED
      BY <2>1, <2>2, <3>1, <3>2 DEF HoldsLiveToken, Unlocked
  <2>. QED
    BY <2>2, <2>3 DEF HoldsLiveToken
<1>5. SnapshotHasLive'
  <2>1. \A q \in Request : pc'[q] = "revoking" => pc[q] = "revoking"
    BY DEF Rotate, TypeOK
  <2>2. (\E q \in Request : pc[q] = "revoking") => raced'
    BY Zenon DEF Rotate
  <2>3. \A q \in Request : seen'[q] \subseteq 1..issued'
    BY <1>0 DEF Rotate, SnapshotHasLive
  <2>. QED
    BY <2>1, <2>2, <2>3 DEF SnapshotHasLive
<1>6. ReuseEndsFamily' /\ LogoutEndsSession'
  <2>1. ~logged_out /\ (reused => raced)
    BY <1>0 DEF ReuseEndsFamily, LogoutEndsSession
  <2>2. logged_out' = logged_out /\ reused' = reused
    BY DEF Rotate
  <2>3. raced => raced'
    BY Zenon DEF Rotate
  <2>. QED
    BY <2>1, <2>2, <2>3 DEF ReuseEndsFamily, LogoutEndsSession
<1>. QED
  BY <1>2, <1>3, <1>4, <1>5, <1>6

LEMMA BeginRevokeFamilyKeepsInv ==
    ASSUME TokenInv, NEW r \in Request, BeginRevokeFamily(r)
    PROVE  TokenInv'
<1>. USE DEF TokenInv
<1>0. Live \subseteq 1..issued /\ Live \subseteq Token /\ Live' = Live
  BY RefreshAssumption
     DEF RefreshAssumption, TypeOK, Token, Live, BeginRevokeFamily, tokenVars
<1>1. TypeOK'
  BY <1>0 DEF BeginRevokeFamily, FamilyTokens, TypeOK, tokenVars, history
<1>2. HoldsLiveToken'
  BY <1>0 DEF BeginRevokeFamily, HoldsLiveToken, Unlocked, TypeOK
<1>3. SnapshotHasLive'
  BY <1>0 DEF BeginRevokeFamily, FamilyTokens, SnapshotHasLive, TypeOK, tokenVars, history
<1>4. OnlyYoungestLive' /\ ReuseEndsFamily' /\ LogoutEndsSession'
  BY <1>0 DEF BeginRevokeFamily, tokenVars, history,
              OnlyYoungestLive, ReuseEndsFamily, LogoutEndsSession
<1>. QED
  BY <1>1, <1>2, <1>3, <1>4

LEMMA RevokeFamilyKeepsInv ==
    ASSUME TokenInv, NEW r \in Request, RevokeFamily(r)
    PROVE  TokenInv'
<1>. USE DEF TokenInv
<1>0. Live' = Live \ seen[r] /\ seen[r] \subseteq 1..issued
  BY DEF RevokeFamily, Live, SnapshotHasLive
<1>1. TypeOK'
  <2>1. reused' \in BOOLEAN
    BY Zenon DEF RevokeFamily
  <2>. QED
    BY <1>0, <2>1 DEF RevokeFamily, TypeOK
<1>2. HoldsLiveToken'
  <2>1. ASSUME NEW q \in Request, pc'[q] # "idle"
        PROVE  /\ q # r /\ pc[q] = pc'[q] /\ token'[q] = token[q] /\ token[q] \notin seen[r]
               /\ Unlocked(token[q], q)'
    BY <2>1 DEF RevokeFamily, HoldsLiveToken, Unlocked, TypeOK
  <2>. QED
    BY <1>0, <2>1 DEF HoldsLiveToken
<1>3. SnapshotHasLive'
  BY <1>0 DEF RevokeFamily, SnapshotHasLive, TypeOK
<1>4. OnlyYoungestLive'
  BY <1>0 DEF RevokeFamily, OnlyYoungestLive
<1>5. ReuseEndsFamily'
  BY <1>0 DEF RevokeFamily, SnapshotHasLive, ReuseEndsFamily
<1>6. LogoutEndsSession'
  BY <1>0 DEF RevokeFamily, LogoutEndsSession
<1>. QED
  BY <1>1, <1>2, <1>3, <1>4, <1>5, <1>6

LEMMA LogoutKeepsInv ==
    ASSUME TokenInv, NEW r \in Request, Logout(r)
    PROVE  TokenInv'
<1>. USE DEF TokenInv
<1>0. /\ token[r] \in Live /\ Live = {token[r]} /\ Live' = {}
      /\ token[r] \in 1..issued
  BY DEF Logout, HoldsLiveToken, OnlyYoungestLive, Live
<1>1. TypeOK'
  <2>1. logged_out' \in BOOLEAN
    BY Zenon DEF Logout
  <2>. QED
    BY <1>0, <2>1 DEF Logout, TypeOK
<1>2. HoldsLiveToken'
  BY <1>0 DEF Logout, HoldsLiveToken, Unlocked, TypeOK
<1>3. SnapshotHasLive'
  BY <1>0 DEF Logout, SnapshotHasLive, TypeOK
<1>4. OnlyYoungestLive' /\ ReuseEndsFamily' /\ LogoutEndsSession'
  BY <1>0 DEF OnlyYoungestLive, ReuseEndsFamily, LogoutEndsSession
<1>. QED
  BY <1>1, <1>2, <1>3, <1>4

LEMMA QuietStepKeepsInv ==
    ASSUME TokenInv,
           \/ \E r \in Request : Stop(r)
           \/ \E t \in 1..issued : Expire(t)
           \/ UNCHANGED vars
    PROVE  TokenInv'
<1>. USE DEF TokenInv
<1>1. UNCHANGED <<tokenVars, token, history>> /\ Live' = Live
  BY DEF Stop, Expire, vars, requestVars, tokenVars, Live
<1>2. /\ pc' \in [Request -> {"idle", "rotating", "reused", "revoking", "leaving"}]
      /\ \A q \in Request : pc'[q] # "idle" => pc'[q] = pc[q] /\ seen'[q] = seen[q]
      /\ \A q \in Request : seen'[q] \in {seen[q], {}}
      /\ seen' \in [Request -> SUBSET Token]
  BY DEF Stop, Expire, vars, requestVars, TypeOK
<1>3. expired' \subseteq 1..issued
  BY DEF Stop, Expire, vars, TypeOK
<1>4. TypeOK'
  BY <1>1, <1>2, <1>3 DEF TypeOK, tokenVars, history
<1>5. HoldsLiveToken'
  BY <1>1, <1>2 DEF HoldsLiveToken, Unlocked
<1>6. SnapshotHasLive'
  BY <1>1, <1>2 DEF SnapshotHasLive, tokenVars, history
<1>7. OnlyYoungestLive' /\ ReuseEndsFamily' /\ LogoutEndsSession'
  BY <1>1 DEF tokenVars, history, OnlyYoungestLive, ReuseEndsFamily, LogoutEndsSession
<1>. QED
  BY <1>4, <1>5, <1>6, <1>7

(***************************************************************************)
(* The invariant of the family holds however its requests interleave.      *)
(***************************************************************************)
THEOREM FamilyIsConsistent == Spec => []TokenInv
<1>1. TokenInv /\ [Next]_vars => TokenInv'
  <2>. SUFFICES ASSUME TokenInv, [Next]_vars PROVE TokenInv'
    OBVIOUS
  <2>1. ASSUME NEW r \in Request, Serve(r) PROVE TokenInv'
    BY <2>1, BeginKeepsInv, RotateKeepsInv, BeginRevokeFamilyKeepsInv, RevokeFamilyKeepsInv,
       LogoutKeepsInv, QuietStepKeepsInv DEF Serve
  <2>. QED
    BY <2>1, QuietStepKeepsInv DEF Next
<1>. QED
  BY <1>1, InitHasTokenInv, PTL DEF Spec

(***************************************************************************)
(* Requests that rotate one token at the same time never leave two tokens  *)
(* of the family that can be used.                                         *)
(***************************************************************************)
THEOREM FamilyIsAChain == Spec => []OneLiveToken
<1>1. TokenInv => OneLiveToken
  <2>. SUFFICES ASSUME TokenInv PROVE OneLiveToken
    OBVIOUS
  <2>1. Live = {} \/ Live = {issued}
    BY DEF TokenInv, OnlyYoungestLive
  <2>2. Cardinality({}) = 0 /\ Cardinality({issued}) = 1
    BY FS_EmptySet, FS_Singleton
  <2>. QED
    BY <2>1, <2>2 DEF OneLiveToken
<1>. QED
  BY <1>1, FamilyIsConsistent, PTL

\* After a reuse no token of the family can be used, unless a rotation raced.
THEOREM ReuseIsFatal == Spec => []ReuseEndsFamily
<1>1. TokenInv => ReuseEndsFamily
  BY DEF TokenInv
<1>. QED
  BY <1>1, FamilyIsConsistent, PTL

\* After a logout that revoked a token no token of the family can be used.
THEOREM LogoutIsFinal == Spec => []LogoutEndsSession
<1>1. TokenInv => LogoutEndsSession
  BY DEF TokenInv
<1>. QED
  BY <1>1, FamilyIsConsistent, PTL

-----------------------------------------------------------------------------
(***************************************************************************)
(* One session. A rotation spends the youngest token, which is the only    *)
(* one that can be live, and a revocation leaves that token or none.       *)
(***************************************************************************)
LEMMA InitImplementsSession == Init => Session!Init
<1>. SUFFICES ASSUME Init PROVE Session!Init
  OBVIOUS
<1>1. 1 \in Token
  BY RefreshAssumption DEF RefreshAssumption, Token
<1>2. Live = {1} /\ 1..issued = {1}
  BY DEF Init, Live
<1>. QED
  BY <1>1, <1>2 DEF Session!Init

LEMMA RotateRenews ==
    ASSUME TokenInv, NEW r \in Request, Rotate(r)
    PROVE  Session!Next
<1>1. /\ MaxTokens \in Nat \ {0} /\ issued \in 1..MaxTokens /\ issued' = issued + 1
      /\ issued < MaxTokens
      /\ Live \subseteq {issued} /\ token[r] \in Live
  BY RefreshAssumption
     DEF RefreshAssumption, Rotate, TokenInv, TypeOK, Token, HoldsLiveToken, OnlyYoungestLive
<1>2. Live = {issued} /\ token[r] = issued
  BY <1>1
<1>3. Live' = {issued + 1}
  BY <1>1, <1>2 DEF Rotate, TokenInv, TypeOK, Live
<1>4. (1..issued)' = (1..issued) \cup {issued + 1} /\ issued + 1 \notin 1..issued
  BY <1>1
<1>5. issued \in Token /\ issued + 1 \in Token
  BY <1>1 DEF Token
<1>6. Session!Renew(issued, issued + 1)
  BY <1>2, <1>3, <1>4 DEF Session!Renew
<1>. QED
  BY <1>5, <1>6 DEF Session!Next

LEMMA RevocationEnds ==
    ASSUME TokenInv, NEW r \in Request, RevokeFamily(r) \/ Logout(r)
    PROVE  [Session!Next]_Session!vars
<1>1. UNCHANGED issued /\ revoked \subseteq revoked'
  BY DEF RevokeFamily, Logout
<1>2. Live' \subseteq Live
  BY <1>1 DEF Live
<1>3. Live' = Live \/ (Live # {} /\ Live' = {})
  BY <1>2 DEF TokenInv, OnlyYoungestLive
<1>4. (1..issued)' = 1..issued
  BY <1>1
<1>. QED
  BY <1>3, <1>4 DEF Session!Next, Session!End, Session!vars

LEMMA StepImplementsSession == TokenInv /\ [Next]_vars => [Session!Next]_Session!vars
<1>. SUFFICES ASSUME TokenInv, [Next]_vars PROVE [Session!Next]_Session!vars
  OBVIOUS
<1>1. ASSUME UNCHANGED tokenVars PROVE UNCHANGED Session!vars
  BY <1>1 DEF tokenVars, Live, Session!vars
<1>2. ASSUME NEW r \in Request, Serve(r)
      PROVE  [Session!Next]_Session!vars
  <2>1. CASE Rotate(r)
    BY <2>1, RotateRenews
  <2>2. CASE RevokeFamily(r) \/ Logout(r)
    BY <2>2, RevocationEnds
  <2>3. CASE \/ \E t \in 1..issued : BeginRefresh(r, t) \/ BeginLogout(r, t)
             \/ BeginRevokeFamily(r) \/ Stop(r)
    <3>1. UNCHANGED tokenVars
      BY <2>3 DEF BeginRefresh, BeginLogout, BeginRevokeFamily, Stop
    <3>. QED
      BY <1>1, <3>1
  <2>. QED
    BY <1>2, <2>1, <2>2, <2>3 DEF Serve
<1>3. CASE (\E t \in 1..issued : Expire(t)) \/ UNCHANGED vars
  BY <1>1, <1>3 DEF Expire, vars
<1>. QED
  BY <1>2, <1>3 DEF Next

(***************************************************************************)
(* However requests interleave, the family is one session: renewed one     *)
(* token after the other, and never again once it has ended, not even by a *)
(* rotation that was under way.                                            *)
(***************************************************************************)
THEOREM FamilyImplementsSession == Spec => ImplementsSession
BY InitImplementsSession, StepImplementsSession, FamilyIsConsistent, PTL
   DEF Spec, Session!Spec, ImplementsSession

=============================================================================

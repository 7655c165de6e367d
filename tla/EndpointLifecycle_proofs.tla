----------------------- MODULE EndpointLifecycle_proofs -----------------------
(***************************************************************************)
(* Proofs about EndpointLifecycle for any number of urls, verify requests  *)
(* and challenges.                                                         *)
(***************************************************************************)
EXTENDS EndpointLifecycle, TLAPS

LEMMA InitHasEndpointInv == Init => EndpointInv
<1>. SUFFICES ASSUME Init PROVE EndpointInv
  OBVIOUS
<1>1. \A r \in Request : /\ request[r].pc = "none" /\ request[r].url = url
                         /\ request[r].status = "active" /\ request[r].challenge = 0
  BY DEF Init, NoRequest, NoChallenge
<1>2. TypeOK
  <2>1. MaxChallenges \in Nat
    BY EndpointAssumption DEF EndpointAssumption
  <2>2. NoRequest(url) \in [pc : {"none", "challenging", "answered"}, url : Url,
                            status : Status, challenge : 0..MaxChallenges]
    BY <2>1 DEF Init, NoRequest, NoChallenge, Status
  <2>3. request \in [Request -> [pc : {"none", "challenging", "answered"}, url : Url,
                                 status : Status, challenge : 0..MaxChallenges]]
    BY <2>2 DEF Init
  <2>4. /\ enabled \in BOOLEAN /\ deleted \in BOOLEAN /\ waiting \in BOOLEAN
        /\ overlapped \in BOOLEAN
    BY Zenon DEF Init
  <2>5. 0 \in 0..MaxChallenges
    BY <2>1
  <2>6. url \in Url /\ status \in Status /\ echoed \subseteq Url
    BY DEF Init, Status
  <2>7. challenge = 0 /\ issued = 0
    BY DEF Init, NoChallenge
  <2>. QED
    BY <2>3, <2>4, <2>5, <2>6, <2>7 DEF TypeOK
<1>. QED
  BY <1>1, <1>2 DEF Init, EndpointInv, DeletedStaysClosed, OpenedByAnEcho, AnswersAreEchoes

\* the history variable of a change stays a Boolean
LEMMA ChangeSeenIsBoolean == ChangeSeen => overlapped' \in BOOLEAN
BY Zenon DEF ChangeSeen

LEMMA UpdateKeepsInv ==
    ASSUME EndpointInv, NEW u \in Url \cup {Keep}, NEW e \in BOOLEAN \cup {Keep},
           NEW respelled \in BOOLEAN, Update(u, e, respelled)
    PROVE  EndpointInv'
<1>0. StatusAfterUrl(u, respelled) \in {status, "pending_verification"}
  BY DEF StatusAfterUrl
<1>1. TypeOK'
  <2>1. url' \in Url /\ enabled' \in BOOLEAN /\ waiting' \in BOOLEAN
    BY DEF EndpointInv, TypeOK, Update
  <2>2. status' \in Status
    BY <1>0 DEF EndpointInv, TypeOK, Update, Status
  <2>3. overlapped' \in BOOLEAN
    BY ChangeSeenIsBoolean DEF Update
  <2>. QED
    BY <2>1, <2>2, <2>3 DEF EndpointInv, TypeOK, Update
<1>2. DeletedStaysClosed'
  BY DEF Update, Exists, DeletedStaysClosed
<1>3. OpenedByAnEcho'
  BY <1>0 DEF EndpointInv, OpenedByAnEcho, Update
<1>4. AnswersAreEchoes'
  BY DEF EndpointInv, AnswersAreEchoes, Update
<1>. QED
  BY <1>1, <1>2, <1>3, <1>4 DEF EndpointInv

LEMMA VerifyKeepsInv ==
    ASSUME EndpointInv, NEW r \in Request, Verify(r)
    PROVE  EndpointInv'
<1>0. TypeOK /\ MaxChallenges \in Nat /\ issued \in Nat
  BY EndpointAssumption DEF EndpointInv, TypeOK, EndpointAssumption
<1>1. CASE BeginVerify(r)
  <2>1. TypeOK'
    BY <1>0, <1>1, ChangeSeenIsBoolean DEF BeginVerify, TypeOK
  <2>2. AnswersAreEchoes'
    BY <1>0, <1>1 DEF BeginVerify, EndpointInv, TypeOK, AnswersAreEchoes
  <2>. QED
    BY <1>1, <2>1, <2>2 DEF BeginVerify, EndpointInv, DeletedStaysClosed, OpenedByAnEcho
<1>2. CASE Echo(r)
  <2>1. TypeOK'
    BY <1>0, <1>2 DEF Echo, TypeOK, row
  <2>2. AnswersAreEchoes'
    BY <1>0, <1>2 DEF Echo, EndpointInv, TypeOK, AnswersAreEchoes
  <2>. QED
    BY <1>2, <2>1, <2>2 DEF Echo, EndpointInv, DeletedStaysClosed, OpenedByAnEcho, row
<1>3. CASE Refuse(r)
  <2>1. TypeOK' /\ AnswersAreEchoes'
    BY <1>0, <1>3 DEF Refuse, EndpointInv, TypeOK, AnswersAreEchoes, row
  <2>. QED
    BY <1>3, <2>1 DEF Refuse, EndpointInv, DeletedStaysClosed, OpenedByAnEcho, row
<1>4. CASE FinishVerify(r)
  <2>1. TypeOK' /\ AnswersAreEchoes'
    BY <1>0, <1>4
       DEF FinishVerify, EndpointInv, TypeOK, AnswersAreEchoes, Status, NoChallenge
  <2>2. echoed # {}
    BY <1>4 DEF FinishVerify, EndpointInv, AnswersAreEchoes
  <2>. QED
    BY <1>4, <2>1, <2>2 DEF FinishVerify, EndpointInv, DeletedStaysClosed, OpenedByAnEcho
<1>. QED
  BY <1>1, <1>2, <1>3, <1>4 DEF Verify

LEMMA StepKeepsEndpointInv == EndpointInv /\ [Next]_vars => EndpointInv'
<1>. SUFFICES ASSUME EndpointInv, [Next]_vars PROVE EndpointInv'
  OBVIOUS
<1>1. CASE Delete
  <2>1. TypeOK'
    BY <1>1, ChangeSeenIsBoolean DEF Delete, EndpointInv, TypeOK, Status
  <2>2. AnswersAreEchoes'
    BY <1>1 DEF Delete, EndpointInv, AnswersAreEchoes
  <2>. QED
    BY <1>1, <2>1, <2>2 DEF Delete, EndpointInv, DeletedStaysClosed, OpenedByAnEcho
<1>2. CASE Work \/ Drain \/ UNCHANGED vars
  <2>1. UNCHANGED <<row, request, issued, echoed, overlapped>>
    BY <1>2 DEF Work, Drain, vars
  <2>2. waiting' \in BOOLEAN
    BY <1>2 DEF Work, Drain, vars, EndpointInv, TypeOK
  <2>3. TypeOK' /\ AnswersAreEchoes'
    BY <2>1, <2>2 DEF row, EndpointInv, TypeOK, AnswersAreEchoes
  <2>. QED
    BY <2>1, <2>3 DEF row, EndpointInv, DeletedStaysClosed, OpenedByAnEcho
<1>. QED
  BY <1>1, <1>2, UpdateKeepsInv, VerifyKeepsInv DEF Next, Change

\* The invariant of the endpoint holds under every overlap of requests.
THEOREM EndpointIsConsistent == Spec => []EndpointInv
BY InitHasEndpointInv, StepKeepsEndpointInv, PTL DEF Spec

(***************************************************************************)
(* However verifies, updates and the deletion overlap, a deleted endpoint  *)
(* is never called again.                                                  *)
(***************************************************************************)
THEOREM DeletedIsClosed == Spec => []DeletedStaysClosed
<1>1. EndpointInv => DeletedStaysClosed
  BY DEF EndpointInv
<1>. QED
  BY <1>1, EndpointIsConsistent, PTL

\* No endpoint opens before some url configured for it has echoed a challenge.
THEOREM NothingOpensUnasked == Spec => []OpenedByAnEcho
<1>1. EndpointInv => OpenedByAnEcho
  BY DEF EndpointInv
<1>. QED
  BY <1>1, EndpointIsConsistent, PTL

-----------------------------------------------------------------------------
(***************************************************************************)
(* What holds as long as nothing changed the endpoint during a challenge:  *)
(* what a verify request has in memory is what the row says.               *)
(***************************************************************************)
AloneInv ==
    /\ \A r \in Request : request[r].pc # "none" =>
          /\ request[r].url = url /\ request[r].status = status /\ ~deleted
          /\ \A q \in Request : request[q].pc # "none" => q = r
    /\ status \in {"active", "disabled"} => url \in echoed
    /\ deleted <=> status = "deleted"

\* a change that is not an overlap finds no challenge under way
LEMMA ChangeAlone ==
    ASSUME ChangeSeen, ~overlapped'
    PROVE  \A r \in Request : request[r].pc = "none"
BY Zenon DEF ChangeSeen

LEMMA StepKeepsAloneInv ==
    ASSUME EndpointInv, AloneInv, [Next]_vars, ~overlapped'
    PROVE  AloneInv'
<1>0. TypeOK
  BY DEF EndpointInv
<1>1. ASSUME NEW u \in Url \cup {Keep}, NEW e \in BOOLEAN \cup {Keep},
             NEW respelled \in BOOLEAN, Update(u, e, respelled)
      PROVE  AloneInv'
  <2>1. \A r \in Request : request[r].pc = "none" /\ request'[r] = request[r]
    BY <1>1, ChangeAlone DEF Update
  <2>2. ~deleted /\ deleted' = deleted /\ echoed' = echoed
    BY <1>1 DEF Update, Exists
  <2>3. \/ StatusAfterUrl(u, respelled) = status /\ url' = url
        \/ StatusAfterUrl(u, respelled) = "pending_verification"
    BY <1>1 DEF StatusAfterUrl, Update
  <2>4. \/ status' = StatusAfterUrl(u, respelled)
        \/ /\ StatusAfterUrl(u, respelled) \in {"active", "disabled"}
           /\ status' \in {"active", "disabled"}
    BY <1>1 DEF Update
  <2>. QED
    BY <2>1, <2>2, <2>3, <2>4 DEF AloneInv
<1>2. CASE Delete
  <2>1. \A r \in Request : request[r].pc = "none"
    BY <1>2, ChangeAlone DEF Delete
  <2>. QED
    BY <1>2, <2>1 DEF Delete, AloneInv
<1>3. ASSUME NEW r \in Request, Verify(r)
      PROVE  AloneInv'
  <2>1. CASE BeginVerify(r)
    <3>1. \A q \in Request : q # r => request[q].pc = "none" /\ request'[q] = request[q]
      BY <1>0, <2>1, ChangeAlone DEF BeginVerify, TypeOK
    <3>. QED
      BY <1>0, <2>1, <3>1 DEF BeginVerify, Exists, AloneInv, TypeOK
  <2>2. CASE Echo(r)
    BY <1>0, <2>2 DEF Echo, AloneInv, TypeOK, row
  <2>3. CASE Refuse(r)
    BY <1>0, <2>3 DEF Refuse, AloneInv, TypeOK, row
  <2>4. CASE FinishVerify(r)
    <3>1. url \in echoed /\ ~deleted
      BY <2>4 DEF FinishVerify, EndpointInv, AnswersAreEchoes, AloneInv
    <3>2. \A q \in Request : q # r => request[q].pc = "none" /\ request'[q] = request[q]
      BY <1>0, <2>4 DEF FinishVerify, AloneInv, TypeOK
    <3>. QED
      BY <1>0, <2>4, <3>1, <3>2 DEF FinishVerify, AloneInv, TypeOK
  <2>. QED
    BY <1>3, <2>1, <2>2, <2>3, <2>4 DEF Verify
<1>4. CASE Work \/ Drain \/ UNCHANGED vars
  BY <1>4 DEF Work, Drain, vars, row, AloneInv
<1>. QED
  BY <1>1, <1>2, <1>3, <1>4 DEF Next, Change

\* an overlap is never forgotten
LEMMA OverlapIsRemembered == [Next]_vars /\ overlapped => overlapped'
<1>. SUFFICES ASSUME [Next]_vars, overlapped PROVE overlapped'
  OBVIOUS
<1>1. CASE Change
  <2>1. ChangeSeen
    BY <1>1 DEF Change, Delete, Update
  <2>. QED
    BY <2>1, Zenon DEF ChangeSeen
<1>2. ASSUME NEW r \in Request, Verify(r)
      PROVE  overlapped'
  <2>1. ChangeSeen \/ overlapped' = overlapped
    BY <1>2 DEF Verify, BeginVerify, Echo, Refuse, FinishVerify
  <2>. QED
    BY <2>1, Zenon DEF ChangeSeen
<1>3. CASE Work \/ Drain \/ UNCHANGED vars
  BY <1>3, Zenon DEF Work, Drain, vars
<1>. QED
  BY <1>1, <1>2, <1>3 DEF Next

LEMMA AloneIsConsistent == Spec => [](overlapped \/ AloneInv)
<1>1. Init => overlapped \/ AloneInv
  BY DEF Init, AloneInv, NoRequest
<1>2. EndpointInv /\ (overlapped \/ AloneInv) /\ [Next]_vars => (overlapped \/ AloneInv)'
  BY StepKeepsAloneInv, OverlapIsRemembered
<1>. QED
  BY <1>1, <1>2, EndpointIsConsistent, PTL DEF Spec

\* Left alone, an endpoint delivers only to an url that has echoed a challenge.
THEOREM VerifiedUrlIfAlone == Spec => []VerifiedUnlessOverlapped
<1>1. overlapped \/ AloneInv => VerifiedUnlessOverlapped
  BY DEF AloneInv, VerifiedUnlessOverlapped, OpenUrlEchoed, Open
<1>. QED
  BY <1>1, AloneIsConsistent, PTL

\* Left alone, a deleted endpoint stays 'deleted'.
THEOREM DeletedIsTerminalIfAlone == Spec => []DeletedUnlessOverlapped
<1>1. overlapped \/ AloneInv => DeletedUnlessOverlapped
  BY DEF AloneInv, DeletedUnlessOverlapped
<1>. QED
  BY <1>1, AloneIsConsistent, PTL

-----------------------------------------------------------------------------
(***************************************************************************)
(* The states that are promised. An update changes the url or the status,  *)
(* never both but for the status a new url brings with it, and an url in   *)
(* another spelling counts as a new one.                                   *)
(***************************************************************************)
LEMMA UpdateFollowsStates ==
    ASSUME EndpointInv, AloneInv, NEW u \in Url \cup {Keep}, NEW e \in BOOLEAN \cup {Keep},
           NEW respelled \in BOOLEAN, Update(u, e, respelled)
    PROVE  [States!Next]_States!vars
<1>0. status # "deleted" /\ echoed' = echoed
  BY DEF Update, Exists, AloneInv
<1>1. CASE u = Keep \/ (u = url /\ ~respelled)
  <2>1. StatusAfterUrl(u, respelled) = status /\ url' = url
    BY <1>1 DEF StatusAfterUrl, Update
  <2>2. CASE e = FALSE /\ status = "active"
    <3>1. States!Disable
      BY <1>0, <2>1, <2>2, Zenon DEF Update, States!Disable
    <3>. QED
      BY <3>1 DEF States!Next
  <2>3. CASE ~(e = FALSE /\ status = "active")
    <3>1. waiting' = waiting /\ (status' = status \/ (status = "disabled" /\ status' = "active"))
      BY <2>1, <2>3, Zenon DEF Update
    <3>. QED
      BY <1>0, <2>1, <3>1 DEF States!Next, States!Enable, States!vars
  <2>. QED
    BY <2>2, <2>3
<1>2. CASE ~(u = Keep \/ (u = url /\ ~respelled))
  <2>1. StatusAfterUrl(u, respelled) = "pending_verification" /\ url' = u /\ u \in Url
    BY <1>2 DEF StatusAfterUrl, Update
  <2>2. status' = "pending_verification" /\ waiting' = waiting
    <3>1. StatusAfterUrl(u, respelled) # "active" /\ StatusAfterUrl(u, respelled) # "disabled"
      BY <2>1
    <3>. QED
      BY <2>1, <3>1, Zenon DEF Update
  <2>3. States!ChangeUrl
    BY <1>0, <1>2, <2>1, <2>2 DEF States!ChangeUrl
  <2>. QED
    BY <2>3 DEF States!Next
<1>. QED
  BY <1>1, <1>2

LEMMA StepFollowsStates ==
    ASSUME EndpointInv, AloneInv, [Next]_vars, ~overlapped'
    PROVE  [States!Next]_States!vars
<1>0. TypeOK
  BY DEF EndpointInv
<1>1. CASE Delete
  <2>1. States!Delete
    BY <1>1 DEF Delete, Exists, AloneInv, States!Delete
  <2>. QED
    BY <2>1 DEF States!Next
<1>2. ASSUME NEW r \in Request, Verify(r)
      PROVE  [States!Next]_States!vars
  <2>1. CASE BeginVerify(r) \/ Refuse(r)
    BY <2>1 DEF BeginVerify, Refuse, row, States!vars
  <2>2. CASE Echo(r)
    <3>1. request[r].url = url /\ status # "deleted"
      BY <2>2 DEF Echo, AloneInv
    <3>2. States!Answer
      BY <2>2, <3>1 DEF Echo, row, States!Answer
    <3>. QED
      BY <3>2 DEF States!Next
  <2>3. CASE FinishVerify(r)
    <3>1. url \in echoed /\ request[r].status = status /\ status # "deleted"
      BY <2>3 DEF FinishVerify, EndpointInv, AnswersAreEchoes, AloneInv
    <3>2. status' = "active"
      BY <2>3, <3>1 DEF FinishVerify
    <3>3. States!Verify
      BY <2>3, <3>1, <3>2 DEF FinishVerify, States!Verify
    <3>. QED
      BY <3>3 DEF States!Next
  <2>. QED
    BY <1>2, <2>1, <2>2, <2>3 DEF Verify
<1>3. CASE Work
  <2>1. States!AddWork
    BY <1>3 DEF Work, Open, row, States!AddWork
  <2>. QED
    BY <2>1 DEF States!Next
<1>4. CASE Drain
  <2>1. States!Drain
    BY <1>4 DEF Drain, row, States!Drain
  <2>. QED
    BY <2>1 DEF States!Next
<1>5. CASE UNCHANGED vars
  BY <1>5 DEF vars, row, States!vars
<1>. QED
  BY <1>1, <1>2, <1>3, <1>4, <1>5, UpdateFollowsStates DEF Next, Change

(***************************************************************************)
(* Until something overlaps a challenge, an endpoint goes through the      *)
(* states that are promised: only an answer from its url makes it active,  *)
(* a new url takes that back, deletion is final, and deleting an endpoint  *)
(* or disabling an active one cancels what waits.                          *)
(***************************************************************************)
THEOREM EndpointFollowsStates == Spec => FollowsStatesUnlessOverlapped
<1>1. Init => States!Init
  BY DEF Init, States!Init
<1>2. EndpointInv /\ (overlapped \/ AloneInv) /\ [Next]_vars
      => [~overlapped' => [States!Next]_States!vars]_vars
  BY StepFollowsStates, OverlapIsRemembered
<1>. QED
  BY <1>1, <1>2, EndpointIsConsistent, AloneIsConsistent, PTL
     DEF Spec, FollowsStatesUnlessOverlapped

=============================================================================

-------------------------- MODULE EndpointLifecycle --------------------------
(***************************************************************************)
(* One webhook endpoint and the management requests that change it. All of *)
(* them run one transaction under the endpoint's row lock, except verify,  *)
(* which runs two with the challenge call in between and no lock meanwhile.*)
(*                                                                         *)
(* The second transaction of verify selects the row FOR UPDATE, but its    *)
(* session still holds the object of the first one (expire_on_commit is    *)
(* off, the select does not repopulate), so what it checks and compares    *)
(* are the values of the first transaction, and only attributes that       *)
(* differ from those are written.                                          *)
(***************************************************************************)
EXTENDS Naturals

CONSTANTS
    Url,          \* the destinations an operator may configure
    Request,      \* verify requests in progress at a time
    Keep,         \* a field an update does not mention
    MaxChallenges \* bound: challenges issued in a behaviour

ASSUME EndpointAssumption ==
    /\ Keep \notin Url \cup BOOLEAN
    /\ MaxChallenges \in Nat

VARIABLES
    url, status, enabled,  \* the columns of webhook_endpoints
    deleted,               \* deleted_at is not NULL
    challenge,             \* verification_hash: NoChallenge is NULL
    waiting,               \* has it deliveries in 'queued' or 'retry_scheduled'?
    request,               \* what each verify request holds in memory
    issued,                \* challenges generated so far
    echoed,                \* history: the urls whose receiver has answered a challenge
    overlapped             \* history: did something change the endpoint during a challenge?

row == <<url, status, enabled, deleted, challenge>>
vars == <<row, waiting, request, issued, echoed, overlapped>>

Status == {"pending_verification", "active", "disabled", "deleted"}
NoChallenge == 0

\* the attributes of the endpoint object a verify request keeps
NoRequest(u) == [pc |-> "none", url |-> u, status |-> "active", challenge |-> NoChallenge]

\* what claims and ingestion ask of an endpoint
Open == status = "active" /\ enabled

TypeOK ==
    /\ url \in Url /\ status \in Status
    /\ enabled \in BOOLEAN /\ deleted \in BOOLEAN /\ waiting \in BOOLEAN
    /\ challenge \in 0..MaxChallenges /\ issued \in 0..MaxChallenges
    /\ request \in [Request -> [pc : {"none", "challenging", "answered"}, url : Url,
                                status : Status, challenge : 0..MaxChallenges]]
    /\ echoed \subseteq Url /\ overlapped \in BOOLEAN

\* create: unverified, with an url that was resolved
Init ==
    /\ url \in Url
    /\ status = "pending_verification"
    /\ enabled = TRUE
    /\ deleted = FALSE
    /\ challenge = NoChallenge
    /\ waiting = FALSE
    /\ request = [r \in Request |-> NoRequest(url)]
    /\ issued = 0
    /\ echoed = {}
    /\ overlapped = FALSE

\* a change, remembered as an overlap if a challenge is under way
ChangeSeen == overlapped' = (overlapped \/ \E r \in Request : request[r].pc # "none")

-----------------------------------------------------------------------------
\* faulty variant of Exists: a soft-deleted row is taken for a live one
RowFound == TRUE

\* the row is found and not soft-deleted
Exists == ~deleted

\* faulty variant of StatusAfterUrl: a new url keeps the old verification
StatusUntouched(u, respelled) == status

(***************************************************************************)
(* A new url has to be verified again. What is stored is normalised and is *)
(* compared with what the request says: the same url in another spelling   *)
(* (capitals in the host, no path for "/") counts as a new one.            *)
(***************************************************************************)
StatusAfterUrl(u, respelled) ==
    IF u = Keep \/ (u = url /\ ~respelled) THEN status ELSE "pending_verification"

(***************************************************************************)
(* update: the url first, then enabled, which looks at the status the url  *)
(* change left. Only the branch active -> disabled cancels what is waiting.*)
(***************************************************************************)
Update(u, e, respelled) ==
    LET s == StatusAfterUrl(u, respelled) IN
    /\ Exists
    /\ ChangeSeen
    /\ url' = IF u = Keep THEN url ELSE u
    /\ enabled' = IF e = Keep THEN enabled ELSE e
    /\ \/ /\ e = FALSE /\ s = "active"
          /\ status' = "disabled"
          /\ waiting' = FALSE
       \/ /\ ~(e = FALSE /\ s = "active")
          /\ status' = IF e = TRUE /\ s = "disabled" THEN "active" ELSE s
          /\ UNCHANGED waiting
    /\ UNCHANGED <<deleted, challenge, request, issued, echoed>>

Delete ==
    /\ Exists
    /\ ChangeSeen
    /\ deleted' = TRUE
    /\ status' = "deleted"
    /\ enabled' = FALSE
    /\ waiting' = FALSE
    /\ UNCHANGED <<url, challenge, request, issued, echoed>>

-----------------------------------------------------------------------------
\* verify up to its first commit: a fresh challenge replaces the stored one
BeginVerify(r) ==
    /\ request[r].pc = "none"
    /\ Exists
    /\ ChangeSeen
    /\ issued < MaxChallenges
    /\ issued' = issued + 1
    /\ challenge' = issued + 1
    /\ request' = [request EXCEPT ![r] = [pc |-> "challenging", url |-> url,
                                          status |-> status, challenge |-> issued + 1]]
    /\ UNCHANGED <<url, status, enabled, deleted, waiting, echoed>>

\* the receiver at the url of the first transaction echoes the challenge
Echo(r) ==
    /\ request[r].pc = "challenging"
    /\ request' = [request EXCEPT ![r].pc = "answered"]
    /\ echoed' = echoed \cup {request[r].url}
    /\ UNCHANGED <<row, waiting, issued, overlapped>>

\* no connection, another status, another header: 422, the hash stays behind
Refuse(r) ==
    /\ request[r].pc = "challenging"
    /\ request' = [request EXCEPT ![r].pc = "none"]
    /\ UNCHANGED <<row, waiting, issued, echoed, overlapped>>

\* faulty variant of FinishVerify: verification also enables
FinishVerifyEnables(r) ==
    /\ request[r].pc = "answered"
    /\ challenge' = NoChallenge
    /\ status' = "active"
    /\ enabled' = TRUE
    /\ request' = [request EXCEPT ![r].pc = "none"]
    /\ UNCHANGED <<url, deleted, waiting, issued, echoed, overlapped>>

(***************************************************************************)
(* The second transaction of verify. The hash it compares with is the one  *)
(* it wrote itself, so the comparison always succeeds; the call is cut off *)
(* long before the ten minutes of the expiry are over. 'active' is written *)
(* only if the object did not say so already.                              *)
(***************************************************************************)
FinishVerify(r) ==
    /\ request[r].pc = "answered"
    /\ challenge' = NoChallenge
    /\ status' = IF request[r].status = "active" THEN status ELSE "active"
    /\ request' = [request EXCEPT ![r].pc = "none"]
    /\ UNCHANGED <<url, enabled, deleted, waiting, issued, echoed, overlapped>>

-----------------------------------------------------------------------------
\* ingestion or a replay adds work, a failed attempt goes back to waiting
Work ==
    /\ Open
    /\ waiting' = TRUE
    /\ UNCHANGED <<row, request, issued, echoed, overlapped>>

\* the worker claims, or cancels, the last waiting delivery
Drain ==
    /\ waiting
    /\ waiting' = FALSE
    /\ UNCHANGED <<row, request, issued, echoed, overlapped>>

Change ==
    \/ Delete
    \/ \E u \in Url \cup {Keep}, e \in BOOLEAN \cup {Keep}, respelled \in BOOLEAN :
          Update(u, e, respelled)
Verify(r) == BeginVerify(r) \/ Echo(r) \/ Refuse(r) \/ FinishVerify(r)

Next == Change \/ (\E r \in Request : Verify(r)) \/ Work \/ Drain

Spec == Init /\ [][Next]_vars

-----------------------------------------------------------------------------
(***************************************************************************)
(* A deleted endpoint is never called again, not even when a verify that   *)
(* was under way writes 'active' over 'deleted': enabled stays off.        *)
(***************************************************************************)
DeletedStaysClosed == deleted => ~enabled

(***************************************************************************)
(* PROJECT_SPECIFICATION.md:98 as far as the code keeps it under every     *)
(* interleaving: an endpoint opens only after some url configured for it   *)
(* has echoed a challenge.                                                 *)
(***************************************************************************)
OpenedByAnEcho == status \in {"active", "disabled"} => echoed # {}

(***************************************************************************)
(* PROJECT_SPECIFICATION.md:98, "Endpoint must pass one-time challenge     *)
(* before active delivery": the url deliveries go to has echoed one.       *)
(***************************************************************************)
OpenUrlEchoed == Open => url \in echoed

(***************************************************************************)
(* Both halves of the specification that an overlap breaks hold when       *)
(* nothing changes the endpoint while a challenge is under way: deliveries *)
(* go only to an url that has echoed, and "deleted" is "terminal"          *)
(* (PROJECT_SPECIFICATION.md:229).                                         *)
(***************************************************************************)
VerifiedUnlessOverlapped == ~overlapped => OpenUrlEchoed
DeletedUnlessOverlapped == ~overlapped /\ deleted => status = "deleted"

(***************************************************************************)
(* PROJECT_SPECIFICATION.md:229 as a whole: until something changes the    *)
(* endpoint while a challenge is under way it goes through the states that *)
(* are promised and no others, although a verify is two transactions.      *)
(***************************************************************************)
States == INSTANCE EndpointStates WITH answered <- echoed

FollowsStatesUnlessOverlapped ==
    States!Init /\ [][~overlapped' => [States!Next]_States!vars]_vars

(***************************************************************************)
(* The inductive invariant: a challenge is answered only by an echo, and   *)
(* an object that says 'active' or 'disabled' was read after one.          *)
(***************************************************************************)
AnswersAreEchoes ==
    \A r \in Request :
        /\ request[r].pc = "answered" => request[r].url \in echoed
        /\ request[r].pc # "none" => request[r].challenge \in 1..issued
EndpointInv == TypeOK /\ DeletedStaysClosed /\ OpenedByAnEcho /\ AnswersAreEchoes

=============================================================================

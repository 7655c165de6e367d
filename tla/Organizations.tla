----------------------------- MODULE Organizations -----------------------------
(***************************************************************************)
(* The members, the API keys and the endpoints of one organization.        *)
(* Whoever adds, changes or removes a member locks the organization's row  *)
(* first, then reads the actor's role, then checks the request and         *)
(* commits. A key is revoked and an endpoint deleted under the lock of its *)
(* own row, and both are created without any lock. A producer's key is     *)
(* checked in one transaction and its event stored in another. A request   *)
(* is one HTTP request, and every read and every commit of it is an action.*)
(***************************************************************************)
EXTENDS Naturals, FiniteSets

CONSTANTS
    User,       \* users who are or may become members
    Founder,    \* the user who registered the organization
    Key,        \* ids of API keys
    EndpointLimit, \* settings.endpoint_limit
    Request,    \* requests in progress at a time
    NoJob       \* what an idle request is about

ASSUME OrganizationAssumption ==
    /\ IsFiniteSet(User)
    /\ Founder \in User
    /\ EndpointLimit \in Nat \ {0}
    /\ IsFiniteSet(Request) /\ Request # {}

VARIABLES
    role,       \* memberships.role of every user; "none": there is no such row
    key,        \* api_keys rows: absent, live, or with a revoked_at
    audited,    \* audit_events rows that say api_key.revoked, by key
    endpoints,  \* how many endpoints are not deleted
    late,       \* history: how many events each key stored after its revocation
    pc,         \* how far each request is
    job         \* what each request is about

rows == <<role, key, audited, endpoints, late>>
vars == <<rows, pc, job>>

Role == {"owner", "admin", "member"}

\* target and role are what the request names; a removal's role means nothing
MemberJob == [kind : {"add", "change", "remove"}, actor : User, target : User, role : Role]
KeyJob == [kind : {"create_key", "revoke_key"}, actor : User, key : Key]
EndpointJob == [kind : {"create_endpoint", "delete_endpoint"}, actor : User]
ProducerJob == [kind : {"produce"}, key : Key]
IsMemberJob(j) == j.kind \in {"add", "change", "remove"}

TypeOK ==
    /\ role \in [User -> Role \cup {"none"}]
    /\ key \in [Key -> {"absent", "live", "revoked"}]
    /\ audited \in [Key -> Nat]
    /\ endpoints \in Nat
    /\ late \in [Key -> Nat]
    /\ pc \in [Request -> {"idle", "locked", "authorized", "checked", "allowed", "revoking",
                          "counted", "admitted"}]
    /\ job \in [Request -> MemberJob \cup KeyJob \cup EndpointJob \cup ProducerJob \cup {NoJob}]
    /\ \A r \in Request : pc[r] = "idle" => job[r] = NoJob

\* register: an organization with its founder as the owner
Init ==
    /\ role = [u \in User |-> IF u = Founder THEN "owner" ELSE "none"]
    /\ key = [k \in Key |-> "absent"]
    /\ audited = [k \in Key |-> 0]
    /\ endpoints = 0
    /\ late = [k \in Key |-> 0]
    /\ pc = [r \in Request |-> "idle"]
    /\ job = [r \in Request |-> NoJob]

Owners == {u \in User : role[u] = "owner"}
Member(u) == role[u] # "none"
Staff(u) == role[u] \in {"owner", "admin"}

\* the request goes on, or it ends: answered, refused or rolled back
Goes(r, to) == pc' = [pc EXCEPT ![r] = to] /\ UNCHANGED job
Ends(r) == pc' = [pc EXCEPT ![r] = "idle"] /\ job' = [job EXCEPT ![r] = NoJob]

-----------------------------------------------------------------------------
\* faulty variant of OrganizationLocked: the row is read without FOR UPDATE
NeverLocked == FALSE

\* lock_organization: another membership request has the row
OrganizationLocked == \E r \in Request : pc[r] # "idle" /\ IsMemberJob(job[r])

Lock(r, j) ==
    /\ pc[r] = "idle"
    /\ ~OrganizationLocked
    /\ pc' = [pc EXCEPT ![r] = "locked"]
    /\ job' = [job EXCEPT ![r] = j]
    /\ UNCHANGED rows

\* require_role: only owners manage members
Authorize(r) ==
    /\ pc[r] = "locked"
    /\ \/ job[r].actor \in Owners /\ Goes(r, "authorized")
       \/ job[r].actor \notin Owners /\ Ends(r)
    /\ UNCHANGED rows

\* faulty variant of LastOwner: the count is compared with zero
NoOwnerLeft(u) == role[u] = "owner" /\ Cardinality(Owners) < 1

\* the membership is the only owner's
LastOwner(u) == role[u] = "owner" /\ Cardinality(Owners) <= 1

(***************************************************************************)
(* add_membership meets the unique constraint, change_member and           *)
(* remove_member the membership and the rule about the last owner.         *)
(***************************************************************************)
Acceptable(j) ==
    \/ j.kind = "add" /\ ~Member(j.target)
    \/ j.kind = "change" /\ Member(j.target) /\ ~(j.role # "owner" /\ LastOwner(j.target))
    \/ j.kind = "remove" /\ Member(j.target) /\ ~LastOwner(j.target)

Check(r) ==
    /\ pc[r] = "authorized"
    /\ \/ Acceptable(job[r]) /\ Goes(r, "checked")
       \/ ~Acceptable(job[r]) /\ Ends(r)
    /\ UNCHANGED rows

Commit(r) ==
    /\ pc[r] = "checked"
    /\ role' = [role EXCEPT ![job[r].target] =
                   IF job[r].kind = "remove" THEN "none" ELSE job[r].role]
    /\ Ends(r)
    /\ UNCHANGED <<key, audited, endpoints, late>>

-----------------------------------------------------------------------------
\* require_role of the other operations: owners and admins, without any lock
Begin(r, j) ==
    /\ pc[r] = "idle"
    /\ Staff(j.actor)
    /\ pc' = [pc EXCEPT ![r] = "allowed"]
    /\ job' = [job EXCEPT ![r] = j]
    /\ UNCHANGED rows

CreateKey(r) ==
    /\ pc[r] = "allowed" /\ job[r].kind = "create_key"
    /\ key[job[r].key] = "absent"
    /\ key' = [key EXCEPT ![job[r].key] = "live"]
    /\ Ends(r)
    /\ UNCHANGED <<role, audited, endpoints, late>>

\* faulty variant of KeyLocked: the key is read without FOR UPDATE
KeyNeverLocked(k) == FALSE

\* another revocation has the row of the key
KeyLocked(k) == \E r \in Request : pc[r] = "revoking" /\ job[r].key = k

\* the key under its lock; one that is missing or revoked is left alone
ReadKey(r) ==
    /\ pc[r] = "allowed" /\ job[r].kind = "revoke_key"
    /\ ~KeyLocked(job[r].key)
    /\ \/ key[job[r].key] = "live" /\ Goes(r, "revoking")
       \/ key[job[r].key] # "live" /\ Ends(r)
    /\ UNCHANGED rows

RevokeKey(r) ==
    /\ pc[r] = "revoking"
    /\ key' = [key EXCEPT ![job[r].key] = "revoked"]
    /\ audited' = [audited EXCEPT ![job[r].key] = @ + 1]
    /\ Ends(r)
    /\ UNCHANGED <<role, endpoints, late>>

-----------------------------------------------------------------------------
\* faulty variant of HasRoom: one endpoint too many
HasRoomOffByOne == endpoints <= EndpointLimit

HasRoom == endpoints < EndpointLimit

\* create counts without a lock, and then resolves the destination
CountEndpoints(r) ==
    /\ pc[r] = "allowed" /\ job[r].kind = "create_endpoint"
    /\ \/ HasRoom /\ Goes(r, "counted")
       \/ ~HasRoom /\ Ends(r)
    /\ UNCHANGED rows

\* the endpoint with its secret and its subscriptions is one commit
CreateEndpoint(r) ==
    /\ pc[r] = "counted"
    /\ endpoints' = endpoints + 1
    /\ Ends(r)
    /\ UNCHANGED <<role, key, audited, late>>

\* an endpoint under its lock; one that is missing or deleted is left alone
DeleteEndpoint(r) ==
    /\ pc[r] = "allowed" /\ job[r].kind = "delete_endpoint"
    /\ \/ endpoints > 0 /\ endpoints' = endpoints - 1
       \/ UNCHANGED endpoints
    /\ Ends(r)
    /\ UNCHANGED <<role, key, audited, late>>

-----------------------------------------------------------------------------
\* faulty variant of KeyAccepted: a key is taken whether or not it is revoked
KeyKnown(k) == key[k] # "absent"

\* the secret matches, and there is no revoked_at
KeyAccepted(k) == key[k] = "live"

(***************************************************************************)
(* producer_principal: the key is read without a lock, and the commit of   *)
(* last_used_at ends that transaction: nothing keeps the key as it was.    *)
(***************************************************************************)
AdmitProducer(r, j) ==
    /\ pc[r] = "idle"
    /\ KeyAccepted(j.key)
    /\ pc' = [pc EXCEPT ![r] = "admitted"]
    /\ job' = [job EXCEPT ![r] = j]
    /\ UNCHANGED rows

\* ingest commits the event, and looks at the key no more
StoreEvent(r) ==
    /\ pc[r] = "admitted"
    /\ late' = [late EXCEPT ![job[r].key] = IF key[job[r].key] = "revoked" THEN @ + 1 ELSE @]
    /\ Ends(r)
    /\ UNCHANGED <<role, key, audited, endpoints>>

\* the process or its connection is lost and the transaction rolled back
Stop(r) ==
    /\ pc[r] # "idle"
    /\ Ends(r)
    /\ UNCHANGED rows

-----------------------------------------------------------------------------
Serve(r) ==
    \/ \E j \in MemberJob : Lock(r, j)
    \/ Authorize(r) \/ Check(r) \/ Commit(r)
    \/ \E j \in KeyJob \cup EndpointJob : Begin(r, j)
    \/ CreateKey(r) \/ ReadKey(r) \/ RevokeKey(r)
    \/ CountEndpoints(r) \/ CreateEndpoint(r) \/ DeleteEndpoint(r)
    \/ \E j \in ProducerJob : AdmitProducer(r, j)
    \/ StoreEvent(r)
    \/ Stop(r)

Next == \E r \in Request : Serve(r)

Spec == Init /\ [][Next]_vars

-----------------------------------------------------------------------------
(***************************************************************************)
(* "Organization must retain an owner" (use_cases.py:148): owners who      *)
(* demote and remove each other, or themselves, at the same time never     *)
(* leave the organization without one.                                     *)
(***************************************************************************)
AlwaysAnOwner == Owners # {}

(***************************************************************************)
(* Nobody changes the members who is not an owner at the moment the change *)
(* takes effect, not only when the request was let in.                     *)
(***************************************************************************)
OwnersDecide ==
    [][role' # role => \E r \in Request : pc[r] = "checked" /\ pc'[r] = "idle"
                                            /\ job[r].actor \in Owners]_vars

(***************************************************************************)
(* Revoking a key is idempotent: however many do it at once, the key is    *)
(* revoked, and the audit trail says so, at most once.                     *)
(***************************************************************************)
RevokedOnce == \A k \in Key : audited[k] = IF key[k] = "revoked" THEN 1 ELSE 0

(***************************************************************************)
(* README.md:177, "An organization may have 100 endpoints", as far as a    *)
(* count without a lock keeps it: requests that counted at the same time   *)
(* may all create one, so the limit is exact only for one at a time.       *)
(***************************************************************************)
EndpointsNearLimit == endpoints <= EndpointLimit + Cardinality(Request) - 1

(***************************************************************************)
(* What is left of "revocation works" (AC-002, PROJECT_SPECIFICATION.md:   *)
(* 336) when a key is checked in a transaction of its own: the events      *)
(* stored with a revoked key are those of requests let in before, fewer    *)
(* than there are requests at a time, since the revocation is one of them. *)
(***************************************************************************)
RevokedKeyEnds == \A k \in Key : late[k] <= Cardinality(Request) - 1

(***************************************************************************)
(* The inductive invariant. The organization's lock lets one request at a  *)
(* time past the checks, so what it has checked is still so when it        *)
(* commits; the key's lock does the same for a revocation. Nothing does it *)
(* for the count of the endpoints, or for the key of a producer.           *)
(***************************************************************************)
OneMemberRequest ==
    \A q, r \in Request :
        pc[q] # "idle" /\ IsMemberJob(job[q]) /\ pc[r] # "idle" /\ IsMemberJob(job[r]) => q = r

CheckedStillHolds ==
    \A r \in Request :
        /\ pc[r] \in {"locked", "authorized", "checked"} => job[r] \in MemberJob
        /\ pc[r] \in {"allowed", "revoking"} => job[r] \in KeyJob \cup EndpointJob
        /\ pc[r] = "revoking" => job[r] \in KeyJob
        /\ pc[r] = "admitted" => job[r] \in ProducerJob
        /\ pc[r] \in {"authorized", "checked"} => job[r].actor \in Owners
        /\ pc[r] = "checked" => Acceptable(job[r])

RevokerHasKey ==
    \A r \in Request :
        pc[r] = "revoking" =>
            /\ key[job[r].key] = "live"
            /\ \A q \in Request : pc[q] = "revoking" /\ job[q].key = job[r].key => q = r

Counted == {r \in Request : pc[r] = "counted"}
CountedFit == endpoints + Cardinality(Counted) <= EndpointLimit + Cardinality(Request) - 1

\* the requests that were let in with a key
Admitted(k) == {r \in Request : pc[r] = "admitted" /\ job[r].key = k}
LateOnesFit ==
    \A k \in Key :
        IF key[k] = "revoked" THEN late[k] + Cardinality(Admitted(k)) <= Cardinality(Request) - 1
                             ELSE late[k] = 0

OrganizationInv ==
    /\ TypeOK /\ OneMemberRequest /\ CheckedStillHolds /\ RevokerHasKey
    /\ AlwaysAnOwner /\ RevokedOnce /\ CountedFit /\ LateOnesFit

=============================================================================

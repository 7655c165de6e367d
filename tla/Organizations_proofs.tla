------------------------ MODULE Organizations_proofs ------------------------
(***************************************************************************)
(* Proofs about Organizations for any number of users, keys, endpoints and *)
(* concurrent requests.                                                    *)
(***************************************************************************)
EXTENDS Organizations, FiniteSetTheorems, TLAPS

LEMMA InitHasOrganizationInv == Init => OrganizationInv
<1>. SUFFICES ASSUME Init PROVE OrganizationInv
  OBVIOUS
<1>1. TypeOK
  BY OrganizationAssumption DEF OrganizationAssumption, Init, TypeOK, Role
<1>2. AlwaysAnOwner
  BY OrganizationAssumption DEF OrganizationAssumption, Init, AlwaysAnOwner, Owners
<1>3. CountedFit
  <2>1. Counted = {} /\ Cardinality(Counted) = 0
    BY FS_EmptySet DEF Init, Counted
  <2>2. Cardinality(Request) \in Nat \ {0}
    BY FS_CardinalityType, FS_EmptySet, OrganizationAssumption DEF OrganizationAssumption
  <2>. QED
    BY <2>1, <2>2, OrganizationAssumption DEF OrganizationAssumption, Init, CountedFit
<1>. QED
  BY <1>1, <1>2, <1>3
     DEF Init, OrganizationInv, OneMemberRequest, CheckedStillHolds, RevokerHasKey, RevokedOnce,
         LateOnesFit

-----------------------------------------------------------------------------
\* The set of requests that have counted is finite, like every part of it.
LEMMA CountedIsFinite ==
    /\ IsFiniteSet(Counted) /\ Cardinality(Counted) \in Nat
    /\ Cardinality(Counted) <= Cardinality(Request)
    /\ Cardinality(Request) \in Nat
<1>1. Counted \in SUBSET Request
  BY DEF Counted
<1>. QED
  BY <1>1, FS_Subset, FS_CardinalityType, OrganizationAssumption DEF OrganizationAssumption

\* Nobody counts and no endpoint is added.
LEMMA CountedFitKept ==
    ASSUME OrganizationInv, Counted' \subseteq Counted, endpoints' \in Nat, endpoints' <= endpoints
    PROVE  CountedFit'
<1>1. Cardinality(Counted') \in Nat /\ Cardinality(Counted') <= Cardinality(Counted)
  BY CountedIsFinite, FS_Subset, FS_CardinalityType
<1>. QED
  BY <1>1, CountedIsFinite, OrganizationAssumption
     DEF OrganizationAssumption, OrganizationInv, TypeOK, CountedFit

\* So is the set of requests that were let in with a key.
LEMMA AdmittedIsFinite ==
    ASSUME NEW k
    PROVE  /\ IsFiniteSet(Admitted(k)) /\ Cardinality(Admitted(k)) \in Nat
           /\ Cardinality(Request) \in Nat
<1>1. Admitted(k) \in SUBSET Request
  BY DEF Admitted
<1>. QED
  BY <1>1, FS_Subset, FS_CardinalityType, OrganizationAssumption DEF OrganizationAssumption

\* No event is stored, no key revoked, and nobody is let in with a revoked one.
LEMMA LateOnesFitKept ==
    ASSUME LateOnesFit, TypeOK, UNCHANGED late,
           \A k \in Key : key'[k] = "revoked" <=> key[k] = "revoked",
           \A k \in Key : key[k] = "revoked" => Admitted(k)' \subseteq Admitted(k)
    PROVE  LateOnesFit'
<1>. SUFFICES ASSUME NEW k \in Key
              PROVE  IF key'[k] = "revoked"
                     THEN late[k] + Cardinality(Admitted(k)') <= Cardinality(Request) - 1
                     ELSE late[k] = 0
  BY DEF LateOnesFit
<1>1. CASE key[k] = "revoked"
  <2>1. Cardinality(Admitted(k)') \in Nat /\ Cardinality(Admitted(k)') <= Cardinality(Admitted(k))
    BY <1>1, AdmittedIsFinite, FS_Subset, FS_CardinalityType
  <2>2. late[k] \in Nat
    BY DEF TypeOK
  <2>. QED
    BY <1>1, <2>1, <2>2, AdmittedIsFinite DEF LateOnesFit
<1>. QED
  BY <1>1 DEF LateOnesFit

\* What an end of a request leaves of the checks of the others.
LEMMA EndKeepsRequests ==
    ASSUME OrganizationInv, NEW r \in Request, Ends(r), UNCHANGED role
    PROVE  /\ OneMemberRequest' /\ CheckedStillHolds' /\ AlwaysAnOwner'
           /\ Counted' \subseteq Counted
           /\ pc' \in [Request -> {"idle", "locked", "authorized", "checked", "allowed", "revoking",
                                   "counted", "admitted"}]
           /\ job' \in [Request -> MemberJob \cup KeyJob \cup EndpointJob \cup ProducerJob
                                            \cup {NoJob}]
           /\ \A q \in Request : pc'[q] = "idle" => job'[q] = NoJob
           /\ \A k : Admitted(k)' = Admitted(k) \ {r}
<1>. /\ TypeOK /\ OneMemberRequest /\ CheckedStillHolds /\ AlwaysAnOwner
     /\ pc' = [pc EXCEPT ![r] = "idle"] /\ job' = [job EXCEPT ![r] = NoJob]
  BY DEF OrganizationInv, Ends
<1>1. /\ pc'[r] = "idle" /\ job'[r] = NoJob
      /\ \A q \in Request \ {r} : pc'[q] = pc[q] /\ job'[q] = job[q]
  BY DEF TypeOK
<1>2. OneMemberRequest'
  BY <1>1 DEF OneMemberRequest
<1>3. Owners' = Owners /\ \A u : LastOwner(u)' = LastOwner(u)
  BY DEF Owners, LastOwner
<1>4. \A j : Acceptable(j)' = Acceptable(j)
  BY <1>3 DEF Acceptable, Member
<1>5. CheckedStillHolds'
  BY <1>1, <1>3, <1>4 DEF CheckedStillHolds
<1>6. \A k : Admitted(k)' = Admitted(k) \ {r}
  BY <1>1 DEF Admitted
<1>. QED
  BY <1>1, <1>2, <1>3, <1>5, <1>6 DEF TypeOK, AlwaysAnOwner, Counted

\* A request that is refused, lost, or finds nothing to do.
LEMMA EndKeepsInv ==
    ASSUME OrganizationInv, NEW r \in Request, Ends(r), UNCHANGED rows
    PROVE  OrganizationInv'
<1>1. TypeOK'
  BY EndKeepsRequests DEF OrganizationInv, TypeOK, rows
<1>2. RevokerHasKey'
  BY DEF OrganizationInv, TypeOK, RevokerHasKey, Ends, rows
<1>3. CountedFit'
  BY EndKeepsRequests, CountedFitKept DEF OrganizationInv, TypeOK, rows
<1>4. LateOnesFit'
  BY EndKeepsRequests, LateOnesFitKept DEF OrganizationInv, rows
<1>. QED
  BY <1>1, <1>2, <1>3, <1>4, EndKeepsRequests DEF OrganizationInv, RevokedOnce, rows

\* A request that goes on, with all rows as they are: what it now claims has
\* to be shown by the step.
LEMMA GoKeepsInv ==
    ASSUME OrganizationInv, NEW r \in Request, NEW to, Goes(r, to), UNCHANGED rows,
           to \in {"authorized", "checked", "revoking"}, pc[r] # "idle",
           to \in {"authorized", "checked"} =>
               job[r] \in MemberJob /\ job[r].actor \in Owners,
           to = "checked" => Acceptable(job[r]),
           to = "revoking" => /\ job[r] \in KeyJob /\ key[job[r].key] = "live"
                              /\ ~KeyLocked(job[r].key)
    PROVE  OrganizationInv'
<1>. /\ TypeOK /\ OneMemberRequest /\ CheckedStillHolds /\ RevokerHasKey
     /\ pc' = [pc EXCEPT ![r] = to] /\ job' = job
     /\ role' = role /\ key' = key /\ audited' = audited /\ endpoints' = endpoints
     /\ late' = late
  BY DEF OrganizationInv, Goes, rows
<1>1. pc'[r] = to /\ \A q \in Request \ {r} : pc'[q] = pc[q]
  BY DEF TypeOK
<1>2. TypeOK'
  BY <1>1 DEF TypeOK
<1>3. OneMemberRequest'
  BY <1>1 DEF OneMemberRequest
<1>4. Owners' = Owners /\ \A u : LastOwner(u)' = LastOwner(u)
  BY DEF Owners, LastOwner
<1>5. \A j : Acceptable(j)' = Acceptable(j)
  BY <1>4 DEF Acceptable, Member
<1>6. CheckedStillHolds'
  BY <1>1, <1>4, <1>5 DEF CheckedStillHolds
<1>7. RevokerHasKey'
  BY <1>1 DEF RevokerHasKey, KeyLocked
<1>8. CountedFit'
  <2>1. Counted' \subseteq Counted
    BY <1>1 DEF Counted
  <2>. QED
    BY <2>1, CountedFitKept DEF TypeOK
<1>9. LateOnesFit'
  <2>1. \A k \in Key : Admitted(k)' \subseteq Admitted(k)
    BY <1>1 DEF Admitted
  <2>. QED
    BY <2>1, LateOnesFitKept DEF OrganizationInv
<1>. QED
  BY <1>2, <1>3, <1>4, <1>6, <1>7, <1>8, <1>9 DEF OrganizationInv, AlwaysAnOwner, RevokedOnce

-----------------------------------------------------------------------------
LEMMA LockKeepsInv ==
    ASSUME OrganizationInv, NEW r \in Request, NEW j \in MemberJob, Lock(r, j)
    PROVE  OrganizationInv'
<1>. /\ TypeOK /\ CheckedStillHolds /\ RevokerHasKey
     /\ pc[r] = "idle" /\ ~OrganizationLocked
     /\ pc' = [pc EXCEPT ![r] = "locked"] /\ job' = [job EXCEPT ![r] = j]
     /\ role' = role /\ key' = key /\ audited' = audited /\ endpoints' = endpoints
     /\ late' = late
  BY DEF OrganizationInv, Lock, rows
<1>1. /\ pc'[r] = "locked" /\ job'[r] = j
      /\ \A q \in Request \ {r} : pc'[q] = pc[q] /\ job'[q] = job[q]
  BY DEF TypeOK
<1>2. TypeOK'
  BY <1>1 DEF TypeOK
<1>3. OneMemberRequest'
  BY <1>1 DEF OneMemberRequest, OrganizationLocked
<1>4. Owners' = Owners /\ \A u : LastOwner(u)' = LastOwner(u)
  BY DEF Owners, LastOwner
<1>5. \A i : Acceptable(i)' = Acceptable(i)
  BY <1>4 DEF Acceptable, Member
<1>6. CheckedStillHolds'
  BY <1>1, <1>4, <1>5 DEF CheckedStillHolds
<1>7. RevokerHasKey'
  BY <1>1 DEF RevokerHasKey
<1>8. Counted' \subseteq Counted
  BY <1>1 DEF Counted
<1>9. CountedFit'
  BY <1>8, CountedFitKept DEF TypeOK
<1>10. LateOnesFit'
  <2>1. \A k \in Key : Admitted(k)' \subseteq Admitted(k)
    BY <1>1 DEF Admitted
  <2>. QED
    BY <2>1, LateOnesFitKept DEF OrganizationInv
<1>. QED
  BY <1>2, <1>3, <1>4, <1>6, <1>7, <1>9, <1>10 DEF OrganizationInv, AlwaysAnOwner, RevokedOnce

LEMMA BeginKeepsInv ==
    ASSUME OrganizationInv, NEW r \in Request, NEW j \in KeyJob \cup EndpointJob, Begin(r, j)
    PROVE  OrganizationInv'
<1>. /\ TypeOK /\ OneMemberRequest /\ CheckedStillHolds /\ RevokerHasKey
     /\ pc[r] = "idle"
     /\ pc' = [pc EXCEPT ![r] = "allowed"] /\ job' = [job EXCEPT ![r] = j]
     /\ role' = role /\ key' = key /\ audited' = audited /\ endpoints' = endpoints
     /\ late' = late
  BY DEF OrganizationInv, Begin, rows
<1>1. /\ pc'[r] = "allowed" /\ job'[r] = j
      /\ \A q \in Request \ {r} : pc'[q] = pc[q] /\ job'[q] = job[q]
  BY DEF TypeOK
<1>2. TypeOK'
  BY <1>1 DEF TypeOK
<1>3. ~IsMemberJob(j)
  BY DEF KeyJob, EndpointJob, IsMemberJob
<1>4. OneMemberRequest'
  BY <1>1, <1>3 DEF OneMemberRequest
<1>5. Owners' = Owners /\ \A u : LastOwner(u)' = LastOwner(u)
  BY DEF Owners, LastOwner
<1>6. \A i : Acceptable(i)' = Acceptable(i)
  BY <1>5 DEF Acceptable, Member
<1>7. CheckedStillHolds'
  BY <1>1, <1>5, <1>6 DEF CheckedStillHolds
<1>8. RevokerHasKey'
  BY <1>1 DEF RevokerHasKey
<1>9. Counted' \subseteq Counted
  BY <1>1 DEF Counted
<1>10. CountedFit'
  BY <1>9, CountedFitKept DEF TypeOK
<1>11. LateOnesFit'
  <2>1. \A k \in Key : Admitted(k)' \subseteq Admitted(k)
    BY <1>1 DEF Admitted
  <2>. QED
    BY <2>1, LateOnesFitKept DEF OrganizationInv
<1>. QED
  BY <1>2, <1>4, <1>5, <1>7, <1>8, <1>10, <1>11 DEF OrganizationInv, AlwaysAnOwner, RevokedOnce

(***************************************************************************)
(* The one step that matters for the members. The committing request is    *)
(* the only one past the lock, so nobody else relies on what it changes;   *)
(* and an owner is left: the actor, unless the target is the actor, and    *)
(* then either the target stays an owner or it was not the only one.       *)
(***************************************************************************)
LEMMA CommitLeavesAnOwner ==
    ASSUME OrganizationInv, NEW r \in Request, Commit(r)
    PROVE  Owners' # {}
<1>. DEFINE j == job[r]
<1>. /\ TypeOK
     /\ j \in MemberJob /\ j.actor \in Owners /\ Acceptable(j)
     /\ role' = [role EXCEPT ![j.target] = IF j.kind = "remove" THEN "none" ELSE j.role]
  BY DEF OrganizationInv, CheckedStillHolds, Commit
<1>0. j.target \in User /\ \A u \in User \ {j.target} : role'[u] = role[u]
  BY DEF TypeOK, MemberJob
<1>1. CASE j.actor # j.target
  BY <1>0, <1>1 DEF Owners
<1>2. CASE j.kind # "remove" /\ j.role = "owner"
  BY <1>0, <1>2 DEF Owners, TypeOK
<1>3. CASE j.actor = j.target /\ (j.kind = "remove" \/ j.role # "owner")
  <2>1. role[j.target] = "owner" /\ ~LastOwner(j.target)
    BY <1>3 DEF Acceptable, Member, MemberJob, Owners
  <2>2. IsFiniteSet(Owners)
    BY FS_Subset, OrganizationAssumption DEF OrganizationAssumption, Owners
  <2>3. ~(Cardinality(Owners) <= 1) /\ Cardinality({j.target}) = 1
    BY <2>1, FS_Singleton DEF LastOwner
  <2>4. Owners # {j.target}
    BY <2>3
  <2>5. PICK u \in Owners : u # j.target
    BY <2>1, <2>4, <1>0 DEF Owners
  <2>. QED
    BY <1>0, <2>5 DEF Owners
<1>. QED
  BY <1>1, <1>2, <1>3

LEMMA CommitKeepsInv ==
    ASSUME OrganizationInv, NEW r \in Request, Commit(r)
    PROVE  OrganizationInv'
<1>. /\ TypeOK /\ OneMemberRequest /\ CheckedStillHolds /\ RevokerHasKey
     /\ pc[r] = "checked" /\ job[r] \in MemberJob
     /\ pc' = [pc EXCEPT ![r] = "idle"] /\ job' = [job EXCEPT ![r] = NoJob]
     /\ key' = key /\ audited' = audited /\ endpoints' = endpoints
     /\ late' = late
  BY DEF OrganizationInv, CheckedStillHolds, Commit, Ends
<1>1. /\ pc'[r] = "idle" /\ job'[r] = NoJob
      /\ \A q \in Request \ {r} : pc'[q] = pc[q] /\ job'[q] = job[q]
  BY DEF TypeOK
<1>2. role' \in [User -> Role \cup {"none"}]
  BY DEF Commit, TypeOK, MemberJob
<1>3. TypeOK'
  BY <1>1, <1>2 DEF TypeOK
<1>4. OneMemberRequest'
  BY <1>1 DEF OneMemberRequest
<1>5. \A q \in Request \ {r} : pc[q] \notin {"locked", "authorized", "checked"}
  BY DEF OneMemberRequest, CheckedStillHolds, MemberJob, IsMemberJob
<1>6. CheckedStillHolds'
  BY <1>1, <1>5 DEF CheckedStillHolds
<1>7. RevokerHasKey'
  BY <1>1 DEF RevokerHasKey
<1>8. Counted' \subseteq Counted
  BY <1>1 DEF Counted
<1>9. CountedFit'
  BY <1>8, CountedFitKept DEF TypeOK
<1>10. LateOnesFit'
  <2>1. \A k \in Key : Admitted(k)' \subseteq Admitted(k)
    BY <1>1 DEF Admitted
  <2>. QED
    BY <2>1, LateOnesFitKept DEF OrganizationInv
<1>. QED
  BY <1>3, <1>4, <1>6, <1>7, <1>9, <1>10, CommitLeavesAnOwner
     DEF OrganizationInv, AlwaysAnOwner, RevokedOnce

-----------------------------------------------------------------------------
LEMMA CreateKeyKeepsInv ==
    ASSUME OrganizationInv, NEW r \in Request, CreateKey(r)
    PROVE  OrganizationInv'
<1>. /\ Ends(r) /\ role' = role /\ audited' = audited /\ endpoints' = endpoints
     /\ late' = late
     /\ key[job[r].key] = "absent" /\ key' = [key EXCEPT ![job[r].key] = "live"]
  BY DEF CreateKey
<1>. TypeOK /\ RevokerHasKey /\ RevokedOnce
  BY DEF OrganizationInv
<1>1. job[r].key \in Key
  BY DEF OrganizationInv, CheckedStillHolds, CreateKey, KeyJob, EndpointJob
<1>2. TypeOK'
  BY <1>1, EndKeepsRequests DEF TypeOK
<1>3. RevokerHasKey'
  BY DEF RevokerHasKey, Ends, TypeOK
<1>4. RevokedOnce'
  BY <1>1 DEF RevokedOnce, TypeOK
<1>5. CountedFit'
  BY EndKeepsRequests, CountedFitKept DEF TypeOK
<1>6. LateOnesFit'
  BY <1>1, EndKeepsRequests, LateOnesFitKept DEF OrganizationInv, TypeOK
<1>. QED
  BY <1>2, <1>3, <1>4, <1>5, <1>6, EndKeepsRequests DEF OrganizationInv

\* The key a request revokes is live and is nobody else's to revoke.
LEMMA RevokeKeyKeepsInv ==
    ASSUME OrganizationInv, NEW r \in Request, RevokeKey(r)
    PROVE  OrganizationInv'
<1>0. PICK k : k = job[r].key
  OBVIOUS
<1>. USE <1>0
<1>. /\ Ends(r) /\ role' = role /\ endpoints' = endpoints /\ pc[r] = "revoking" /\ late' = late
     /\ key' = [key EXCEPT ![k] = "revoked"]
     /\ audited' = [audited EXCEPT ![k] = @ + 1]
  BY DEF RevokeKey
<1>. TypeOK /\ RevokerHasKey /\ RevokedOnce
  BY DEF OrganizationInv
<1>1. k \in Key /\ key[k] = "live"
  BY DEF OrganizationInv, CheckedStillHolds, RevokerHasKey, KeyJob
<1>2. TypeOK'
  BY <1>1, EndKeepsRequests DEF TypeOK
<1>3. \A q \in Request \ {r} : pc[q] = "revoking" => job[q].key # k
  BY DEF RevokerHasKey
<1>4. RevokerHasKey'
  BY <1>3 DEF RevokerHasKey, Ends, TypeOK, OrganizationInv, CheckedStillHolds, KeyJob
<1>5. audited[k] = 0
  BY <1>1 DEF RevokedOnce
<1>6. RevokedOnce'
  BY <1>1, <1>5 DEF RevokedOnce, TypeOK
<1>7. CountedFit'
  BY EndKeepsRequests, CountedFitKept DEF TypeOK
<1>8. LateOnesFit'
  <2>1. pc'[r] = "idle" /\ k \in Key
    BY <1>1 DEF Ends, TypeOK
  <2>2. late[k] = 0
    BY <1>1 DEF OrganizationInv, LateOnesFit
  <2>3. Cardinality(Admitted(k)') <= Cardinality(Request) - 1 /\ Cardinality(Admitted(k)') \in Nat
    <3>1. Admitted(k)' \in SUBSET (Request \ {r})
      BY <2>1 DEF Admitted
    <3>2. /\ IsFiniteSet(Request \ {r})
          /\ Cardinality(Request \ {r}) = Cardinality(Request) - 1
      BY FS_RemoveElement, OrganizationAssumption DEF OrganizationAssumption
    <3>. QED
      BY <3>1, <3>2, FS_Subset, FS_CardinalityType
  <2>4. ASSUME NEW l \in Key, l # k
        PROVE  /\ key'[l] = key[l] /\ Admitted(l)' \subseteq Admitted(l)
               /\ Cardinality(Admitted(l)') \in Nat
               /\ Cardinality(Admitted(l)') <= Cardinality(Admitted(l))
    <3>1. Admitted(l)' \subseteq Admitted(l)
      BY EndKeepsRequests
    <3>. QED
      BY <2>4, <3>1, AdmittedIsFinite, FS_Subset, FS_CardinalityType DEF TypeOK
  <2>5. ASSUME NEW l \in Key, l # k
        PROVE  IF key'[l] = "revoked"
               THEN late[l] + Cardinality(Admitted(l)') <= Cardinality(Request) - 1
               ELSE late[l] = 0
    BY <2>4, <2>5, AdmittedIsFinite DEF OrganizationInv, LateOnesFit, TypeOK
  <2>6. key'[k] = "revoked"
    BY <2>1 DEF TypeOK
  <2>7. late[k] + Cardinality(Admitted(k)') <= Cardinality(Request) - 1
    BY <2>2, <2>3, AdmittedIsFinite
  <2>. QED
    BY <2>5, <2>6, <2>7 DEF LateOnesFit
<1>. QED
  BY <1>2, <1>4, <1>6, <1>7, <1>8, EndKeepsRequests DEF OrganizationInv

-----------------------------------------------------------------------------
\* Whoever counts finds room for itself and, at worst, everybody is in line.
LEMMA CountKeepsInv ==
    ASSUME OrganizationInv, NEW r \in Request, CountEndpoints(r), Goes(r, "counted"), HasRoom
    PROVE  OrganizationInv'
<1>. /\ TypeOK /\ OneMemberRequest /\ CheckedStillHolds /\ RevokerHasKey
     /\ pc[r] = "allowed" /\ job[r].kind = "create_endpoint"
     /\ pc' = [pc EXCEPT ![r] = "counted"] /\ job' = job
     /\ role' = role /\ key' = key /\ audited' = audited /\ endpoints' = endpoints
     /\ late' = late
  BY DEF OrganizationInv, CountEndpoints, Goes, rows
<1>1. pc'[r] = "counted" /\ \A q \in Request \ {r} : pc'[q] = pc[q]
  BY DEF TypeOK
<1>2. TypeOK'
  BY <1>1 DEF TypeOK
<1>3. OneMemberRequest'
  BY <1>1 DEF OneMemberRequest
<1>4. Owners' = Owners /\ \A u : LastOwner(u)' = LastOwner(u)
  BY DEF Owners, LastOwner
<1>5. \A j : Acceptable(j)' = Acceptable(j)
  BY <1>4 DEF Acceptable, Member
<1>6. CheckedStillHolds'
  BY <1>1, <1>4, <1>5 DEF CheckedStillHolds
<1>7. RevokerHasKey'
  BY <1>1 DEF RevokerHasKey
<1>8. CountedFit'
  <2>1. Counted' \in SUBSET Request
    BY DEF Counted
  <2>2. Cardinality(Counted') \in Nat /\ Cardinality(Counted') <= Cardinality(Request)
    BY <2>1, FS_Subset, FS_CardinalityType, OrganizationAssumption DEF OrganizationAssumption
  <2>. QED
    BY <2>2, CountedIsFinite, OrganizationAssumption
       DEF OrganizationAssumption, HasRoom, CountedFit, TypeOK
<1>9. LateOnesFit'
  <2>1. \A k \in Key : Admitted(k)' \subseteq Admitted(k)
    BY <1>1 DEF Admitted
  <2>. QED
    BY <2>1, LateOnesFitKept DEF OrganizationInv
<1>. QED
  BY <1>2, <1>3, <1>4, <1>6, <1>7, <1>8, <1>9 DEF OrganizationInv, AlwaysAnOwner, RevokedOnce

\* One endpoint more and one request less that has counted.
LEMMA CreateEndpointKeepsInv ==
    ASSUME OrganizationInv, NEW r \in Request, CreateEndpoint(r)
    PROVE  OrganizationInv'
<1>. /\ Ends(r) /\ role' = role /\ key' = key /\ audited' = audited
     /\ pc[r] = "counted" /\ endpoints' = endpoints + 1 /\ late' = late
  BY DEF CreateEndpoint
<1>1. TypeOK'
  BY EndKeepsRequests DEF OrganizationInv, TypeOK
<1>2. RevokerHasKey'
  BY DEF OrganizationInv, TypeOK, RevokerHasKey, Ends
<1>3. Counted' = Counted \ {r} /\ r \in Counted
  BY DEF OrganizationInv, TypeOK, Ends, Counted
<1>4. Cardinality(Counted') = Cardinality(Counted) - 1
  BY <1>3, CountedIsFinite, FS_RemoveElement
<1>5. CountedFit'
  BY <1>4, CountedIsFinite, OrganizationAssumption
     DEF OrganizationAssumption, OrganizationInv, TypeOK, CountedFit
<1>6. LateOnesFit'
  BY EndKeepsRequests, LateOnesFitKept DEF OrganizationInv
<1>. QED
  BY <1>1, <1>2, <1>5, <1>6, EndKeepsRequests DEF OrganizationInv, RevokedOnce

LEMMA DeleteEndpointKeepsInv ==
    ASSUME OrganizationInv, NEW r \in Request, DeleteEndpoint(r)
    PROVE  OrganizationInv'
<1>. /\ Ends(r) /\ role' = role /\ key' = key /\ audited' = audited
     /\ endpoints' \in Nat /\ endpoints' <= endpoints /\ late' = late
  BY DEF DeleteEndpoint, OrganizationInv, TypeOK
<1>1. TypeOK'
  BY EndKeepsRequests DEF OrganizationInv, TypeOK
<1>2. RevokerHasKey'
  BY DEF OrganizationInv, TypeOK, RevokerHasKey, Ends
<1>3. CountedFit'
  BY EndKeepsRequests, CountedFitKept
<1>4. LateOnesFit'
  BY EndKeepsRequests, LateOnesFitKept DEF OrganizationInv
<1>. QED
  BY <1>1, <1>2, <1>3, <1>4, EndKeepsRequests DEF OrganizationInv, RevokedOnce

-----------------------------------------------------------------------------
\* Whoever is let in has a key that is live, so no bound is at stake.
LEMMA AdmitKeepsInv ==
    ASSUME OrganizationInv, NEW r \in Request, NEW j \in ProducerJob, AdmitProducer(r, j)
    PROVE  OrganizationInv'
<1>. /\ TypeOK /\ OneMemberRequest /\ CheckedStillHolds /\ RevokerHasKey
     /\ pc[r] = "idle" /\ key[j.key] = "live"
     /\ pc' = [pc EXCEPT ![r] = "admitted"] /\ job' = [job EXCEPT ![r] = j]
     /\ role' = role /\ key' = key /\ audited' = audited /\ endpoints' = endpoints
     /\ late' = late
  BY DEF OrganizationInv, AdmitProducer, KeyAccepted, rows
<1>1. /\ pc'[r] = "admitted" /\ job'[r] = j
      /\ \A q \in Request \ {r} : pc'[q] = pc[q] /\ job'[q] = job[q]
  BY DEF TypeOK
<1>2. TypeOK'
  BY <1>1 DEF TypeOK
<1>3. ~IsMemberJob(j)
  BY DEF ProducerJob, IsMemberJob
<1>4. OneMemberRequest'
  BY <1>1, <1>3 DEF OneMemberRequest
<1>5. Owners' = Owners /\ \A u : LastOwner(u)' = LastOwner(u)
  BY DEF Owners, LastOwner
<1>6. \A i : Acceptable(i)' = Acceptable(i)
  BY <1>5 DEF Acceptable, Member
<1>7. CheckedStillHolds'
  BY <1>1, <1>5, <1>6 DEF CheckedStillHolds
<1>8. RevokerHasKey'
  BY <1>1 DEF RevokerHasKey
<1>9. Counted' \subseteq Counted
  BY <1>1 DEF Counted
<1>10. CountedFit'
  BY <1>9, CountedFitKept DEF TypeOK
<1>11. LateOnesFit'
  <2>1. \A k \in Key : key[k] = "revoked" => Admitted(k)' \subseteq Admitted(k)
    BY <1>1 DEF Admitted
  <2>. QED
    BY <2>1, LateOnesFitKept DEF OrganizationInv
<1>. QED
  BY <1>2, <1>4, <1>5, <1>7, <1>8, <1>10, <1>11 DEF OrganizationInv, AlwaysAnOwner, RevokedOnce

\* One event more for a revoked key, and one request less that may store one.
LEMMA StoreKeepsInv ==
    ASSUME OrganizationInv, NEW r \in Request, StoreEvent(r)
    PROVE  OrganizationInv'
<1>. DEFINE k == job[r].key
<1>. /\ Ends(r) /\ role' = role /\ key' = key /\ audited' = audited /\ endpoints' = endpoints
     /\ pc[r] = "admitted"
     /\ late' = [late EXCEPT ![k] = IF key[k] = "revoked" THEN @ + 1 ELSE @]
  BY DEF StoreEvent
<1>. TypeOK /\ LateOnesFit
  BY DEF OrganizationInv
<1>1. k \in Key
  BY DEF OrganizationInv, CheckedStillHolds, ProducerJob
<1>2. TypeOK'
  BY <1>1, EndKeepsRequests DEF TypeOK
<1>3. RevokerHasKey'
  BY DEF OrganizationInv, TypeOK, RevokerHasKey, Ends
<1>4. CountedFit'
  BY EndKeepsRequests, CountedFitKept DEF TypeOK
<1>5. LateOnesFit'
  <2>. SUFFICES ASSUME NEW l \in Key
                PROVE  IF key[l] = "revoked"
                       THEN late'[l] + Cardinality(Admitted(l)') <= Cardinality(Request) - 1
                       ELSE late'[l] = 0
    BY DEF LateOnesFit
  <2>1. /\ Admitted(l)' = Admitted(l) \ {r}
        /\ Cardinality(Admitted(l)') \in Nat
        /\ Cardinality(Admitted(l)') <= Cardinality(Admitted(l))
        /\ r \in Admitted(l) => Cardinality(Admitted(l)') = Cardinality(Admitted(l)) - 1
    <3>1. Admitted(l)' = Admitted(l) \ {r}
      BY EndKeepsRequests
    <3>2. Admitted(l) \ {r} \subseteq Admitted(l)
      OBVIOUS
    <3>. QED
      BY <3>1, <3>2, AdmittedIsFinite, FS_Subset, FS_CardinalityType, FS_RemoveElement
  <2>2. CASE l = k
    <3>1. r \in Admitted(l)
      BY <2>2 DEF Admitted
    <3>2. late'[l] = IF key[l] = "revoked" THEN late[l] + 1 ELSE late[l]
      BY <2>2, <1>1 DEF TypeOK
    <3>. QED
      BY <2>1, <3>1, <3>2, AdmittedIsFinite DEF LateOnesFit, TypeOK
  <2>3. CASE l # k
    <3>1. late'[l] = late[l]
      BY <2>3, <1>1 DEF TypeOK
    <3>. QED
      BY <2>1, <3>1, AdmittedIsFinite DEF LateOnesFit, TypeOK
  <2>. QED
    BY <2>2, <2>3
<1>. QED
  BY <1>2, <1>3, <1>4, <1>5, EndKeepsRequests DEF OrganizationInv, RevokedOnce

-----------------------------------------------------------------------------
LEMMA ServeKeepsInv ==
    ASSUME OrganizationInv, NEW r \in Request, Serve(r)
    PROVE  OrganizationInv'
<1>1. CASE \E j \in MemberJob : Lock(r, j)
  BY <1>1, LockKeepsInv
<1>2. CASE Authorize(r)
  <2>1. CASE Ends(r)
    BY <1>2, <2>1, EndKeepsInv DEF Authorize
  <2>2. CASE job[r].actor \in Owners /\ Goes(r, "authorized")
    <3>1. pc[r] = "locked" /\ job[r] \in MemberJob /\ UNCHANGED rows
      BY <1>2 DEF Authorize, OrganizationInv, CheckedStillHolds
    <3>. QED
      BY <2>2, <3>1, GoKeepsInv
  <2>. QED
    BY <1>2, <2>1, <2>2 DEF Authorize
<1>3. CASE Check(r)
  <2>1. CASE Ends(r)
    BY <1>3, <2>1, EndKeepsInv DEF Check
  <2>2. CASE Acceptable(job[r]) /\ Goes(r, "checked")
    <3>1. /\ pc[r] = "authorized" /\ job[r] \in MemberJob /\ job[r].actor \in Owners
          /\ UNCHANGED rows
      BY <1>3 DEF Check, OrganizationInv, CheckedStillHolds
    <3>. QED
      BY <2>2, <3>1, GoKeepsInv
  <2>. QED
    BY <1>3, <2>1, <2>2 DEF Check
<1>4. CASE Commit(r)
  BY <1>4, CommitKeepsInv
<1>5. CASE \E j \in KeyJob \cup EndpointJob : Begin(r, j)
  BY <1>5, BeginKeepsInv
<1>6. CASE CreateKey(r)
  BY <1>6, CreateKeyKeepsInv
<1>7. CASE ReadKey(r)
  <2>1. CASE Ends(r)
    BY <1>7, <2>1, EndKeepsInv DEF ReadKey
  <2>2. CASE key[job[r].key] = "live" /\ Goes(r, "revoking")
    <3>1. /\ pc[r] = "allowed" /\ job[r] \in KeyJob /\ ~KeyLocked(job[r].key)
          /\ UNCHANGED rows
      BY <1>7 DEF ReadKey, OrganizationInv, CheckedStillHolds, EndpointJob
    <3>. QED
      BY <2>2, <3>1, GoKeepsInv
  <2>. QED
    BY <1>7, <2>1, <2>2 DEF ReadKey
<1>8. CASE RevokeKey(r)
  BY <1>8, RevokeKeyKeepsInv
<1>9. CASE CountEndpoints(r)
  BY <1>9, EndKeepsInv, CountKeepsInv DEF CountEndpoints
<1>10. CASE CreateEndpoint(r)
  BY <1>10, CreateEndpointKeepsInv
<1>11. CASE DeleteEndpoint(r)
  BY <1>11, DeleteEndpointKeepsInv
<1>12. CASE Stop(r)
  BY <1>12, EndKeepsInv DEF Stop, rows
<1>13. CASE \E j \in ProducerJob : AdmitProducer(r, j)
  BY <1>13, AdmitKeepsInv
<1>14. CASE StoreEvent(r)
  BY <1>14, StoreKeepsInv
<1>. QED
  BY <1>1, <1>2, <1>3, <1>4, <1>5, <1>6, <1>7, <1>8, <1>9, <1>10, <1>11, <1>12, <1>13, <1>14
     DEF Serve

LEMMA StutterKeepsOrganizationInv ==
    ASSUME OrganizationInv, UNCHANGED vars
    PROVE  OrganizationInv'
<1>. UNCHANGED <<role, key, audited, endpoints, late, pc, job>>
  BY DEF vars, rows
<1>1. Owners' = Owners /\ Counted' = Counted /\ \A k : Admitted(k)' = Admitted(k)
  BY DEF Owners, Counted, Admitted
<1>2. \A u : LastOwner(u)' = LastOwner(u)
  BY <1>1 DEF LastOwner
<1>3. \A j : Acceptable(j)' = Acceptable(j)
  BY <1>2 DEF Acceptable, Member
<1>4. CheckedStillHolds'
  BY <1>1, <1>3 DEF OrganizationInv, CheckedStillHolds
<1>. QED
  BY <1>1, <1>4 DEF OrganizationInv, TypeOK, OneMemberRequest, RevokerHasKey, AlwaysAnOwner,
                    RevokedOnce, CountedFit, LateOnesFit

(***************************************************************************)
(* The inductive invariant holds for any number of users, keys, endpoints  *)
(* and concurrent requests.                                                *)
(***************************************************************************)
THEOREM OrganizationIsConsistent == Spec => []OrganizationInv
<1>1. OrganizationInv /\ [Next]_vars => OrganizationInv'
  BY ServeKeepsInv, StutterKeepsOrganizationInv DEF Next
<1>. QED
  BY <1>1, InitHasOrganizationInv, PTL DEF Spec

(***************************************************************************)
(* However many owners demote and remove each other at once, the           *)
(* organization keeps one (use_cases.py:143-148, 163-164).                 *)
(***************************************************************************)
THEOREM AnOwnerRemains == Spec => []AlwaysAnOwner
<1>1. OrganizationInv => AlwaysAnOwner
  BY DEF OrganizationInv
<1>. QED
  BY <1>1, OrganizationIsConsistent, PTL

(***************************************************************************)
(* A key is revoked, and said to be, at most once (use_cases.py:205-208).  *)
(***************************************************************************)
THEOREM KeysAreRevokedOnce == Spec => []RevokedOnce
<1>1. OrganizationInv => RevokedOnce
  BY DEF OrganizationInv
<1>. QED
  BY <1>1, OrganizationIsConsistent, PTL

(***************************************************************************)
(* The limit of endpoints is exceeded by fewer than there are requests at  *)
(* a time, and not at all by one at a time (endpoints/use_cases.py:121).   *)
(***************************************************************************)
THEOREM EndpointsStayNearLimit == Spec => []EndpointsNearLimit
<1>1. OrganizationInv => EndpointsNearLimit
  BY CountedIsFinite, OrganizationAssumption
     DEF OrganizationAssumption, OrganizationInv, TypeOK, CountedFit, EndpointsNearLimit
<1>. QED
  BY <1>1, OrganizationIsConsistent, PTL

(***************************************************************************)
(* Fewer events are stored with a key after its revocation than there are  *)
(* requests at a time, however long it goes on (api_dependencies.py:78).   *)
(***************************************************************************)
THEOREM RevokedKeysEnd == Spec => []RevokedKeyEnds
<1>1. OrganizationInv => RevokedKeyEnds
  <2>. SUFFICES ASSUME OrganizationInv, NEW k \in Key
                PROVE  late[k] <= Cardinality(Request) - 1
    BY DEF RevokedKeyEnds
  <2>1. Cardinality(Request) \in Nat \ {0}
    BY FS_CardinalityType, FS_EmptySet, OrganizationAssumption DEF OrganizationAssumption
  <2>2. late[k] \in Nat
    BY DEF OrganizationInv, TypeOK
  <2>. QED
    BY <2>1, <2>2, AdmittedIsFinite DEF OrganizationInv, LateOnesFit
<1>. QED
  BY <1>1, OrganizationIsConsistent, PTL

(***************************************************************************)
(* Only somebody who is an owner at that moment changes the members.       *)
(***************************************************************************)
THEOREM OnlyOwnersDecide == Spec => OwnersDecide
<1>. DEFINE Decided == \E r \in Request : pc[r] = "checked" /\ pc'[r] = "idle"
                                            /\ job[r].actor \in Owners
<1>1. OrganizationInv /\ [Next]_vars => [role' # role => Decided]_vars
  <2>. SUFFICES ASSUME OrganizationInv, Next, role' # role PROVE Decided
    BY DEF vars, rows
  <2>1. PICK r \in Request : Serve(r)
    BY DEF Next
  <2>2. Commit(r)
    BY <2>1 DEF Serve, Lock, Authorize, Check, Begin, CreateKey, ReadKey, RevokeKey,
                CountEndpoints, CreateEndpoint, DeleteEndpoint, AdmitProducer, StoreEvent, Stop,
                rows
  <2>. QED
    BY <2>2 DEF Commit, Ends, OrganizationInv, TypeOK, CheckedStillHolds
<1>. QED
  BY <1>1, OrganizationIsConsistent, PTL DEF Spec, OwnersDecide

=============================================================================

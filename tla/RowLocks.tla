-------------------------------- MODULE RowLocks --------------------------------
(***************************************************************************)
(* The transactions of one organization at the level of PostgreSQL's row   *)
(* locks: which rows each of them locks, in which order, who waits for     *)
(* whom, and what happens when they wait for each other. Everywhere else   *)
(* in this project a transaction is one action; here it is one action per  *)
(* lock, and the last lock and the commit are one.                         *)
(*                                                                         *)
(* FOR UPDATE (and UPDATE, for the rows below) excludes every other lock   *)
(* on a row. An INSERT takes FOR KEY SHARE on each row it refers to by a   *)
(* foreign key, which only excludes FOR UPDATE. A lock is held until the   *)
(* transaction ends. Transactions that use SKIP LOCKED and insert nothing  *)
(* with a foreign key (schedule_due, the outbox, cleanup) never wait.      *)
(*                                                                         *)
(* Every transaction here runs once. Rows that a transaction inserts are   *)
(* invisible to the others until it ends, and are left out.                *)
(***************************************************************************)
EXTENDS Integers, FiniteSets

CONSTANTS
    Claim, Finalize, Reconcile,      \* transactions of workers and of the scheduler
    Change, Ingest, Replay,          \* transactions of the API
    Delivery, Endpoint,              \* rows
    Organization, ApiKey,            \* rows: the organization, the producer's key
    Nothing,                         \* what a transaction that has ended waits for
    Target,                          \* the endpoint_id of every delivery
    About,                           \* the row a transaction is called for
    Capacity,                        \* calls an endpoint takes at once
    Initially                        \* bound: the statuses a delivery may start with

Worker == Claim \cup Finalize \cup Reconcile
Transaction == Worker \cup Change \cup Ingest \cup Replay
Row == Delivery \cup Endpoint \cup {Organization, ApiKey}
Called == Claim \cup Finalize \cup Replay

ASSUME RowLocksAssumption ==
    /\ IsFiniteSet(Delivery) /\ IsFiniteSet(Endpoint)
    /\ Target \in [Delivery -> Endpoint]
    /\ DOMAIN About = Called \cup Change
    /\ \A t \in Called : About[t] \in Delivery
    /\ \A t \in Change : About[t] \in Endpoint \cup {ApiKey}
    /\ Delivery \cap Endpoint = {} /\ Organization # ApiKey
    /\ {Organization, ApiKey} \cap (Delivery \cup Endpoint) = {}
    /\ Nothing \notin Row
    /\ Capacity \in Nat

\* compose.yaml:88 runs one retry-scheduler
ASSUME SchedulerAssumption == \A r, s \in Reconcile : r = s

\* one transaction is of one kind
ASSUME KindAssumption ==
    /\ Claim \cap (Finalize \cup Reconcile \cup Change \cup Ingest \cup Replay) = {}
    /\ Finalize \cap (Reconcile \cup Change \cup Ingest \cup Replay) = {}
    /\ Reconcile \cap (Change \cup Ingest \cup Replay) = {}
    /\ Change \cap (Ingest \cup Replay) = {} /\ Ingest \cap Replay = {}

VARIABLES
    waits,      \* the row each transaction locks next, or Nothing
    held,       \* the rows each transaction has locked
    todo,       \* the rows each transaction will lock one by one after that
    outcome,    \* "running", "committed", or "victim": rolled back for a deadlock
    status,     \* deliveries.status
    open,       \* endpoints with status 'active' and enabled
    active_delivery_count, \* webhook_endpoints.active_delivery_count
    seen,       \* the count a claim read when it locked its endpoint
    started     \* the finalize transactions whose attempt is still 'started'

locks == <<waits, held, todo, outcome>>
rows == <<status, open, active_delivery_count, started>>
vars == <<locks, rows, seen>>

Waiting == {"queued", "retry_scheduled"}
Status == {"delivering", "settled"} \cup Waiting   \* "settled": any terminal status

Delivering(e) == {d \in Delivery : status[d] = "delivering" /\ Target[d] = e}

TypeOK ==
    /\ waits \in [Transaction -> Row \cup {Nothing}]
    /\ held \in [Transaction -> SUBSET Row]
    /\ todo \in [Transaction -> SUBSET (Delivery \cup Endpoint)]
    /\ outcome \in [Transaction -> {"running", "committed", "victim"}]
    /\ status \in [Delivery -> Status]
    /\ open \subseteq Endpoint
    /\ active_delivery_count \in [Endpoint -> Int]
    /\ seen \in [Claim -> Int]
    /\ started \subseteq Finalize

\* faulty variant of FinalizeOrder: the endpoint first
EndpointFirst(t) == <<Target[About[t]], About[t]>>

\* finalize_delivery locks the delivery before the endpoint, as a claim does
FinalizeOrder(t) == <<About[t], Target[About[t]]>>

\* what a transaction locks first; the reconciler selects its batch before
FirstRow(t) ==
    CASE t \in Claim \cup Replay \cup Change -> About[t]
      [] t \in Finalize -> FinalizeOrder(t)[1]
      [] t \in Ingest -> Organization
      [] OTHER -> Nothing

(***************************************************************************)
(* Any state between transactions: a delivery is being delivered for the   *)
(* one finalize that will end its attempt, or for a worker that died.      *)
(***************************************************************************)
Init ==
    /\ waits = [t \in Transaction |-> FirstRow(t)]
    /\ held = [t \in Transaction |-> {}]
    /\ todo = [t \in Transaction |-> {}]
    /\ outcome = [t \in Transaction |-> "running"]
    /\ status \in [Delivery -> Status]
    /\ \A d \in Delivery : status[d] \in Initially[d]
    /\ open \in SUBSET Endpoint
    /\ active_delivery_count = [e \in Endpoint |-> Cardinality(Delivering(e))]
    /\ \A e \in Endpoint : active_delivery_count[e] <= Capacity
    /\ seen = [c \in Claim |-> 0]
    /\ started \in SUBSET {f \in Finalize : status[About[f]] = "delivering"}
    /\ \A f, g \in started : About[f] = About[g] => f = g

-----------------------------------------------------------------------------
\* what a transaction inserts refers to: an attempt, a delivery or an audit row
\* to the organization, an event to its key, a delivery to its endpoint
RefersToOrganization(t) == t \notin Ingest   \* which has it locked already
RefersToKey(t) == t \in Ingest
RefersToEndpoint(t) == t \in Ingest \cup Replay

\* the lock t takes on the row is FOR KEY SHARE
Shares(t, row) ==
    \/ row = Organization /\ RefersToOrganization(t)
    \/ row = ApiKey /\ RefersToKey(t)
    \/ row \in Endpoint /\ RefersToEndpoint(t)

\* faulty variant of Conflict: the selects are not FOR UPDATE
NoConflict(s, t, row) == FALSE

Conflict(s, t, row) == row \in held[s] /\ ~(Shares(s, row) /\ Shares(t, row))

BlockedBy(t, s) == s # t /\ Conflict(s, t, waits[t])

Granted(t) == waits[t] # Nothing /\ \A s \in Transaction : ~BlockedBy(t, s)

\* t locks the row it waited for and needs another one next
Lock(t, next) ==
    /\ held' = [held EXCEPT ![t] = @ \cup {waits[t]}]
    /\ waits' = [waits EXCEPT ![t] = next]
    /\ UNCHANGED outcome

\* the transaction is over and gives back all its locks
End(t, how) ==
    /\ waits' = [waits EXCEPT ![t] = Nothing]
    /\ held' = [held EXCEPT ![t] = {}]
    /\ todo' = [todo EXCEPT ![t] = {}]
    /\ outcome' = [outcome EXCEPT ![t] = how]

Commit(t) == End(t, "committed")

-----------------------------------------------------------------------------
\* claim_delivery: its delivery
ClaimDelivery(t) ==
    /\ waits[t] = About[t] /\ Granted(t)
    /\ \/ status[About[t]] # "queued" /\ Commit(t)
       \/ status[About[t]] = "queued" /\ Lock(t, Target[About[t]]) /\ UNCHANGED todo
    /\ UNCHANGED <<rows, seen>>

\* its endpoint, which is closed, full, or has a slot
ClaimEndpoint(t) ==
    LET d == About[t]
        e == Target[d] IN
    /\ waits[t] = e /\ Granted(t)
    /\ \/ /\ e \notin open
          /\ status' = [status EXCEPT ![d] = "settled"]
          /\ Commit(t)
          /\ UNCHANGED seen
       \/ /\ e \in open /\ active_delivery_count[e] >= Capacity
          /\ status' = [status EXCEPT ![d] = "retry_scheduled"]
          /\ Commit(t)
          /\ UNCHANGED seen
       \/ /\ e \in open /\ active_delivery_count[e] < Capacity
          /\ seen' = [seen EXCEPT ![t] = active_delivery_count[e]]
          /\ Lock(t, Organization)
          /\ UNCHANGED <<status, todo>>
    /\ UNCHANGED <<open, active_delivery_count, started>>

\* the insert of its attempt, to be made or, for want of a secret, failed
ClaimAttempt(t) ==
    LET d == About[t] IN
    /\ waits[t] = Organization /\ Granted(t)
    /\ \/ /\ status' = [status EXCEPT ![d] = "delivering"]
          /\ active_delivery_count' =
                [active_delivery_count EXCEPT ![Target[d]] = seen[t] + 1]
       \/ /\ status' = [status EXCEPT ![d] = "settled"]
          /\ UNCHANGED active_delivery_count
    /\ Commit(t)
    /\ UNCHANGED <<open, seen, started>>

-----------------------------------------------------------------------------
\* finalize_delivery: the delivery of its attempt
FinalizeBegins(t) ==
    /\ waits[t] = FinalizeOrder(t)[1] /\ Granted(t)
    /\ Lock(t, FinalizeOrder(t)[2])
    /\ UNCHANGED <<todo, rows, seen>>

\* the endpoint, and what the answer makes of the delivery
FinalizeCommits(t) ==
    LET d == About[t] IN
    /\ waits[t] = FinalizeOrder(t)[2] /\ Granted(t)
    /\ \/ /\ t \in started
          /\ status' \in {[status EXCEPT ![d] = s] :
                            s \in {"settled", "retry_scheduled"}}
          /\ active_delivery_count' = [active_delivery_count EXCEPT ![Target[d]] = @ - 1]
          /\ started' = started \ {t}
       \/ /\ t \notin started
          /\ UNCHANGED <<status, active_delivery_count, started>>
    /\ Commit(t)
    /\ UNCHANGED <<open, seen>>

-----------------------------------------------------------------------------
\* reconcile_stale, SKIP LOCKED: some deliveries whose lease is over
ReconcileSelect(t) ==
    /\ outcome[t] = "running" /\ held[t] = {}
    /\ \E S \in SUBSET {d \in Delivery : /\ status[d] = "delivering"
                                         /\ \A s \in Transaction : d \notin held[s]} :
         \/ S = {} /\ Commit(t)
         \/ \E d \in S :
              /\ held' = [held EXCEPT ![t] = S]
              /\ waits' = [waits EXCEPT ![t] = Target[d]]
              /\ UNCHANGED <<todo, outcome>>
    /\ UNCHANGED <<rows, seen>>

Batch(t) == held[t] \cap Delivery

\* their endpoints one after the other; with the last one the batch commits
ReconcileEndpoint(t) ==
    LET left == {Target[d] : d \in Batch(t)} \ (held[t] \cup {waits[t]}) IN
    /\ Granted(t)
    /\ \/ /\ \E e \in left : Lock(t, e)
          /\ UNCHANGED <<todo, rows>>
       \/ /\ left = {}
          /\ \E retried \in SUBSET Batch(t) :
               status' = [d \in Delivery |-> CASE d \in retried  -> "retry_scheduled"
                                               [] d \in Batch(t) \ retried -> "settled"
                                               [] OTHER -> status[d]]
          /\ active_delivery_count' =
                [e \in Endpoint |-> active_delivery_count[e]
                                      - Cardinality({d \in Batch(t) : Target[d] = e})]
          /\ started' = {f \in started : About[f] \notin Batch(t)}
          /\ Commit(t)
          /\ UNCHANGED open
    /\ UNCHANGED seen

-----------------------------------------------------------------------------
\* faulty variant of Cancellable: a delivery in flight is cancelled as well
CancelsInFlight(d) == status[d] \in Waiting \cup {"delivering"}

\* the condition of cancel_waiting
Cancellable(d) == status[d] \in Waiting

(***************************************************************************)
(* update, verify or delete of an endpoint, or revoke_key: its row; then   *)
(* it is over (the first transaction of verify, a row that is gone), goes  *)
(* on to its audit row, or, if it closes an endpoint, first cancels what   *)
(* is waiting there.                                                       *)
(***************************************************************************)
ChangeRow(t) ==
    LET found == {d \in Delivery : Target[d] = About[t] /\ Cancellable(d)} IN
    /\ waits[t] = About[t] /\ Granted(t)
    /\ \/ Commit(t)
       \/ Lock(t, Organization) /\ UNCHANGED todo
       \/ \E d \in found : Lock(t, d) /\ todo' = [todo EXCEPT ![t] = found \ {d}]
    /\ UNCHANGED <<rows, seen>>

\* cancel_waiting locks the deliveries it found, one by one
ChangeDelivery(t) ==
    /\ waits[t] \in Delivery /\ Granted(t)
    /\ \/ \E d \in todo[t] : Lock(t, d) /\ todo' = [todo EXCEPT ![t] = @ \ {d}]
       \/ todo[t] = {} /\ Lock(t, Organization) /\ UNCHANGED todo
    /\ UNCHANGED <<rows, seen>>

\* PostgreSQL looks again at what it waited for, and keeps the lock in any case
Cancelled(t) == {d \in Batch(t) : Cancellable(d)}

\* the insert of the audit row; what was locked, and is still waiting, is cancelled
ChangeAudit(t) ==
    /\ waits[t] = Organization /\ Granted(t)
    /\ \/ open' = open \ {About[t]}
       \/ Batch(t) = {} /\ open' \in {open, open \cup ({About[t]} \cap Endpoint)}
    /\ status' = [d \in Delivery |-> IF d \in Cancelled(t) THEN "settled" ELSE status[d]]
    /\ Commit(t)
    /\ UNCHANGED <<active_delivery_count, seen, started>>

-----------------------------------------------------------------------------
\* projected_backlog: too much, or the open endpoints that subscribe to the type
\* of the event are read and the event inserted
IngestOrganization(t) ==
    /\ waits[t] = Organization /\ Granted(t)
    /\ \/ Commit(t)
       \/ \E subscribed \in SUBSET open :
            Lock(t, ApiKey) /\ todo' = [todo EXCEPT ![t] = subscribed]
    /\ UNCHANGED <<rows, seen>>

\* the insert of the event, then of a delivery for each endpoint
IngestInsert(t) ==
    /\ waits[t] \in Endpoint \cup {ApiKey} /\ Granted(t)
    /\ \/ \E e \in todo[t] : Lock(t, e) /\ todo' = [todo EXCEPT ![t] = @ \ {e}]
       \/ todo[t] = {} /\ Commit(t)
    /\ UNCHANGED <<rows, seen>>

\* replay: its source, which must be settled
ReplaySource(t) ==
    /\ waits[t] = About[t] /\ Granted(t)
    /\ \/ status[About[t]] # "settled" /\ Commit(t)
       \/ status[About[t]] = "settled" /\ Lock(t, Target[About[t]]) /\ UNCHANGED todo
    /\ UNCHANGED <<rows, seen>>

\* the insert of the new delivery, its endpoint first
ReplayInsert(t) ==
    /\ Granted(t)
    /\ \/ waits[t] \in Endpoint /\ Lock(t, Organization) /\ UNCHANGED todo
       \/ waits[t] = Organization /\ Commit(t)
    /\ UNCHANGED <<rows, seen>>

-----------------------------------------------------------------------------
Blocked == {t \in Transaction : \E s \in Transaction : BlockedBy(t, s)}

\* every member waits for another one
Stuck(C) == C # {} /\ \A t \in C : \E s \in C : BlockedBy(t, s)

\* the transactions of a cycle, each of which finds it when its timer runs out
Deadlock(C) == Stuck(C) /\ \A D \in SUBSET C : Stuck(D) => D = C

Deadlocked(t) == t \in Blocked /\ \E C \in SUBSET Blocked : t \in C /\ Deadlock(C)

\* deadlock_timeout: the statement raises and everything is rolled back
Sacrifice(t) ==
    /\ Deadlocked(t)
    /\ End(t, "victim")
    /\ UNCHANGED <<rows, seen>>

-----------------------------------------------------------------------------
Step(t) ==
    \/ t \in Claim /\ (ClaimDelivery(t) \/ ClaimEndpoint(t) \/ ClaimAttempt(t))
    \/ t \in Finalize /\ (FinalizeBegins(t) \/ FinalizeCommits(t))
    \/ t \in Reconcile /\ (ReconcileSelect(t) \/ ReconcileEndpoint(t))
    \/ t \in Change /\ (ChangeRow(t) \/ ChangeDelivery(t) \/ ChangeAudit(t))
    \/ t \in Ingest /\ (IngestOrganization(t) \/ IngestInsert(t))
    \/ t \in Replay /\ (ReplaySource(t) \/ ReplayInsert(t))

Next == \E t \in Transaction : Step(t) \/ Sacrifice(t)

Spec == Init /\ [][Next]_vars

\* while some transaction can go on, one does; PostgreSQL looks for deadlocks
FairSpec == Spec /\ WF_vars(Next)

-----------------------------------------------------------------------------
(***************************************************************************)
(* What makes it sound to treat these transactions as atomic elsewhere: at *)
(* every commit the count of an endpoint is the number of its deliveries   *)
(* in 'delivering', although it is read in one step and written in another.*)
(***************************************************************************)
SlotsAreCounted ==
    \A e \in Endpoint : active_delivery_count[e] = Cardinality(Delivering(e))

(***************************************************************************)
(* A delivery leaves for the receiver only while its endpoint is open and  *)
(* has a slot, however the claim and a change overlap.                     *)
(***************************************************************************)
ClaimedWhileOpen ==
    [][\A d \in Delivery :
         status[d] # "delivering" /\ status'[d] = "delivering" =>
             Target[d] \in open' /\ active_delivery_count'[Target[d]] <= Capacity]_vars

(***************************************************************************)
(* What that comes to: however the locks of the transactions interleave,   *)
(* and whichever of them are rolled back, the rows change as if each       *)
(* transaction had happened at once, by what was so when it committed. A   *)
(* claim that has counted the calls of its endpoint is not overtaken by    *)
(* another one, or by a change that closes it; an answer is not recorded   *)
(* for an attempt that was given up meanwhile.                             *)
(***************************************************************************)
Transactions == INSTANCE DeliveryTransactions WITH Attempt <- Finalize, Subject <- About
ImplementsTransactions == Transactions!Spec

(***************************************************************************)
(* Workers and the scheduler alone never deadlock, nor with replays: they  *)
(* lock a delivery, then its endpoint, then refer to the organization.     *)
(* Every deadlock has an ingest, which starts from the organization, or a  *)
(* change, which starts from the endpoint or the key.                      *)
(***************************************************************************)
DeadlocksNeedIngestOrChange ==
    \A C \in SUBSET (Blocked \cap (Worker \cup Replay)) : ~Deadlock(C)

(***************************************************************************)
(* The transaction that records the answer of a receiver is never the one  *)
(* that is sacrificed, unless the reconciler has given up on its attempt.  *)
(***************************************************************************)
AnswersSurvive == \A f \in started : ~Deadlocked(f)

(***************************************************************************)
(* The inductive invariant: locks exclude each other, each transaction     *)
(* holds what comes before the lock it needs, and what it read under a     *)
(* lock still holds.                                                       *)
(***************************************************************************)
LocksExclude ==
    \A s, t \in Transaction : \A row \in held[s] \cap held[t] :
        s = t \/ (Shares(s, row) /\ Shares(t, row))

Path(t, p) == \E n \in DOMAIN p : waits[t] = p[n] /\ held[t] = {p[m] : m \in 1..(n-1)}

InOrder(t) ==
    \/ waits[t] = Nothing /\ held[t] = {} /\ todo[t] = {}
    \/ t \in Claim \cup Replay /\ Path(t, <<About[t], Target[About[t]], Organization>>)
    \/ t \in Finalize /\ Path(t, <<About[t], Target[About[t]]>>)
    \/ t \in Reconcile /\ waits[t] \in Endpoint /\ held[t] \subseteq Delivery \cup Endpoint
    \/ t \in Change /\ waits[t] = About[t] /\ held[t] = {} /\ todo[t] = {}
    \/ /\ t \in Change /\ waits[t] \in Delivery \cup {Organization}
       /\ About[t] \in held[t] /\ held[t] \subseteq Delivery \cup {About[t]}
       /\ todo[t] \subseteq Delivery
    \/ t \in Ingest /\ waits[t] = Organization /\ held[t] = {}
    \/ /\ t \in Ingest /\ waits[t] \in Endpoint \cup {ApiKey}
       /\ Organization \in held[t] /\ held[t] \subseteq Endpoint \cup {Organization, ApiKey}
       /\ todo[t] \subseteq Endpoint

ReadsStillHold(t) ==
    /\ t \in Claim /\ waits[t] \in {Target[About[t]], Organization} => status[About[t]] = "queued"
    /\ t \in Claim /\ waits[t] = Organization =>
          /\ Target[About[t]] \in open
          /\ seen[t] = active_delivery_count[Target[About[t]]] /\ seen[t] < Capacity
    /\ t \in Reconcile => \A d \in Batch(t) : status[d] = "delivering"
    /\ t \in Change => \A d \in Delivery \cap (held[t] \cup todo[t] \cup {waits[t]}) :
          status[d] # "delivering" /\ Target[d] = About[t]

AttemptsAreOpen ==
    /\ \A f \in started : waits[f] # Nothing /\ status[About[f]] = "delivering"
    /\ \A f, g \in started : About[f] = About[g] => f = g

LocksInv ==
    /\ TypeOK /\ LocksExclude /\ AttemptsAreOpen
    /\ \A t \in Transaction : InOrder(t) /\ ReadsStillHold(t)

(***************************************************************************)
(* What becomes of an answer in the end: the attempt that it is about is   *)
(* ended, by the transaction that records it or by the reconciler. The     *)
(* first may wait in a row for locks of transactions that deadlock among   *)
(* themselves; it is neither forgotten behind them nor sacrificed for      *)
(* them.                                                                   *)
(***************************************************************************)
AnswersAreRecorded == \A f \in Finalize : f \in started ~> f \notin started

=============================================================================

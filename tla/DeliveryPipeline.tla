-------------------------- MODULE DeliveryPipeline --------------------------
(***************************************************************************)
(* The asynchronous delivery path, from the transaction that creates a     *)
(* delivery to the one that settles it: the outbox rows, the dispatcher    *)
(* that publishes them, the RabbitMQ queue, the Celery workers that claim, *)
(* call and finalize, the scheduler that requeues and reconciles, and the  *)
(* endpoint changes that stop deliveries.                                  *)
(*                                                                         *)
(* One action is one database transaction, one broker operation or one     *)
(* HTTP call: these are the points at which the processes interleave.      *)
(* Every transaction below locks (FOR UPDATE) the rows whose old values it *)
(* uses, so it is atomic at READ COMMITTED.                                *)
(*                                                                         *)
(* Time is not a number. A retry is due, and an outbox lease has run out,  *)
(* whenever the scheduler or a dispatcher is allowed to say so; the lease  *)
(* of a delivery runs out in an action of its own.                         *)
(***************************************************************************)
EXTENDS Integers, FiniteSets, RetryPolicy

CONSTANTS
    Delivery,             \* delivery ids, originals and replays alike
    Endpoint,             \* endpoint ids
    Target,               \* the endpoint_id of every delivery
    Worker,               \* Celery prefork processes (prefetch 1)
    Dispatcher,           \* outbox dispatcher processes
    NoDelivery,           \* what an idle worker holds
    StatusCode,           \* the HTTP statuses a receiver may answer with
    Capacity,             \* calls an endpoint takes at once: 3 in the code
    MaxAttempts,          \* settings.max_delivery_attempts
    BatchSize,            \* settings.outbox_batch_size, settings.retry_batch_size
    RowsPerDelivery,      \* bound: outbox rows of one delivery not yet forgotten
    MaxCopies,            \* bound: publishes wait while this many copies are ready
    MaxFaults,            \* bound: crashes and failed operations in a behaviour
    ClaimMayFail,         \* may the claim transaction raise?
    CallMayOutliveLease   \* may a worker stall in a call until its lease is over?

ASSUME PipelineAssumption ==
    /\ IsFiniteSet(Delivery)
    /\ Target \in [Delivery -> Endpoint]
    /\ NoDelivery \notin Delivery
    /\ StatusCode \subseteq Nat
    /\ {Capacity, MaxAttempts, BatchSize, RowsPerDelivery, MaxCopies} \subseteq Nat \ {0}
    /\ MaxFaults \in Nat
    /\ {ClaimMayFail, CallMayOutliveLease} \subseteq BOOLEAN

VARIABLES
    status,                 \* deliveries.status; "absent" before the row exists
    attempt_count,          \* deliveries.attempt_count
    lease_until,            \* deliveries.lease_until: NULL, ahead or past
    outcome,                \* delivery_attempts.outcome by delivery and number
    open,                   \* endpoints with status 'active' and enabled
    active_delivery_count,  \* webhook_endpoints.active_delivery_count
    outbox,                 \* the outbox_messages rows that are 'pending'
    dispatcher,             \* the batch each dispatcher has in memory
    ready,                  \* copies of each command waiting in the queue
    worker,                 \* the command each worker has not acknowledged
    faults                  \* faults so far

deliveryVars == <<status, attempt_count, lease_until, outcome>>
endpointVars == <<open, active_delivery_count>>
vars == <<deliveryVars, endpointVars, outbox, dispatcher, ready, worker, faults>>

Waiting  == {"queued", "retry_scheduled"}
Terminal == {"succeeded", "dead_lettered", "cancelled"}
Status   == {"absent", "delivering"} \cup Waiting \cup Terminal

AttemptNumber == 1..MaxAttempts
Ended   == {"succeeded", "failed", "unknown"}
Outcome == {"none", "started"} \cup Ended   \* "none": there is no such row

(***************************************************************************)
(* A row is named by the delivery it is about (aggregate_id) and a number. *)
(* Nothing in the code reads a published row again, so a number returns to *)
(* use once its row is published and no dispatcher remembers it.           *)
(***************************************************************************)
Row == Delivery \X (1..RowsPerDelivery)

WorkerState == [pc       : {"idle", "received", "executing", "responded", "done"},
                delivery : Delivery \cup {NoDelivery},
                attempt  : 0..MaxAttempts,
                verdict  : {"none", "success", "retryable", "permanent"}]

Idle == [pc |-> "idle", delivery |-> NoDelivery, attempt |-> 0, verdict |-> "none"]
Received(d) == [Idle EXCEPT !.pc = "received", !.delivery = d]
NoBatch == [claimed |-> {}, confirmed |-> {}]

TypeOK ==
    /\ status \in [Delivery -> Status]
    /\ attempt_count \in [Delivery -> 0..MaxAttempts]
    /\ lease_until \in [Delivery -> {"none", "live", "expired"}]
    /\ outcome \in [Delivery -> [AttemptNumber -> Outcome]]
    /\ open \subseteq Endpoint
    /\ active_delivery_count \in [Endpoint -> 0..Capacity]
    /\ outbox \subseteq Row
    /\ dispatcher \in [Dispatcher -> [claimed : SUBSET Row, confirmed : SUBSET Row]]
    /\ ready \in [Delivery -> Nat]
    /\ worker \in [Worker -> WorkerState]
    /\ faults \in 0..MaxFaults

Init ==
    /\ status = [d \in Delivery |-> "absent"]
    /\ attempt_count = [d \in Delivery |-> 0]
    /\ lease_until = [d \in Delivery |-> "none"]
    /\ outcome = [d \in Delivery |-> [n \in AttemptNumber |-> "none"]]
    /\ open \in SUBSET Endpoint
    /\ active_delivery_count = [e \in Endpoint |-> 0]
    /\ outbox = {}
    /\ dispatcher = [p \in Dispatcher |-> NoBatch]
    /\ ready = [d \in Delivery |-> 0]
    /\ worker = [w \in Worker |-> Idle]
    /\ faults = 0

Fault == faults < MaxFaults /\ faults' = faults + 1

-----------------------------------------------------------------------------
(***************************************************************************)
(* Putting deliveries into 'queued' and writing their outbox rows is one   *)
(* transaction wherever it happens.                                        *)
(***************************************************************************)
Remembered == UNION {dispatcher[p].claimed \cup dispatcher[p].confirmed : p \in Dispatcher}
FreeNumbers(d) == {k \in 1..RowsPerDelivery : <<d, k>> \notin outbox \cup Remembered}
NewRow(d) == <<d, CHOOSE k \in FreeNumbers(d) : TRUE>>

Enqueue(S) ==
    /\ \A d \in S : FreeNumbers(d) # {}
    /\ status' = [d \in Delivery |-> IF d \in S THEN "queued" ELSE status[d]]
    /\ outbox' = outbox \cup {NewRow(d) : d \in S}

(***************************************************************************)
(* create_event_graph: one original delivery for every matching endpoint.  *)
(* The endpoints were read without a lock, so they may have closed since.  *)
(***************************************************************************)
Ingest(S) ==
    /\ S # {}
    /\ \A d \in S : status[d] = "absent"
    /\ \A c, d \in S : Target[c] = Target[d] => c = d
    /\ Enqueue(S)
    /\ UNCHANGED <<attempt_count, lease_until, outcome, endpointVars,
                   dispatcher, ready, worker, faults>>

\* replay: a new delivery of a settled one's event to the same endpoint
Replay(source, d) ==
    /\ status[source] \in Terminal
    /\ status[d] = "absent"
    /\ Target[d] = Target[source]
    /\ Enqueue({d})
    /\ UNCHANGED <<attempt_count, lease_until, outcome, endpointVars,
                   dispatcher, ready, worker, faults>>

\* schedule_due: the deliveries of S are the due ones of this batch
ScheduleDue(S) ==
    /\ S # {} /\ Cardinality(S) <= BatchSize
    /\ \A d \in S : status[d] = "retry_scheduled"
    /\ Enqueue(S)
    /\ UNCHANGED <<attempt_count, lease_until, outcome, endpointVars,
                   dispatcher, ready, worker, faults>>

-----------------------------------------------------------------------------
(***************************************************************************)
(* The outbox dispatcher. A claim takes pending rows whose lease is absent *)
(* or over: any pending row, then, those in another batch included. The    *)
(* rows are published one after the other, each is marked before the next. *)
(***************************************************************************)
ClaimOutbox(p, S) ==
    /\ dispatcher[p] = NoBatch
    /\ S # {} /\ S \subseteq outbox /\ Cardinality(S) <= BatchSize
    /\ dispatcher' = [dispatcher EXCEPT ![p].claimed = S]
    /\ UNCHANGED <<deliveryVars, endpointVars, outbox, ready, worker, faults>>

\* RabbitPublisher.publish returns: the broker has confirmed the message
Publish(p, r) ==
    /\ r \in dispatcher[p].claimed
    /\ dispatcher[p].confirmed = {}
    /\ ready[r[1]] < MaxCopies
    /\ ready' = [ready EXCEPT ![r[1]] = @ + 1]
    /\ dispatcher' = [dispatcher EXCEPT ![p] = [claimed |-> @.claimed \ {r}, confirmed |-> {r}]]
    /\ UNCHANGED <<deliveryVars, endpointVars, outbox, worker, faults>>

(***************************************************************************)
(* publish raises, perhaps after the broker took the message: the row is   *)
(* finished with published=False and stays pending.                        *)
(***************************************************************************)
PublishFails(p, r) ==
    /\ Fault
    /\ r \in dispatcher[p].claimed
    /\ dispatcher[p].confirmed = {}
    /\ \/ UNCHANGED ready
       \/ /\ ready[r[1]] < MaxCopies
          /\ ready' = [ready EXCEPT ![r[1]] = @ + 1]
    /\ dispatcher' = [dispatcher EXCEPT ![p].claimed = @ \ {r}]
    /\ UNCHANGED <<deliveryVars, endpointVars, outbox, worker>>

\* faulty variant of FinishOutbox: marks every row of the delivery as published
FinishesOutboxByDelivery(p) ==
    /\ dispatcher[p].confirmed # {}
    /\ outbox' = {r \in outbox : \A c \in dispatcher[p].confirmed : r[1] # c[1]}
    /\ dispatcher' = [dispatcher EXCEPT ![p].confirmed = {}]
    /\ UNCHANGED <<deliveryVars, endpointVars, ready, worker, faults>>

\* finish_outbox(published=True); a row published by now is left alone
FinishOutbox(p) ==
    /\ dispatcher[p].confirmed # {}
    /\ outbox' = outbox \ dispatcher[p].confirmed
    /\ dispatcher' = [dispatcher EXCEPT ![p].confirmed = {}]
    /\ UNCHANGED <<deliveryVars, endpointVars, ready, worker, faults>>

(***************************************************************************)
(* The dispatcher crashes, or the connection fails and it gives back the   *)
(* whole batch: what it had in memory is gone and the rows stay pending.   *)
(***************************************************************************)
DispatcherStops(p) ==
    /\ Fault
    /\ dispatcher[p] # NoBatch
    /\ dispatcher' = [dispatcher EXCEPT ![p] = NoBatch]
    /\ UNCHANGED <<deliveryVars, endpointVars, outbox, ready, worker>>

-----------------------------------------------------------------------------
(***************************************************************************)
(* The worker. A command stays unacknowledged from Receive to Ack          *)
(* (acks_late); the deliver task is claim_delivery, the HTTP call and      *)
(* finalize_delivery in between.                                           *)
(***************************************************************************)
Receive(w, d) ==
    /\ worker[w].pc = "idle"
    /\ ready[d] > 0
    /\ ready' = [ready EXCEPT ![d] = @ - 1]
    /\ worker' = [worker EXCEPT ![w] = Received(d)]
    /\ UNCHANGED <<deliveryVars, endpointVars, outbox, dispatcher, faults>>

\* the task returns without a call
NoCall(w) == worker' = [worker EXCEPT ![w].pc = "done"]

\* faulty variant of HasSlot: the comparison lets one call too many in
HasSlotOffByOne(d) == active_delivery_count[Target[d]] <= Capacity

\* the endpoint can take another call
HasSlot(d) == active_delivery_count[Target[d]] < Capacity

\* faulty variant of ClaimIgnored: a redelivered command resumes the call
ClaimResumes(w, d) ==
    /\ status[d] # "queued"
    /\ IF status[d] = "delivering"
       THEN worker' = [worker EXCEPT ![w].pc = "executing", ![w].attempt = attempt_count[d]]
       ELSE NoCall(w)
    /\ UNCHANGED <<deliveryVars, endpointVars>>

\* the command is for a delivery that is not (or no longer) queued
ClaimIgnored(w, d) ==
    /\ status[d] # "queued"
    /\ NoCall(w)
    /\ UNCHANGED <<deliveryVars, endpointVars>>

ClaimCancels(w, d) ==
    /\ status[d] = "queued"
    /\ Target[d] \notin open
    /\ status' = [status EXCEPT ![d] = "cancelled"]
    /\ NoCall(w)
    /\ UNCHANGED <<attempt_count, lease_until, outcome, endpointVars>>

\* faulty variant of ClaimDefers: the delivery is left in the queue it just left
DefersInPlace(w, d) ==
    /\ status[d] = "queued" /\ Target[d] \in open /\ ~HasSlot(d)
    /\ NoCall(w)
    /\ UNCHANGED <<deliveryVars, endpointVars>>

\* the endpoint is at its limit: try again a second later, no attempt used
ClaimDefers(w, d) ==
    /\ status[d] = "queued"
    /\ Target[d] \in open
    /\ ~HasSlot(d)
    /\ status' = [status EXCEPT ![d] = "retry_scheduled"]
    /\ NoCall(w)
    /\ UNCHANGED <<attempt_count, lease_until, outcome, endpointVars>>

\* no active signing secret, or one sealed under another key version; that the
\* event is missing, asked before it, cannot be: its deletion takes the delivery
ClaimWithoutSecret(w, d) ==
    LET n == attempt_count[d] + 1 IN
    /\ status[d] = "queued"
    /\ Target[d] \in open
    /\ HasSlot(d)
    /\ attempt_count' = [attempt_count EXCEPT ![d] = n]
    /\ status' = [status EXCEPT ![d] = "dead_lettered"]
    /\ outcome' = [outcome EXCEPT ![d][n] = "failed"]
    /\ NoCall(w)
    /\ UNCHANGED <<lease_until, endpointVars>>

ClaimStarts(w, d) ==
    LET n == attempt_count[d] + 1 IN
    /\ status[d] = "queued"
    /\ Target[d] \in open
    /\ HasSlot(d)
    /\ attempt_count' = [attempt_count EXCEPT ![d] = n]
    /\ status' = [status EXCEPT ![d] = "delivering"]
    /\ lease_until' = [lease_until EXCEPT ![d] = "live"]
    /\ active_delivery_count' = [active_delivery_count EXCEPT ![Target[d]] = @ + 1]
    /\ outcome' = [outcome EXCEPT ![d][n] = "started"]
    /\ worker' = [worker EXCEPT ![w].pc = "executing", ![w].attempt = n]
    /\ UNCHANGED open

\* claim_delivery
Claim(w) ==
    LET d == worker[w].delivery IN
    /\ worker[w].pc = "received"
    /\ \/ ClaimIgnored(w, d)
       \/ ClaimCancels(w, d)
       \/ ClaimDefers(w, d)
       \/ ClaimWithoutSecret(w, d)
       \/ ClaimStarts(w, d)
    /\ UNCHANGED <<outbox, dispatcher, ready, faults>>

(***************************************************************************)
(* The claim transaction raises (no connection, deadlock victim) and rolls *)
(* back. Celery acknowledges a late-acknowledged task that failed: the     *)
(* default of task_acks_on_failure_or_timeout, which worker.py keeps.      *)
(***************************************************************************)
ClaimRaises(w) ==
    /\ ClaimMayFail
    /\ Fault
    /\ worker[w].pc = "received"
    /\ worker' = [worker EXCEPT ![w] = Idle]
    /\ UNCHANGED <<deliveryVars, endpointVars, outbox, dispatcher, ready>>

\* the HTTP exchange ends: an answer, a refusal or the ten-second limit
Respond(w) ==
    /\ worker[w].pc = "executing"
    /\ \E result \in CallResult(StatusCode) :
          worker' = [worker EXCEPT ![w].pc = "responded", ![w].verdict = Verdict(result)]
    /\ UNCHANGED <<deliveryVars, endpointVars, outbox, dispatcher, ready, faults>>

\* faulty variant of Released: the slot is kept
NothingReleased(count, k) == count

\* k times max(0, count - 1)
Released(count, k) == IF k <= count THEN count - k ELSE 0

\* faulty variant of Settled: one attempt too many
SettledOffByOne(d, verdict) ==
    CASE verdict = "success" -> "succeeded"
      [] verdict = "retryable" /\ attempt_count[d] <= MaxAttempts -> "retry_scheduled"
      [] OTHER -> "dead_lettered"

\* the branches of finalize_delivery
Settled(d, verdict) ==
    CASE verdict = "success" -> "succeeded"
      [] verdict = "retryable" /\ attempt_count[d] < MaxAttempts -> "retry_scheduled"
      [] OTHER -> "dead_lettered"

\* faulty variant of StillOpen: looks at the delivery, not at the attempt
StillDelivering(d, n) == status[d] = "delivering"

\* nobody has ended the attempt
StillOpen(d, n) == outcome[d][n] = "started"

(***************************************************************************)
(* finalize_delivery: nothing happens when the attempt is no longer        *)
(* 'started', which is how it learns that the reconciler was faster.       *)
(***************************************************************************)
Finalize(w) ==
    LET d == worker[w].delivery
        n == worker[w].attempt
        v == worker[w].verdict
    IN  /\ worker[w].pc = "responded"
        /\ \/ /\ ~StillOpen(d, n)
              /\ UNCHANGED <<deliveryVars, endpointVars>>
           \/ /\ StillOpen(d, n)
              /\ status' = [status EXCEPT ![d] = Settled(d, v)]
              /\ outcome' = [outcome EXCEPT ![d][n] = IF v = "success" THEN "succeeded" ELSE "failed"]
              /\ lease_until' = [lease_until EXCEPT ![d] = "none"]
              /\ active_delivery_count' =
                    [active_delivery_count EXCEPT ![Target[d]] = Released(@, 1)]
              /\ UNCHANGED <<attempt_count, open>>
        /\ worker' = [worker EXCEPT ![w].pc = "done"]
        /\ UNCHANGED <<outbox, dispatcher, ready, faults>>

\* the task raises after the claim (finalize included) and is acknowledged
TaskRaises(w) ==
    /\ Fault
    /\ worker[w].pc \in {"executing", "responded"}
    /\ worker' = [worker EXCEPT ![w] = Idle]
    /\ UNCHANGED <<deliveryVars, endpointVars, outbox, dispatcher, ready>>

Ack(w) ==
    /\ worker[w].pc = "done"
    /\ worker' = [worker EXCEPT ![w] = Idle]
    /\ UNCHANGED <<deliveryVars, endpointVars, outbox, dispatcher, ready, faults>>

\* faulty variant of WorkerLost: the command was acknowledged on receipt
WorkerLostEarlyAck(w) ==
    /\ Fault
    /\ worker[w].pc # "idle"
    /\ worker' = [worker EXCEPT ![w] = Idle]
    /\ UNCHANGED <<deliveryVars, endpointVars, outbox, dispatcher, ready>>

\* the process dies or loses its broker connection: the broker requeues
WorkerLost(w) ==
    /\ Fault
    /\ worker[w].pc # "idle"
    /\ ready' = [ready EXCEPT ![worker[w].delivery] = @ + 1]
    /\ worker' = [worker EXCEPT ![w] = Idle]
    /\ UNCHANGED <<deliveryVars, endpointVars, outbox, dispatcher>>

-----------------------------------------------------------------------------
Calling(w) == worker[w].pc = "executing"

(***************************************************************************)
(* The lease of 30 seconds runs out. The call is cut off after 10, so only *)
(* a stalled process can still be in it then.                              *)
(***************************************************************************)
LeaseExpires(d) ==
    /\ lease_until[d] = "live"
    /\ CallMayOutliveLease \/ \A w \in Worker : ~(Calling(w) /\ worker[w].delivery = d)
    /\ lease_until' = [lease_until EXCEPT ![d] = "expired"]
    /\ UNCHANGED <<status, attempt_count, outcome, endpointVars,
                   outbox, dispatcher, ready, worker, faults>>

\* faulty variant of LatestStarted: the first row instead of the open one
FirstAttempt(d, n) == outcome[d][n] # "none" /\ n = 1

\* the attempt reconcile_stale gives up: the latest one still 'started'
LatestStarted(d, n) ==
    /\ outcome[d][n] = "started"
    /\ \A m \in AttemptNumber : outcome[d][m] = "started" => m <= n

ReconcileStale(S) ==
    /\ S # {} /\ Cardinality(S) <= BatchSize
    /\ \A d \in S : status[d] = "delivering" /\ lease_until[d] = "expired"
    /\ outcome' = [d \in Delivery |-> [n \in AttemptNumber |->
                      IF d \in S /\ LatestStarted(d, n) THEN "unknown" ELSE outcome[d][n]]]
    /\ active_delivery_count' = [e \in Endpoint |->
          Released(active_delivery_count[e], Cardinality({d \in S : Target[d] = e}))]
    /\ lease_until' = [d \in Delivery |-> IF d \in S THEN "none" ELSE lease_until[d]]
    /\ status' = [d \in Delivery |->
                    IF d \notin S THEN status[d]
                    ELSE IF attempt_count[d] < MaxAttempts THEN "retry_scheduled"
                         ELSE "dead_lettered"]
    /\ UNCHANGED <<attempt_count, open, outbox, dispatcher, ready, worker, faults>>

-----------------------------------------------------------------------------
(***************************************************************************)
(* The endpoint changes that matter to deliveries.                         *)
(***************************************************************************)

\* update with enabled=false on an active endpoint, and delete
StopEndpoint(e) ==
    /\ open' = open \ {e}
    /\ status' = [d \in Delivery |->
                    IF Target[d] = e /\ status[d] \in Waiting THEN "cancelled" ELSE status[d]]
    /\ UNCHANGED <<attempt_count, lease_until, outcome, active_delivery_count,
                   outbox, dispatcher, ready, worker, faults>>

\* update with another url: back to pending_verification, nothing cancelled
ChangeUrl(e) ==
    /\ open' = open \ {e}
    /\ UNCHANGED <<deliveryVars, active_delivery_count, outbox, dispatcher, ready, worker, faults>>

\* update with enabled=true, and the second transaction of verify
ReopenEndpoint(e) ==
    /\ open' = open \cup {e}
    /\ UNCHANGED <<deliveryVars, active_delivery_count, outbox, dispatcher, ready, worker, faults>>

-----------------------------------------------------------------------------
Accept ==
    \/ \E S \in SUBSET Delivery : Ingest(S)
    \/ \E source, d \in Delivery : Replay(source, d)

Dispatch(p) ==
    \/ \E S \in SUBSET outbox : ClaimOutbox(p, S)
    \/ \E r \in Row : Publish(p, r)
    \/ \E r \in Row : PublishFails(p, r)
    \/ FinishOutbox(p)
    \/ DispatcherStops(p)

Work(w) ==
    \/ \E d \in Delivery : Receive(w, d)
    \/ Claim(w)
    \/ ClaimRaises(w)
    \/ Respond(w)
    \/ Finalize(w)
    \/ TaskRaises(w)
    \/ Ack(w)
    \/ WorkerLost(w)

Schedule ==
    \/ \E S \in SUBSET Delivery : ScheduleDue(S)
    \/ \E S \in SUBSET Delivery : ReconcileStale(S)

Manage(e) == StopEndpoint(e) \/ ChangeUrl(e) \/ ReopenEndpoint(e)

Next ==
    \/ Accept
    \/ \E p \in Dispatcher : Dispatch(p)
    \/ \E w \in Worker : Work(w)
    \/ Schedule
    \/ \E d \in Delivery : LeaseExpires(d)
    \/ \E e \in Endpoint : Manage(e)

Spec == Init /\ [][Next]_vars

(***************************************************************************)
(* What keeps running. Dispatcher, scheduler and worker loops are restarted*)
(* by compose and never stop; a call ends after ten seconds; a lease ends. *)
(* Claims of rows and due deliveries go oldest first and the queue is      *)
(* first in, first out, so none of them is passed over for ever: strong    *)
(* fairness for each row, delivery and command. Nothing is assumed of      *)
(* producers, operators, endpoint changes or faults.                       *)
(***************************************************************************)
Fairness ==
    /\ \A r \in Row :
         /\ SF_vars(\E p \in Dispatcher, S \in SUBSET outbox : r \in S /\ ClaimOutbox(p, S))
         /\ \A p \in Dispatcher : SF_vars(Publish(p, r))
    /\ \A p \in Dispatcher : WF_vars(FinishOutbox(p))
    /\ \A d \in Delivery :
         /\ SF_vars(\E w \in Worker : Receive(w, d))
         /\ SF_vars(\E S \in SUBSET Delivery : d \in S /\ ScheduleDue(S))
         /\ WF_vars(\E S \in SUBSET Delivery : d \in S /\ ReconcileStale(S))
         /\ WF_vars(LeaseExpires(d))
    /\ \A w \in Worker : WF_vars(Claim(w)) /\ WF_vars(Respond(w))
                           /\ WF_vars(Finalize(w)) /\ WF_vars(Ack(w))

FairSpec == Spec /\ Fairness

-----------------------------------------------------------------------------
(***************************************************************************)
(* Properties.                                                             *)
(***************************************************************************)

InFlight(e) == {d \in Delivery : Target[d] = e /\ status[d] = "delivering"}

(***************************************************************************)
(* The slot counter of an endpoint, incremented by the claim and given     *)
(* back by whichever of finalize and the reconciler comes first, is        *)
(* exactly the number of its deliveries in 'delivering' and never above    *)
(* the capacity: no slot leaks and none is released twice, so max(0, ...)  *)
(* never hides anything.                                                   *)
(***************************************************************************)
SlotAccounting ==
    \A e \in Endpoint : /\ active_delivery_count[e] = Cardinality(InFlight(e))
                        /\ active_delivery_count[e] <= Capacity

(***************************************************************************)
(* The attempt rows tell the delivery's story: numbers 1..attempt_count    *)
(* exist, at most the last of them is open, it is open exactly while the   *)
(* delivery is 'delivering' under a lease, and only the last can have      *)
(* succeeded, which it has exactly when the delivery has.                  *)
(***************************************************************************)
AttemptHistory ==
    \A d \in Delivery :
        /\ \A n \in AttemptNumber : outcome[d][n] # "none" <=> n <= attempt_count[d]
        /\ \A n \in AttemptNumber :
              outcome[d][n] = "started" <=> (status[d] = "delivering" /\ n = attempt_count[d])
        /\ \A n \in AttemptNumber :
              outcome[d][n] = "succeeded" <=> (status[d] = "succeeded" /\ n = attempt_count[d])
        /\ status[d] \in {"delivering", "succeeded"} => attempt_count[d] > 0
        /\ status[d] = "absent" => attempt_count[d] = 0
        /\ lease_until[d] # "none" <=> status[d] = "delivering"

\* a delivery that can still be claimed has an attempt left, so a claim never
\* breaks the check constraint on attempt_count
AttemptBudget == \A d \in Delivery : status[d] \in Waiting => attempt_count[d] < MaxAttempts

(***************************************************************************)
(* A delivery that waits for a retry waits as long as documented, this     *)
(* time and every later time, whatever its receiver asks for and however   *)
(* the dice fall (retry_delay, parse_retry_after).                         *)
(***************************************************************************)
DelaysAsPromised ==
    \A d \in Delivery, r \in BrokenPromises :
        status[d] = "retry_scheduled" => r.failed < attempt_count[d]

(***************************************************************************)
(* Two workers never carry out the same attempt, however often the command *)
(* was published, redelivered or retried: a claim hands out each attempt   *)
(* number once.                                                            *)
(***************************************************************************)
InCall == {w \in Worker : worker[w].pc \in {"executing", "responded"}}
AttemptOwnership ==
    \A v, w \in InCall :
        worker[v].delivery = worker[w].delivery /\ worker[v].attempt = worker[w].attempt => v = w

(***************************************************************************)
(* A queued delivery can still be carried out: a row that will be          *)
(* published, a command in the queue, or a worker about to claim it. A row *)
(* whose message is confirmed and only waits to be marked does not count.  *)
(***************************************************************************)
PendingRows(d) ==
    {r \in outbox : r[1] = d /\ \A p \in Dispatcher : r \notin dispatcher[p].confirmed}
HasCommand(d) ==
    \/ PendingRows(d) # {}
    \/ ready[d] > 0
    \/ \E w \in Worker : worker[w].pc = "received" /\ worker[w].delivery = d
NoLostCommand == \A d \in Delivery : status[d] = "queued" => HasCommand(d)

(***************************************************************************)
(* README.md:177, "one endpoint permits at most three concurrent calls":   *)
(* the calls open at the same time, counted at the workers and not in the  *)
(* database, never exceed the capacity.                                    *)
(***************************************************************************)
CallsTo(e) == {w \in Worker : Calling(w) /\ Target[worker[w].delivery] = e}
ConcurrencyBound == \A e \in Endpoint : Cardinality(CallsTo(e)) <= Capacity

(***************************************************************************)
(* A settled delivery and an ended attempt are never reopened or rewritten *)
(* by a late worker, a duplicate command, the reconciler or the scheduler. *)
(***************************************************************************)
StaysFinal(d) ==
    /\ status[d] \in Terminal => status'[d] = status[d]
    /\ \A n \in AttemptNumber : outcome[d][n] \in Ended => outcome'[d][n] = outcome[d][n]
HistoryIsFinal == [][\A d \in Delivery : StaysFinal(d)]_vars

(***************************************************************************)
(* Every accepted delivery is settled in the end, through any finite       *)
(* number of crashes, lost connections and failed publishes.               *)
(***************************************************************************)
EventuallySettled ==
    \A d \in Delivery : status[d] # "absent" ~> status[d] \in Terminal

(***************************************************************************)
(* The inductive invariant. A worker past the claim holds an attempt that  *)
(* was handed out, so the next number handed out is new; that is what makes*)
(* AttemptOwnership inductive. AttemptBudget keeps the claim's new number  *)
(* within MaxAttempts, and AttemptHistory tells finalize and the reconciler*)
(* that an open attempt means an occupied slot.                            *)
(***************************************************************************)
WorkerHoldsAttempt ==
    \A w \in Worker :
        /\ worker[w].pc # "idle" => worker[w].delivery \in Delivery
        /\ w \in InCall => worker[w].attempt \in 1..attempt_count[worker[w].delivery]

PipelineInv ==
    /\ TypeOK
    /\ SlotAccounting
    /\ AttemptHistory
    /\ AttemptBudget
    /\ WorkerHoldsAttempt
    /\ AttemptOwnership

(***************************************************************************)
(* The pipeline implements the lifecycle a delivery is promised: 'queued'  *)
(* and 'retry_scheduled' are both waiting, and nothing else is visible.    *)
(***************************************************************************)
PhaseOf(s) == IF s \in Waiting THEN "waiting" ELSE s
Lifecycle == INSTANCE DeliveryLifecycle
                WITH phase <- [d \in Delivery |-> PhaseOf(status[d])],
                     used <- attempt_count
ImplementsLifecycle == Lifecycle!Spec

(***************************************************************************)
(* And it implements the transactions that RowLocks carries out lock by    *)
(* lock: what this module takes for one action is what those come to. The  *)
(* slot counter is not needed to say so, nor are leases and workers.       *)
(***************************************************************************)
Brief(s) == IF s \in Terminal THEN "settled" ELSE s
Attempt == Delivery \X AttemptNumber
Transactions == INSTANCE DeliveryTransactions
                   WITH Subject <- [a \in Attempt |-> a[1]],
                        status <- [d \in Delivery |-> Brief(status[d])],
                        started <- {a \in Attempt : outcome[a[1]][a[2]] = "started"}
ImplementsTransactions == Transactions!Spec

=============================================================================

----------------------- MODULE DeliveryPipeline_proofs -----------------------
(***************************************************************************)
(* Proofs about DeliveryPipeline for any number of deliveries, endpoints,  *)
(* workers and dispatchers and any limits.                                 *)
(***************************************************************************)
EXTENDS DeliveryPipeline, FiniteSetTheorems, TLAPS

\* what the proofs use of the constants
LEMMA ConstantTypes ==
    /\ IsFiniteSet(Delivery)
    /\ \A d \in Delivery : Target[d] \in Endpoint
    /\ NoDelivery \notin Delivery
    /\ Capacity \in Nat /\ Capacity > 0
    /\ MaxAttempts \in Nat /\ MaxAttempts > 0
    /\ MaxFaults \in Nat
BY PipelineAssumption DEF PipelineAssumption

(***************************************************************************)
(* Lemmas about the slot counter.                                          *)
(***************************************************************************)

\* the deliveries of an endpoint that are in flight are finitely many
LEMMA InFlightFinite ==
    ASSUME NEW e
    PROVE  IsFiniteSet(InFlight(e)) /\ Cardinality(InFlight(e)) \in Nat
<1>1. InFlight(e) \in SUBSET Delivery
  BY DEF InFlight
<1>. QED
  BY <1>1, ConstantTypes, FS_Subset, FS_CardinalityType

\* a step that moves no delivery into or out of 'delivering' keeps the count
LEMMA SlotsKept ==
    ASSUME SlotAccounting,
           active_delivery_count' = active_delivery_count,
           \A d \in Delivery : status'[d] = "delivering" <=> status[d] = "delivering"
    PROVE  SlotAccounting'
<1>1. ASSUME NEW e \in Endpoint
      PROVE  InFlight(e)' = InFlight(e)
  BY DEF InFlight
<1>. QED
  BY <1>1 DEF SlotAccounting

\* one delivery enters 'delivering': one more for its endpoint
LEMMA SlotTaken ==
    ASSUME TypeOK, SlotAccounting, NEW d \in Delivery,
           status[d] # "delivering",
           status' = [status EXCEPT ![d] = "delivering"],
           active_delivery_count[Target[d]] < Capacity,
           active_delivery_count' = [active_delivery_count EXCEPT ![Target[d]] = @ + 1]
    PROVE  SlotAccounting'
<1>. SUFFICES ASSUME NEW e \in Endpoint
              PROVE  /\ active_delivery_count'[e] = Cardinality(InFlight(e)')
                     /\ active_delivery_count'[e] <= Capacity
  BY DEF SlotAccounting
<1>0. Target[d] \in Endpoint /\ active_delivery_count[e] \in Nat /\ Capacity \in Nat
  BY ConstantTypes DEF TypeOK
<1>1. CASE e = Target[d]
  <2>1. InFlight(e)' = InFlight(e) \cup {d} /\ d \notin InFlight(e)
    BY <1>1 DEF InFlight, TypeOK
  <2>2. Cardinality(InFlight(e)') = Cardinality(InFlight(e)) + 1
    BY <2>1, InFlightFinite, FS_AddElement
  <2>. QED
    BY <1>0, <1>1, <2>2 DEF SlotAccounting, TypeOK
<1>2. CASE e # Target[d]
  <2>1. InFlight(e)' = InFlight(e)
    BY <1>2 DEF InFlight, TypeOK
  <2>. QED
    BY <1>0, <1>2, <2>1 DEF SlotAccounting, TypeOK
<1>. QED
  BY <1>1, <1>2

(***************************************************************************)
(* A set of deliveries leaves 'delivering' and each gives its slot back:   *)
(* there are that many to give back, so the lower bound of max is not met. *)
(***************************************************************************)
LEMMA SlotsReleased ==
    ASSUME TypeOK, SlotAccounting, NEW S \in SUBSET Delivery,
           \A d \in S : status[d] = "delivering" /\ status'[d] # "delivering",
           \A d \in Delivery \ S : status'[d] = status[d],
           NEW e \in Endpoint
    PROVE  /\ Released(active_delivery_count[e], Cardinality({d \in S : Target[d] = e}))
                = Cardinality(InFlight(e)')
           /\ Cardinality(InFlight(e)') <= Capacity
<1>. DEFINE Leaving == {d \in S : Target[d] = e}
<1>1. InFlight(e)' = InFlight(e) \ Leaving /\ InFlight(e) \cap Leaving = Leaving
  BY DEF InFlight
<1>2. Cardinality(InFlight(e)') = Cardinality(InFlight(e)) - Cardinality(Leaving)
  BY <1>1, InFlightFinite, FS_Difference
<1>3. Cardinality(Leaving) \in Nat /\ Cardinality(Leaving) <= Cardinality(InFlight(e))
  <2>1. Leaving \in SUBSET InFlight(e)
    BY <1>1
  <2>. QED
    BY <2>1, InFlightFinite, FS_Subset, FS_CardinalityType
<1>. QED
  BY <1>2, <1>3, InFlightFinite, ConstantTypes DEF SlotAccounting, Released, TypeOK

(***************************************************************************)
(* Three frames. Most steps leave part of what the invariant speaks about  *)
(* alone; these lemmas dispose of that part.                               *)
(***************************************************************************)

\* dispatcher steps and others that touch neither deliveries nor workers
LEMMA FrameIdle ==
    ASSUME PipelineInv, TypeOK', UNCHANGED <<deliveryVars, active_delivery_count, worker>>
    PROVE  PipelineInv'
<1>1. SlotAccounting'
  BY SlotsKept DEF PipelineInv, deliveryVars
<1>. QED
  BY <1>1 DEF PipelineInv, deliveryVars, AttemptHistory, AttemptBudget, WorkerHoldsAttempt,
              AttemptOwnership, InCall

\* a worker step that touches no delivery and begins no call
LEMMA FrameWorker ==
    ASSUME PipelineInv, TypeOK', UNCHANGED <<deliveryVars, active_delivery_count>>,
           NEW w \in Worker, NEW s \in WorkerState,
           worker' = [worker EXCEPT ![w] = s],
           s.pc # "idle" => s.delivery \in Delivery,
           s.pc \in {"executing", "responded"} =>
              /\ worker[w].pc \in {"executing", "responded"}
              /\ s.delivery = worker[w].delivery
              /\ s.attempt = worker[w].attempt
    PROVE  PipelineInv'
<1>1. SlotAccounting'
  BY SlotsKept DEF PipelineInv, deliveryVars
<1>2. AttemptHistory' /\ AttemptBudget'
  BY DEF PipelineInv, deliveryVars, AttemptHistory, AttemptBudget
<1>3. worker \in [Worker -> WorkerState]
  BY DEF PipelineInv, TypeOK
<1>4. WorkerHoldsAttempt'
  BY <1>3 DEF PipelineInv, deliveryVars, WorkerHoldsAttempt, InCall
<1>5. AttemptOwnership'
  BY <1>3 DEF PipelineInv, AttemptOwnership, InCall
<1>. QED
  BY <1>1, <1>2, <1>4, <1>5 DEF PipelineInv

(***************************************************************************)
(* Queueing: an accepted, replayed or due delivery enters 'queued'.        *)
(***************************************************************************)
LEMMA NewRowType ==
    ASSUME NEW d \in Delivery, FreeNumbers(d) # {}
    PROVE  NewRow(d) \in Row /\ NewRow(d)[1] = d /\ NewRow(d) \notin outbox \cup Remembered
BY DEF NewRow, FreeNumbers, Row

LEMMA EnqueueKeepsInv ==
    ASSUME PipelineInv, NEW S \in SUBSET Delivery, Enqueue(S),
           \A d \in S : status[d] \in {"absent", "retry_scheduled"} /\ attempt_count[d] < MaxAttempts,
           UNCHANGED <<attempt_count, lease_until, outcome, endpointVars,
                       dispatcher, ready, worker, faults>>
    PROVE  PipelineInv'
<1>1. TypeOK'
  <2>1. outbox' \subseteq Row
    BY NewRowType DEF PipelineInv, TypeOK, Enqueue
  <2>2. status' \in [Delivery -> Status]
    BY DEF PipelineInv, TypeOK, Enqueue, Status, Waiting
  <2>. QED
    BY <2>1, <2>2 DEF PipelineInv, TypeOK, endpointVars
<1>2. SlotAccounting'
  BY SlotsKept DEF PipelineInv, endpointVars, Enqueue
<1>3. AttemptHistory'
  BY DEF PipelineInv, Enqueue, AttemptHistory
<1>4. AttemptBudget'
  BY DEF PipelineInv, Enqueue, AttemptBudget
<1>5. WorkerHoldsAttempt' /\ AttemptOwnership'
  BY DEF PipelineInv, WorkerHoldsAttempt, AttemptOwnership, InCall
<1>. QED
  BY <1>1, <1>2, <1>3, <1>4, <1>5 DEF PipelineInv

LEMMA AcceptKeepsInv == PipelineInv /\ Accept => PipelineInv'
<1>1. ASSUME PipelineInv, NEW S \in SUBSET Delivery, Ingest(S)
      PROVE  PipelineInv'
  <2>1. \A d \in S : attempt_count[d] < MaxAttempts
    BY <1>1, ConstantTypes DEF Ingest, PipelineInv, AttemptHistory
  <2>. QED
    BY <1>1, <2>1, EnqueueKeepsInv DEF Ingest
<1>2. ASSUME PipelineInv, NEW source \in Delivery, NEW d \in Delivery, Replay(source, d)
      PROVE  PipelineInv'
  <2>1. attempt_count[d] < MaxAttempts
    BY <1>2, ConstantTypes DEF Replay, PipelineInv, AttemptHistory
  <2>. QED
    BY <1>2, <2>1, EnqueueKeepsInv DEF Replay
<1>. QED
  BY <1>1, <1>2 DEF Accept

(***************************************************************************)
(* The dispatcher reads and writes rows, its own memory and the queue.     *)
(***************************************************************************)
LEMMA DispatchKeepsInv ==
    ASSUME PipelineInv, NEW p \in Dispatcher, Dispatch(p)
    PROVE  PipelineInv'
<1>0. TypeOK
  BY DEF PipelineInv
<1>1. CASE \E S \in SUBSET outbox : ClaimOutbox(p, S)
  BY <1>0, <1>1, FrameIdle DEF ClaimOutbox, TypeOK, deliveryVars, endpointVars
<1>2. CASE \E r \in Row : Publish(p, r)
  <2>. PICK r \in Row : Publish(p, r)
    BY <1>2
  <2>1. r[1] \in Delivery
    BY DEF Row
  <2>2. ready' \in [Delivery -> Nat]
    BY <1>0, <2>1 DEF Publish, TypeOK
  <2>3. dispatcher' \in [Dispatcher -> [claimed : SUBSET Row, confirmed : SUBSET Row]]
    BY <1>0 DEF Publish, TypeOK
  <2>. QED
    BY <1>0, <2>2, <2>3, FrameIdle DEF Publish, TypeOK, deliveryVars, endpointVars
<1>3. CASE \E r \in Row : PublishFails(p, r)
  <2>. PICK r \in Row : PublishFails(p, r)
    BY <1>3
  <2>1. r[1] \in Delivery
    BY DEF Row
  <2>2. ready' \in [Delivery -> Nat]
    BY <1>0, <2>1 DEF PublishFails, TypeOK
  <2>3. dispatcher' \in [Dispatcher -> [claimed : SUBSET Row, confirmed : SUBSET Row]]
    BY <1>0 DEF PublishFails, TypeOK
  <2>4. faults' \in 0..MaxFaults
    BY <1>0, ConstantTypes DEF PublishFails, Fault, TypeOK
  <2>. QED
    BY <1>0, <2>2, <2>3, <2>4, FrameIdle DEF PublishFails, TypeOK, deliveryVars, endpointVars
<1>4. CASE FinishOutbox(p)
  BY <1>0, <1>4, FrameIdle DEF FinishOutbox, TypeOK, deliveryVars, endpointVars
<1>5. CASE DispatcherStops(p)
  <2>1. faults' \in 0..MaxFaults
    BY <1>0, <1>5, ConstantTypes DEF DispatcherStops, Fault, TypeOK
  <2>. QED
    BY <1>0, <1>5, <2>1, FrameIdle DEF DispatcherStops, NoBatch, TypeOK, deliveryVars, endpointVars
<1>. QED
  BY <1>1, <1>2, <1>3, <1>4, <1>5 DEF Dispatch

(***************************************************************************)
(* The worker's steps that change no delivery.                             *)
(***************************************************************************)
LEMMA CarryKeepsInv ==
    ASSUME PipelineInv, NEW w \in Worker,
           \/ \E d \in Delivery : Receive(w, d)
           \/ ClaimRaises(w) \/ Respond(w) \/ TaskRaises(w) \/ Ack(w) \/ WorkerLost(w)
    PROVE  PipelineInv'
<1>0. TypeOK /\ worker[w] \in WorkerState
  BY DEF PipelineInv, TypeOK
<1>1. Idle \in WorkerState /\ Idle.pc = "idle"
  BY ConstantTypes DEF Idle, WorkerState
<1>2. CASE \E d \in Delivery : Receive(w, d)
  <2>. PICK d \in Delivery : Receive(w, d)
    BY <1>2
  <2>1. Received(d) \in WorkerState /\ Received(d).pc = "received" /\ Received(d).delivery = d
    BY <1>1 DEF Received, Idle, WorkerState
  <2>2. ready' \in [Delivery -> Nat]
    <3>1. ready[d] \in Nat /\ ready[d] > 0
      BY <1>0 DEF Receive, TypeOK
    <3>2. ready[d] - 1 \in Nat
      BY <3>1
    <3>. QED
      BY <1>0, <3>2 DEF Receive, TypeOK
  <2>3. TypeOK'
    BY <1>0, <2>1, <2>2 DEF Receive, TypeOK, deliveryVars, endpointVars
  <2>. QED
    BY <2>1, <2>3, FrameWorker DEF Receive, endpointVars
<1>3. CASE ClaimRaises(w)
  <2>1. TypeOK'
    BY <1>0, <1>1, <1>3, ConstantTypes DEF ClaimRaises, Fault, TypeOK, deliveryVars, endpointVars
  <2>. QED
    BY <1>1, <1>3, <2>1, FrameWorker DEF ClaimRaises, endpointVars
<1>4. CASE Respond(w)
  <2>1. PICK result \in CallResult(StatusCode) :
          worker' = [worker EXCEPT ![w].pc = "responded", ![w].verdict = Verdict(result)]
    BY <1>4 DEF Respond
  <2>. DEFINE s == [worker[w] EXCEPT !.pc = "responded", !.verdict = Verdict(result)]
  <2>2. s \in WorkerState /\ s.pc = "responded" /\ s.delivery = worker[w].delivery
          /\ s.attempt = worker[w].attempt
    BY <1>0 DEF WorkerState, Verdict
  <2>3. worker' = [worker EXCEPT ![w] = s]
    BY <1>0, <2>1 DEF TypeOK
  <2>4. TypeOK'
    BY <1>0, <1>4, <2>2, <2>3 DEF Respond, TypeOK, deliveryVars, endpointVars
  <2>5. s.delivery \in Delivery
    BY <1>4, <2>2 DEF Respond, PipelineInv, WorkerHoldsAttempt
  <2>. QED
    BY <1>4, <2>2, <2>3, <2>4, <2>5, FrameWorker DEF Respond, endpointVars
<1>5. CASE TaskRaises(w)
  <2>1. TypeOK'
    BY <1>0, <1>1, <1>5, ConstantTypes DEF TaskRaises, Fault, TypeOK, deliveryVars, endpointVars
  <2>. QED
    BY <1>1, <1>5, <2>1, FrameWorker DEF TaskRaises, endpointVars
<1>6. CASE Ack(w)
  <2>1. TypeOK'
    BY <1>0, <1>1, <1>6 DEF Ack, TypeOK, deliveryVars, endpointVars
  <2>. QED
    BY <1>1, <1>6, <2>1, FrameWorker DEF Ack, endpointVars
<1>7. CASE WorkerLost(w)
  <2>1. worker[w].delivery \in Delivery
    BY <1>7 DEF WorkerLost, PipelineInv, WorkerHoldsAttempt
  <2>2. ready' \in [Delivery -> Nat]
    BY <1>0, <1>7, <2>1 DEF WorkerLost, TypeOK
  <2>3. TypeOK'
    BY <1>0, <1>1, <1>7, <2>2, ConstantTypes
       DEF WorkerLost, Fault, TypeOK, deliveryVars, endpointVars
  <2>. QED
    BY <1>1, <1>7, <2>3, FrameWorker DEF WorkerLost, endpointVars
<1>. QED
  BY <1>2, <1>3, <1>4, <1>5, <1>6, <1>7

(***************************************************************************)
(* Claiming.                                                               *)
(***************************************************************************)

\* waiting deliveries are cancelled or put off, no attempt is touched
LEMMA WaitingMoves ==
    ASSUME PipelineInv,
           UNCHANGED <<attempt_count, lease_until, outcome, active_delivery_count>>,
           \A d \in Delivery : \/ status'[d] = status[d]
                               \/ /\ status[d] \in Waiting
                                  /\ status'[d] \in {"cancelled", "retry_scheduled"}
    PROVE  SlotAccounting' /\ AttemptHistory' /\ AttemptBudget'
<1>1. SlotAccounting'
  BY SlotsKept DEF PipelineInv, Waiting
<1>2. AttemptHistory'
  BY DEF PipelineInv, AttemptHistory, Waiting
<1>3. AttemptBudget'
  BY DEF PipelineInv, AttemptBudget, Waiting
<1>. QED
  BY <1>1, <1>2, <1>3

\* a worker that makes no call holds no attempt
LEMMA NoCallHoldsNothing ==
    ASSUME PipelineInv, TypeOK', NEW w \in Worker, worker[w].pc \in {"received", "responded"},
           NoCall(w),
           \A d \in Delivery : attempt_count'[d] >= attempt_count[d]
    PROVE  WorkerHoldsAttempt' /\ AttemptOwnership'
<1>1. /\ worker \in [Worker -> WorkerState] /\ worker' \in [Worker -> WorkerState]
      /\ attempt_count \in [Delivery -> 0..MaxAttempts]
      /\ attempt_count' \in [Delivery -> 0..MaxAttempts]
  BY DEF PipelineInv, TypeOK
<1>2. \A v \in Worker : v # w => worker'[v] = worker[v]
  BY <1>1 DEF NoCall
<1>3. worker'[w].pc = "done" /\ worker'[w].delivery = worker[w].delivery
  BY <1>1 DEF NoCall, WorkerState
<1>4. WorkerHoldsAttempt'
  <2>. SUFFICES ASSUME NEW v \in Worker
                PROVE  /\ worker'[v].pc # "idle" => worker'[v].delivery \in Delivery
                       /\ worker'[v].pc \in {"executing", "responded"} =>
                             worker'[v].attempt \in 1..attempt_count'[worker'[v].delivery]
    BY DEF WorkerHoldsAttempt, InCall
  <2>1. /\ worker[v].pc # "idle" => worker[v].delivery \in Delivery
        /\ worker[v].pc \in {"executing", "responded"} =>
             worker[v].attempt \in 1..attempt_count[worker[v].delivery]
    BY DEF PipelineInv, WorkerHoldsAttempt, InCall
  <2>2. CASE v = w
    BY <1>3, <2>1, <2>2
  <2>3. CASE v # w
    <3>1. worker'[v] = worker[v]
      BY <1>2, <2>3
    <3>2. ASSUME worker[v].pc \in {"executing", "responded"}
          PROVE  worker[v].attempt \in 1..attempt_count'[worker[v].delivery]
      <4>1. worker[v].delivery \in Delivery
        BY <2>1, <3>2
      <4>2. attempt_count'[worker[v].delivery] >= attempt_count[worker[v].delivery]
        BY <4>1
      <4>3. /\ attempt_count'[worker[v].delivery] \in Int
            /\ attempt_count[worker[v].delivery] \in Int
        BY <1>1, <4>1, ConstantTypes
      <4>. QED
        BY <2>1, <3>2, <4>2, <4>3
    <3>. QED
      BY <2>1, <3>1, <3>2
  <2>. QED
    BY <2>2, <2>3
<1>5. AttemptOwnership'
  BY <1>2, <1>3 DEF PipelineInv, AttemptOwnership, InCall
<1>. QED
  BY <1>4, <1>5

\* the type of the worker after NoCall
LEMMA NoCallType ==
    ASSUME worker \in [Worker -> WorkerState], NEW w \in Worker, NoCall(w)
    PROVE  worker' \in [Worker -> WorkerState]
BY DEF NoCall, WorkerState

\* the claim may use the next attempt number: there is one
LEMMA NextAttempt ==
    ASSUME PipelineInv, NEW d \in Delivery, status[d] = "queued"
    PROVE  /\ attempt_count[d] + 1 \in AttemptNumber
           /\ attempt_count[d] \in Nat
           /\ \A n \in AttemptNumber : n <= attempt_count[d] + 1 <=>
                                         (n <= attempt_count[d] \/ n = attempt_count[d] + 1)
BY ConstantTypes DEF PipelineInv, TypeOK, AttemptBudget, Waiting, AttemptNumber

LEMMA ClaimWithoutSecretKeepsInv ==
    ASSUME PipelineInv, NEW w \in Worker, NEW d \in Delivery, worker[w].pc = "received",
           ClaimWithoutSecret(w, d), UNCHANGED <<outbox, dispatcher, ready, faults>>
    PROVE  PipelineInv'
<1>. DEFINE k == attempt_count[d] + 1
<1>0. TypeOK /\ AttemptHistory /\ AttemptBudget
  BY DEF PipelineInv
<1>1. /\ k \in AttemptNumber /\ k \in 0..MaxAttempts /\ attempt_count[d] \in Nat
      /\ \A n \in AttemptNumber : n <= k <=> (n <= attempt_count[d] \/ n = k)
  BY NextAttempt, ConstantTypes DEF ClaimWithoutSecret, AttemptNumber
<1>2. TypeOK'
  <2>1. outcome' \in [Delivery -> [AttemptNumber -> Outcome]]
    BY <1>0, <1>1 DEF ClaimWithoutSecret, TypeOK, Outcome, Ended
  <2>2. attempt_count' \in [Delivery -> 0..MaxAttempts] /\ status' \in [Delivery -> Status]
    BY <1>0, <1>1 DEF ClaimWithoutSecret, TypeOK, Status, Terminal
  <2>3. worker' \in [Worker -> WorkerState]
    BY <1>0, NoCallType DEF ClaimWithoutSecret, TypeOK
  <2>. QED
    BY <1>0, <2>1, <2>2, <2>3 DEF ClaimWithoutSecret, TypeOK, endpointVars
<1>3. SlotAccounting'
  BY <1>0, SlotsKept DEF PipelineInv, ClaimWithoutSecret, endpointVars, TypeOK
<1>4. /\ \A c \in Delivery \ {d} : /\ status'[c] = status[c]
                                   /\ attempt_count'[c] = attempt_count[c]
                                   /\ outcome'[c] = outcome[c]
      /\ lease_until' = lease_until
      /\ status'[d] = "dead_lettered" /\ attempt_count'[d] = k
      /\ \A n \in AttemptNumber : outcome'[d][n] = IF n = k THEN "failed" ELSE outcome[d][n]
  BY <1>0, <1>1 DEF ClaimWithoutSecret, TypeOK
<1>5. AttemptHistory'
  BY <1>0, <1>1, <1>4 DEF AttemptHistory, ClaimWithoutSecret
<1>6. AttemptBudget'
  BY <1>0, <1>4 DEF AttemptBudget, Waiting
<1>7. WorkerHoldsAttempt' /\ AttemptOwnership'
  <2>1. \A c \in Delivery : attempt_count'[c] >= attempt_count[c]
    BY <1>0, <1>1, <1>4, ConstantTypes DEF TypeOK
  <2>. QED
    BY <1>2, <2>1, NoCallHoldsNothing DEF ClaimWithoutSecret
<1>. QED
  BY <1>2, <1>3, <1>5, <1>6, <1>7 DEF PipelineInv

LEMMA ClaimStartsKeepsInv ==
    ASSUME PipelineInv, NEW w \in Worker, NEW d \in Delivery, worker[w].pc = "received",
           worker[w].delivery = d,
           ClaimStarts(w, d), UNCHANGED <<outbox, dispatcher, ready, faults>>
    PROVE  PipelineInv'
<1>. DEFINE k == attempt_count[d] + 1
<1>0. TypeOK /\ AttemptHistory /\ AttemptBudget /\ SlotAccounting
  BY DEF PipelineInv
<1>1. /\ k \in AttemptNumber /\ k \in 0..MaxAttempts /\ attempt_count[d] \in Nat
      /\ \A n \in AttemptNumber : n <= k <=> (n <= attempt_count[d] \/ n = k)
  BY NextAttempt, ConstantTypes DEF ClaimStarts, AttemptNumber
<1>2. /\ worker' \in [Worker -> WorkerState]
      /\ worker'[w].pc = "executing" /\ worker'[w].delivery = d /\ worker'[w].attempt = k
      /\ \A v \in Worker : v # w => worker'[v] = worker[v]
  BY <1>0, <1>1 DEF ClaimStarts, TypeOK, WorkerState
<1>3. TypeOK'
  <2>1. outcome' \in [Delivery -> [AttemptNumber -> Outcome]]
    BY <1>0, <1>1 DEF ClaimStarts, TypeOK, Outcome
  <2>2. attempt_count' \in [Delivery -> 0..MaxAttempts] /\ status' \in [Delivery -> Status]
          /\ lease_until' \in [Delivery -> {"none", "live", "expired"}]
    BY <1>0, <1>1 DEF ClaimStarts, TypeOK, Status
  <2>3. active_delivery_count' \in [Endpoint -> 0..Capacity]
    BY <1>0, ConstantTypes DEF ClaimStarts, HasSlot, TypeOK
  <2>. QED
    BY <1>0, <1>2, <2>1, <2>2, <2>3 DEF ClaimStarts, TypeOK
<1>4. SlotAccounting'
  BY <1>0, SlotTaken DEF ClaimStarts, HasSlot
<1>5. /\ \A c \in Delivery \ {d} : /\ status'[c] = status[c]
                                   /\ attempt_count'[c] = attempt_count[c]
                                   /\ outcome'[c] = outcome[c]
                                   /\ lease_until'[c] = lease_until[c]
      /\ status'[d] = "delivering" /\ attempt_count'[d] = k /\ lease_until'[d] = "live"
      /\ \A n \in AttemptNumber : outcome'[d][n] = IF n = k THEN "started" ELSE outcome[d][n]
  BY <1>0, <1>1 DEF ClaimStarts, TypeOK
<1>6. AttemptHistory'
  <2>1. status[d] = "queued"
    BY DEF ClaimStarts
  <2>. QED
    BY <1>0, <1>1, <1>5, <2>1 DEF AttemptHistory
<1>7. AttemptBudget'
  BY <1>0, <1>5 DEF AttemptBudget, Waiting
<1>8. WorkerHoldsAttempt'
  <2>. SUFFICES ASSUME NEW v \in Worker
                PROVE  /\ worker'[v].pc # "idle" => worker'[v].delivery \in Delivery
                       /\ worker'[v].pc \in {"executing", "responded"} =>
                             worker'[v].attempt \in 1..attempt_count'[worker'[v].delivery]
    BY DEF WorkerHoldsAttempt, InCall
  <2>1. CASE v = w
    BY <1>1, <1>2, <1>5, <2>1 DEF AttemptNumber
  <2>2. CASE v # w
    BY <1>1, <1>2, <1>5, <2>2 DEF PipelineInv, WorkerHoldsAttempt, InCall
  <2>. QED
    BY <2>1, <2>2
<1>9. AttemptOwnership'
  \* the number k is above every attempt of d a worker holds
  <2>1. \A v \in InCall : worker[v].delivery = d => worker[v].attempt # k
    BY <1>1 DEF PipelineInv, WorkerHoldsAttempt, InCall
  <2>2. \A v \in InCall' : v # w => v \in InCall
    BY <1>2 DEF InCall
  <2>3. AttemptOwnership
    BY DEF PipelineInv
  <2>. QED
    BY <1>2, <2>1, <2>2, <2>3 DEF AttemptOwnership, InCall
<1>. QED
  BY <1>3, <1>4, <1>6, <1>7, <1>8, <1>9 DEF PipelineInv

LEMMA ClaimKeepsInv ==
    ASSUME PipelineInv, NEW w \in Worker, Claim(w)
    PROVE  PipelineInv'
<1>. DEFINE d == worker[w].delivery
<1>0. TypeOK /\ worker[w].pc = "received" /\ d \in Delivery
  BY DEF PipelineInv, WorkerHoldsAttempt, Claim
<1>1. UNCHANGED <<outbox, dispatcher, ready, faults>>
  BY DEF Claim
<1>2. ASSUME NoCall(w), UNCHANGED <<attempt_count, lease_until, outcome, endpointVars>>,
             \/ status' = status
             \/ /\ status[d] = "queued"
                /\ \E to \in {"cancelled", "retry_scheduled"} : status' = [status EXCEPT ![d] = to]
      PROVE  PipelineInv'
  <2>1. \A c \in Delivery : \/ status'[c] = status[c]
                            \/ /\ status[c] \in Waiting
                               /\ status'[c] \in {"cancelled", "retry_scheduled"}
    BY <1>0, <1>2 DEF TypeOK, Waiting
  <2>2. SlotAccounting' /\ AttemptHistory' /\ AttemptBudget'
    BY <1>2, <2>1, WaitingMoves DEF endpointVars
  <2>3. TypeOK'
    <3>1. status' \in [Delivery -> Status]
      BY <1>0, <1>2 DEF TypeOK, Status, Waiting, Terminal
    <3>2. worker' \in [Worker -> WorkerState]
      BY <1>0, <1>2, NoCallType DEF TypeOK
    <3>. QED
      BY <1>0, <1>1, <1>2, <3>1, <3>2 DEF TypeOK, endpointVars
  <2>4. \A c \in Delivery : attempt_count'[c] >= attempt_count[c]
    BY <1>0, <1>2, ConstantTypes DEF TypeOK
  <2>5. WorkerHoldsAttempt' /\ AttemptOwnership'
    BY <1>0, <1>2, <2>3, <2>4, NoCallHoldsNothing
  <2>. QED
    BY <2>2, <2>3, <2>5 DEF PipelineInv
<1>3. CASE ClaimIgnored(w, d)
  BY <1>2, <1>3 DEF ClaimIgnored, deliveryVars
<1>4. CASE ClaimCancels(w, d)
  BY <1>2, <1>4 DEF ClaimCancels
<1>5. CASE ClaimDefers(w, d)
  BY <1>2, <1>5 DEF ClaimDefers
<1>6. CASE ClaimWithoutSecret(w, d)
  BY <1>0, <1>1, <1>6, ClaimWithoutSecretKeepsInv
<1>7. CASE ClaimStarts(w, d)
  BY <1>0, <1>1, <1>7, ClaimStartsKeepsInv
<1>. QED
  BY <1>3, <1>4, <1>5, <1>6, <1>7 DEF Claim

(***************************************************************************)
(* Finalizing. An attempt that is still 'started' belongs to a delivery in *)
(* 'delivering' and is its last one, so exactly one slot is given back.    *)
(***************************************************************************)
LEMMA FinalizeKeepsInv ==
    ASSUME PipelineInv, NEW w \in Worker, Finalize(w)
    PROVE  PipelineInv'
<1>. DEFINE d == worker[w].delivery
            k == worker[w].attempt
            v == worker[w].verdict
<1>0. /\ TypeOK /\ AttemptHistory /\ AttemptBudget /\ SlotAccounting
      /\ worker[w].pc = "responded" /\ d \in Delivery /\ k \in 1..attempt_count[d]
      /\ attempt_count[d] \in 0..MaxAttempts
      /\ NoCall(w) /\ UNCHANGED <<outbox, dispatcher, ready, faults>>
  BY DEF PipelineInv, WorkerHoldsAttempt, InCall, Finalize, NoCall, TypeOK
<1>1. worker' \in [Worker -> WorkerState]
  BY <1>0, NoCallType DEF TypeOK
<1>2. CASE outcome[d][k] # "started" /\ UNCHANGED <<deliveryVars, endpointVars>>
  <2>1. TypeOK'
    BY <1>0, <1>1, <1>2 DEF TypeOK, deliveryVars, endpointVars
  <2>2. SlotAccounting' /\ AttemptHistory' /\ AttemptBudget'
    BY <1>2, WaitingMoves DEF deliveryVars, endpointVars
  <2>3. \A c \in Delivery : attempt_count'[c] >= attempt_count[c]
    BY <1>0, <1>2, ConstantTypes DEF TypeOK, deliveryVars
  <2>. QED
    BY <1>0, <2>1, <2>2, <2>3, NoCallHoldsNothing DEF PipelineInv
<1>3. CASE outcome[d][k] = "started"
  <2>. DEFINE o == IF v = "success" THEN "succeeded" ELSE "failed"
  <2>1. /\ status' = [status EXCEPT ![d] = Settled(d, v)]
        /\ outcome' = [outcome EXCEPT ![d][k] = o]
        /\ lease_until' = [lease_until EXCEPT ![d] = "none"]
        /\ active_delivery_count' = [active_delivery_count EXCEPT ![Target[d]] = Released(@, 1)]
        /\ UNCHANGED <<attempt_count, open>>
    BY <1>3 DEF Finalize, StillOpen
  <2>2. k \in AttemptNumber
    BY <1>0, ConstantTypes DEF AttemptNumber
  <2>3. status[d] = "delivering" /\ k = attempt_count[d]
    BY <1>0, <1>3, <2>2 DEF AttemptHistory
  <2>4. /\ Settled(d, v) \in {"succeeded", "retry_scheduled", "dead_lettered"}
        /\ Settled(d, v) = "succeeded" <=> v = "success"
        /\ Settled(d, v) = "retry_scheduled" => attempt_count[d] < MaxAttempts
    BY DEF Settled
  <2>5. /\ \A c \in Delivery \ {d} : /\ status'[c] = status[c]
                                     /\ outcome'[c] = outcome[c]
                                     /\ lease_until'[c] = lease_until[c]
        /\ status'[d] = Settled(d, v) /\ lease_until'[d] = "none"
        /\ \A n \in AttemptNumber : outcome'[d][n] = IF n = k THEN o ELSE outcome[d][n]
    BY <1>0, <2>1, <2>2 DEF TypeOK
  <2>6. SlotAccounting'
    <3>. SUFFICES ASSUME NEW e \in Endpoint
                  PROVE  active_delivery_count'[e] = Cardinality(InFlight(e)')
                           /\ active_delivery_count'[e] <= Capacity
      BY DEF SlotAccounting
    <3>. DEFINE Leaving == {c \in {d} : Target[c] = e}
    <3>1. /\ Released(active_delivery_count[e], Cardinality(Leaving)) = Cardinality(InFlight(e)')
          /\ Cardinality(InFlight(e)') <= Capacity
      <4>1. {d} \in SUBSET Delivery
        BY <1>0
      <4>2. \A c \in {d} : status[c] = "delivering" /\ status'[c] # "delivering"
        BY <2>3, <2>4, <2>5
      <4>3. \A c \in Delivery \ {d} : status'[c] = status[c]
        BY <2>5
      <4>. HIDE DEF d
      <4>. QED
        BY <1>0, <4>1, <4>2, <4>3, SlotsReleased
    <3>2. active_delivery_count'[e] = Released(active_delivery_count[e], Cardinality(Leaving))
      <4>1. active_delivery_count[e] \in Nat
        BY <1>0, ConstantTypes DEF TypeOK
      <4>2. CASE e = Target[d]
        <5>1. Leaving = {d}
          BY <4>2
        <5>2. Cardinality(Leaving) = 1
          BY <5>1, FS_Singleton
        <5>. QED
          BY <1>0, <2>1, <4>2, <5>2 DEF TypeOK
      <4>3. CASE e # Target[d]
        <5>1. Leaving = {}
          BY <4>3
        <5>2. Cardinality(Leaving) = 0
          BY <5>1, FS_EmptySet
        <5>. QED
          BY <1>0, <2>1, <4>1, <4>3, <5>2 DEF TypeOK, Released
      <4>. QED
        BY <4>2, <4>3
    <3>. QED
      BY <3>1, <3>2
  <2>7. TypeOK'
    <3>1. status' \in [Delivery -> Status] /\ lease_until' \in [Delivery -> {"none", "live", "expired"}]
      BY <1>0, <2>1, <2>4 DEF TypeOK, Status, Waiting, Terminal
    <3>2. outcome' \in [Delivery -> [AttemptNumber -> Outcome]]
      BY <1>0, <2>1 DEF TypeOK, Outcome, Ended
    <3>3. active_delivery_count' \in [Endpoint -> 0..Capacity]
      BY <1>0, <2>1, ConstantTypes DEF TypeOK, Released
    <3>. QED
      BY <1>0, <1>1, <2>1, <3>1, <3>2, <3>3 DEF TypeOK
  <2>8. AttemptHistory'
    BY <1>0, <2>1, <2>2, <2>3, <2>4, <2>5, ConstantTypes DEF AttemptHistory
  <2>9. AttemptBudget'
    BY <1>0, <2>1, <2>4, <2>5 DEF AttemptBudget, Waiting
  <2>10. \A c \in Delivery : attempt_count'[c] >= attempt_count[c]
    BY <1>0, <2>1, ConstantTypes DEF TypeOK
  <2>. QED
    BY <1>0, <2>6, <2>7, <2>8, <2>9, <2>10, NoCallHoldsNothing DEF PipelineInv
<1>. QED
  BY <1>2, <1>3 DEF Finalize, StillOpen

(***************************************************************************)
(* The scheduler, the passing of a lease and the endpoint changes.         *)
(***************************************************************************)
LEMMA ScheduleDueKeepsInv ==
    ASSUME PipelineInv, NEW S \in SUBSET Delivery, ScheduleDue(S)
    PROVE  PipelineInv'
<1>1. \A d \in S : attempt_count[d] < MaxAttempts
  BY DEF ScheduleDue, PipelineInv, AttemptBudget, Waiting
<1>. QED
  BY <1>1, EnqueueKeepsInv DEF ScheduleDue

LEMMA ReconcileKeepsInv ==
    ASSUME PipelineInv, NEW S \in SUBSET Delivery, ReconcileStale(S)
    PROVE  PipelineInv'
<1>0. TypeOK /\ AttemptHistory /\ AttemptBudget /\ SlotAccounting
  BY DEF PipelineInv
<1>1. \A d \in S : /\ status[d] = "delivering"
                   /\ status'[d] = IF attempt_count[d] < MaxAttempts THEN "retry_scheduled"
                                                                     ELSE "dead_lettered"
                   /\ lease_until'[d] = "none"
  BY DEF ReconcileStale
<1>2. \A d \in Delivery \ S : status'[d] = status[d] /\ lease_until'[d] = lease_until[d]
  BY DEF ReconcileStale
\* the attempt given up is the last one
<1>3. \A d \in S : \A n \in AttemptNumber :
         outcome'[d][n] = IF n = attempt_count[d] THEN "unknown" ELSE outcome[d][n]
  BY <1>0, <1>1, ConstantTypes
     DEF ReconcileStale, AttemptHistory, LatestStarted, AttemptNumber, TypeOK
<1>4. \A d \in Delivery \ S : \A n \in AttemptNumber : outcome'[d][n] = outcome[d][n]
  BY DEF ReconcileStale
<1>5. SlotAccounting'
  <2>. SUFFICES ASSUME NEW e \in Endpoint
                PROVE  /\ active_delivery_count'[e] = Cardinality(InFlight(e)')
                       /\ active_delivery_count'[e] <= Capacity
    BY DEF SlotAccounting
  <2>1. active_delivery_count'[e] =
          Released(active_delivery_count[e], Cardinality({d \in S : Target[d] = e}))
    BY DEF ReconcileStale
  <2>2. \A d \in S : status[d] = "delivering" /\ status'[d] # "delivering"
    BY <1>1
  <2>. QED
    BY <1>0, <1>2, <2>1, <2>2, SlotsReleased
<1>6. TypeOK'
  <2>1. outcome' \in [Delivery -> [AttemptNumber -> Outcome]]
    BY <1>0 DEF ReconcileStale, TypeOK, Outcome, Ended
  <2>2. status' \in [Delivery -> Status] /\ lease_until' \in [Delivery -> {"none", "live", "expired"}]
    BY <1>0 DEF ReconcileStale, TypeOK, Status, Waiting, Terminal
  <2>3. active_delivery_count' \in [Endpoint -> 0..Capacity]
    <3>1. \A e \in Endpoint : Cardinality(InFlight(e)') \in Nat
      <4>. SUFFICES ASSUME NEW e \in Endpoint
                    PROVE  Cardinality(InFlight(e)') \in Nat
        OBVIOUS
      <4>1. InFlight(e)' \in SUBSET Delivery
        BY DEF InFlight
      <4>. QED
        BY <4>1, ConstantTypes, FS_Subset, FS_CardinalityType
    <3>2. \A e \in Endpoint : active_delivery_count'[e] \in 0..Capacity
      BY <1>5, <3>1, ConstantTypes DEF SlotAccounting
    <3>. QED
      BY <3>2 DEF ReconcileStale
  <2>. QED
    BY <1>0, <2>1, <2>2, <2>3 DEF ReconcileStale, TypeOK
<1>7. AttemptHistory'
  <2>. SUFFICES ASSUME NEW d \in Delivery
                PROVE  (/\ \A n \in AttemptNumber : outcome[d][n] # "none" <=> n <= attempt_count[d]
                        /\ \A n \in AttemptNumber :
                              outcome[d][n] = "started" <=>
                                 (status[d] = "delivering" /\ n = attempt_count[d])
                        /\ \A n \in AttemptNumber :
                              outcome[d][n] = "succeeded" <=>
                                 (status[d] = "succeeded" /\ n = attempt_count[d])
                        /\ status[d] \in {"delivering", "succeeded"} => attempt_count[d] > 0
                        /\ status[d] = "absent" => attempt_count[d] = 0
                        /\ lease_until[d] # "none" <=> status[d] = "delivering")'
    BY DEF AttemptHistory
  <2>0. attempt_count' = attempt_count /\ attempt_count[d] \in 0..MaxAttempts
    BY <1>0 DEF ReconcileStale, TypeOK
  <2>1. CASE d \in S
    BY <1>0, <1>1, <1>3, <2>0, <2>1, ConstantTypes DEF AttemptHistory, AttemptNumber
  <2>2. CASE d \notin S
    BY <1>0, <1>2, <1>4, <2>0, <2>2 DEF AttemptHistory
  <2>. QED
    BY <2>1, <2>2
<1>8. AttemptBudget'
  BY <1>0, <1>1, <1>2 DEF AttemptBudget, ReconcileStale, Waiting
<1>9. WorkerHoldsAttempt' /\ AttemptOwnership'
  BY DEF PipelineInv, ReconcileStale, WorkerHoldsAttempt, AttemptOwnership, InCall
<1>. QED
  BY <1>5, <1>6, <1>7, <1>8, <1>9 DEF PipelineInv

LEMMA LeaseKeepsInv ==
    ASSUME PipelineInv, NEW d \in Delivery, LeaseExpires(d)
    PROVE  PipelineInv'
<1>0. TypeOK
  BY DEF PipelineInv
<1>1. TypeOK'
  BY <1>0 DEF LeaseExpires, TypeOK, endpointVars
<1>2. SlotAccounting'
  BY SlotsKept DEF PipelineInv, LeaseExpires, endpointVars
<1>3. AttemptHistory' /\ AttemptBudget'
  BY <1>0 DEF PipelineInv, LeaseExpires, AttemptHistory, AttemptBudget, TypeOK
<1>4. WorkerHoldsAttempt' /\ AttemptOwnership'
  BY DEF PipelineInv, LeaseExpires, WorkerHoldsAttempt, AttemptOwnership, InCall
<1>. QED
  BY <1>1, <1>2, <1>3, <1>4 DEF PipelineInv

LEMMA ManageKeepsInv ==
    ASSUME PipelineInv, NEW e \in Endpoint, Manage(e)
    PROVE  PipelineInv'
<1>0. TypeOK
  BY DEF PipelineInv
<1>1. CASE StopEndpoint(e)
  <2>1. TypeOK'
    BY <1>0, <1>1 DEF StopEndpoint, TypeOK, Status, Terminal
  <2>2. \A d \in Delivery : \/ status'[d] = status[d]
                            \/ /\ status[d] \in Waiting
                               /\ status'[d] \in {"cancelled", "retry_scheduled"}
    BY <1>1 DEF StopEndpoint
  <2>3. SlotAccounting' /\ AttemptHistory' /\ AttemptBudget'
    BY <1>1, <2>2, WaitingMoves DEF StopEndpoint
  <2>4. WorkerHoldsAttempt' /\ AttemptOwnership'
    BY <1>1 DEF StopEndpoint, PipelineInv, WorkerHoldsAttempt, AttemptOwnership, InCall
  <2>. QED
    BY <2>1, <2>3, <2>4 DEF PipelineInv
<1>2. CASE ChangeUrl(e)
  <2>1. TypeOK'
    BY <1>0, <1>2 DEF ChangeUrl, TypeOK, deliveryVars
  <2>. QED
    BY <1>2, <2>1, FrameIdle DEF ChangeUrl
<1>3. CASE ReopenEndpoint(e)
  <2>1. TypeOK'
    BY <1>0, <1>3 DEF ReopenEndpoint, TypeOK, deliveryVars
  <2>. QED
    BY <1>3, <2>1, FrameIdle DEF ReopenEndpoint
<1>. QED
  BY <1>1, <1>2, <1>3 DEF Manage

-----------------------------------------------------------------------------
(***************************************************************************)
(* The invariant holds initially and every step keeps it.                  *)
(***************************************************************************)
LEMMA InitHasInv == Init => PipelineInv
<1>. SUFFICES ASSUME Init PROVE PipelineInv
  OBVIOUS
<1>1. TypeOK
  BY ConstantTypes
     DEF Init, TypeOK, Status, Outcome, NoBatch, Idle, WorkerState, Row
<1>2. SlotAccounting
  <2>1. \A e \in Endpoint : InFlight(e) = {}
    BY DEF Init, InFlight
  <2>2. Cardinality({}) = 0
    BY FS_EmptySet
  <2>3. \A e \in Endpoint : Cardinality(InFlight(e)) = 0
    BY <2>1, <2>2
  <2>4. \A e \in Endpoint : active_delivery_count[e] = 0
    BY DEF Init
  <2>. QED
    BY <2>3, <2>4, ConstantTypes DEF SlotAccounting
<1>3. AttemptHistory
  BY DEF Init, AttemptHistory, AttemptNumber
<1>4. AttemptBudget /\ WorkerHoldsAttempt /\ AttemptOwnership
  BY DEF Init, AttemptBudget, Waiting, WorkerHoldsAttempt, AttemptOwnership, InCall, Idle
<1>. QED
  BY <1>1, <1>2, <1>3, <1>4 DEF PipelineInv

LEMMA StepKeepsInv == PipelineInv /\ [Next]_vars => PipelineInv'
<1>. SUFFICES ASSUME PipelineInv, [Next]_vars PROVE PipelineInv'
  OBVIOUS
<1>1. CASE Accept
  BY <1>1, AcceptKeepsInv
<1>2. CASE \E p \in Dispatcher : Dispatch(p)
  BY <1>2, DispatchKeepsInv
<1>3. CASE \E w \in Worker : Work(w)
  BY <1>3, CarryKeepsInv, ClaimKeepsInv, FinalizeKeepsInv DEF Work
<1>4. CASE Schedule
  BY <1>4, ScheduleDueKeepsInv, ReconcileKeepsInv DEF Schedule
<1>5. CASE \E d \in Delivery : LeaseExpires(d)
  BY <1>5, LeaseKeepsInv
<1>6. CASE \E e \in Endpoint : Manage(e)
  BY <1>6, ManageKeepsInv
<1>7. CASE UNCHANGED vars
  <2>1. TypeOK'
    BY <1>7 DEF PipelineInv, TypeOK, vars, deliveryVars, endpointVars
  <2>. QED
    BY <1>7, <2>1, FrameIdle DEF vars, endpointVars
<1>. QED
  BY <1>1, <1>2, <1>3, <1>4, <1>5, <1>6, <1>7 DEF Next

\* The inductive invariant holds in every behaviour, whatever may fail.
THEOREM PipelineIsConsistent == Spec => []PipelineInv
BY InitHasInv, StepKeepsInv, PTL DEF Spec

\* Type correctness: every column stays within its check constraint.
THEOREM PipelineIsTyped == Spec => []TypeOK
<1>1. PipelineInv => TypeOK
  BY DEF PipelineInv
<1>. QED
  BY <1>1, PipelineIsConsistent, PTL

(***************************************************************************)
(* An endpoint's slot counter is exactly its number of deliveries in       *)
(* flight and within the capacity, through crashes, late finalizes and     *)
(* reconciliation.                                                         *)
(***************************************************************************)
THEOREM SlotsAreAccounted == Spec => []SlotAccounting
<1>1. PipelineInv => SlotAccounting
  BY DEF PipelineInv
<1>. QED
  BY <1>1, PipelineIsConsistent, PTL

\* The attempt rows agree with the delivery they belong to.
THEOREM AttemptsTellTheStory == Spec => []AttemptHistory
<1>1. PipelineInv => AttemptHistory
  BY DEF PipelineInv
<1>. QED
  BY <1>1, PipelineIsConsistent, PTL

\* A delivery that can be claimed has an attempt left.
THEOREM BudgetIsKept == Spec => []AttemptBudget
<1>1. PipelineInv => AttemptBudget
  BY DEF PipelineInv
<1>. QED
  BY <1>1, PipelineIsConsistent, PTL

\* No attempt is ever carried out by two workers at once.
THEOREM AttemptsHaveOneOwner == Spec => []AttemptOwnership
<1>1. PipelineInv => AttemptOwnership
  BY DEF PipelineInv
<1>. QED
  BY <1>1, PipelineIsConsistent, PTL

-----------------------------------------------------------------------------
(***************************************************************************)
(* No command is lost. A row is marked published only after its message is *)
(* confirmed, a command leaves the queue only into a worker, and a worker  *)
(* lets go of a command it has not claimed only by giving it back. The one *)
(* exception is a claim that raises, which the theorem excludes.           *)
(***************************************************************************)
LEMMA DispatchKeepsCommands ==
    ASSUME PipelineInv, NoLostCommand, NEW p \in Dispatcher, Dispatch(p)
    PROVE  NoLostCommand'
<1>0. /\ ready \in [Delivery -> Nat] /\ outbox \subseteq Row
      /\ dispatcher \in [Dispatcher -> [claimed : SUBSET Row, confirmed : SUBSET Row]]
  BY DEF PipelineInv, TypeOK
<1>. SUFFICES ASSUME NEW d \in Delivery, status'[d] = "queued"
              PROVE  HasCommand(d)'
  BY DEF NoLostCommand
<1>1. status' = status /\ worker' = worker
  BY DEF Dispatch, ClaimOutbox, Publish, PublishFails, FinishOutbox, DispatcherStops, deliveryVars
<1>2. HasCommand(d)
  BY <1>1 DEF NoLostCommand
<1>3. ASSUME \E w \in Worker : worker[w].pc = "received" /\ worker[w].delivery = d
      PROVE  HasCommand(d)'
  BY <1>1, <1>3 DEF HasCommand
<1>4. ASSUME ready[d] > 0
      PROVE  ready'[d] > 0
  <2>1. ready' = ready \/ \E c \in Delivery : ready' = [ready EXCEPT ![c] = @ + 1]
    BY DEF Dispatch, ClaimOutbox, Publish, PublishFails, FinishOutbox, DispatcherStops, Row
  <2>. QED
    BY <1>0, <1>4, <2>1
<1>5. ASSUME NEW r \in PendingRows(d)
      PROVE  r \in PendingRows(d)' \/ ready'[d] > 0
  <2>0. r \in outbox /\ r \in Row /\ r[1] = d /\ \A q \in Dispatcher : r \notin dispatcher[q].confirmed
    BY <1>0 DEF PendingRows
  <2>1. CASE \E S \in SUBSET outbox : ClaimOutbox(p, S)
    BY <1>0, <2>0, <2>1 DEF ClaimOutbox, PendingRows
  <2>2. CASE \E x \in Row : Publish(p, x)
    <3>. PICK x \in Row : Publish(p, x)
      BY <2>2
    <3>1. CASE x[1] = d
      BY <1>0, <3>1 DEF Publish
    <3>2. CASE x[1] # d
      BY <1>0, <2>0, <3>2 DEF Publish, PendingRows
    <3>. QED
      BY <3>1, <3>2
  <2>3. CASE \E x \in Row : PublishFails(p, x)
    BY <1>0, <2>0, <2>3 DEF PublishFails, PendingRows
  <2>4. CASE FinishOutbox(p)
    BY <1>0, <2>0, <2>4 DEF FinishOutbox, PendingRows
  <2>5. CASE DispatcherStops(p)
    BY <1>0, <2>0, <2>5 DEF DispatcherStops, NoBatch, PendingRows
  <2>. QED
    BY <2>1, <2>2, <2>3, <2>4, <2>5 DEF Dispatch
<1>. QED
  BY <1>2, <1>3, <1>4, <1>5 DEF HasCommand

LEMMA WorkKeepsCommands ==
    ASSUME PipelineInv, NoLostCommand, ~ClaimMayFail, NEW w \in Worker, Work(w)
    PROVE  NoLostCommand'
<1>0. /\ ready \in [Delivery -> Nat] /\ worker \in [Worker -> WorkerState]
      /\ status \in [Delivery -> Status] /\ TypeOK
  BY DEF PipelineInv, TypeOK
<1>. SUFFICES ASSUME NEW d \in Delivery, status'[d] = "queued"
              PROVE  HasCommand(d)'
  BY DEF NoLostCommand
<1>1. ASSUME status' = status, UNCHANGED <<outbox, dispatcher>>,
             ready[d] > 0 => ready'[d] > 0
                               \/ \E v \in Worker : worker'[v].pc = "received" /\ worker'[v].delivery = d,
             \A v \in Worker : worker[v].pc = "received" /\ worker[v].delivery = d =>
                 ready'[d] > 0 \/ (worker'[v].pc = "received" /\ worker'[v].delivery = d)
      PROVE  HasCommand(d)'
  BY <1>1 DEF NoLostCommand, HasCommand, PendingRows
<1>2. CASE \E c \in Delivery : Receive(w, c)
  <2>. PICK c \in Delivery : Receive(w, c)
    BY <1>2
  <2>1. Received(c).pc = "received" /\ Received(c).delivery = c
    BY DEF Received, Idle
  <2>2. worker'[w].pc = "received" /\ worker'[w].delivery = c
    BY <1>0, <2>1 DEF Receive
  <2>3. d # c => ready'[d] = ready[d]
    BY <1>0 DEF Receive
  <2>4. \A v \in Worker : v # w => worker'[v] = worker[v]
    BY <1>0 DEF Receive
  <2>5. worker[w].pc = "idle"
    BY DEF Receive
  <2>. QED
    BY <1>1, <2>2, <2>3, <2>4, <2>5 DEF Receive, deliveryVars
<1>3. CASE Claim(w)
  \* the claimed delivery leaves 'queued', and no other is concerned
  <2>. DEFINE c == worker[w].delivery
  <2>0. c \in Delivery
    BY <1>3 DEF Claim, PipelineInv, WorkerHoldsAttempt
  <2>1. c # d
    BY <1>0, <1>3, <2>0
       DEF Claim, ClaimIgnored, ClaimCancels, ClaimDefers, ClaimWithoutSecret, ClaimStarts,
           deliveryVars
  <2>2. status[d] = "queued"
    BY <1>0, <1>3, <2>0, <2>1
       DEF Claim, ClaimIgnored, ClaimCancels, ClaimDefers, ClaimWithoutSecret, ClaimStarts,
           deliveryVars
  <2>3. \A v \in Worker : v # w => worker'[v] = worker[v]
    BY <1>0, <1>3
       DEF Claim, ClaimIgnored, ClaimCancels, ClaimDefers, ClaimWithoutSecret, ClaimStarts, NoCall
  <2>4. UNCHANGED <<outbox, dispatcher, ready>>
    BY <1>3 DEF Claim
  <2>. QED
    BY <2>1, <2>2, <2>3, <2>4 DEF NoLostCommand, HasCommand, PendingRows
<1>4. CASE ClaimRaises(w)
  BY <1>4 DEF ClaimRaises
<1>5. CASE Respond(w)
  BY <1>0, <1>1, <1>5 DEF Respond, deliveryVars
<1>6. CASE Finalize(w)
  <2>1. status[d] = "queued"
    <3>1. worker[w].delivery \in Delivery
      BY <1>6 DEF Finalize, PipelineInv, WorkerHoldsAttempt
    <3>2. Settled(worker[w].delivery, worker[w].verdict) # "queued"
      BY DEF Settled
    <3>. QED
      BY <1>0, <1>6, <3>1, <3>2 DEF Finalize, deliveryVars
  <2>2. \A v \in Worker : worker[v].pc = "received" => worker'[v] = worker[v]
    BY <1>0, <1>6 DEF Finalize
  <2>3. UNCHANGED <<outbox, dispatcher, ready>>
    BY <1>6 DEF Finalize
  <2>. QED
    BY <2>1, <2>2, <2>3 DEF NoLostCommand, HasCommand, PendingRows
<1>7. CASE TaskRaises(w)
  BY <1>0, <1>1, <1>7 DEF TaskRaises, deliveryVars
<1>8. CASE Ack(w)
  BY <1>0, <1>1, <1>8 DEF Ack, deliveryVars
<1>9. CASE WorkerLost(w)
  <2>1. worker[w].delivery \in Delivery
    BY <1>9 DEF WorkerLost, PipelineInv, WorkerHoldsAttempt
  <2>2. ready[d] > 0 => ready'[d] > 0
    BY <1>0, <1>9, <2>1 DEF WorkerLost
  <2>3. worker[w].delivery = d => ready'[d] > 0
    BY <1>0, <1>9, <2>1 DEF WorkerLost
  <2>4. \A v \in Worker : v # w => worker'[v] = worker[v]
    BY <1>0, <1>9 DEF WorkerLost
  <2>. QED
    BY <1>1, <1>9, <2>2, <2>3, <2>4 DEF WorkerLost, deliveryVars
<1>. QED
  BY <1>2, <1>3, <1>4, <1>5, <1>6, <1>7, <1>8, <1>9 DEF Work

LEMMA StepKeepsCommands ==
    ASSUME PipelineInv, NoLostCommand, ~ClaimMayFail, [Next]_vars
    PROVE  NoLostCommand'
<1>0. TypeOK
  BY DEF PipelineInv
\* whatever is put into 'queued' gets a row nobody has seen yet
<1>1. ASSUME NEW S \in SUBSET Delivery, Enqueue(S), UNCHANGED <<dispatcher, ready, worker>>
      PROVE  NoLostCommand'
  <2>. SUFFICES ASSUME NEW d \in Delivery, status'[d] = "queued"
                PROVE  HasCommand(d)'
    BY DEF NoLostCommand
  <2>1. CASE d \in S
    <3>1. NewRow(d) \in outbox' /\ NewRow(d)[1] = d /\ NewRow(d) \notin Remembered
      BY <1>1, <2>1, NewRowType DEF Enqueue
    <3>2. \A p \in Dispatcher : NewRow(d) \notin dispatcher'[p].confirmed
      BY <1>1, <3>1 DEF Remembered
    <3>3. NewRow(d) \in PendingRows(d)'
      BY <3>1, <3>2 DEF PendingRows
    <3>. QED
      BY <3>3 DEF HasCommand
  <2>2. CASE d \notin S
    <3>1. HasCommand(d)
      BY <1>1, <2>2 DEF Enqueue, NoLostCommand
    <3>2. PendingRows(d) \subseteq PendingRows(d)'
      BY <1>1 DEF Enqueue, PendingRows
    <3>. QED
      BY <1>1, <3>1, <3>2 DEF HasCommand
  <2>. QED
    BY <2>1, <2>2
<1>2. ASSUME \A d \in Delivery : status'[d] = "queued" => status[d] = "queued",
             UNCHANGED <<outbox, dispatcher, ready, worker>>
      PROVE  NoLostCommand'
  BY <1>2 DEF NoLostCommand, HasCommand, PendingRows
<1>3. CASE Accept
  BY <1>1, <1>3 DEF Accept, Ingest, Replay
<1>4. CASE \E p \in Dispatcher : Dispatch(p)
  BY <1>4, DispatchKeepsCommands
<1>5. CASE \E w \in Worker : Work(w)
  BY <1>5, WorkKeepsCommands
<1>6. CASE \E S \in SUBSET Delivery : ScheduleDue(S)
  BY <1>1, <1>6 DEF ScheduleDue
<1>7. CASE \E S \in SUBSET Delivery : ReconcileStale(S)
  BY <1>2, <1>7 DEF ReconcileStale
<1>8. CASE \E d \in Delivery : LeaseExpires(d)
  BY <1>2, <1>8 DEF LeaseExpires
<1>9. CASE \E e \in Endpoint : Manage(e)
  BY <1>2, <1>9 DEF Manage, StopEndpoint, ChangeUrl, ReopenEndpoint, deliveryVars
<1>10. CASE UNCHANGED vars
  BY <1>2, <1>10 DEF vars, deliveryVars
<1>. QED
  BY <1>3, <1>4, <1>5, <1>6, <1>7, <1>8, <1>9, <1>10 DEF Next, Schedule

(***************************************************************************)
(* As long as no claim transaction raises, every queued delivery has a row *)
(* to be published, a command in the queue or a worker about to claim it.  *)
(***************************************************************************)
THEOREM CommandsAreKept ==
    ASSUME ~ClaimMayFail
    PROVE  Spec => []NoLostCommand
<1>1. Init => NoLostCommand
  BY DEF Init, NoLostCommand
<1>2. PipelineInv /\ NoLostCommand /\ [Next]_vars => NoLostCommand'
  BY StepKeepsCommands
<1>. QED
  BY <1>1, <1>2, PipelineIsConsistent, PTL DEF Spec

-----------------------------------------------------------------------------
(***************************************************************************)
(* What EventuallySettled rests on: as long as something is not settled,   *)
(* somebody can take a step without new input and without a fault.         *)
(***************************************************************************)

\* at every point of its task a worker has a next step, and an idle one takes
\* any command
WorkerGoesOn(w) == worker[w].pc # "idle" \/ \E d \in Delivery : ready[d] > 0

\* the guards of FinishOutbox, Publish and ClaimOutbox
DispatcherGoesOn(p) ==
    \/ dispatcher[p].confirmed # {}
    \/ \E r \in dispatcher[p].claimed : dispatcher[p].confirmed = {} /\ ready[r[1]] < MaxCopies
    \/ dispatcher[p] = NoBatch /\ outbox # {}

\* the guards of ScheduleDue and ReconcileStale for one delivery
SchedulerGoesOn(d) ==
    \/ status[d] = "retry_scheduled" /\ FreeNumbers(d) # {}
    \/ status[d] = "delivering" /\ lease_until[d] = "expired"

\* the guard of LeaseExpires
LeaseRunsOut(d) ==
    /\ lease_until[d] = "live"
    /\ CallMayOutliveLease \/ \A w \in Worker : ~(Calling(w) /\ worker[w].delivery = d)

PipelineGoesOn ==
    \/ \E w \in Worker : WorkerGoesOn(w)
    \/ \E p \in Dispatcher : DispatcherGoesOn(p)
    \/ \E d \in Delivery : SchedulerGoesOn(d) \/ LeaseRunsOut(d)

NeverIdleWithWork ==
    (\E d \in Delivery : status[d] \notin {"absent"} \cup Terminal) => PipelineGoesOn

LEMMA UnsettledGoesOn ==
    ASSUME PipelineInv, NoLostCommand, Worker # {}, Dispatcher # {}
    PROVE  NeverIdleWithWork
<1>. TypeOK
  BY DEF PipelineInv
<1>. SUFFICES ASSUME NEW d \in Delivery, status[d] \notin {"absent"} \cup Terminal,
                     \A w \in Worker : ~WorkerGoesOn(w),
                     \A p \in Dispatcher : ~DispatcherGoesOn(p)
              PROVE  SchedulerGoesOn(d) \/ LeaseRunsOut(d)
  BY DEF NeverIdleWithWork, PipelineGoesOn
<1>1. /\ \A w \in Worker : worker[w].pc = "idle"
      /\ \A c \in Delivery : ready[c] = 0
  BY DEF WorkerGoesOn, TypeOK
\* a dispatcher with a row could publish it, or claim it
<1>2. \A p \in Dispatcher : dispatcher[p].claimed = {} /\ dispatcher[p].confirmed = {}
  <2>. SUFFICES ASSUME NEW p \in Dispatcher, NEW r \in dispatcher[p].claimed,
                       dispatcher[p].confirmed = {}
                PROVE  FALSE
    BY DEF DispatcherGoesOn
  <2>1. r[1] \in Delivery
    BY DEF TypeOK, Row
  <2>. QED
    BY <1>1, <2>1, PipelineAssumption DEF PipelineAssumption, DispatcherGoesOn
<1>3. outbox = {}
  <2>1. PICK p \in Dispatcher : TRUE
    OBVIOUS
  <2>2. dispatcher[p] = NoBatch
    BY <1>2, <2>1 DEF TypeOK, NoBatch
  <2>. QED
    BY <2>1, <2>2 DEF DispatcherGoesOn
<1>4. status[d] # "queued"
  BY <1>1, <1>3 DEF NoLostCommand, HasCommand, PendingRows
<1>5. CASE status[d] = "retry_scheduled"
  <2>1. 1 \in FreeNumbers(d)
    <3>1. <<d, 1>> \notin outbox \cup Remembered
      BY <1>2, <1>3 DEF Remembered
    <3>2. 1 \in 1..RowsPerDelivery
      BY PipelineAssumption DEF PipelineAssumption
    <3>. QED
      BY <3>1, <3>2 DEF FreeNumbers
  <2>. QED
    BY <1>5, <2>1 DEF SchedulerGoesOn
<1>6. CASE status[d] = "delivering"
  <2>1. lease_until[d] \in {"live", "expired"}
    BY <1>6 DEF PipelineInv, AttemptHistory, TypeOK
  <2>2. \A w \in Worker : ~Calling(w)
    BY <1>1 DEF Calling
  <2>. QED
    BY <1>6, <2>1, <2>2 DEF SchedulerGoesOn, LeaseRunsOut
<1>. QED
  BY <1>4, <1>5, <1>6 DEF TypeOK, Status, Waiting

(***************************************************************************)
(* With a worker and a dispatcher at least, and no claim that raises, no   *)
(* state is reached in which a delivery is not settled and nobody can take *)
(* a step: not by lost processes, redelivered commands or full limits.     *)
(***************************************************************************)
THEOREM PipelineNeverIdleWithWork ==
    ASSUME ~ClaimMayFail, Worker # {}, Dispatcher # {}
    PROVE  Spec => []NeverIdleWithWork
<1>1. PipelineInv /\ NoLostCommand => NeverIdleWithWork
  BY UnsettledGoesOn
<1>. QED
  BY <1>1, PipelineIsConsistent, CommandsAreKept, PTL

-----------------------------------------------------------------------------
(***************************************************************************)
(* DeliveryPipeline implements DeliveryLifecycle, and what it has settled  *)
(* stays settled: both follow from the moves one step can make with one    *)
(* delivery.                                                               *)
(***************************************************************************)
\* the moves of status and attempt_count
Move(d) ==
    \/ status'[d] = status[d] /\ attempt_count'[d] = attempt_count[d]
    \/ status[d] = "absent" /\ status'[d] = "queued" /\ attempt_count'[d] = attempt_count[d]
    \/ /\ status[d] \in Waiting /\ status'[d] \in Waiting \cup {"cancelled"}
       /\ attempt_count'[d] = attempt_count[d]
    \/ /\ status[d] = "queued" /\ status'[d] \in {"delivering", "dead_lettered"}
       /\ attempt_count'[d] = attempt_count[d] + 1
    \/ /\ status[d] = "delivering" /\ status'[d] \in {"succeeded", "dead_lettered"}
       /\ attempt_count'[d] = attempt_count[d]
    \/ /\ status[d] = "delivering" /\ status'[d] = "retry_scheduled"
       /\ attempt_count'[d] = attempt_count[d] /\ attempt_count[d] < MaxAttempts

\* an ended attempt keeps its outcome
KeepsEnded(d) ==
    \A n \in AttemptNumber : outcome[d][n] \in Ended => outcome'[d][n] = outcome[d][n]

LEMMA ClaimMoves ==
    ASSUME PipelineInv, NEW w \in Worker, Claim(w), NEW d \in Delivery
    PROVE  Move(d) /\ KeepsEnded(d)
<1>. DEFINE c == worker[w].delivery
<1>0. TypeOK /\ c \in Delivery
  BY DEF PipelineInv, WorkerHoldsAttempt, Claim
<1>1. CASE ClaimIgnored(w, c)
  BY <1>1 DEF ClaimIgnored, deliveryVars, Move, KeepsEnded
<1>2. CASE ClaimCancels(w, c)
  BY <1>0, <1>2 DEF ClaimCancels, TypeOK, Move, KeepsEnded, Waiting
<1>3. CASE ClaimDefers(w, c)
  BY <1>0, <1>3 DEF ClaimDefers, TypeOK, Move, KeepsEnded, Waiting
\* a new attempt takes a number that had no row
<1>4. ASSUME status[c] = "queued"
      PROVE  outcome[c][attempt_count[c] + 1] \notin Ended
  BY <1>0, <1>4, NextAttempt DEF PipelineInv, AttemptHistory, Ended
<1>5. CASE ClaimWithoutSecret(w, c)
  <2>1. Move(d)
    BY <1>0, <1>5 DEF ClaimWithoutSecret, TypeOK, Move
  <2>2. KeepsEnded(d)
    BY <1>0, <1>4, <1>5 DEF ClaimWithoutSecret, TypeOK, KeepsEnded
  <2>. QED
    BY <2>1, <2>2
<1>6. CASE ClaimStarts(w, c)
  <2>1. Move(d)
    BY <1>0, <1>6 DEF ClaimStarts, TypeOK, Move
  <2>2. KeepsEnded(d)
    BY <1>0, <1>4, <1>6 DEF ClaimStarts, TypeOK, KeepsEnded
  <2>. QED
    BY <2>1, <2>2
<1>. QED
  BY <1>1, <1>2, <1>3, <1>5, <1>6 DEF Claim

LEMMA FinalizeMoves ==
    ASSUME PipelineInv, NEW w \in Worker, Finalize(w), NEW d \in Delivery
    PROVE  Move(d) /\ KeepsEnded(d)
<1>. DEFINE c == worker[w].delivery
            n == worker[w].attempt
<1>0. TypeOK /\ c \in Delivery /\ n \in AttemptNumber
  <2>1. c \in Delivery /\ n \in 1..attempt_count[c]
    BY DEF PipelineInv, WorkerHoldsAttempt, Finalize, InCall
  <2>. QED
    BY <2>1, ConstantTypes DEF PipelineInv, TypeOK, AttemptNumber
<1>1. CASE outcome[c][n] # "started"
  <2>1. UNCHANGED <<status, attempt_count, outcome>>
    BY <1>1 DEF Finalize, StillOpen, deliveryVars
  <2>. QED
    BY <2>1 DEF Move, KeepsEnded
<1>2. CASE outcome[c][n] = "started"
  <2>1. status[c] = "delivering"
    BY <1>0, <1>2 DEF PipelineInv, AttemptHistory
  <2>2. /\ status' = [status EXCEPT ![c] = Settled(c, worker[w].verdict)]
        /\ attempt_count' = attempt_count
    BY <1>2 DEF Finalize, StillOpen
  <2>3. \/ Settled(c, worker[w].verdict) \in {"succeeded", "dead_lettered"}
        \/ Settled(c, worker[w].verdict) = "retry_scheduled" /\ attempt_count[c] < MaxAttempts
    BY DEF Settled
  <2>4. Move(d)
    BY <1>0, <2>1, <2>2, <2>3 DEF Move, TypeOK
  <2>5. KeepsEnded(d)
    <3>1. PICK o \in Outcome : outcome' = [outcome EXCEPT ![c][n] = o]
      BY <1>2 DEF Finalize, StillOpen, Outcome, Ended
    <3>2. outcome \in [Delivery -> [AttemptNumber -> Outcome]] /\ "started" \notin Ended
      BY <1>0 DEF TypeOK, Ended
    <3>. QED
      BY <1>0, <1>2, <3>1, <3>2 DEF KeepsEnded
  <2>. QED
    BY <2>4, <2>5
<1>. QED
  BY <1>1, <1>2

LEMMA EveryStepMoves ==
    ASSUME PipelineInv, [Next]_vars, NEW d \in Delivery
    PROVE  Move(d) /\ KeepsEnded(d)
<1>0. TypeOK
  BY DEF PipelineInv
<1>1. ASSUME UNCHANGED deliveryVars
      PROVE  Move(d) /\ KeepsEnded(d)
  BY <1>1 DEF deliveryVars, Move, KeepsEnded
<1>2. CASE Accept
  BY <1>2 DEF Accept, Ingest, Replay, Enqueue, Move, KeepsEnded
<1>3. CASE \E p \in Dispatcher : Dispatch(p)
  BY <1>1, <1>3
     DEF Dispatch, ClaimOutbox, Publish, PublishFails, FinishOutbox, DispatcherStops
<1>4. CASE \E w \in Worker : Work(w)
  BY <1>1, <1>4, ClaimMoves, FinalizeMoves
     DEF Work, Receive, ClaimRaises, Respond, TaskRaises, Ack, WorkerLost
<1>5. CASE \E S \in SUBSET Delivery : ScheduleDue(S)
  BY <1>5 DEF ScheduleDue, Enqueue, Move, KeepsEnded, Waiting
<1>6. CASE \E S \in SUBSET Delivery : ReconcileStale(S)
  <2>. PICK S \in SUBSET Delivery : ReconcileStale(S)
    BY <1>6
  <2>1. Move(d)
    BY DEF ReconcileStale, Move
  <2>2. KeepsEnded(d)
    BY DEF ReconcileStale, LatestStarted, KeepsEnded, Ended
  <2>. QED
    BY <2>1, <2>2
<1>7. CASE \E c \in Delivery : LeaseExpires(c)
  BY <1>7 DEF LeaseExpires, Move, KeepsEnded
<1>8. CASE \E e \in Endpoint : Manage(e)
  BY <1>1, <1>8 DEF Manage, StopEndpoint, ChangeUrl, ReopenEndpoint, Move, KeepsEnded
<1>9. CASE UNCHANGED vars
  BY <1>1, <1>9 DEF vars
<1>. QED
  BY <1>2, <1>3, <1>4, <1>5, <1>6, <1>7, <1>8, <1>9 DEF Next, Schedule

(***************************************************************************)
(* No step reopens a settled delivery or rewrites an ended attempt.        *)
(***************************************************************************)
THEOREM HistoryStaysFinal == Spec => HistoryIsFinal
<1>1. ASSUME PipelineInv, [Next]_vars, NEW d \in Delivery
      PROVE  StaysFinal(d)
  BY <1>1, EveryStepMoves DEF Move, KeepsEnded, StaysFinal, Waiting, Terminal
<1>2. PipelineInv /\ [Next]_vars => [\A d \in Delivery : StaysFinal(d)]_vars
  BY <1>1
<1>. QED
  BY <1>2, PipelineIsConsistent, PTL DEF Spec, HistoryIsFinal

-----------------------------------------------------------------------------
(***************************************************************************)
(* The refinement.                                                         *)
(***************************************************************************)
LEMMA InitRefines == Init => Lifecycle!Init
BY DEF Init, Lifecycle!Init, PhaseOf, Waiting

LEMMA StepRefines ==
    ASSUME PipelineInv, PipelineInv', [Next]_vars
    PROVE  Lifecycle!Next
<1>. DEFINE phase == [d \in Delivery |-> PhaseOf(status[d])]
<1>0. TypeOK /\ TypeOK'
  BY DEF PipelineInv
<1>1. phase' \in [Delivery -> Lifecycle!Phase]
  BY <1>0 DEF TypeOK, Status, PhaseOf, Waiting, Terminal, Lifecycle!Phase, Lifecycle!Settled
<1>2. attempt_count' \in [Delivery -> 0..MaxAttempts]
  BY <1>0 DEF TypeOK
<1>3. ASSUME NEW d \in Delivery
      PROVE  Lifecycle!Step(d)
  <2>0. /\ attempt_count[d] \in 0..MaxAttempts /\ attempt_count'[d] \in 0..MaxAttempts
        /\ MaxAttempts \in Nat
    BY <1>0, ConstantTypes DEF TypeOK
  <2>1. Move(d)
    BY EveryStepMoves
  <2>2. phase[d] = PhaseOf(status[d]) /\ phase'[d] = PhaseOf(status'[d])
    OBVIOUS
  <2>. QED
    BY <2>0, <2>1, <2>2
       DEF Move, PhaseOf, Waiting, Lifecycle!Step, Lifecycle!Accept, Lifecycle!Begin,
           Lifecycle!Cancel, Lifecycle!Refuse, Lifecycle!Succeed, Lifecycle!Retry,
           Lifecycle!GiveUp, Lifecycle!Rest, Lifecycle!Moves, Lifecycle!Spends
<1>. QED
  BY <1>1, <1>2, <1>3 DEF Lifecycle!Next

(***************************************************************************)
(* Every behaviour of the pipeline, faults included, is a behaviour of the *)
(* lifecycle each delivery is promised.                                    *)
(***************************************************************************)
THEOREM PipelineImplementsLifecycle == Spec => ImplementsLifecycle
<1>1. PipelineInv /\ PipelineInv' /\ [Next]_vars => [Lifecycle!Next]_(Lifecycle!vars)
  BY StepRefines
<1>. QED
  BY <1>1, InitRefines, PipelineIsConsistent, PTL
     DEF Spec, ImplementsLifecycle, Lifecycle!Spec

-----------------------------------------------------------------------------
(***************************************************************************)
(* DeliveryPipeline implements DeliveryTransactions. The slot counter is   *)
(* the number of deliveries in flight, so the claim's comparison is the    *)
(* one of the abstract claim; an attempt is open in both or in neither.    *)
(***************************************************************************)
StartedAttempts == {a \in Attempt : outcome[a[1]][a[2]] = "started"}

\* both modules count in the same way
LEMMA SameCount == \A S : Transactions!Cardinality(S) = Cardinality(S)
BY DEF Transactions!Cardinality, Cardinality

LEMMA SameSlots ==
    ASSUME PipelineInv, NEW e \in Endpoint
    PROVE  Transactions!Cardinality(Transactions!InFlight(e)) = active_delivery_count[e]
<1>1. \A d \in Delivery : Brief(status[d]) = "delivering" <=> status[d] = "delivering"
  BY DEF Brief, Terminal
<1>2. Transactions!InFlight(e) = InFlight(e)
  BY <1>1 DEF Transactions!InFlight, InFlight
<1>. QED
  BY <1>2, SameCount DEF PipelineInv, SlotAccounting

LEMMA SameGuard ==
    ASSUME PipelineInv, NEW d \in Delivery
    PROVE  Transactions!HasSlot(d) <=> HasSlot(d)
<1>1. Transactions!Cardinality(Transactions!InFlight(Target[d])) = active_delivery_count[Target[d]]
  BY SameSlots, ConstantTypes
<1>. QED
  BY <1>1 DEF Transactions!HasSlot, HasSlot

\* how the deliveries of a set move
LEMMA MovesTo ==
    ASSUME NEW S \in SUBSET Delivery, NEW choice,
           \A d \in S : Brief(status'[d]) \in choice,
           \A d \in Delivery \ S : status'[d] = status[d]
    PROVE  Transactions!Moves(S, choice)
<1>. DEFINE to == [d \in S |-> Brief(status'[d])]
<1>1. to \in [S -> choice]
  OBVIOUS
<1>2. [d \in Delivery |-> Brief(status'[d])] =
         [d \in Delivery |-> IF d \in S THEN to[d] ELSE [c \in Delivery |-> Brief(status[c])][d]]
  OBVIOUS
<1>. QED
  BY <1>1, <1>2 DEF Transactions!Moves

LEMMA MovesOne ==
    ASSUME TypeOK, NEW d \in Delivery, NEW s \in Status, NEW choice, Brief(s) \in choice,
           status' = [status EXCEPT ![d] = s]
    PROVE  Transactions!Moves({d}, choice)
<1>1. \A c \in {d} : Brief(status'[c]) \in choice
  BY DEF TypeOK
<1>2. \A c \in Delivery \ {d} : status'[c] = status[c]
  BY DEF TypeOK
<1>3. {d} \in SUBSET Delivery
  OBVIOUS
<1>. QED
  BY <1>1, <1>2, <1>3, MovesTo

LEMMA StartedKept ==
    ASSUME \A d \in Delivery, n \in AttemptNumber :
              outcome'[d][n] = "started" <=> outcome[d][n] = "started"
    PROVE  StartedAttempts' = StartedAttempts
BY DEF StartedAttempts, Attempt

LEMMA InitImplements == Init => Transactions!Init
<1>. SUFFICES ASSUME Init PROVE Transactions!Init
  OBVIOUS
<1>. DEFINE brief == [d \in Delivery |-> Brief(status[d])]
<1>1. brief = [d \in Delivery |-> "absent"]
  BY DEF Init, Brief, Terminal
<1>2. brief \in [Delivery -> Transactions!Status]
  BY <1>1 DEF Transactions!Status
<1>3. StartedAttempts = {}
  BY DEF Init, StartedAttempts, Attempt
<1>4. \A e \in Endpoint : Transactions!Cardinality(Transactions!InFlight(e)) <= Capacity
  BY SameSlots, InitHasInv DEF PipelineInv, SlotAccounting
<1>5. open \in SUBSET Endpoint
  BY DEF Init
<1>. QED
  BY <1>2, <1>3, <1>4, <1>5 DEF Transactions!Init, StartedAttempts

LEMMA EnqueueImplements ==
    ASSUME NEW S \in SUBSET Delivery, Enqueue(S), UNCHANGED <<outcome, open>>,
           \A d \in S : status[d] \in {"absent", "retry_scheduled"}
    PROVE  Transactions!Next
<1>1. \A d \in Delivery : status'[d] = IF d \in S THEN "queued" ELSE status[d]
  BY DEF Enqueue
<1>2. Transactions!Moves(S, {"queued"})
  BY <1>1, MovesTo DEF Brief, Terminal
<1>3. StartedAttempts' = StartedAttempts
  BY StartedKept
<1>4. Transactions!Enqueue(S)
  BY <1>2, <1>3 DEF Transactions!Enqueue, StartedAttempts, Brief, Terminal
<1>. QED
  BY <1>4 DEF Transactions!Next

LEMMA ClaimImplements ==
    ASSUME PipelineInv, NEW w \in Worker, Claim(w)
    PROVE  [Transactions!Next]_(Transactions!vars)
<1>. DEFINE d == worker[w].delivery
            n == attempt_count[d] + 1
<1>0. /\ TypeOK /\ d \in Delivery
      /\ {"cancelled", "retry_scheduled", "dead_lettered", "delivering"} \subseteq Status
      /\ Brief("cancelled") = "settled" /\ Brief("dead_lettered") = "settled"
      /\ Brief("retry_scheduled") = "retry_scheduled" /\ Brief("delivering") = "delivering"
  BY DEF PipelineInv, WorkerHoldsAttempt, Claim, Status, Waiting, Terminal, Brief
<1>1. CASE ClaimIgnored(w, d)
  BY <1>1 DEF ClaimIgnored, deliveryVars, endpointVars, Transactions!vars
<1>2. CASE status[d] = "queued" /\ ~ClaimIgnored(w, d)
  <2>1. Brief(status[d]) = "queued"
    BY <1>2 DEF Brief, Terminal
  <2>2. Transactions!HasSlot(d) <=> HasSlot(d)
    BY <1>0, SameGuard
  <2>3. n \in AttemptNumber /\ outcome[d][n] = "none"
    BY <1>0, <1>2, NextAttempt DEF PipelineInv, AttemptHistory, TypeOK
  <2>4. CASE ClaimCancels(w, d)
    <3>1. Transactions!Moves({d}, {"settled"})
      BY <1>0, <2>4, MovesOne DEF ClaimCancels
    <3>2. StartedAttempts' = StartedAttempts
      BY <2>4, StartedKept DEF ClaimCancels
    <3>3. Transactions!Refuse(d)
      BY <1>0, <2>1, <2>4, <3>1, <3>2
         DEF ClaimCancels, endpointVars, Transactions!Refuse, StartedAttempts
    <3>. QED
      BY <1>0, <3>3 DEF Transactions!Next
  <2>5. CASE ClaimDefers(w, d)
    <3>1. Transactions!Moves({d}, {"retry_scheduled"})
      BY <1>0, <2>5, MovesOne DEF ClaimDefers
    <3>2. StartedAttempts' = StartedAttempts
      BY <2>5, StartedKept DEF ClaimDefers
    <3>3. Transactions!Defer(d)
      BY <1>0, <2>1, <2>2, <2>5, <3>1, <3>2
         DEF ClaimDefers, endpointVars, Transactions!Defer, StartedAttempts
    <3>. QED
      BY <1>0, <3>3 DEF Transactions!Next
  <2>6. CASE ClaimWithoutSecret(w, d)
    <3>1. Transactions!Moves({d}, {"settled"})
      BY <1>0, <2>6, MovesOne DEF ClaimWithoutSecret
    <3>2. outcome' = [outcome EXCEPT ![d][n] = "failed"]
      BY <2>6 DEF ClaimWithoutSecret
    <3>3. StartedAttempts' = StartedAttempts
      BY <1>0, <2>3, <3>2, StartedKept DEF TypeOK
    <3>4. Transactions!Refuse(d)
      BY <1>0, <2>1, <2>2, <2>6, <3>1, <3>3
         DEF ClaimWithoutSecret, endpointVars, Transactions!Refuse, StartedAttempts
    <3>. QED
      BY <1>0, <3>4 DEF Transactions!Next
  <2>7. CASE ClaimStarts(w, d)
    <3>. PICK c \in Delivery, k \in AttemptNumber : c = d /\ k = n
      BY <1>0, <2>3
    <3>1. Transactions!Moves({c}, {"delivering"})
      BY <1>0, <2>7, MovesOne DEF ClaimStarts
    <3>2. <<c, k>> \in Attempt /\ [a \in Attempt |-> a[1]][<<c, k>>] = c
      BY DEF Attempt
    <3>3. outcome' = [outcome EXCEPT ![c][k] = "started"]
      BY <2>7 DEF ClaimStarts
    <3>4. StartedAttempts' = StartedAttempts \cup {<<c, k>>}
      <4>1. \A x \in Delivery, m \in AttemptNumber :
               outcome'[x][m] = IF x = c /\ m = k THEN "started" ELSE outcome[x][m]
        BY <1>0, <3>3 DEF TypeOK
      <4>2. \A a \in Attempt : outcome'[a[1]][a[2]] = "started" <=>
                                 outcome[a[1]][a[2]] = "started" \/ a = <<c, k>>
        <5>. TAKE a \in Attempt
        <5>1. a[1] \in Delivery /\ a[2] \in AttemptNumber /\ a = <<a[1], a[2]>>
          BY DEF Attempt
        <5>2. a = <<c, k>> <=> a[1] = c /\ a[2] = k
          BY <5>1
        <5>. QED
          BY <4>1, <5>1, <5>2
      <4>. QED
        BY <3>2, <4>2 DEF StartedAttempts
    <3>5. Brief(status[c]) = "queued" /\ Target[c] \in open /\ Transactions!HasSlot(c)
      BY <2>1, <2>7, SameGuard DEF ClaimStarts
    <3>6. Transactions!Start(c)
      BY <2>7, <3>1, <3>2, <3>4, <3>5 DEF ClaimStarts, Transactions!Start, StartedAttempts
    <3>. QED
      BY <3>6 DEF Transactions!Next
  <2>. QED
    BY <1>2, <2>4, <2>5, <2>6, <2>7 DEF Claim
<1>. QED
  BY <1>1, <1>2 DEF Claim, ClaimCancels, ClaimDefers, ClaimWithoutSecret, ClaimStarts

LEMMA FinalizeImplements ==
    ASSUME PipelineInv, NEW w \in Worker, Finalize(w)
    PROVE  [Transactions!Next]_(Transactions!vars)
<1>. DEFINE d == worker[w].delivery
            n == worker[w].attempt
            v == worker[w].verdict
<1>0. TypeOK /\ d \in Delivery /\ n \in AttemptNumber
  <2>1. d \in Delivery /\ n \in 1..attempt_count[d]
    BY DEF PipelineInv, WorkerHoldsAttempt, Finalize, InCall
  <2>. QED
    BY <2>1, ConstantTypes DEF PipelineInv, TypeOK, AttemptNumber
<1>1. CASE ~StillOpen(d, n)
  <2>1. UNCHANGED <<status, outcome, open>>
    BY <1>1 DEF Finalize, deliveryVars, endpointVars
  <2>. QED
    BY <2>1 DEF Transactions!vars
<1>2. CASE StillOpen(d, n)
  <2>1. /\ status' = [status EXCEPT ![d] = Settled(d, v)] /\ UNCHANGED open
        /\ outcome' = [outcome EXCEPT ![d][n] = IF v = "success" THEN "succeeded" ELSE "failed"]
    BY <1>2 DEF Finalize
  <2>2. PICK c \in Delivery, k \in AttemptNumber : c = d /\ k = n
    BY <1>0
  <2>3. Transactions!Moves({c}, {"settled", "retry_scheduled"})
    <3>1. Settled(d, v) \in {"succeeded", "dead_lettered", "retry_scheduled"}
      BY DEF Settled
    <3>2. PICK s \in {"succeeded", "dead_lettered", "retry_scheduled"} : s = Settled(d, v)
      BY <3>1
    <3>3. s \in Status /\ Brief(s) \in {"settled", "retry_scheduled"}
      BY DEF Status, Waiting, Terminal, Brief
    <3>. QED
      BY <1>0, <2>1, <2>2, <3>2, <3>3, MovesOne
  <2>4. <<c, k>> \in Attempt /\ [a \in Attempt |-> a[1]][<<c, k>>] = c
    BY DEF Attempt
  <2>5. <<c, k>> \in StartedAttempts
    BY <1>2, <2>2, <2>4 DEF StillOpen, StartedAttempts
  <2>6. StartedAttempts' = StartedAttempts \ {<<c, k>>}
    <3>1. PICK o \in {"succeeded", "failed"} : outcome' = [outcome EXCEPT ![c][k] = o]
      BY <2>1, <2>2
    <3>2. \A x \in Delivery, m \in AttemptNumber :
             outcome'[x][m] = IF x = c /\ m = k THEN o ELSE outcome[x][m]
      BY <1>0, <3>1 DEF TypeOK
    <3>. QED
      BY <3>2 DEF StartedAttempts, Attempt
  <2>7. Transactions!Record(<<c, k>>)
    BY <2>1, <2>3, <2>4, <2>5, <2>6 DEF Transactions!Record, StartedAttempts
  <2>. QED
    BY <2>4, <2>7 DEF Transactions!Next
<1>. QED
  BY <1>1, <1>2

LEMMA ReconcileImplements ==
    ASSUME PipelineInv, NEW S \in SUBSET Delivery, ReconcileStale(S)
    PROVE  Transactions!Next
<1>0. TypeOK /\ \A d \in S : status[d] = "delivering"
  BY DEF PipelineInv, ReconcileStale
<1>1. /\ \A d \in S : status'[d] \in {"retry_scheduled", "dead_lettered"}
      /\ \A d \in Delivery \ S : status'[d] = status[d]
      /\ UNCHANGED open
  BY DEF ReconcileStale
<1>2. Transactions!Moves(S, {"settled", "retry_scheduled"})
  BY <1>1, MovesTo DEF Brief, Terminal
<1>3. ASSUME NEW d \in Delivery, NEW n \in AttemptNumber
      PROVE  outcome'[d][n] = "started" <=> outcome[d][n] = "started" /\ d \notin S
  <2>1. outcome'[d][n] = IF d \in S /\ LatestStarted(d, n) THEN "unknown" ELSE outcome[d][n]
    BY DEF ReconcileStale
  <2>2. outcome[d][n] = "started" => LatestStarted(d, n)
    <3>1. \A m \in AttemptNumber : outcome[d][m] = "started" => m = attempt_count[d]
      BY DEF PipelineInv, AttemptHistory
    <3>. QED
      BY <3>1 DEF LatestStarted, AttemptNumber
  <2>. QED
    BY <2>1, <2>2
<1>4. StartedAttempts' = {a \in StartedAttempts : [b \in Attempt |-> b[1]][a] \notin S}
  BY <1>3 DEF StartedAttempts, Attempt
<1>5. Transactions!GiveUp(S)
  BY <1>0, <1>1, <1>2, <1>4 DEF Transactions!GiveUp, StartedAttempts, Brief, Terminal
<1>. QED
  BY <1>5 DEF Transactions!Next

LEMMA ManageImplements ==
    ASSUME PipelineInv, NEW e \in Endpoint, Manage(e)
    PROVE  Transactions!Next
<1>. DEFINE S == {d \in Delivery : Target[d] = e /\ status'[d] # status[d]}
<1>0. TypeOK /\ S \in SUBSET Delivery
  BY DEF PipelineInv
<1>1. StartedAttempts' = StartedAttempts
  BY StartedKept DEF Manage, StopEndpoint, ChangeUrl, ReopenEndpoint, deliveryVars
<1>2. /\ \A d \in S : status'[d] = "cancelled" /\ status[d] \in Waiting
      /\ \A d \in Delivery \ S : status'[d] = status[d]
  BY DEF Manage, StopEndpoint, ChangeUrl, ReopenEndpoint, deliveryVars
<1>3. Transactions!Moves(S, {"settled"})
  BY <1>0, <1>2, MovesTo DEF Brief, Terminal
<1>4. \/ open' = open \cup {e} /\ S = {}
      \/ open' = open \ {e}
  BY DEF Manage, StopEndpoint, ChangeUrl, ReopenEndpoint, deliveryVars
<1>5. \A d \in S : Target[d] = e /\ Brief(status[d]) \in Transactions!Waiting
  BY <1>2 DEF Brief, Terminal, Waiting, Transactions!Waiting
<1>6. Transactions!OpenOrClose(e, S)
  <2>. HIDE DEF S
  <2>. QED
    BY <1>0, <1>1, <1>3, <1>4, <1>5 DEF Transactions!OpenOrClose, StartedAttempts
<1>. QED
  BY <1>0, <1>6 DEF Transactions!Next

LEMMA StepImplements ==
    ASSUME PipelineInv, [Next]_vars
    PROVE  [Transactions!Next]_(Transactions!vars)
<1>1. ASSUME UNCHANGED <<status, outcome, open>>
      PROVE  UNCHANGED Transactions!vars
  BY <1>1 DEF Transactions!vars
<1>2. CASE Accept
  <2>1. ASSUME NEW S \in SUBSET Delivery, Ingest(S) PROVE Transactions!Next
    BY <2>1, EnqueueImplements DEF Ingest, endpointVars
  <2>2. ASSUME NEW source \in Delivery, NEW d \in Delivery, Replay(source, d)
        PROVE  Transactions!Next
    BY <2>2, EnqueueImplements DEF Replay, endpointVars
  <2>. QED
    BY <1>2, <2>1, <2>2 DEF Accept
<1>3. CASE \E p \in Dispatcher : Dispatch(p)
  BY <1>1, <1>3 DEF Dispatch, ClaimOutbox, Publish, PublishFails, FinishOutbox,
                    DispatcherStops, deliveryVars, endpointVars
<1>4. CASE \E w \in Worker : Work(w)
  BY <1>1, <1>4, ClaimImplements, FinalizeImplements
     DEF Work, Receive, ClaimRaises, Respond, TaskRaises, Ack, WorkerLost,
         deliveryVars, endpointVars
<1>5. ASSUME NEW S \in SUBSET Delivery, ScheduleDue(S) PROVE Transactions!Next
  BY <1>5, EnqueueImplements DEF ScheduleDue, endpointVars
<1>6. CASE \E d \in Delivery : LeaseExpires(d)
  BY <1>1, <1>6 DEF LeaseExpires, endpointVars
<1>7. CASE UNCHANGED vars
  BY <1>1, <1>7 DEF vars, deliveryVars, endpointVars
<1>. QED
  BY <1>2, <1>3, <1>4, <1>5, <1>6, <1>7, ReconcileImplements, ManageImplements
     DEF Next, Schedule

(***************************************************************************)
(* The pipeline, with its faults and retries, does to deliveries what the  *)
(* transactions do that RowLocks implements lock by lock: the two modules  *)
(* meet in DeliveryTransactions.                                           *)
(***************************************************************************)
THEOREM PipelineImplementsTransactions == Spec => ImplementsTransactions
<1>1. PipelineInv /\ [Next]_vars => [Transactions!Next]_(Transactions!vars)
  BY StepImplements
<1>. QED
  BY <1>1, InitImplements, PipelineIsConsistent, PTL
     DEF Spec, ImplementsTransactions, Transactions!Spec

-----------------------------------------------------------------------------
(***************************************************************************)
(* The calls open at an endpoint, counted where they happen: at most       *)
(* Capacity, as long as no worker stalls in a call past its lease.         *)
(***************************************************************************)
(***************************************************************************)
(* The counter counts deliveries, not calls. What ties a call to the       *)
(* counter is that its delivery is still 'delivering' under a live lease,  *)
(* on this very attempt; two calls then have two deliveries.               *)
(***************************************************************************)
HoldsLease(w) ==
    LET d == worker[w].delivery IN
    Calling(w) => /\ status[d] = "delivering"
                  /\ lease_until[d] = "live"
                  /\ worker[w].attempt = attempt_count[d]
CallsHoldLeases == \A w \in Worker : HoldsLease(w)

\* a delivery that is not being called may move freely
LEMMA LeaseHeld ==
    ASSUME CallsHoldLeases,
           \A w \in Worker : Calling(w)' => /\ Calling(w)
                                            /\ worker'[w].delivery = worker[w].delivery
                                            /\ worker'[w].attempt = worker[w].attempt,
           \A w \in Worker : Calling(w)' =>
              LET d == worker[w].delivery IN
              /\ status'[d] = status[d]
              /\ lease_until'[d] = lease_until[d]
              /\ attempt_count'[d] = attempt_count[d]
    PROVE  CallsHoldLeases'
<1>. SUFFICES ASSUME NEW w \in Worker
              PROVE  HoldsLease(w)'
  BY DEF CallsHoldLeases
<1>1. HoldsLease(w)
  BY DEF CallsHoldLeases
<1>. QED
  BY <1>1 DEF HoldsLease

LEMMA ClaimKeepsLeases ==
    ASSUME PipelineInv, CallsHoldLeases, NEW w \in Worker, Claim(w)
    PROVE  CallsHoldLeases'
<1>. DEFINE c == worker[w].delivery
<1>0. TypeOK /\ c \in Delivery /\ worker[w].pc = "received"
  BY DEF PipelineInv, WorkerHoldsAttempt, Claim
<1>. SUFFICES ASSUME NEW v \in Worker
              PROVE  HoldsLease(v)'
  BY DEF CallsHoldLeases
<1>1. HoldsLease(v)
  BY DEF CallsHoldLeases
<1>2. v # w => worker'[v] = worker[v]
  BY <1>0 DEF Claim, ClaimIgnored, ClaimCancels, ClaimDefers, ClaimWithoutSecret,
              ClaimStarts, NoCall, TypeOK
<1>3. Calling(v) => worker[v].delivery \in Delivery
  BY DEF PipelineInv, WorkerHoldsAttempt, Calling
<1>4. \A d \in Delivery : status[d] # "queued" =>
         /\ status'[d] = status[d]
         /\ lease_until'[d] = lease_until[d]
         /\ attempt_count'[d] = attempt_count[d]
  BY <1>0 DEF Claim, ClaimIgnored, ClaimCancels, ClaimDefers, ClaimWithoutSecret,
              ClaimStarts, TypeOK, deliveryVars
<1>5. CASE v # w
  BY <1>1, <1>2, <1>3, <1>4, <1>5 DEF HoldsLease, Calling
<1>6. CASE v = w /\ ClaimStarts(w, c)
  <2>1. worker'[w].delivery = c /\ worker'[w].attempt = attempt_count[c] + 1
    BY <1>0, <1>6 DEF ClaimStarts, TypeOK, WorkerState
  <2>2. /\ status'[c] = "delivering" /\ lease_until'[c] = "live"
        /\ attempt_count'[c] = attempt_count[c] + 1
    BY <1>0, <1>6 DEF ClaimStarts, TypeOK
  <2>. QED
    BY <1>6, <2>1, <2>2 DEF HoldsLease
<1>7. CASE v = w /\ NoCall(w)
  <2>1. worker'[w].pc = "done"
    BY <1>0, <1>7 DEF NoCall, TypeOK, WorkerState
  <2>. QED
    BY <1>7, <2>1 DEF HoldsLease, Calling
<1>. QED
  BY <1>5, <1>6, <1>7
     DEF Claim, ClaimIgnored, ClaimCancels, ClaimDefers, ClaimWithoutSecret

LEMMA FinalizeKeepsLeases ==
    ASSUME PipelineInv, CallsHoldLeases, NEW w \in Worker, Finalize(w)
    PROVE  CallsHoldLeases'
<1>. DEFINE c == worker[w].delivery
            n == worker[w].attempt
<1>0. TypeOK /\ worker[w].pc = "responded" /\ c \in Delivery
        /\ n \in 1..attempt_count[c] /\ n \in AttemptNumber
  <2>1. c \in Delivery /\ n \in 1..attempt_count[c] /\ worker[w].pc = "responded"
    BY DEF PipelineInv, WorkerHoldsAttempt, Finalize, InCall
  <2>. QED
    BY <2>1, ConstantTypes DEF PipelineInv, TypeOK, AttemptNumber
<1>1. \A v \in Worker : v # w => worker'[v] = worker[v]
  BY <1>0 DEF Finalize, TypeOK
<1>2. worker'[w].pc = "done"
  BY <1>0 DEF Finalize, TypeOK, WorkerState
<1>3. CASE outcome[c][n] # "started"
  BY <1>1, <1>2, <1>3, LeaseHeld DEF Finalize, StillOpen, deliveryVars, Calling
<1>4. CASE outcome[c][n] = "started"
  \* the open attempt is this worker's alone
  <2>1. n = attempt_count[c]
    BY <1>0, <1>4 DEF PipelineInv, AttemptHistory
  <2>2. \A v \in Worker : Calling(v) => worker[v].delivery # c
    BY <1>0, <2>1 DEF CallsHoldLeases, HoldsLease, PipelineInv, AttemptOwnership, InCall, Calling
  <2>3. \A d \in Delivery : d # c => /\ status'[d] = status[d]
                                     /\ lease_until'[d] = lease_until[d]
                                     /\ attempt_count'[d] = attempt_count[d]
    BY <1>0, <1>4 DEF Finalize, StillOpen, TypeOK
  <2>4. \A v \in Worker : Calling(v) => worker[v].delivery \in Delivery
    BY DEF PipelineInv, WorkerHoldsAttempt, Calling
  <2>. QED
    BY <1>1, <1>2, <2>2, <2>3, <2>4, LeaseHeld DEF Calling
<1>. QED
  BY <1>3, <1>4

LEMMA CarryKeepsLeases ==
    ASSUME PipelineInv, CallsHoldLeases, NEW w \in Worker,
           \/ \E d \in Delivery : Receive(w, d)
           \/ ClaimRaises(w) \/ Respond(w) \/ TaskRaises(w) \/ Ack(w) \/ WorkerLost(w)
    PROVE  CallsHoldLeases'
<1>0. worker \in [Worker -> WorkerState]
  BY DEF PipelineInv, TypeOK
<1>1. UNCHANGED deliveryVars
  BY DEF Receive, ClaimRaises, Respond, TaskRaises, Ack, WorkerLost
<1>2. \A v \in Worker : v # w => worker'[v] = worker[v]
  BY <1>0 DEF Receive, ClaimRaises, Respond, TaskRaises, Ack, WorkerLost
<1>3. worker'[w].pc # "executing"
  <2>1. Idle.pc = "idle"
    BY DEF Idle
  <2>2. \A d \in Delivery : Received(d).pc = "received"
    BY DEF Received, Idle
  <2>. QED
    BY <1>0, <2>1, <2>2 DEF Receive, ClaimRaises, Respond, TaskRaises, Ack, WorkerLost, WorkerState
<1>. QED
  BY <1>1, <1>2, <1>3, LeaseHeld DEF Calling, deliveryVars

LEMMA StepKeepsLeases ==
    ASSUME PipelineInv, CallsHoldLeases, ~CallMayOutliveLease, [Next]_vars
    PROVE  CallsHoldLeases'
<1>0. TypeOK
  BY DEF PipelineInv
\* steps of the other processes leave alone what is 'delivering' under a lease
<1>1. ASSUME worker' = worker, attempt_count' = attempt_count,
             \A w \in Worker : Calling(w) =>
                /\ status'[worker[w].delivery] = status[worker[w].delivery]
                /\ lease_until'[worker[w].delivery] = lease_until[worker[w].delivery]
      PROVE  CallsHoldLeases'
  BY <1>1, LeaseHeld DEF Calling
<1>2. \A w \in Worker : Calling(w) => /\ worker[w].delivery \in Delivery
                                      /\ status[worker[w].delivery] = "delivering"
                                      /\ lease_until[worker[w].delivery] = "live"
  BY DEF PipelineInv, WorkerHoldsAttempt, CallsHoldLeases, HoldsLease, Calling
<1>3. CASE Accept
  BY <1>1, <1>2, <1>3 DEF Accept, Ingest, Replay, Enqueue, Terminal
<1>4. CASE \E p \in Dispatcher : Dispatch(p)
  BY <1>1, <1>4
     DEF Dispatch, ClaimOutbox, Publish, PublishFails, FinishOutbox, DispatcherStops, deliveryVars
<1>5. CASE \E w \in Worker : Work(w)
  BY <1>5, ClaimKeepsLeases, FinalizeKeepsLeases, CarryKeepsLeases DEF Work
<1>6. CASE \E S \in SUBSET Delivery : ScheduleDue(S)
  BY <1>1, <1>2, <1>6 DEF ScheduleDue, Enqueue
<1>7. CASE \E S \in SUBSET Delivery : ReconcileStale(S)
  BY <1>1, <1>2, <1>7 DEF ReconcileStale
<1>8. CASE \E d \in Delivery : LeaseExpires(d)
  <2>. PICK d \in Delivery : LeaseExpires(d)
    BY <1>8
  <2>1. \A w \in Worker : Calling(w) => worker[w].delivery # d
    BY DEF LeaseExpires
  <2>2. \A c \in Delivery : c # d => lease_until'[c] = lease_until[c]
    BY <1>0 DEF LeaseExpires, TypeOK
  <2>. QED
    BY <1>1, <1>2, <2>1, <2>2 DEF LeaseExpires
<1>9. CASE \E e \in Endpoint : Manage(e)
  BY <1>1, <1>2, <1>9
     DEF Manage, StopEndpoint, ChangeUrl, ReopenEndpoint, Waiting, deliveryVars
<1>10. CASE UNCHANGED vars
  BY <1>1, <1>10 DEF vars, deliveryVars
<1>. QED
  BY <1>3, <1>4, <1>5, <1>6, <1>7, <1>8, <1>9, <1>10 DEF Next, Schedule

\* the calls to an endpoint are to different deliveries, all of them in flight
LEMMA CallsFitSlots ==
    ASSUME PipelineInv, CallsHoldLeases
    PROVE  ConcurrencyBound
<1>. SUFFICES ASSUME NEW e \in Endpoint
              PROVE  Cardinality(CallsTo(e)) <= Capacity
  BY DEF ConcurrencyBound
<1>. DEFINE f == [w \in CallsTo(e) |-> worker[w].delivery]
<1>1. \A w \in CallsTo(e) : worker[w].delivery \in InFlight(e)
  BY DEF CallsTo, InFlight, CallsHoldLeases, HoldsLease, PipelineInv, WorkerHoldsAttempt, Calling
<1>2. \A v, w \in CallsTo(e) : worker[v].delivery = worker[w].delivery => v = w
  BY DEF CallsTo, CallsHoldLeases, HoldsLease, PipelineInv, AttemptOwnership, InCall, Calling
<1>3. f \in Injection(CallsTo(e), InFlight(e))
  BY <1>1, <1>2 DEF Injection, IsInjective
<1>4. IsFiniteSet(CallsTo(e)) /\ Cardinality(CallsTo(e)) <= Cardinality(InFlight(e))
  BY <1>3, InFlightFinite, FS_Injection
<1>5. Cardinality(InFlight(e)) <= Capacity
  BY DEF PipelineInv, SlotAccounting
<1>. QED
  BY <1>4, <1>5, InFlightFinite, ConstantTypes, FS_CardinalityType

(***************************************************************************)
(* As long as every call ends within its lease (10 s against 30 s), no     *)
(* endpoint has more than Capacity calls open at once.                     *)
(***************************************************************************)
THEOREM ConcurrencyIsBounded ==
    ASSUME ~CallMayOutliveLease
    PROVE  Spec => []ConcurrencyBound
<1>1. Init => CallsHoldLeases
  BY DEF Init, CallsHoldLeases, HoldsLease, Calling, Idle
<1>2. PipelineInv /\ CallsHoldLeases /\ [Next]_vars => CallsHoldLeases'
  BY StepKeepsLeases
<1>3. PipelineInv /\ CallsHoldLeases => ConcurrencyBound
  BY CallsFitSlots
<1>. QED
  BY <1>1, <1>2, <1>3, PipelineIsConsistent, PTL DEF Spec

-----------------------------------------------------------------------------
(***************************************************************************)
(* Lemmas about the time to the next attempt.                              *)
(***************************************************************************)

\* what a request for a delay comes to
LEMMA AskedIsCapped ==
    ASSUME NEW header, header.value \in Int, NEW now \in Int, NEW answer,
           header.kind = "seconds" => header.value >= 0
    PROVE  AskedDelay(answer, header, now) \in Nat \cup {NoRetryAfter}
<1>1. ASSUME NEW x \in Nat PROVE AtMost(x, SixHours) \in Nat
  BY DEF AtMost, SixHours
<1>2. ASSUME NEW x \in Int PROVE AtLeast(x, 0) \in Nat
  BY DEF AtLeast
<1>3. header.kind = "seconds" => header.value \in Nat
  OBVIOUS
<1>4. AtMost(AtLeast(header.value - now, 0), SixHours) \in Nat
  BY <1>1, <1>2
<1>5. CASE header.kind = "seconds"
  BY <1>1, <1>3, <1>5 DEF AskedDelay, RetryAfter
<1>6. CASE header.kind = "date"
  BY <1>4, <1>6 DEF AskedDelay, RetryAfter
<1>7. CASE header.kind \notin {"seconds", "date"}
  BY <1>7 DEF AskedDelay, RetryAfter
<1>. QED
  BY <1>5, <1>6, <1>7

\* jitter is the stated part of the base at most
LEMMA JitterIsBounded ==
    ASSUME NEW base \in Nat, NEW ratio \in Nat, NEW sample \in 0..100
    PROVE  /\ Jitter(base, ratio, sample) \in Nat
           /\ 100 * Jitter(base, ratio, sample) <= ratio * base
<1>1. PICK p \in Nat : p = base * ratio
  OBVIOUS
<1>2. p * sample \in Nat /\ p * sample <= p * 100
  OBVIOUS
<1>3. PICK q \in Nat : q = p * sample
  BY <1>2
<1>4. q \div 10000 \in Nat /\ 10000 * (q \div 10000) <= q
  BY <1>3
<1>5. 100 * (q \div 10000) <= p
  BY <1>2, <1>3, <1>4
<1>. QED
  BY <1>1, <1>3, <1>4, <1>5 DEF Jitter

(***************************************************************************)
(* For every schedule, ratio of jitter, throw of the dice and request of a *)
(* receiver the delay is what the documents promise (retry.py:16-29).      *)
(***************************************************************************)
THEOREM EveryDelayIsAsPromised ==
    ASSUME NEW delays \in Seq(Nat), delays # <<>>, NEW failed \in Nat \ {0}, NEW ratio \in Nat,
           NEW sample \in 0..100, NEW asked \in Nat \cup {NoRetryAfter}
    PROVE  DelayIsAsPromised(BaseDelay(failed, delays), ratio, asked,
                             RetryDelay(failed, delays, ratio, asked, sample))
<1>1. PICK base \in Nat : base = BaseDelay(failed, delays)
  BY DEF BaseDelay, AtMost
<1>2. PICK j \in Nat : j = Jitter(base, ratio, sample) /\ 100 * j <= ratio * base
  BY JitterIsBounded
<1>3. PICK m \in Nat : m = ratio * base
  OBVIOUS
<1>4. (100 + ratio) * base = 100 * base + m
  BY <1>3
<1>5. RetryDelay(failed, delays, ratio, asked, sample) =
         IF asked = NoRetryAfter THEN base + j ELSE AtLeast(base + j, AtMost(asked, SixHours))
  BY <1>1, <1>2 DEF RetryDelay
<1>6. 100 * j <= m
  BY <1>2, <1>3
<1>. DEFINE delay == RetryDelay(failed, delays, ratio, asked, sample)
            longest == (100 + ratio) * base
<1>7. longest \in Nat /\ longest = 100 * base + m
  BY <1>4
<1>8. CASE asked = NoRetryAfter
  <2>1. delay = base + j
    BY <1>5, <1>8
  <2>2. AtMost(asked, SixHours) = -1
    BY <1>8 DEF AtMost, SixHours, NoRetryAfter
  <2>3. 100 * delay <= longest /\ 100 * delay <= AtLeast(longest, 100 * SixHours)
    <3>. HIDE DEF delay, longest
    <3>. QED
      BY <2>1, <1>6, <1>7 DEF AtLeast, SixHours
  <2>. QED
    BY <1>1, <2>1, <2>2, <2>3 DEF DelayIsAsPromised
<1>9. CASE asked # NoRetryAfter
  <2>1. PICK t \in Nat : t = AtMost(asked, SixHours) /\ t <= SixHours
    BY <1>9 DEF AtMost, SixHours
  <2>2. delay = AtLeast(base + j, t)
    BY <1>5, <1>9, <2>1
  <2>3. delay \in Nat /\ base <= delay /\ t <= delay
    BY <2>2 DEF AtLeast
  <2>4. 100 * delay <= AtLeast(longest, 100 * SixHours)
    <3>. HIDE DEF delay, longest
    <3>. QED
      BY <2>1, <2>2, <1>6, <1>7 DEF AtLeast, SixHours
  <2>. QED
    BY <1>1, <1>9, <2>1, <2>3, <2>4 DEF DelayIsAsPromised
<1>. QED
  BY <1>8, <1>9

\* the schedule and the jitter of the settings are the documented ones
LEMMA SettingsAreAsPromised ==
    /\ RetryDelays \in Seq(Nat) /\ RetryDelays # <<>> /\ JitterRatio = 20
    /\ \A n \in 1..5 : BaseDelay(n, RetryDelays) = Promised[n]
<1>1. RetryDelays = <<30, 120, 600, 3600, 21600>> /\ Promised = RetryDelays
  BY DEF RetryDelays, Promised
<1>2. RetryDelays \in Seq(Nat) /\ Len(RetryDelays) = 5
  BY <1>1
<1>3. \A n \in 1..5 : AtMost(n, Len(RetryDelays)) = n
  BY <1>2 DEF AtMost
<1>. QED
  BY <1>1, <1>2, <1>3 DEF JitterRatio, BaseDelay

\* only two answers can ask for a delay, and only with a header
LEMMA AskedOnlyByHeader ==
    ASSUME NEW header, NEW now, NEW answer, AskedDelay(answer, header, now) # NoRetryAfter,
           header.kind \in {"seconds", "date", "missing"}
    PROVE  answer \in {429, 503} /\ header.kind # "missing"
BY DEF AskedDelay, RetryAfter

\* the theorem above for that schedule
LEMMA ConfiguredDelays ==
    ASSUME NEW k \in Nat \ {0}, NEW y \in 0..100, NEW a \in Nat \cup {NoRetryAfter}
    PROVE  DelayIsAsPromised(BaseDelay(k, RetryDelays), JitterRatio, a,
                             RetryDelay(k, RetryDelays, JitterRatio, a, y))
<1>1. RetryDelays \in Seq(Nat) /\ RetryDelays # <<>>
  BY SettingsAreAsPromised
<1>2. JitterRatio \in Nat
  BY SettingsAreAsPromised
<1>3. PICK ds \in Seq(Nat) : ds = RetryDelays
  BY <1>1
<1>4. PICK ra \in Nat : ra = JitterRatio
  BY <1>2
<1>5. ds # <<>>
  BY <1>1, <1>3
<1>6. DelayIsAsPromised(BaseDelay(k, ds), ra, a, RetryDelay(k, ds, ra, a, y))
  BY <1>5, EveryDelayIsAsPromised
<1>. QED
  BY <1>3, <1>4, <1>6

LEMMA NoPromiseIsBroken == BrokenPromises = {}
<1>. SUFFICES ASSUME NEW r \in Retries PROVE DelayIsKept(r)
  BY DEF BrokenPromises
<1>. DEFINE asked == AskedDelay(r.status, r.header, 1000)
<1>1. PICK n \in 1..5, s \in {404, 408, 429, 503}, h \in Headers, x \in 0..100 :
        r = [failed |-> n, status |-> s, header |-> h, sample |-> x]
  BY DEF Retries
<1>2. r.failed \in 1..5 /\ r.sample \in 0..100 /\ r.header \in Headers
  BY <1>1
<1>3. r.header.kind \in {"seconds", "date", "missing"} /\ r.header.value \in Nat
  BY <1>2 DEF Headers
<1>4. asked \in Nat \cup {NoRetryAfter}
  BY <1>3, AskedIsCapped
<1>5. DelayIsAsPromised(BaseDelay(r.failed, RetryDelays), JitterRatio, asked,
                        RetryDelay(r.failed, RetryDelays, JitterRatio, asked, r.sample))
  <2>. HIDE DEF asked
  <2>1. PICK k \in Nat \ {0} : k = r.failed
    BY <1>2
  <2>2. PICK y \in 0..100 : y = r.sample
    BY <1>2
  <2>3. PICK a \in Nat \cup {NoRetryAfter} : a = asked
    BY <1>4
  <2>4. DelayIsAsPromised(BaseDelay(k, RetryDelays), JitterRatio, a,
                          RetryDelay(k, RetryDelays, JitterRatio, a, y))
    BY ConfiguredDelays
  <2>. QED
    BY <2>1, <2>2, <2>3, <2>4
<1>6. asked # NoRetryAfter => r.status \in {429, 503} /\ r.header.kind # "missing"
  BY <1>3, AskedOnlyByHeader
<1>. QED
  BY <1>2, <1>5, <1>6, SettingsAreAsPromised DEF DelayIsKept

(***************************************************************************)
(* A delivery that waits for a retry waits as long as documented, whatever *)
(* its receiver asked for: with the settings' schedule and jitter no retry *)
(* breaks the promise (retry.py:16-29, settings.py, processor.py).         *)
(***************************************************************************)
THEOREM DelaysAlwaysAsPromised == Spec => []DelaysAsPromised
<1>1. DelaysAsPromised
  BY NoPromiseIsBroken DEF DelaysAsPromised
<1>. QED
  BY <1>1, PTL

=============================================================================

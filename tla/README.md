# A formal model of the webhook delivery platform

The platform accepts events from producers over HTTP, stores each with one
delivery per matching endpoint, and calls the endpoints from asynchronous
workers, at least once, with retries. What makes this hard is shared: one
PostgreSQL database, one RabbitMQ queue, several API processes, outbox
dispatchers, Celery workers and a scheduler, each of which may stop between any
two of its steps.

This directory holds TLA+ modules that model that program, TLC configurations
that check them on small instances, and proofs, checked by TLAPS, that hold for
every instance. `PROJECT.json` maps every definition to the lines it models.
Paths below are relative to `src/webhook_platform/` unless they start with
`docs/`, `README.md` (the repository's) or `compose.yaml`; "spec" is
`docs/specifications/PROJECT_SPECIFICATION.md`.

## 1. Inventory

| component | state it keeps | operations | interacts with |
|---|---|---|---|
| event ingestion (`events/`) | events, idempotency keys | `ingest`, reads | writes deliveries and outbox rows in its own transaction |
| deliveries (`deliveries/application`) | deliveries | `replay`, reads | writes deliveries and outbox rows |
| outbox dispatcher (`outbox/`, `outbox_dispatcher.py`) | outbox rows; a batch in memory | `claim_outbox`, `publish`, `finish_outbox` | reads the outbox, publishes to RabbitMQ |
| delivery worker (`worker.py`, `deliveries/infrastructure/processor.py`) | deliveries, attempts, slot counters | `claim_delivery`, `execute_delivery`, `finalize_delivery` | consumes commands, calls receivers |
| scheduler (`scheduler.py`, `maintenance/`) | none of its own | `schedule_due`, `reconcile_stale`, `cleanup_expired` | requeues, gives up stale attempts, deletes old rows |
| endpoints (`endpoints/`) | endpoints, secrets, subscriptions | create, update, verify, delete | cancels waiting deliveries; calls receivers with a challenge |
| identity (`identity/`) | users, families of refresh tokens | register, login, refresh, logout | - |
| organizations (`organizations/`) | memberships, API keys, audit rows | add/change/remove member, create/revoke key | its roles gate every management operation |
| rate limiter (`shared/infrastructure/rate_limit.py`) | token buckets of one process | `require` | every request |
| network policy, canonical JSON, cryptography, pagination, HTTP plumbing | none | pure functions and I/O | - |

What is hard in each, and what makes it correct:

* **Pipeline** (worker, outbox, scheduler). Every step is a transaction of its
  own, in another process, and any of them can be the last one its process
  takes. Commands are published, redelivered and executed more than once; a
  lease ends while its call is open; finalize and the reconciler both want to
  end one attempt. Correct means: no slot leaks or is released twice, attempts
  are numbered, carried out and recorded once, an endpoint is not called more
  often at a time than allowed, what is settled stays so, no command is lost,
  and every delivery is settled in the end.
* **Ingestion and replay.** Look, lock, insert, and a unique index to fall back
  on. Correct means: one event per key, one copy per replay key, answers that
  agree with each other, a backlog within its limit that is never held against
  a repetition.
* **Endpoints.** `verify` makes an HTTP call between two transactions and uses
  the object it read in the first one. Correct means: only a url that echoed a
  challenge is called, and deletion is final.
* **Identity.** A stolen refresh token is used at the same time as its owner
  uses it. Correct means: one live token per family, and none after a logout or
  a detected reuse.
* **Organizations.** Owners change each other's roles concurrently; keys are
  revoked twice, and while a producer uses them; a limit is counted without a
  lock. Correct means: an owner always remains, only owners decide, and a
  revoked key stores no more than what it had been let in for.
* **Retention.** One transaction deletes rows that others refer to while
  replays create such references. Correct means: nothing that stays loses its
  history, and what is old does go.
* **Lists.** A client reads pages by a cursor that names a row, while rows come,
  go and change status. Correct means: what was there all the while is shown,
  once, in order.
* **Row locks.** The transactions above lock the same few rows, by `FOR UPDATE`
  and by foreign keys, in different orders. Correct means: what was read under a
  lock still holds when it is used, every deadlock is ended, and none of them
  costs an answer that a receiver gave.

The hazards behind these, each at its line, are listed in `PROJECT.json`.

## 2. The modules and the code

| module | models | variables stand for |
|---|---|---|
| `RetryPolicy` | `is_success`, `is_retryable`, the classification of a call and the verdict of finalize; `parse_retry_after`, `retry_delay` | - |
| `DeliveryPipeline` | `processor.py`, `worker.py`, `outbox/`, `outbox_dispatcher.py`, `reconcile.py`, and what ingestion, replay and endpoint changes do to deliveries | columns of `deliveries`, `delivery_attempts`, `webhook_endpoints`, `outbox_messages`; the queue; what each worker and dispatcher has in memory |
| `DeliveryLifecycle` | nothing in the code: what one delivery is promised | a delivery's phase and the attempts it has begun |
| `DeliveryTransactions` | nothing in the code: what claims, finalizations, reconciliations, cancellations and requeues do to deliveries and slots, each at one instant | status, slot counter, open endpoints |
| `EventIngestion` | `EventUseCases.ingest`, `DeliveryUseCases.replay` and their repositories | what each request sent, how far it is, what it was told; `events`, `deliveries` |
| `IdempotentStore` | nothing in the code: what POST /events and a replay are to their clients | what was stored, what each client was told |
| `EndpointLifecycle` | `update`, `verify`, `delete` of one endpoint | the columns of its row, the stale object of each `verify` |
| `EndpointStates` | nothing in the code: the states of an endpoint that spec:229 promises | url, state, who answered, what waits |
| `RefreshTokens` | `refresh`, `logout`, `revoke_family` for one family | `refresh_tokens` rows, the row each request has locked, the snapshot of an UPDATE |
| `SignedInSession` | nothing in the code: a session that is renewed and ends | the token that can be used, the tokens given out |
| `Organizations` | members, API keys and their use by producers, and the creation and deletion of endpoints of one organization | `memberships`, `api_keys`, audit rows, a count of endpoints, how far each request is |
| `Retention` | `cleanup_expired` against ingestion and replay | `deliveries`, `events`, previews, their ages, the scheduler process |
| `KeysetPages` | any of the paginated lists and a client that follows `next_cursor` | the rows the query selects now, the cursor, what the client has been given |
| `DeliveryListing` | `Retention` and `KeysetPages` together: the deliveries of a status | both |
| `RowLocks` | the transactions of `processor.py`, `reconcile.py`, ingest, replay, endpoint and key changes, one action per row lock | the row each transaction waits for, the rows it holds, what it has read; status, slot counter, open endpoints |

`MC*` modules give the constants of a component values for TLC;
`*_proofs` hold the theorems. The modules are composed through the database: what one
writes and another reads is an action of the reader. `DeliveryPipeline` has
`Ingest`, `Replay`, `StopEndpoint`, `ChangeUrl` and `ReopenEndpoint`;
`EventIngestion` has `Settle`, `Open` and `Close`; `EndpointLifecycle` has
`Work` and `Drain`; `Retention` has `Ingest`, `Settle` and `Replay`.
Five modules say what is promised rather than what is done; the others are shown
to implement them by a refinement mapping (`INSTANCE ... WITH`):
`DeliveryPipeline` implements `DeliveryLifecycle` for each delivery and
`DeliveryTransactions` for all of them, `RowLocks` implements
`DeliveryTransactions` too, `EventIngestion` implements `IdempotentStore` twice
(for events and for replays), `RefreshTokens` implements `SignedInSession`, and
`EndpointLifecycle` implements `EndpointStates` until something overlaps a
challenge. `DeliveryListing` conjoins two
modules: every step of `Retention` also changes what `KeysetPages` lists, and
reading a page changes nothing in the database.

**Grain.** An action is one database transaction, one broker operation or one
HTTP call. Where a transaction reads something it has not locked, or waits
between two statements, it is several actions: the three steps of an ingest
under the organization's lock, lock / role / check / commit of a membership
change, the snapshot and the commit of the UPDATE in `revoke_family`. Rows
selected FOR UPDATE stay locked to the commit. `RowLocks` has a finer grain, one
lock per action, and shows that the coarse one is sound: what a transaction read
under its locks is still true when it commits (`LocksInv`, `SlotsAreCounted`), so
that both implement the same atomic transactions, `DeliveryTransactions`. A crash, a lost connection or a
deadlock victim is a rollback (`Stop`, `TaskRaises`, `ClaimRaises`).

**DeliveryPipeline in detail.** A worker goes `idle -> received -> executing ->
responded -> done -> idle`: `Receive` is Celery taking a command; `Claim` is
`claim_delivery` with its branches as disjuncts (ignored, cancelled, deferred
for lack of a slot, spent without a secret, started); `Respond` is the HTTP
call with the answers and failures `RetryPolicy` tells apart; `Finalize` is
`finalize_delivery`; `Ack` the late acknowledgement. `TaskRaises` and
`WorkerLost` end a task at any of these points; the second returns the command
to the queue, the first acknowledges it, because Celery acknowledges failed
tasks by default and `worker.py` does not say otherwise. A dispatcher claims a
batch, publishes it row by row with confirms, and marks what was confirmed;
`PublishFails` and `DispatcherStops` end a batch anywhere. Row leases of the
outbox are abstracted to "a pending row may be claimed again": the code does
allow that as soon as the lease is over, and a lease that is over while the
batch is still being published is one of the cases. Time is not a number: a
retry is due when `ScheduleDue` takes it and a delivery's lease ends in
`LeaseExpires`. With `CallMayOutliveLease = FALSE` it does not end under an
open call, which is what a call cut off after 10 s with a lease of 30 s comes
to unless the process is stalled; TRUE drops that assumption. The branch of
`claim_delivery` for a delivery without its event (`processor.py:85`) has no
counterpart: the foreign key deletes a delivery with its event.

**RowLocks in detail.** A transaction is the list of rows it locks, found in
its statements: `claim_delivery` takes the delivery, its endpoint, and, by the
foreign key of the attempt it inserts, the organization; `finalize_delivery` the
delivery and the endpoint; `reconcile_stale` some deliveries (`SKIP LOCKED`) and then
their endpoints one by one; a change of an endpoint its row, the deliveries
`cancel_waiting` finds, and, by the foreign key of the audit row, the
organization; `revoke_key` the key and the organization; `ingest` the organization,
then by foreign keys the API key and the endpoints; `replay` the source, then by
foreign keys the endpoint and the organization. A foreign key takes FOR KEY
SHARE, which excludes FOR UPDATE but not another FOR KEY SHARE. PostgreSQL grants
a lock when nobody holds a conflicting one; it ends a cycle by rolling back any
one of its members (`Sacrifice`). `cancel_waiting` is an UPDATE under READ COMMITTED:
it finds rows in its snapshot, waits for those that are locked, and looks at each
again when it has it; one that no longer waits is left as it is and stays locked.
The ingest locks any of the open endpoints, those subscribed to its event type.

## 3. What TLC checks

| run | question | result |
|---|---|---|
| `pipeline_safety` | two deliveries for one slot, two workers, one failure anywhere | `SlotAccounting`, `AttemptHistory`, `AttemptOwnership`, `ConcurrencyBound`, `HistoryIsFinal` hold (663 168 states), and every delay is `DelaysAsPromised` |
| `pipeline_liveness` | two deliveries, one worker, one slot, one failure | `EventuallySettled` holds |
| `pipeline_retries` | two attempts, two outbox rows, two workers, two failures, calls that outlive their lease | `PipelineInv` (types and `AttemptBudget` included), `NoLostCommand`, `ImplementsLifecycle`, `ImplementsTransactions`, `EventuallySettled` hold |
| `lost_command` | the same when a claim transaction may raise | `NoLostCommand` fails (finding 1) |
| `row_locks` | one transaction of every kind at once, lock by lock | `LocksInv`, `SlotsAreCounted`, `DeadlocksNeedIngestOrChange`, `AnswersSurvive`, `ImplementsTransactions`, `AnswersAreRecorded` hold (181 578 states) |
| `endpoint_overlap` | two `verify` with any updates and a deletion | `EndpointInv` (with `DeletedStaysClosed` and `OpenedByAnEcho`), `VerifiedUnlessOverlapped` and `FollowsStatesUnlessOverlapped` hold |
| `endpoint_url_race` | the same, for the promise as it is documented | `OpenUrlEchoed` fails (finding 2) |
| `ingestion` | three requests with shared keys and different contents, two replays, stops, at the backlog limit | `IngestionInv`, `ImplementsIdempotency`, `ReplayedOnce`, `BacklogBound`, `RepeatsAreRecognised` hold (925 546 states) |
| `token_family` | three requests on one family of up to four tokens | `TokenInv`, `OneLiveToken`, `ReuseEndsFamily`, `ImplementsSession` hold (70 530 states) |
| `organization_members` | three users, two requests at a time, a key that is revoked while it is used | `OrganizationInv` (with `RevokedOnce`), `AlwaysAnOwner`, `OwnersDecide`, `EndpointsNearLimit`, `RevokedKeyEnds` hold (512 376 states) |
| `retention` | originals and replays of replays, batches that reach everything old, and a client that reads the settled deliveries in pages of two | `RetentionInv`, `NothingForgottenEarly`, `EventuallyForgotten`, `NothingMissed`, `PagesInOrder` hold (187 586 states) |
| `retention_batch` | a batch that does not | `EventuallyForgotten` fails (finding 3) |

For every property of a passing run `PROJECT.json` names a mutant: a definition
of the model and a faulty variant, kept beside it in the module, that changes it
as a plausible bug would (a lock that is forgotten, a comparison off by one, the
status looked at in place of the attempt). Each makes its property fail.

### Bounds, and why they are enough

* *Pipeline.* Two deliveries of one endpoint with `Capacity = 1` contend for a
  slot; endpoints do not interact, so one is enough. `MaxAttempts = 2` has a
  first, a repeated and a last attempt. Two workers hold one command twice.
  `RowsPerDelivery` bounds the outbox rows of a delivery that are pending or
  remembered; it is 1 in the runs with two deliveries and 2 in `pipeline_retries`,
  where an old row can still be in a batch while a new one is written.
  `MaxCopies = 1` makes a publish wait while a copy is ready; a command still
  exists twice at a time (one ready, one at a worker, or two at workers).
  `MaxFaults` bounds failures, not steps: 1 or 2, placed anywhere.
* *Endpoint.* Two urls, two `verify` requests, three challenges: one more than
  are under way at a time, so that one can be replaced.
* *Delays.* All five attempts and one header of each kind around the limits; the
  theorem of the same content has no bound.
* *Row locks.* Three deliveries of two endpoints, so that the reconciler can hold
  two rows and one endpoint is shared; one transaction of every kind, each run
  once. A cycle of two or three of them is what the orders allow; that several
  claims or changes at once add no other kind is the theorem. `Capacity = 2` lets the
  one claim start beside the call that is out: a claim that is deferred, or that
  meets another claim, is left to the theorems here and to the pipeline's runs.
* *Ingestion.* With three requests one can repeat what another stored while the
  third holds the lock. The limit is 1, which one delivery
  fills, so that two requests that count at once would exceed it.
* *Tokens.* Three requests: two race, the third presents what they race for;
  four tokens: a chain with a past and a future.
* *Organizations.* Two owners and somebody else. `EndpointLimit = 1` with two
  requests is exceeded by one, the most that `EndpointsNearLimit` allows; one of
  two requests is let in with a key that the other revokes, the most that
  `RevokedKeyEnds` allows.
* *Retention.* Three deliveries: a source, its replay, and a replay of that or
  another original. Two of them have one `created_at` and a page holds two, so a
  page ends between equal times, and a row can leave or join on either side of
  the cursor. In `retention` the batch is as large as everything there can
  be, in `retention_batch` one smaller. 1000 in the code differs only in how
  many rows it takes.

Symmetry is declared over the interchangeable members of sets in runs without
liveness properties; the founder of an organization is not interchangeable.
Deadlock is checked everywhere except for the endpoint, where a deleted endpoint
has no further step, and for `RowLocks`, where every transaction runs once and
then the system stops; that no answer is left unrecorded by then is
`AnswersAreRecorded`.

### Fairness

`pipeline_liveness` and `pipeline_retries` assume (`Fairness` in
`DeliveryPipeline`): dispatcher, scheduler and workers keep running, because
each loops for ever and compose restarts it (`restart: unless-stopped`,
`compose.yaml:11`); a call ends, because it has a timeout; a lease runs out. Strong
fairness is assumed for each row, delivery and command that can be served again
and again but is not always first: rows and due deliveries are taken oldest
first (`claim_outbox`, `schedule_due` order by time) and the queue is first in,
first out. Nothing is assumed of producers, operators, receivers or failures, and
failures are finitely many. `retention` assumes that time passes, deliveries are
settled, replay requests end and are finitely many, and a pass runs every hour
and after every restart; nothing is assumed of the client that reads. `row_locks`
assumes only that something that can happen does (`WF_vars(Next)`), deadlock
detection included, which PostgreSQL runs after `deadlock_timeout`.

## 4. What is proved

TLAPS proves the following for every value of the constants, under the named
assumptions on constants only (`PipelineAssumption`, `IngestionAssumption`,
`EndpointAssumption`, `RefreshAssumption`, `OrganizationAssumption`,
`RetentionAssumption`, `PagesAssumption`, `ListingAssumption`, `RowLocksAssumption`,
`KindAssumption`: finite sets, positive bounds, distinct ids; and
`SchedulerAssumption`: one reconciler runs, `compose.yaml:88`), which TLC
evaluates in the runs.

* **Pipeline** (`DeliveryPipeline_proofs`). `SlotAccounting`, `AttemptHistory`,
  `AttemptBudget` and `AttemptOwnership` are invariants. None is inductive
  alone. `AttemptOwnership` needs to know that the number a claim hands out is
  new, which is `WorkerHoldsAttempt`: whoever is past its claim holds a number
  up to `attempt_count`. That the counter of slots is right after a finalize or a
  reconcile needs `AttemptHistory`, which says that an open attempt means an
  occupied slot; and that a claim may add an attempt needs `AttemptBudget`.
  Together with types these are `PipelineInv`, proved with one lemma per action.
  `CommandsAreKept` proves `NoLostCommand` if no claim raises.
  From it follows `PipelineNeverIdleWithWork`, what `EventuallySettled` rests on: while
  a delivery is not settled a worker, the dispatcher, the scheduler or a lease can
  take a step, at whatever limit the queue, the batches and the outbox rows are.
  A queued delivery without a command would be the state it excludes.
* **Refinement** (`PipelineImplementsLifecycle`). Every step of the pipeline is
  a step or a stutter of `DeliveryLifecycle`, with `queued` and
  `retry_scheduled` both "waiting"; and `HistoryIsFinal`.
* **Atomicity** (`PipelineImplementsTransactions`, `LocksImplementTransactions`).
  `DeliveryTransactions` has every transaction that touches deliveries or slots as
  one step, with what it must find: a claim an open endpoint with a free slot, a
  finalize or reconcile a delivery that is out. `RowLocks` implements
  it because of `LocksInv`: a transaction acts on what it read under its
  locks, and the steps in between change nothing others see. `DeliveryPipeline`
  implements it although commands are lost and repeated and attempts end twice:
  what an attempt finds decides whether its transaction happens at all.
* **Concurrency** (`ConcurrencyIsBounded`). If calls end within their
  lease, an endpoint never has more than `Capacity` calls open: an open call then
  belongs to a delivery in `delivering`, different calls to different ones, so
  the number of calls is at most the counter.
* **Delays** (`EveryDelayIsAsPromised`). For every table, ratio, random value and
  header, not only those that TLC tries: jitter adds at least nothing and at most
  its ratio, and what was asked for is capped before it is compared.
  `DelaysAlwaysAsPromised` is the instance for the settings the code ships with,
  which the run checks.
* **Ingestion.** `IngestionInv` (one event per key, one copy per replay key, the
  look after a conflict always finds what it conflicted with), and from it
  `AnswersAgree` and `ReplayedOnce`. `BacklogIsBounded`: originals stay within the
  limit but for endpoints that open between count and read, with `RoomIsKept` as the
  inductive part, for only one ingest is past the lock; and `BacklogStaysNearLimit`:
  everything that waits exceeds it by at most one delivery for each replay and for
  each such endpoint. `RepeatsAreRecognised`, because events are never taken back
  while requests look.
* **Idempotency** (`IngestionImplementsIdempotency`). Ingest and replay implement
  `IdempotentStore`, in which a request is answered in one step: with what is stored
  under its key, with a conflict if that has other content, or with something
  new that is stored at that moment, if nothing was. (A replay of a delivery that is
  not there is answered 404 and asks nothing of the store.) An answer comes later
  than the insert only when the request looked and found it, and what it finds stays
  stored; the error that the code would raise if the look after a conflict found
  nothing is not an answer of the store, so the theorem shows that it never happens.
* **Endpoint.** `DeletedStaysClosed` and `OpenedByAnEcho` under any
  interleaving; `VerifiedUnlessOverlapped` and `DeletedUnlessOverlapped` with the
  further invariant that, while nothing has overlapped, the object of a `verify`
  agrees with its row. From the same invariant `EndpointFollowsStates`: until
  something overlaps, the handlers implement `EndpointStates`, the two transactions
  of `verify` being one step of it and the answer of the receiver another.
* **Tokens.** Only the youngest token can be live and a request that is about
  to change a token has its row to itself; hence `OneLiveToken`,
  `LogoutEndsSession`, and `ReuseEndsFamily`, for which the snapshot of the UPDATE
  has the live token unless a rotation raced with it. `FamilyImplementsSession`: a
  rotation spends the only token that can be live, a revocation leaves that token or
  none, so the family is one session of `SignedInSession`, which never comes back.
* **Organizations.** What a membership request has checked still holds when it
  commits, because it is the only one past the lock; hence `AlwaysAnOwner` and
  `OwnersDecide`. The limit of endpoints has no such lock: endpoints and
  requests that have counted are together less than the limit and the number of
  requests, which is `EndpointsNearLimit`. `RevokedKeyEnds` is of the
  same kind: once a key is revoked nobody is let in any more, so what it has
  stored since and those still under way are together fewer than the requests,
  one of which revoked it (`LateOnesFit`).
* **Retention.** `HistoryIsWhole`, a conjunct of `RetentionInv`
  (`NothingIsOrphaned`): sources go only with their replays, and a source locked by a
  replay is skipped. A delivery would also go with its event (ON DELETE CASCADE,
  `shared/infrastructure/models.py:206`). `OnlyTheOverdueGo` proves `NothingForgottenEarly`: the events that a
  pass takes have no delivery but those it deletes itself, so the cascade takes
  none that waits, is young or is being replayed. Of
  `EventuallyForgotten` the part that needs no fairness: when all that is left is over
  and old and one batch reaches it, a pass does not raise and leaves nothing
  (`PassesForgetEverything`); and with any batch a pass that commits deletes
  something that is due (`PassesGoOn`), because the oldest of a finite set is always
  in the batch, so that finding 3 is the only way to keep old deliveries.
* **Lists** (`DeliveryListing_proofs`). The cursor divides what was shown from what
  is to come: every row that has been there all the while and was not shown is
  behind it, and every row that was shown is not (`CursorDivides`). That the cursor
  is two values and not a row makes this true when the row is gone. A page is the
  first so many rows behind it, so the rows left out are behind its last one; hence
  `NothingMissed` and `PagesInOrder`, for every list. `DeliveriesAreAList` shows that
  the composition is such a list and that `Retention` in it is unchanged.
* **Row locks** (`RowLocks_proofs`). `LocksInv` says that locks exclude each other,
  that every transaction holds exactly what comes before the lock it waits for,
  and that what it read there still holds; it is proved with one lemma per action
  and gives `SlotsAreCounted` and `ClaimedWhileOpen`. `WorkersNeverStuck` is
  about the order of locks alone and does without deadlock detection: of finitely
  many claims, finalizes, reconciles and replays that are not over, one can go on or
  waits for a change or an ingest. A smallest set of them that only wait for one
  another would be a circle, and their order, delivery, endpoint, organization,
  has none; with the endpoint before the delivery in finalize this is false.
  The two deadlock theorems take a
  set whose members all wait for one another in it and no smaller such set:
  workers, scheduler and replays lock a delivery, then an endpoint, then share the
  organization, so that a member that waits for an endpoint waits for somebody who
  holds one, and only the one reconciler waits while it does. A finalize whose
  attempt is still open has its delivery in `delivering`; nobody cancels that, the
  reconciler skips it, so the finalize that holds it is waited for by nobody.
  That there is one reconciler is needed here: two could hold endpoints crosswise.

Only model-checked: the liveness properties (`EventuallySettled`,
`EventuallyForgotten`, `AnswersAreRecorded`), which need fairness and ENABLED, out
of the prover's reach; and of course the three properties that fail. The theorems
about the steps they rest on are named above.

## 5. Findings

1. **A claim that raises loses its command** (`lost_command`, `worker.py:39`).
   `task_acks_late` and `task_reject_on_worker_lost` cover a lost process, but a
   task that raises is acknowledged. If `claim_delivery` raises (database down,
   pool timeout, or the victim of a deadlock, which `RowLocks` shows to be one of
   normal operation), the delivery stays `queued` with its outbox row
   published; neither `schedule_due` nor `reconcile_stale` looks at `queued`.
   `docs/runbooks/database-unavailable.md:13` promises otherwise.
2. **A url nobody verified becomes active** (`endpoint_url_race`,
   `endpoints/application/use_cases.py:212`). The second transaction of `verify`
   selects the row again, but the session keeps the object of the first
   (`expire_on_commit=False`), so a url changed during the call is not noticed and
   the new one is activated. Spec:98.
3. **Cleanup can stop for ever** (`retention_batch`,
   `maintenance/application/cleanup.py:70`). A source in the batch whose replay is
   not is still referenced; the delete raises, the pass with its previews and
   audit rows is rolled back, the scheduler ends and is restarted, and the next
   pass selects the same rows. README.md:178.

Seen while modelling, and described by the model rather than by a run of its own:

* Replays do not look at the backlog limit (`deliveries/application/use_cases.py:164`),
  which is why `BacklogBound` is about originals; `BacklogStaysNearLimit` counts them.
* A repetition that was sent before its original was stored, and waited for the
  lock behind it, is answered 429 when the original filled the backlog
  (`events/application/use_cases.py:100`; spec:79). `RepeatsAreRecognised` says that
  this is the only case.
* Transactions do deadlock in normal operation: an ingest with a claim, with a
  change of an endpoint, with a revocation of its key, and with a batch of the
  reconciler; a claim with a change that cancels its delivery. The victim of the
  API is answered 500, that of the reconciler ends the scheduler, which is
  restarted, and a claim loses its command (finding 1).
* A key that is revoked between its check and the event still stores one event for
  each request that had passed (`api_dependencies.py:78`; spec:336), and no more.
* `parse_retry_after` takes `str.isdigit()` for a number, which also admits
  characters such as a superscript two that `int()` refuses; the task then raises
  like any other (`TaskRaises`).
* Two registrations with one e-mail address at once: the second meets the unique
  constraint and is answered 500 rather than 409
  (`identity/application/use_cases.py:37`).
* An endpoint deleted during a challenge ends with status `active` and
  `deleted_at` set (`endpoints/application/use_cases.py:222`; spec:229), though it is
  never called: `DeletedStaysClosed`. A `verify` replaced by a later one still
  succeeds (line 215; spec:164). Disabling together with a new url, or before
  verification, does not cancel what waits (line 180); the claim does.
* A rotation that commits under the UPDATE of `revoke_family` leaves a live
  token in a revoked family (`identity/application/use_cases.py:87`; spec:124).
* Two creates may both count 99 endpoints (`endpoints/application/use_cases.py:121`).

## 6. Not modelled, and why

* **Time as a number.** In the pipeline a retry is due when the scheduler says so
  and a lease ends when it ends: how long delays are is in `RetryPolicy`, and no
  property of the pipeline depends on their length.
* **Rate limiter.** The clock is read before the lock is awaited, but nothing is
  awaited under the lock, so on one event loop nobody ever waits for it:
  `require` is one sequential step of floating-point arithmetic in one process.
* **Row locks that nobody waits for in a circle**: membership changes lock the
  organization row alone, refresh tokens are rows of other tables, and
  `schedule_due`, the outbox and cleanup skip locked rows. A transaction of
  `RowLocks` runs once: what the rolled-back one does next (a retry of the client,
  a new command) belongs to the other modules.
* **Subscriptions, names and secrets of endpoints**: an update replaces them under
  the lock of its endpoint; which events an endpoint gets is a free choice in
  `Ingest` and `ReadEndpoints`.
* **Register and login** create fresh rows; they are the initial states of
  `Organizations` and `RefreshTokens`.
* **Audit rows** other than that of a revocation: written and never read by a
  decision.
* **Spelling of a url.** `update` compares the url of the request with the stored,
  normalised one (`endpoints/application/use_cases.py:172`), so another spelling
  of the same url counts as a change and asks for a new verification. `Update` has
  both cases (`respelled`); which spellings normalise to one url is not modelled.
* **Pure conversions** (canonical JSON, signatures, encryption, cursors as text,
  network policy) and HTTP plumbing: no state, or predicates that defer to a
  library.

## 7. Order of the work

Built in this order, each module with its run and its proofs before the next:
the pipeline, its lifecycle and refinement; ingestion and replay; endpoint;
tokens; organizations; retention; row locks; the backlog at its limit; the use
of keys; lists and their composition with retention; retry delays. Then what is
promised as modules of their own, and the refinements: the atomic transactions, the
idempotent store, the session, the states of an endpoint. A next step would be the same for `Organizations` (members and keys as a
list that changes at once) and for `KeysetPages` (a list read at one instant, as
far as that is true), and a pipeline in which the victim of a deadlock is chosen by
`RowLocks`, so that the loss of a command follows within one module.

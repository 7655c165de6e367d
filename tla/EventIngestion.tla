--------------------------- MODULE EventIngestion ---------------------------
(***************************************************************************)
(* How deliveries come into being in one organization: POST /events, which *)
(* is idempotent in the producer's key and bounded by the backlog limit,   *)
(* and the manual replay of a settled delivery, idempotent in its own key. *)
(*                                                                         *)
(* Both look for what they did before without a lock, lock a row (the      *)
(* organization, the source delivery), insert, and fall back on the unique *)
(* index: a conflict rolls back and looks again. Under the organization's  *)
(* lock an ingest still reads deliveries and endpoints that others change, *)
(* so its transaction is three actions.                                    *)
(*                                                                         *)
(* A request is one HTTP request: a client that repeats one because the    *)
(* answer was lost is another Request with the same key and content.       *)
(***************************************************************************)
EXTENDS Naturals, FiniteSets

CONSTANTS
    Request,          \* POST /events requests; one also names the event it stores
    Replayer,         \* replay requests; one also names the delivery it creates
    Key,              \* idempotency identities (organization, API key, header)
    Content,          \* fingerprints of the canonical body
    Endpoint,         \* the endpoints that subscribe to the event type
    NoDelivery,       \* what a replay that has not begun is about
    BacklogLimit      \* settings.backlog_limit

ASSUME IngestionAssumption ==
    /\ IsFiniteSet(Request) /\ IsFiniteSet(Replayer) /\ IsFiniteSet(Endpoint)
    /\ Request \cap Replayer = {}
    /\ NoDelivery \notin (Request \cup Replayer) \X Endpoint
    /\ BacklogLimit \in Nat

VARIABLES
    key, content,     \* what each request sends; never changes
    replay_key,       \* what each replay sends; never changes
    pc,               \* how far each request is, or the answer it got
    matched,          \* the endpoints each request has read
    event,            \* the event an accepted request was told
    stored,           \* the events rows, by the request that inserted them
    waiting, settled, \* the deliveries rows that are not, and are, terminal
    replay_pc, replay_of, \* how far each replay is, and the delivery it repeats
    copy,             \* the delivery an accepted replay was told
    open,             \* the endpoints that are active and enabled
    uncounted,        \* history: deliveries to endpoints that opened after the count,
                      \* until they are settled
    repeats           \* history: requests sent when their event was stored already

history == <<uncounted, repeats>>
sent == <<key, content, replay_key>>
requestVars == <<pc, matched, event>>
replayVars == <<replay_pc, replay_of, copy>>
vars == <<sent, requestVars, stored, waiting, settled, replayVars, open, history>>

Delivery == (Request \cup Replayer) \X Endpoint
Deliveries == waiting \cup settled

InTransaction == {"counted", "matched"}

TypeOK ==
    /\ key \in [Request -> Key] /\ content \in [Request -> Content]
    /\ replay_key \in [Replayer -> Key]
    /\ pc \in [Request -> {"new", "missed", "conflicted", "accepted", "conflict",
                           "limit", "error", "stopped"} \cup InTransaction]
    /\ matched \in [Request -> SUBSET Endpoint]
    /\ event \in [Request -> Request]
    /\ stored \subseteq Request
    /\ waiting \subseteq Delivery /\ settled \subseteq Delivery
    /\ replay_pc \in [Replayer -> {"new", "missed", "conflicted", "accepted",
                                   "not_found", "not_terminal", "error", "stopped"}]
    /\ replay_of \in [Replayer -> Delivery \cup {NoDelivery}]
    /\ copy \in [Replayer -> Replayer]
    /\ open \subseteq Endpoint
    /\ uncounted \subseteq Delivery /\ repeats \subseteq Request

Init ==
    /\ key \in [Request -> Key] /\ content \in [Request -> Content]
    /\ replay_key \in [Replayer -> Key]
    /\ pc = [r \in Request |-> "new"]
    /\ matched = [r \in Request |-> {}]
    /\ event = [r \in Request |-> r]
    /\ stored = {} /\ waiting = {} /\ settled = {}
    /\ replay_pc = [q \in Replayer |-> "new"]
    /\ replay_of = [q \in Replayer |-> NoDelivery]
    /\ copy = [q \in Replayer |-> q]
    /\ open \in SUBSET Endpoint
    /\ uncounted = {} /\ repeats = {}

-----------------------------------------------------------------------------
\* existing_idempotency: the event this request would be a repetition of
Existing(r) == {s \in stored : key[s] = key[r]}

\* hmac_compare of the fingerprints
SameContent(r, s) == content[r] = content[s]

\* _idempotent_result
AnswerFrom(r, s) ==
    \/ /\ SameContent(r, s)
       /\ pc' = [pc EXCEPT ![r] = "accepted"]
       /\ event' = [event EXCEPT ![r] = s]
    \/ /\ ~SameContent(r, s)
       /\ pc' = [pc EXCEPT ![r] = "conflict"]
       /\ UNCHANGED event

\* faulty variant of Look: the unique index is trusted to find the repetition
NoLook(r) ==
    /\ pc[r] = "new"
    /\ pc' = [pc EXCEPT ![r] = "missed"]
    /\ UNCHANGED <<sent, matched, event, stored, waiting, settled, replayVars, open, history>>

\* the look before the lock
Look(r) ==
    /\ pc[r] = "new"
    /\ \/ \E s \in Existing(r) : AnswerFrom(r, s)
       \/ /\ Existing(r) = {}
          /\ pc' = [pc EXCEPT ![r] = "missed"]
          /\ UNCHANGED event
    /\ UNCHANGED <<sent, matched, stored, waiting, settled, replayVars, open, history>>

\* projected_backlog is not above the limit
Fits == Cardinality(waiting) + Cardinality(open) <= BacklogLimit

\* faulty variant of OrganizationLocked: the row is read without FOR UPDATE
NothingLocked == FALSE

\* the row lock of the organization is held until commit or rollback
OrganizationLocked == \E s \in Request : pc[s] \in InTransaction

CountBacklog(r) ==
    /\ pc[r] = "missed"
    /\ ~OrganizationLocked
    /\ pc' = [pc EXCEPT ![r] = IF Fits THEN "counted" ELSE "limit"]
    /\ UNCHANGED <<sent, matched, event, stored, waiting, settled, replayVars, open, history>>

\* create_event_graph reads the endpoints again
ReadEndpoints(r) ==
    /\ pc[r] = "counted"
    /\ matched' = [matched EXCEPT ![r] = open]
    /\ pc' = [pc EXCEPT ![r] = "matched"]
    /\ UNCHANGED <<sent, event, stored, waiting, settled, replayVars, open, history>>

\* faulty variant of KeyTaken: no unique index on the idempotency identity
NoKeyIndex(r) == FALSE

\* uq_events_organization_key_idempotency is violated
KeyTaken(r) == Existing(r) # {}

\* the inserts and the commit: all of the event's graph or nothing
Insert(r) ==
    /\ pc[r] = "matched"
    /\ \/ /\ KeyTaken(r)
          /\ pc' = [pc EXCEPT ![r] = "conflicted"]
          /\ UNCHANGED <<event, stored, waiting, repeats>>
       \/ /\ ~KeyTaken(r)
          /\ pc' = [pc EXCEPT ![r] = "accepted"]
          /\ event' = [event EXCEPT ![r] = r]
          /\ stored' = stored \cup {r}
          /\ waiting' = waiting \cup ({r} \X matched[r])
          /\ repeats' = repeats \cup {s \in Request : pc[s] = "new" /\ key[s] = key[r]}
    /\ matched' = [matched EXCEPT ![r] = {}]
    /\ UNCHANGED <<sent, settled, replayVars, open, uncounted>>

\* the look after the rollback; finding nothing re-raises
LookAgain(r) ==
    /\ pc[r] = "conflicted"
    /\ \/ \E s \in Existing(r) : AnswerFrom(r, s)
       \/ /\ Existing(r) = {}
          /\ pc' = [pc EXCEPT ![r] = "error"]
          /\ UNCHANGED event
    /\ UNCHANGED <<sent, matched, stored, waiting, settled, replayVars, open, history>>

\* the API process stops, or loses the database: what is not committed is undone
Stop(r) ==
    /\ pc[r] \in {"missed", "conflicted"} \cup InTransaction
    /\ pc' = [pc EXCEPT ![r] = "stopped"]
    /\ matched' = [matched EXCEPT ![r] = {}]
    /\ UNCHANGED <<sent, event, stored, waiting, settled, replayVars, open, history>>

Ingest(r) ==
    Look(r) \/ CountBacklog(r) \/ ReadEndpoints(r) \/ Insert(r) \/ LookAgain(r) \/ Stop(r)

-----------------------------------------------------------------------------
\* the delivery a replay creates goes to the endpoint of its source
CopyOf(q, d) == <<q, d[2]>>

Created(p) == \E e \in Endpoint : <<p, e>> \in Deliveries

\* existing_replay: the replay of d under this key
ExistingReplay(q, d) ==
    {p \in Replayer : Created(p) /\ replay_of[p] = d /\ replay_key[p] = replay_key[q]}

LookReplay(q, d) ==
    /\ replay_pc[q] = "new"
    /\ replay_of' = [replay_of EXCEPT ![q] = d]
    /\ \/ \E p \in ExistingReplay(q, d) :
            /\ replay_pc' = [replay_pc EXCEPT ![q] = "accepted"]
            /\ copy' = [copy EXCEPT ![q] = p]
       \/ /\ ExistingReplay(q, d) = {}
          /\ replay_pc' = [replay_pc EXCEPT ![q] = "missed"]
          /\ UNCHANGED copy
    /\ UNCHANGED <<sent, requestVars, stored, waiting, settled, open, history>>

\* the id is no delivery of the organization; cleanup is in Retention, not here
ReplayUnknown(q) ==
    /\ replay_pc[q] = "new"
    /\ replay_pc' = [replay_pc EXCEPT ![q] = "not_found"]
    /\ UNCHANGED <<sent, requestVars, stored, waiting, settled, replay_of, copy, open, history>>

\* faulty variant of ReplayTaken: no unique index on the replays of a delivery
NoReplayIndex(q) == FALSE

\* uq_deliveries_replay_idempotency is violated
ReplayTaken(q) == ExistingReplay(q, replay_of[q]) # {}

\* faulty variant of ReplaySource: any delivery may be replayed
AnySource(q) == TRUE

\* the locked source is terminal
ReplaySource(q) == replay_of[q] \in settled

\* under the lock of the source: its status, the insert and the commit
CreateReplay(q) ==
    /\ replay_pc[q] = "missed"
    /\ \/ /\ ~ReplaySource(q)
          /\ replay_pc' = [replay_pc EXCEPT ![q] = "not_terminal"]
          /\ UNCHANGED <<copy, waiting>>
       \/ /\ ReplaySource(q) /\ ReplayTaken(q)
          /\ replay_pc' = [replay_pc EXCEPT ![q] = "conflicted"]
          /\ UNCHANGED <<copy, waiting>>
       \/ /\ ReplaySource(q) /\ ~ReplayTaken(q)
          /\ replay_pc' = [replay_pc EXCEPT ![q] = "accepted"]
          /\ copy' = [copy EXCEPT ![q] = q]
          /\ waiting' = waiting \cup {CopyOf(q, replay_of[q])}
    /\ UNCHANGED <<sent, requestVars, stored, settled, replay_of, open, history>>

LookAgainReplay(q) ==
    /\ replay_pc[q] = "conflicted"
    /\ \/ \E p \in ExistingReplay(q, replay_of[q]) :
            /\ replay_pc' = [replay_pc EXCEPT ![q] = "accepted"]
            /\ copy' = [copy EXCEPT ![q] = p]
       \/ /\ ExistingReplay(q, replay_of[q]) = {}
          /\ replay_pc' = [replay_pc EXCEPT ![q] = "error"]
          /\ UNCHANGED copy
    /\ UNCHANGED <<sent, requestVars, stored, waiting, settled, replay_of, open, history>>

StopReplay(q) ==
    /\ replay_pc[q] \in {"missed", "conflicted"}
    /\ replay_pc' = [replay_pc EXCEPT ![q] = "stopped"]
    /\ UNCHANGED <<sent, requestVars, stored, waiting, settled, replay_of, copy, open, history>>

Replay(q) ==
    \/ \E d \in Deliveries : LookReplay(q, d)
    \/ ReplayUnknown(q) \/ CreateReplay(q) \/ LookAgainReplay(q) \/ StopReplay(q)

-----------------------------------------------------------------------------
\* the pipeline settles a delivery, or a change of the endpoint cancels it
Settle(d) ==
    /\ d \in waiting
    /\ waiting' = waiting \ {d}
    /\ settled' = settled \cup {d}
    /\ uncounted' = uncounted \ {d}
    /\ UNCHANGED <<sent, requestVars, stored, replayVars, open, repeats>>

\* an endpoint is verified, enabled again, or subscribes to the type
Open(e) ==
    /\ open' = open \cup {e}
    /\ uncounted' = uncounted \cup {d \in Request \X {e} : e \notin open /\ pc[d[1]] = "counted"}
    /\ UNCHANGED <<sent, requestVars, stored, waiting, settled, replayVars, repeats>>

Close(e) ==
    /\ open' = open \ {e}
    /\ UNCHANGED <<sent, requestVars, stored, waiting, settled, replayVars, history>>

Next ==
    \/ \E r \in Request : Ingest(r)
    \/ \E q \in Replayer : Replay(q)
    \/ \E d \in Delivery : Settle(d)
    \/ \E e \in Endpoint : Open(e) \/ Close(e)

Spec == Init /\ [][Next]_vars

-----------------------------------------------------------------------------
(***************************************************************************)
(* PROJECT_SPECIFICATION.md:79-80 and AC-005: whatever the order in which  *)
(* requests with one key look, lock and insert, all that are accepted are  *)
(* told the same event and sent its content, and one that got a conflict   *)
(* had other content.                                                      *)
(***************************************************************************)
AnswersAgree ==
    \A r, s \in Request :
        pc[r] = "accepted" /\ key[r] = key[s] =>
            /\ pc[s] = "accepted" => event[r] = event[s] /\ content[r] = content[s]
            /\ pc[s] = "conflict" => content[r] # content[s]

(***************************************************************************)
(* The whole of that promise (PROJECT_SPECIFICATION.md:79-80 and AC-012):  *)
(* to its clients each operation is a store that answers at once and is    *)
(* idempotent in its key, whoever looked, locked, conflicted and rolled    *)
(* back in between. The look after a conflict always finds something, so   *)
(* nobody gets the error that the code would raise otherwise. A replay of  *)
(* what is no delivery is no operation on the store.                       *)
(***************************************************************************)
Answered(s) == s \in {"accepted", "conflict", "limit", "not_terminal", "error", "stopped"}

Told(r) ==
    IF Answered(pc[r])
    THEN {[id |-> key[r], content |-> content[r],
           about |-> IF pc[r] = "accepted" THEN event[r] ELSE pc[r]]}
    ELSE {}
ReplayId(q) == <<replay_of[q], replay_key[q]>>
ToldReplay(q) ==
    IF Answered(replay_pc[q])
    THEN {[id |-> ReplayId(q), content |-> "the source's",
           about |-> IF replay_pc[q] = "accepted" THEN copy[q] ELSE replay_pc[q]]}
    ELSE {}

Events == INSTANCE IdempotentStore
    WITH Identity <- Key, Conflict <- "conflict", Failure <- {"limit", "stopped"},
         told <- [r \in Request |-> Told(r)],
         stored <- {[by |-> s, id |-> key[s], content |-> content[s]] : s \in stored}
Replays == INSTANCE IdempotentStore
    WITH Request <- Replayer, Identity <- Delivery \X Key, Content <- {"the source's"},
         Conflict <- "conflict", Failure <- {"not_terminal", "stopped"},
         told <- [q \in Replayer |-> ToldReplay(q)],
         stored <- {[by |-> q, id |-> ReplayId(q), content |-> "the source's"] :
                      q \in {p \in Replayer : Created(p)}}

ImplementsIdempotency == Events!Spec /\ Replays!Spec

(***************************************************************************)
(* AC-012: replays of one delivery under one key are the same delivery,    *)
(* which exists, and only a settled delivery has been replayed.            *)
(***************************************************************************)
ReplayedOnce ==
    \A p, q \in Replayer :
        replay_pc[p] = "accepted" =>
            /\ CopyOf(copy[p], replay_of[p]) \in Deliveries
            /\ replay_of[p] \in settled
            /\ /\ replay_pc[q] = "accepted"
               /\ replay_of[p] = replay_of[q] /\ replay_key[p] = replay_key[q]
               => copy[p] = copy[q]

(***************************************************************************)
(* README.md:177, "An organization may have [...] 10,000 non-terminal      *)
(* deliveries". Under the organization's lock the code keeps it, except    *)
(* for replays, which it does not count, and for deliveries to an endpoint *)
(* that opened between the count and the read.                             *)
(***************************************************************************)
Bounded == {d \in waiting : d[1] \in Request} \ uncounted

BacklogBound == Cardinality(Bounded) <= BacklogLimit

(***************************************************************************)
(* PROJECT_SPECIFICATION.md:79, "Same key + same canonical fingerprint     *)
(* returns original event": a request that is sent when its event is       *)
(* stored is told so, however full the backlog is. (One that was sent      *)
(* before that may wait for the lock behind its original, and be told 429  *)
(* because of the deliveries its original created.)                        *)
(***************************************************************************)
RepeatsAreRecognised == \A r \in repeats : pc[r] \in {"new", "accepted", "conflict"}

-----------------------------------------------------------------------------
(***************************************************************************)
(* The inductive invariant: one event per key, every answer is about a     *)
(* stored event, one copy per delivery and key, and every delivery belongs *)
(* to something that was committed.                                        *)
(***************************************************************************)
OneEventPerKey == \A r, s \in stored : key[r] = key[s] => r = s

AnswersAreStored ==
    \A r \in Request :
        /\ pc[r] = "accepted" =>
              event[r] \in stored /\ key[event[r]] = key[r] /\ content[event[r]] = content[r]
        /\ pc[r] = "conflict" => \E s \in Existing(r) : content[s] # content[r]
        /\ pc[r] = "conflicted" => Existing(r) # {}
        /\ pc[r] # "error"

OneCopyPerKey ==
    \A p, q \in Replayer :
        /\ Created(p) /\ Created(q)
        /\ replay_of[p] = replay_of[q] /\ replay_key[p] = replay_key[q]
        => p = q

CopiesAreStored ==
    \A q \in Replayer :
        /\ replay_of[q] = NoDelivery <=> replay_pc[q] \in {"new", "not_found"}
        /\ Created(q) => replay_pc[q] = "accepted"
        /\ replay_pc[q] = "accepted" =>
              /\ copy[q] \in ExistingReplay(q, replay_of[q])
              /\ CopyOf(copy[q], replay_of[q]) \in Deliveries
              /\ replay_of[q] \in settled
        /\ replay_pc[q] = "conflicted" =>
              ExistingReplay(q, replay_of[q]) # {} /\ replay_of[q] \in settled
        /\ replay_pc[q] # "error"

IngestionInv ==
    TypeOK /\ OneEventPerKey /\ AnswersAreStored /\ OneCopyPerKey /\ CopiesAreStored

(***************************************************************************)
(* What makes the backlog bound inductive: one transaction at a time, and  *)
(* room for what it has counted until it commits.                          *)
(***************************************************************************)
Counted(r, S) == {e \in S : <<r, e>> \notin uncounted}

RoomIsKept ==
    /\ \A r, s \in Request : pc[r] \in InTransaction /\ pc[s] \in InTransaction => r = s
    /\ \A r \in Request :
         /\ pc[r] = "counted" => Cardinality(Bounded) + Cardinality(Counted(r, open)) <= BacklogLimit
         /\ pc[r] = "matched" =>
               Cardinality(Bounded) + Cardinality(Counted(r, matched[r])) <= BacklogLimit

=============================================================================

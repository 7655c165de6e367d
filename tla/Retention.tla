------------------------------- MODULE Retention -------------------------------
(***************************************************************************)
(* What becomes of deliveries and events when they are old: the cleanup    *)
(* pass of the scheduler against replays, which keep pointing at the       *)
(* delivery they repeat. Ids are numbered in the order of created_at, the  *)
(* order in which a pass works through them.                               *)
(*                                                                         *)
(* A pass is one transaction. The rows it selects it locks and, SKIP       *)
(* LOCKED, those that others have locked it leaves out, so what it does    *)
(* between two of its statements cannot be disturbed: it is one action.    *)
(* deliveries.replay_of is a foreign key without ON DELETE: a delete that  *)
(* would leave a replay without its source raises, the pass rolls back,    *)
(* the scheduler process ends and compose restarts it.                     *)
(***************************************************************************)
EXTENDS Naturals, FiniteSets

CONSTANTS
    MaxDeliveries,  \* bound: deliveries created in a behaviour
    MaxReplays,     \* bound: replay requests in a behaviour
    BatchSize       \* batch_size of cleanup_expired

ASSUME RetentionAssumption == {MaxDeliveries, MaxReplays, BatchSize} \subseteq Nat \ {0}

VARIABLES
    created,    \* deliveries created so far
    phase,      \* deliveries.status: not terminal yet, or terminal; or no row
    event_of,   \* deliveries.event_id, an event being named by its original delivery
    replay_of,  \* deliveries.replay_of: None is NULL
    event,      \* the events rows
    preview,    \* deliveries with attempts that hold a response preview
    faded,      \* those whose previews are older than their retention
    old,        \* the deliveries 1..old are older than the metadata retention
    replaying,  \* the source a replay request has locked, or None
    replays,    \* replay requests so far
    scheduler   \* "running", or "restarting" after a pass that raised

deliveryVars == <<created, phase, event_of, replay_of>>
vars == <<deliveryVars, event, preview, faded, old, replaying, replays, scheduler>>

Delivery == 1..MaxDeliveries
None == 0
Present == {d \in Delivery : phase[d] \in {"open", "settled"}}

TypeOK ==
    /\ created \in 0..MaxDeliveries
    /\ phase \in [Delivery -> {"absent", "open", "settled", "deleted"}]
    /\ event_of \in [Delivery -> Delivery \cup {None}]
    /\ replay_of \in [Delivery -> Delivery \cup {None}]
    /\ event \subseteq Delivery
    /\ preview \subseteq Delivery /\ faded \subseteq Delivery
    /\ old \in 0..created
    /\ replaying \in Delivery \cup {None}
    /\ replays \in 0..MaxReplays
    /\ scheduler \in {"running", "restarting"}

Init ==
    /\ created = 0
    /\ phase = [d \in Delivery |-> "absent"]
    /\ event_of = [d \in Delivery |-> None]
    /\ replay_of = [d \in Delivery |-> None]
    /\ event = {} /\ preview = {} /\ faded = {}
    /\ old = 0
    /\ replaying = None
    /\ replays = 0
    /\ scheduler = "running"

-----------------------------------------------------------------------------
\* a delivery of the event e that repeats the delivery s, or none
Create(e, s) ==
    /\ created < MaxDeliveries
    /\ created' = created + 1
    /\ phase' = [phase EXCEPT ![created + 1] = "open"]
    /\ event_of' = [event_of EXCEPT ![created + 1] = e]
    /\ replay_of' = [replay_of EXCEPT ![created + 1] = s]

\* create_event_graph: an event and its delivery
Ingest ==
    /\ Create(created + 1, None)
    /\ event' = event \cup {created + 1}
    /\ UNCHANGED <<preview, faded, old, replaying, replays, scheduler>>

\* the pipeline settles a delivery; its attempts have previews or not
Settle(d) ==
    /\ phase[d] = "open"
    /\ phase' = [phase EXCEPT ![d] = "settled"]
    /\ preview' \in {preview, preview \cup {d}}
    /\ UNCHANGED <<created, event_of, replay_of, event, faded, old, replaying, replays, scheduler>>

\* replay locks its source, however old, and finds it terminal; one at a time here
BeginReplay(d) ==
    /\ replaying = None
    /\ replays < MaxReplays
    /\ phase[d] = "settled"
    /\ replaying' = d
    /\ replays' = replays + 1
    /\ UNCHANGED <<deliveryVars, event, preview, faded, old, scheduler>>

\* create_replay and the commit
Replay ==
    /\ replaying # None
    /\ Create(event_of[replaying], replaying)
    /\ replaying' = None
    /\ UNCHANGED <<event, preview, faded, old, replays, scheduler>>

\* the replay finds that it was done before, or is lost
ReplayEnds ==
    /\ replaying # None
    /\ replaying' = None
    /\ UNCHANGED <<deliveryVars, event, preview, faded, old, replays, scheduler>>

Age ==
    /\ old < created
    /\ old' = old + 1
    /\ UNCHANGED <<deliveryVars, event, preview, faded, replaying, replays, scheduler>>

Fade(d) ==
    /\ d \in preview
    /\ faded' = faded \cup {d}
    /\ UNCHANGED <<deliveryVars, event, preview, old, replaying, replays, scheduler>>

-----------------------------------------------------------------------------
\* ORDER BY created_at LIMIT batch_size
Oldest(S) == {d \in S : Cardinality({c \in S : c < d}) < BatchSize}

\* faulty variant of Unlocked: a replay reads its source without a lock
LockIgnored(S) == S

\* FOR UPDATE SKIP LOCKED
Unlocked(S) == S \ {replaying}

\* faulty variant of ExpiredDeliveries: replays are kept
ExpiredOriginals == Oldest(Unlocked({d \in 1..old : phase[d] = "settled" /\ replay_of[d] = None}))

ExpiredDeliveries == Oldest(Unlocked({d \in 1..old : phase[d] = "settled"}))

\* faulty variant of WithoutDeliveries: NOT EXISTS is forgotten
AnyEvent(S) == S

\* the events of which the pass leaves no delivery
WithoutDeliveries(S) ==
    LET staying == Present \ ExpiredDeliveries
    IN  {e \in S : \A d \in staying : event_of[d] # e}

ExpiredEvents == Oldest(WithoutDeliveries({e \in event : e <= old}))

\* some replay that stays refers to a delivery that would go
StillReferenced ==
    LET going == ExpiredDeliveries
    IN  \E d \in Present \ going : replay_of[d] \in going

ExpiredPreviews == Oldest(faded)

\* deliveries.event_id is ON DELETE CASCADE: what is left of an event goes with it
Cascaded ==
    LET going == ExpiredEvents
    IN  {d \in Present : event_of[d] \in going}

Forgotten == ExpiredDeliveries \cup Cascaded

\* cleanup_expired commits
CleanUp ==
    /\ scheduler = "running"
    /\ ~StillReferenced
    /\ \E gone \in {Forgotten} :
          /\ phase' = [d \in Delivery |-> IF d \in gone THEN "deleted" ELSE phase[d]]
          /\ preview' = preview \ (ExpiredPreviews \cup gone)
          /\ faded' = faded \ (ExpiredPreviews \cup gone)
    /\ event' = event \ ExpiredEvents
    /\ UNCHANGED <<created, event_of, replay_of, old, replaying, replays, scheduler>>

\* the delete raises: everything is rolled back, previews included
CleanUpRaises ==
    /\ scheduler = "running"
    /\ StillReferenced
    /\ scheduler' = "restarting"
    /\ UNCHANGED <<deliveryVars, event, preview, faded, old, replaying, replays>>

Restart ==
    /\ scheduler = "restarting"
    /\ scheduler' = "running"
    /\ UNCHANGED <<deliveryVars, event, preview, faded, old, replaying, replays>>

-----------------------------------------------------------------------------
Next ==
    \/ Ingest \/ Replay \/ ReplayEnds \/ Age
    \/ \E d \in Delivery : Settle(d) \/ BeginReplay(d) \/ Fade(d)
    \/ CleanUp \/ CleanUpRaises \/ Restart

Spec == Init /\ [][Next]_vars

(***************************************************************************)
(* Time passes, the pipeline settles every delivery, a request ends, and   *)
(* the scheduler runs a pass every hour and after every restart.           *)
(***************************************************************************)
Fairness ==
    /\ WF_vars(Age) /\ WF_vars(Replay \/ ReplayEnds)
    /\ \A d \in Delivery : WF_vars(Settle(d)) /\ WF_vars(Fade(d))
    /\ WF_vars(CleanUp \/ CleanUpRaises) /\ WF_vars(Restart)

FairSpec == Spec /\ Fairness

-----------------------------------------------------------------------------
(***************************************************************************)
(* AC-012, "replay is linked": whatever a pass deletes, a delivery that is *)
(* left still has its event and the delivery it repeats, and with that the *)
(* whole history of its event.                                             *)
(***************************************************************************)
HistoryIsWhole ==
    \A d \in Present :
        /\ event_of[d] \in event
        /\ replay_of[d] # None =>
              replay_of[d] \in Present /\ event_of[replay_of[d]] = event_of[d]

(***************************************************************************)
(* README.md:178, "metadata retains for 30 days", the other way round: a   *)
(* pass takes only deliveries that are settled, older than that and not    *)
(* being replayed, although it deletes events as well, and every delivery  *)
(* goes with its event.                                                    *)
(***************************************************************************)
NothingForgottenEarly ==
    [][\A d \in Present : phase'[d] = "deleted" =>
          phase[d] = "settled" /\ d <= old /\ d # replaying]_vars

(***************************************************************************)
(* README.md:178, "metadata retains for 30 days": what is old is deleted   *)
(* in the end, the delivery and then its event.                            *)
(***************************************************************************)
EventuallyForgotten ==
    \A d \in Delivery : d <= old ~> phase[d] = "deleted" /\ event_of[d] \notin event

(***************************************************************************)
(* The inductive invariant, with HistoryIsWhole: the source of a replay    *)
(* under way is there, and a preview goes with its delivery.               *)
(***************************************************************************)
RetentionInv ==
    /\ TypeOK
    /\ \A d \in Delivery : phase[d] = "absent" <=> d > created
    /\ replaying # None => phase[replaying] = "settled"
    /\ faded \subseteq preview /\ preview \subseteq Present
    /\ HistoryIsWhole

=============================================================================

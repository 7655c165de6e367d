--------------------------- MODULE Retention_proofs ---------------------------
(***************************************************************************)
(* Proofs about Retention for any number of deliveries and replays and any *)
(* size of the batch.                                                      *)
(***************************************************************************)
EXTENDS Retention, FiniteSetTheorems, TLAPS

\* what the bounded selections have in common: they are selections
LEMMA OldestIsSubset == ASSUME NEW S PROVE Oldest(S) \subseteq S
BY DEF Oldest

LEMMA InitHasRetentionInv == Init => RetentionInv
<1>. SUFFICES ASSUME Init PROVE RetentionInv
  OBVIOUS
<1>0. MaxDeliveries \in Nat \ {0} /\ MaxReplays \in Nat \ {0}
  BY RetentionAssumption DEF RetentionAssumption
<1>1. TypeOK
  BY <1>0 DEF Init, TypeOK
<1>2. Present = {}
  BY DEF Init, Present
<1>3. \A d \in Delivery : phase[d] = "absent" <=> d > created
  BY <1>0 DEF Init, Delivery
<1>. QED
  BY <1>1, <1>2, <1>3 DEF Init, RetentionInv, HistoryIsWhole

-----------------------------------------------------------------------------
(***************************************************************************)
(* Creation: the new delivery is the only one that changes.                *)
(***************************************************************************)
LEMMA CreateKeepsInv ==
    ASSUME RetentionInv, NEW e \in Delivery, NEW s \in Delivery \cup {None}, Create(e, s),
           event \subseteq event', event' \subseteq Delivery, e \in event',
           s # None => s \in Present /\ event_of[s] = e,
           replaying' \in {replaying, None},
           UNCHANGED <<preview, faded, old, replays, scheduler>>
    PROVE  RetentionInv'
<1>. USE DEF RetentionInv
<1>0. /\ MaxDeliveries \in Nat \ {0} /\ created \in Nat /\ old \in Nat
      /\ created + 1 \in Delivery /\ created' = created + 1
  BY RetentionAssumption DEF RetentionAssumption, Create, TypeOK, Delivery
<1>1. TypeOK'
  BY <1>0 DEF Create, TypeOK, Delivery
<1>2. Present' = Present \cup {created + 1} /\ created + 1 \notin Present
  BY <1>0 DEF Create, TypeOK, Present, Delivery
<1>3. \A d \in Delivery : phase'[d] = "absent" <=> d > created'
  BY <1>0 DEF Create, TypeOK, Delivery
<1>4. replaying' # None => phase'[replaying'] = "settled"
  BY <1>0 DEF Create, TypeOK, Delivery
<1>5. HistoryIsWhole'
  <2>. SUFFICES ASSUME NEW d \in Present'
                PROVE  /\ event_of'[d] \in event'
                       /\ replay_of'[d] # None =>
                            /\ replay_of'[d] \in Present'
                            /\ event_of'[replay_of'[d]] = event_of'[d]
    BY DEF HistoryIsWhole
  <2>1. CASE d = created + 1
    BY <1>0, <1>2, <2>1 DEF Create, TypeOK, Present
  <2>2. CASE d # created + 1
    BY <1>0, <1>2, <2>2 DEF Create, TypeOK, Present, HistoryIsWhole
  <2>. QED
    BY <2>1, <2>2
<1>. QED
  BY <1>1, <1>2, <1>3, <1>4, <1>5

(***************************************************************************)
(* Deletion: a delivery that stays keeps its event, because events go only *)
(* without deliveries, and its source, because the pass raises otherwise.  *)
(***************************************************************************)
LEMMA ForgottenAreExpired == Forgotten = ExpiredDeliveries
<1>1. \A d \in Present \ ExpiredDeliveries : event_of[d] \notin ExpiredEvents
  BY OldestIsSubset DEF ExpiredEvents, WithoutDeliveries
<1>. QED
  BY <1>1 DEF Forgotten, Cascaded

LEMMA CleanUpKeepsInv == ASSUME RetentionInv, CleanUp PROVE RetentionInv'
<1>. USE DEF RetentionInv
<1>0. /\ ExpiredDeliveries \subseteq {d \in 1..old : phase[d] = "settled"}
      /\ replaying \notin ExpiredDeliveries
  BY OldestIsSubset DEF ExpiredDeliveries, Unlocked
<1>1. \A d \in Present \ ExpiredDeliveries : event_of[d] \notin ExpiredEvents
  BY OldestIsSubset DEF ExpiredEvents, WithoutDeliveries
<1>2. TypeOK'
  BY <1>0, ForgottenAreExpired DEF CleanUp, TypeOK
<1>3. Present' = Present \ ExpiredDeliveries
  BY <1>0, ForgottenAreExpired DEF CleanUp, TypeOK, Present
<1>4. HistoryIsWhole'
  BY <1>1, <1>3, ForgottenAreExpired DEF CleanUp, StillReferenced, HistoryIsWhole
<1>5. \A d \in Delivery : phase'[d] = "absent" <=> d > created'
  <2>1. /\ phase' = [d \in Delivery |-> IF d \in ExpiredDeliveries THEN "deleted" ELSE phase[d]]
        /\ created' = created
    BY ForgottenAreExpired DEF CleanUp
  <2>2. \A d \in ExpiredDeliveries : phase[d] = "settled"
    BY <1>0
  <2>. QED
    BY <2>1, <2>2
<1>6. replaying' # None => phase'[replaying'] = "settled"
  BY <1>0, ForgottenAreExpired DEF CleanUp, TypeOK
<1>7. faded' \subseteq preview' /\ preview' \subseteq Present'
  <2>1. /\ faded' = faded \ (ExpiredPreviews \cup ExpiredDeliveries)
        /\ preview' = preview \ (ExpiredPreviews \cup ExpiredDeliveries)
    BY ForgottenAreExpired DEF CleanUp
  <2>. QED
    BY <1>3, <2>1
<1>. QED
  BY <1>2, <1>3, <1>4, <1>5, <1>6, <1>7

LEMMA SettleKeepsInv ==
    ASSUME RetentionInv, NEW d \in Delivery, Settle(d)
    PROVE  RetentionInv'
<1>. USE DEF RetentionInv
<1>1. Present' = Present /\ d \in Present
  BY DEF Settle, TypeOK, Present
<1>2. TypeOK'
  BY DEF Settle, TypeOK
<1>. QED
  BY <1>1, <1>2 DEF Settle, TypeOK, HistoryIsWhole

LEMMA OtherStepsKeepInv ==
    ASSUME RetentionInv,
           \/ ReplayEnds \/ Age \/ CleanUpRaises \/ Restart \/ UNCHANGED vars
           \/ \E d \in Delivery : BeginReplay(d) \/ Fade(d)
    PROVE  RetentionInv'
<1>. USE DEF RetentionInv
<1>1. UNCHANGED <<deliveryVars, event, preview>>
  BY DEF ReplayEnds, Age, CleanUpRaises, Restart, BeginReplay, Fade, vars
<1>2. /\ faded' \subseteq Delivery /\ faded' \subseteq preview /\ old' \in 0..created
      /\ replaying' \in Delivery \cup {None} /\ replays' \in 0..MaxReplays
      /\ scheduler' \in {"running", "restarting"}
      /\ replaying' # None => phase[replaying'] = "settled"
  BY RetentionAssumption
     DEF RetentionAssumption, ReplayEnds, Age, CleanUpRaises, Restart, BeginReplay, Fade, vars,
         TypeOK
<1>3. TypeOK'
  BY <1>1, <1>2 DEF deliveryVars, TypeOK
<1>4. Present' = Present
  BY <1>1 DEF deliveryVars, Present
<1>. QED
  BY <1>1, <1>2, <1>3, <1>4 DEF deliveryVars, HistoryIsWhole

LEMMA StepKeepsRetentionInv == RetentionInv /\ [Next]_vars => RetentionInv'
<1>. SUFFICES ASSUME RetentionInv, [Next]_vars PROVE RetentionInv'
  OBVIOUS
<1>1. CASE Ingest
  <2>1. created + 1 \in Delivery
    BY <1>1, RetentionAssumption
       DEF RetentionAssumption, Ingest, Create, RetentionInv, TypeOK, Delivery
  <2>2. /\ Create(created + 1, None) /\ event' = event \cup {created + 1}
        /\ UNCHANGED <<preview, faded, old, replaying, replays, scheduler>>
    BY <1>1 DEF Ingest
  <2>3. event \subseteq Delivery
    BY DEF RetentionInv, TypeOK
  <2>. QED
    BY <2>1, <2>2, <2>3, CreateKeepsInv
<1>2. CASE Replay
  <2>1. /\ replaying \in Present /\ event_of[replaying] \in event
        /\ event \subseteq Delivery /\ Present \subseteq Delivery
    BY <1>2 DEF Replay, RetentionInv, TypeOK, Present, HistoryIsWhole
  <2>2. /\ Create(event_of[replaying], replaying) /\ replaying' = None
        /\ UNCHANGED <<event, preview, faded, old, replays, scheduler>>
    BY <1>2 DEF Replay
  <2>. QED
    BY <2>1, <2>2, CreateKeepsInv
<1>. QED
  BY <1>1, <1>2, CleanUpKeepsInv, SettleKeepsInv, OtherStepsKeepInv DEF Next

\* The invariant of retention holds for any batch size and any replays.
THEOREM RetentionIsConsistent == Spec => []RetentionInv
BY InitHasRetentionInv, StepKeepsRetentionInv, PTL DEF Spec

(***************************************************************************)
(* No cleanup, however it interleaves with replays, leaves a delivery      *)
(* without its event or a replay without its source.                       *)
(***************************************************************************)
THEOREM NothingIsOrphaned == Spec => []HistoryIsWhole
<1>1. RetentionInv => HistoryIsWhole
  BY DEF RetentionInv
<1>. QED
  BY <1>1, RetentionIsConsistent, PTL

(***************************************************************************)
(* Nothing goes before its time. The events of a pass have no delivery     *)
(* but those the pass deletes, whatever was skipped, is open or is beyond  *)
(* the batch, so the cascade takes nothing more.                           *)
(***************************************************************************)
THEOREM OnlyTheOverdueGo == Spec => NothingForgottenEarly
<1>1. ASSUME RetentionInv, [Next]_vars, NEW d \in Present, phase'[d] = "deleted"
      PROVE  phase[d] = "settled" /\ d <= old /\ d # replaying
  <2>0. /\ d \in Delivery /\ phase[d] # "deleted"
        /\ phase \in [Delivery -> {"absent", "open", "settled", "deleted"}]
    BY <1>1 DEF Present, RetentionInv, TypeOK
  <2>1. CASE CleanUp
    <3>1. d \in ExpiredDeliveries
      BY <2>0, <1>1, <2>1, ForgottenAreExpired DEF CleanUp
    <3>2. d \in 1..old /\ phase[d] = "settled" /\ d # replaying
      BY <3>1, OldestIsSubset DEF ExpiredDeliveries, Unlocked
    <3>3. d <= old
      BY <3>2, <1>1 DEF RetentionInv, TypeOK
    <3>. QED
      BY <3>2, <3>3
  <2>2. CASE ~CleanUp
    <3>1. phase' # phase
      BY <1>1, <2>0
    <3>2. \E c, v : v # "deleted" /\ phase' = [phase EXCEPT ![c] = v]
      <4>1. (Ingest \/ Replay) \/ \E c \in Delivery : Settle(c)
        BY <1>1, <2>2, <3>1
           DEF Next, vars, deliveryVars, ReplayEnds, Age, BeginReplay, Fade, CleanUpRaises, Restart
      <4>2. CASE Ingest \/ Replay
        BY <4>2 DEF Ingest, Replay, Create
      <4>3. CASE \E c \in Delivery : Settle(c)
        BY <4>3 DEF Settle
      <4>. QED
        BY <4>1, <4>2, <4>3
    <3>. QED
      BY <1>1, <2>0, <3>2
  <2>. QED
    BY <2>1, <2>2
<1>2. RetentionInv /\ [Next]_vars
      => [\A d \in Present : phase'[d] = "deleted" =>
            phase[d] = "settled" /\ d <= old /\ d # replaying]_vars
  BY <1>1
<1>. QED
  BY <1>2, RetentionIsConsistent, PTL DEF Spec, NothingForgottenEarly

-----------------------------------------------------------------------------
(***************************************************************************)
(* What EventuallyForgotten comes to when everything is over. A batch that *)
(* holds all there can be is what the run with this property has; the one  *)
(* that refutes it has a smaller one.                                      *)
(***************************************************************************)
FullBatch == MaxDeliveries <= BatchSize

\* all that is left is settled and old, and no replay is under way
AllOver == replaying = None /\ \A d \in Present : phase[d] = "settled" /\ d <= old

\* what the events have outlived was old
OutlivedIsOld ==
    /\ \A d \in Delivery : phase[d] = "deleted" => d <= old
    /\ \A e \in event : phase[e] # "absent"

LEMMA StepKeepsOutlivedIsOld ==
    RetentionInv /\ OutlivedIsOld /\ [Next]_vars => OutlivedIsOld'
<1>. SUFFICES ASSUME RetentionInv, OutlivedIsOld, [Next]_vars PROVE OutlivedIsOld'
  OBVIOUS
<1>. TypeOK
  BY DEF RetentionInv
<1>0. created \in Nat /\ old \in Nat
  BY RetentionAssumption DEF RetentionAssumption, TypeOK
<1>1. ASSUME NEW e, NEW s, Create(e, s), event' \subseteq event \cup {created + 1}, old' = old
      PROVE  OutlivedIsOld'
  BY <1>0, <1>1, RetentionAssumption
     DEF Create, OutlivedIsOld, TypeOK, RetentionAssumption, Delivery
<1>2. CASE Ingest \/ Replay
  BY <1>1, <1>2 DEF Ingest, Replay
<1>3. CASE CleanUp
  <2>1. ExpiredDeliveries \subseteq 1..old
    BY OldestIsSubset DEF ExpiredDeliveries, Unlocked
  <2>2. event' \subseteq event /\ event \subseteq Delivery /\ old' = old
    BY <1>3 DEF CleanUp, TypeOK
  <2>3. ASSUME NEW d \in Delivery
        PROVE  /\ phase'[d] = "deleted" => d <= old
               /\ phase[d] # "absent" => phase'[d] # "absent"
    <3>1. CASE d \in ExpiredDeliveries
      <4>1. phase'[d] = "deleted" /\ d <= old
        BY <1>0, <1>3, <2>1, <3>1, ForgottenAreExpired DEF CleanUp
      <4>. QED
        BY <4>1
    <3>2. CASE d \notin ExpiredDeliveries
      <4>1. phase'[d] = phase[d]
        BY <1>3, <3>2, ForgottenAreExpired DEF CleanUp
      <4>. QED
        BY <4>1 DEF OutlivedIsOld
    <3>. QED
      BY <3>1, <3>2
  <2>. QED
    BY <2>2, <2>3 DEF OutlivedIsOld
<1>4. ASSUME NEW d \in Delivery, Settle(d)
      PROVE  OutlivedIsOld'
  BY <1>4 DEF Settle, OutlivedIsOld, TypeOK
<1>5. CASE \/ ReplayEnds \/ Age \/ CleanUpRaises \/ Restart \/ UNCHANGED vars
           \/ \E d \in Delivery : BeginReplay(d) \/ Fade(d)
  <2>1. UNCHANGED <<phase, event>> /\ old' \in {old, old + 1}
    BY <1>5 DEF ReplayEnds, Age, CleanUpRaises, Restart, BeginReplay, Fade, vars, deliveryVars
  <2>2. \A d \in Delivery : d <= old => d <= old'
    BY <1>0, <2>1 DEF Delivery
  <2>. QED
    BY <2>1, <2>2 DEF OutlivedIsOld
<1>. QED
  BY <1>2, <1>3, <1>4, <1>5 DEF Next

\* a batch as large as everything leaves nothing out
LEMMA OldestIsAll ==
    ASSUME FullBatch, NEW S \in SUBSET Delivery
    PROVE  Oldest(S) = S
<1>0. MaxDeliveries \in Nat /\ BatchSize \in Nat
  BY RetentionAssumption DEF RetentionAssumption
<1>1. ASSUME NEW d \in S
      PROVE  Cardinality({c \in S : c < d}) < BatchSize
  <2>. DEFINE Before == {c \in S : c < d}
  <2>1. d \in 1..MaxDeliveries
    BY DEF Delivery
  <2>2. Before \in SUBSET (1..(d - 1))
    <3>1. ASSUME NEW c \in Before PROVE c \in 1..(d - 1)
      <4>1. c \in 1..MaxDeliveries /\ c < d
        BY <3>1 DEF Delivery
      <4>. QED
        BY <1>0, <2>1, <4>1
    <3>. HIDE DEF Before
    <3>. QED
      BY <3>1
  <2>3. IsFiniteSet(1..(d - 1)) /\ Cardinality(1..(d - 1)) = d - 1
    <3>1. d - 1 \in Int /\ 1 \in Int
      BY <2>1
    <3>. QED
      BY <2>1, <3>1, FS_Interval
  <2>4. Cardinality(Before) \in Nat /\ Cardinality(Before) <= d - 1
    <3>. HIDE DEF Before
    <3>. QED
      BY <2>2, <2>3, FS_Subset, FS_CardinalityType
  <2>. QED
    BY <1>0, <2>1, <2>4 DEF FullBatch
<1>. QED
  BY <1>1 DEF Oldest

\* a batch of any size takes at least the oldest
LEMMA OldestIsTaken ==
    ASSUME NEW S \in SUBSET Delivery, S # {}
    PROVE  Oldest(S) # {}
<1>0. MaxDeliveries \in Nat /\ BatchSize \in Nat \ {0}
  BY RetentionAssumption DEF RetentionAssumption
<1>. DEFINE Before(d) == {c \in S : c < d}
             T == {Before(d) : d \in S}
<1>1. IsFiniteSet(Delivery)
  BY <1>0, FS_Interval DEF Delivery
<1>2. T \subseteq FiniteSubsetsOf(Delivery) /\ T # {}
  <2>1. SUBSET Delivery = FiniteSubsetsOf(Delivery)
    BY <1>1, FS_FiniteSubsetsOfFinite
  <2>2. \A d \in S : Before(d) \in SUBSET Delivery
    OBVIOUS
  <2>3. T # {}
    OBVIOUS
  <2>. HIDE DEF Before
  <2>4. T \subseteq SUBSET Delivery
    BY <2>2
  <2>. HIDE DEF T
  <2>. QED
    BY <2>1, <2>3, <2>4
<1>3. PICK x \in T : \A y \in T : ~(<<y, x>> \in StrictSubsetOrdering(Delivery))
  <2>. HIDE DEF T
  <2>. QED
    BY <1>2, WFMin, FS_StrictSubsetOrderingWellFounded
<1>4. PICK m \in S : x = Before(m)
  BY <1>3
<1>5. ASSUME NEW c \in S, c < m
      PROVE  FALSE
  <2>1. Before(c) \subseteq Before(m)
    <3>1. ASSUME NEW b \in S, b < c PROVE b < m
      BY <1>0, <1>5, <3>1 DEF Delivery
    <3>. QED
      BY <3>1
  <2>2. c \in Before(m) /\ c \notin Before(c)
    BY <1>0, <1>5 DEF Delivery
  <2>3. <<Before(c), Before(m)>> \in StrictSubsetOrdering(Delivery)
    <3>1. Before(c) \in SUBSET Delivery /\ Before(m) \in SUBSET Delivery /\ Before(c) # Before(m)
      BY <2>2
    <3>. HIDE DEF Before
    <3>. QED
      BY <2>1, <3>1 DEF StrictSubsetOrdering
  <2>. QED
    BY <1>3, <1>4, <2>3
<1>6. {c \in S : c < m} = {}
  BY <1>5
<1>7. m \in S /\ Cardinality({c \in S : c < m}) < BatchSize
  BY <1>0, <1>6, FS_EmptySet
<1>. QED
  BY <1>7 DEF Oldest

LEMMA ExpiredWhenOver ==
    ASSUME RetentionInv, AllOver
    PROVE  /\ Present \in SUBSET Delivery
           /\ ExpiredDeliveries = Oldest(Present)
<1>. TypeOK
  BY DEF RetentionInv
<1>0. MaxDeliveries \in Nat /\ created \in 0..MaxDeliveries /\ old \in 0..created
  BY RetentionAssumption DEF RetentionAssumption, TypeOK
<1>1. {d \in 1..old : phase[d] = "settled"} \ {replaying} = Present
  <2>1. ASSUME NEW d \in 1..old, phase[d] = "settled"
        PROVE  d \in Present /\ d # replaying
    BY <1>0, <2>1 DEF Present, Delivery, AllOver, None
  <2>2. ASSUME NEW d \in Present
        PROVE  d \in 1..old /\ phase[d] = "settled"
    BY <1>0, <2>2 DEF Present, Delivery, AllOver
  <2>. QED
    BY <2>1, <2>2
<1>. QED
  BY <1>1 DEF ExpiredDeliveries, Unlocked, Present

LEMMA EverythingGoes ==
    ASSUME FullBatch, RetentionInv, OutlivedIsOld, AllOver
    PROVE  /\ ~StillReferenced
           /\ CleanUp => Present' = {} /\ event' = {}
<1>. TypeOK
  BY DEF RetentionInv
<1>1. ExpiredDeliveries = Present
  BY ExpiredWhenOver, OldestIsAll
<1>2. ~StillReferenced
  BY <1>1 DEF StillReferenced
<1>3. \A e \in event : e <= old
  BY DEF OutlivedIsOld, AllOver, Present, TypeOK
<1>4. WithoutDeliveries({e \in event : e <= old}) = event
  BY <1>1, <1>3 DEF WithoutDeliveries
<1>5. ExpiredEvents = event
  BY <1>4, OldestIsAll DEF ExpiredEvents, TypeOK
<1>6. ASSUME CleanUp PROVE Present' = {} /\ event' = {}
  <2>1. event' = {}
    BY <1>5, <1>6 DEF CleanUp
  <2>2. \A d \in Delivery : phase'[d] \notin {"open", "settled"}
    BY <1>1, <1>6, ForgottenAreExpired DEF CleanUp, Present, TypeOK
  <2>. QED
    BY <2>1, <2>2 DEF Present
<1>. QED
  BY <1>2, <1>6

(***************************************************************************)
(* When all that is left is over and old and the batch reaches it all, a   *)
(* pass does not raise, and it leaves no delivery and no event behind.     *)
(***************************************************************************)
THEOREM PassesForgetEverything ==
    FullBatch /\ Spec => /\ [](AllOver => ~StillReferenced)
                         /\ [][CleanUp /\ AllOver => Present' = {} /\ event' = {}]_vars
<1>1. Init => OutlivedIsOld
  BY DEF Init, OutlivedIsOld
<1>2. RetentionInv /\ OutlivedIsOld /\ [Next]_vars => OutlivedIsOld'
  BY StepKeepsOutlivedIsOld
<1>3. CASE FullBatch
  <2>1. RetentionInv /\ OutlivedIsOld => (AllOver => ~StillReferenced)
    BY <1>3, EverythingGoes
  <2>2. RetentionInv /\ OutlivedIsOld
          => [CleanUp /\ AllOver => Present' = {} /\ event' = {}]_vars
    BY <1>3, EverythingGoes
  <2>. QED
    BY <1>1, <1>2, <2>1, <2>2, RetentionIsConsistent, PTL DEF Spec
<1>. QED
  BY <1>3

\* what a pass could delete if its batch were large enough
Due == Unlocked({d \in 1..old : phase[d] = "settled"})

(***************************************************************************)
(* Whatever the batch and whatever else goes on, a pass that commits       *)
(* forgets at least one of the deliveries that are due: only the passes    *)
(* that raise, those of retention_batch, keep what is old for ever.        *)
(***************************************************************************)
THEOREM PassesGoOn == Spec => [][CleanUp /\ Due # {} => Present' # Present]_vars
<1>1. ASSUME RetentionInv, CleanUp, Due # {}
      PROVE  Present' # Present
  <2>1. old \in Nat /\ old <= MaxDeliveries /\ MaxDeliveries \in Nat
    BY <1>1, RetentionAssumption DEF RetentionAssumption, RetentionInv, TypeOK
  <2>2. Due \in SUBSET Present
    BY <2>1 DEF Due, Unlocked, Present, Delivery
  <2>3. ExpiredDeliveries \subseteq Present /\ ExpiredDeliveries # {}
    <3>1. Due \in SUBSET Delivery /\ ExpiredDeliveries = Oldest(Due)
      BY <2>2 DEF Due, ExpiredDeliveries, Present
    <3>. QED
      BY <1>1, <2>2, <3>1, OldestIsTaken, OldestIsSubset
  <2>4. PICK d \in Present : d \in ExpiredDeliveries
    BY <2>3
  <2>5. d \notin Present'
    BY <1>1, <2>4, ForgottenAreExpired DEF CleanUp, Present
  <2>. QED
    BY <2>4, <2>5
<1>2. RetentionInv => [CleanUp /\ Due # {} => Present' # Present]_vars
  BY <1>1
<1>. QED
  BY <1>2, RetentionIsConsistent, PTL

=============================================================================

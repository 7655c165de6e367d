------------------------ MODULE EventIngestion_proofs ------------------------
(***************************************************************************)
(* Proofs about EventIngestion for any number of requests, replays, keys   *)
(* and endpoints, and any backlog limit.                                   *)
(***************************************************************************)
EXTENDS EventIngestion, FiniteSetTheorems, TLAPS

eventParts == <<sent, pc, event, stored>>
replayParts == <<sent, replayVars, waiting, settled>>

LEMMA InitHasIngestionInv == Init => IngestionInv
<1>. SUFFICES ASSUME Init PROVE IngestionInv
  OBVIOUS
<1>1. TypeOK
  BY DEF Init, TypeOK
<1>2. OneEventPerKey /\ AnswersAreStored
  BY DEF Init, OneEventPerKey, AnswersAreStored
<1>3. \A q \in Replayer : ~Created(q)
  BY DEF Init, Created, Deliveries
<1>4. OneCopyPerKey /\ CopiesAreStored
  BY <1>3 DEF Init, OneCopyPerKey, CopiesAreStored
<1>. QED
  BY <1>1, <1>2, <1>4 DEF IngestionInv

\* What the two halves of the invariant look at: a step that changes nothing
\* of it keeps them.
LEMMA EventPartsKept ==
    ASSUME IngestionInv, UNCHANGED eventParts
    PROVE  OneEventPerKey' /\ AnswersAreStored'
<1>1. \A r : Existing(r)' = Existing(r)
  BY DEF eventParts, sent, Existing
<1>. QED
  BY <1>1 DEF IngestionInv, OneEventPerKey, AnswersAreStored, eventParts, sent

\* A step that touches no replay and neither creates nor forgets a copy.
LEMMA ReplayPartsKept ==
    ASSUME IngestionInv, UNCHANGED <<sent, replayVars>>,
           Deliveries \subseteq Deliveries', settled \subseteq settled',
           \A q \in Replayer : Created(q)' => Created(q)
    PROVE  OneCopyPerKey' /\ CopiesAreStored'
<1>1. \A q \in Replayer : Created(q)' <=> Created(q)
  BY DEF Created
<1>2. \A q \in Replayer : \A d : ExistingReplay(q, d)' = ExistingReplay(q, d)
  BY <1>1 DEF ExistingReplay, sent, replayVars
<1>3. OneCopyPerKey'
  BY <1>1 DEF IngestionInv, OneCopyPerKey, sent, replayVars
<1>4. CopiesAreStored'
  BY <1>1, <1>2 DEF IngestionInv, CopiesAreStored, CopyOf, sent, replayVars
<1>. QED
  BY <1>3, <1>4

LEMMA ReplayUntouched ==
    ASSUME IngestionInv, UNCHANGED replayParts
    PROVE  OneCopyPerKey' /\ CopiesAreStored'
<1>1. Deliveries' = Deliveries
  BY DEF replayParts, Deliveries
<1>2. \A q \in Replayer : Created(q)' <=> Created(q)
  BY <1>1 DEF Created
<1>. QED
  BY <1>1, <1>2, ReplayPartsKept DEF replayParts

-----------------------------------------------------------------------------
\* Looking an event up gives an answer about it.
LEMMA LookingKeepsEventParts ==
    ASSUME IngestionInv, NEW r \in Request, UNCHANGED <<sent, stored>>,
           \/ \E s \in Existing(r) : AnswerFrom(r, s)
           \/ /\ Existing(r) = {} /\ pc[r] = "new" /\ UNCHANGED event
              /\ pc' = [pc EXCEPT ![r] = "missed"]
    PROVE  /\ pc' \in [Request -> {"new", "missed", "conflicted", "accepted", "conflict",
                                   "limit", "error", "stopped"} \cup InTransaction]
           /\ event' \in [Request -> Request]
           /\ OneEventPerKey' /\ AnswersAreStored'
<1>. /\ TypeOK /\ OneEventPerKey /\ AnswersAreStored
  BY DEF IngestionInv
<1>1. \A s \in Request : Existing(s)' = Existing(s)
  BY DEF sent, Existing
<1>2. OneEventPerKey'
  BY DEF OneEventPerKey, sent
<1>3. CASE \E s \in Existing(r) : AnswerFrom(r, s)
  <2>1. PICK s \in Existing(r) : AnswerFrom(r, s)
    BY <1>3
  <2>2. s \in stored /\ s \in Request /\ key[s] = key[r]
    BY <2>1 DEF Existing, TypeOK
  <2>3. AnswersAreStored'
    BY <1>1, <2>1, <2>2 DEF AnswersAreStored, AnswerFrom, SameContent, TypeOK, sent
  <2>. QED
    BY <1>2, <2>1, <2>2, <2>3 DEF AnswerFrom, TypeOK
<1>4. CASE /\ Existing(r) = {} /\ pc[r] = "new" /\ UNCHANGED event
           /\ pc' = [pc EXCEPT ![r] = "missed"]
  <2>1. AnswersAreStored'
    BY <1>1, <1>4 DEF AnswersAreStored, TypeOK, sent
  <2>. QED
    BY <1>2, <1>4, <2>1 DEF TypeOK
<1>. QED
  BY <1>3, <1>4

LEMMA InsertKeepsInv ==
    ASSUME IngestionInv, NEW r \in Request, Insert(r)
    PROVE  IngestionInv'
<1>. /\ TypeOK /\ OneEventPerKey /\ AnswersAreStored
  BY DEF IngestionInv
<1>1. TypeOK'
  BY DEF Insert, TypeOK, sent, replayVars, Delivery
<1>2. CASE KeyTaken(r)
  <2>1. \A s \in Request : Existing(s)' = Existing(s)
    BY <1>2 DEF Insert, Existing, sent
  <2>2. OneEventPerKey' /\ AnswersAreStored'
    BY <1>2, <2>1 DEF Insert, KeyTaken, OneEventPerKey, AnswersAreStored, TypeOK, sent
  <2>3. UNCHANGED replayParts
    BY <1>2 DEF Insert, replayParts
  <2>. QED
    BY <1>1, <2>2, <2>3, ReplayUntouched DEF IngestionInv
<1>3. CASE ~KeyTaken(r)
  <2>1. /\ stored' = stored \cup {r} /\ event' = [event EXCEPT ![r] = r]
        /\ pc' = [pc EXCEPT ![r] = "accepted"]
        /\ waiting' = waiting \cup ({r} \X matched[r])
        /\ UNCHANGED <<sent, settled, replayVars>>
    BY <1>3 DEF Insert
  <2>2. \A s \in stored : key[s] # key[r]
    BY <1>3 DEF KeyTaken, Existing
  <2>3. OneEventPerKey'
    BY <2>1, <2>2 DEF OneEventPerKey, sent
  <2>4. \A s \in Request : Existing(s) \subseteq Existing(s)'
    BY <2>1 DEF Existing, sent
  <2>5. AnswersAreStored'
    BY <2>1, <2>4 DEF AnswersAreStored, TypeOK, sent
  <2>6. \A q \in Replayer : Created(q)' => Created(q)
    BY <2>1, IngestionAssumption DEF Created, Deliveries, IngestionAssumption
  <2>7. Deliveries \subseteq Deliveries' /\ settled \subseteq settled'
    BY <2>1 DEF Deliveries
  <2>8. OneCopyPerKey' /\ CopiesAreStored'
    BY <2>1, <2>6, <2>7, ReplayPartsKept
  <2>. QED
    BY <1>1, <2>3, <2>5, <2>8 DEF IngestionInv
<1>. QED
  BY <1>2, <1>3

LEMMA IngestKeepsInv ==
    ASSUME IngestionInv, NEW r \in Request, Ingest(r)
    PROVE  IngestionInv'
<1>. /\ TypeOK /\ OneEventPerKey /\ AnswersAreStored
  BY DEF IngestionInv
<1>1. CASE Look(r) \/ LookAgain(r)
  <2>1. UNCHANGED <<sent, matched, stored, waiting, settled, replayVars, open, history>>
    BY <1>1 DEF Look, LookAgain
  <2>2. \/ \E s \in Existing(r) : AnswerFrom(r, s)
        \/ /\ Existing(r) = {} /\ pc[r] = "new" /\ UNCHANGED event
           /\ pc' = [pc EXCEPT ![r] = "missed"]
    BY <1>1 DEF Look, LookAgain, AnswersAreStored
  <2>3. /\ pc' \in [Request -> {"new", "missed", "conflicted", "accepted", "conflict",
                                "limit", "error", "stopped"} \cup InTransaction]
        /\ event' \in [Request -> Request]
        /\ OneEventPerKey' /\ AnswersAreStored'
    BY <2>1, <2>2, LookingKeepsEventParts
  <2>4. TypeOK'
    BY <2>1, <2>3 DEF TypeOK, sent, history, replayVars
  <2>5. OneCopyPerKey' /\ CopiesAreStored'
    BY <2>1, ReplayUntouched DEF replayParts
  <2>. QED
    BY <2>3, <2>4, <2>5 DEF IngestionInv
<1>2. CASE CountBacklog(r) \/ ReadEndpoints(r) \/ Stop(r)
  <2>1. /\ UNCHANGED <<sent, event, stored, waiting, settled, replayVars, open, history>>
        /\ \E s \in {"counted", "limit", "matched", "stopped"} : pc' = [pc EXCEPT ![r] = s]
        /\ matched' \in [Request -> SUBSET Endpoint]
    BY <1>2 DEF CountBacklog, ReadEndpoints, Stop, TypeOK
  <2>2. TypeOK'
    BY <2>1 DEF TypeOK, sent, history, replayVars, InTransaction
  <2>3. \A s \in Request : Existing(s)' = Existing(s)
    BY <2>1 DEF Existing, sent
  <2>4. OneEventPerKey' /\ AnswersAreStored'
    BY <2>1, <2>3 DEF OneEventPerKey, AnswersAreStored, TypeOK, sent
  <2>5. OneCopyPerKey' /\ CopiesAreStored'
    BY <2>1, ReplayUntouched DEF replayParts
  <2>. QED
    BY <2>2, <2>4, <2>5 DEF IngestionInv
<1>3. CASE Insert(r)
  BY <1>3, InsertKeepsInv
<1>. QED
  BY <1>1, <1>2, <1>3 DEF Ingest

-----------------------------------------------------------------------------
LEMMA CreateReplayKeepsInv ==
    ASSUME IngestionInv, NEW q \in Replayer, CreateReplay(q)
    PROVE  IngestionInv'
<1>. /\ TypeOK /\ OneCopyPerKey /\ CopiesAreStored
  BY DEF IngestionInv
<1>. DEFINE d == replay_of[q]
<1>0. replay_pc[q] = "missed" /\ d \in Delivery
  BY DEF CreateReplay, CopiesAreStored, TypeOK
<1>1. UNCHANGED <<sent, requestVars, stored, settled, replay_of, open, history>>
  BY DEF CreateReplay
<1>2. OneEventPerKey' /\ AnswersAreStored'
  BY <1>1, EventPartsKept DEF eventParts, requestVars
<1>3. CASE UNCHANGED <<copy, waiting>>
  <2>1. \A p \in Replayer : Created(p)' <=> Created(p)
    BY <1>1, <1>3 DEF Created, Deliveries
  <2>2. \A p \in Replayer : \A c : ExistingReplay(p, c)' = ExistingReplay(p, c)
    BY <1>1, <2>1 DEF ExistingReplay, sent
  <2>3. \E s \in {"not_terminal", "conflicted"} :
           /\ replay_pc' = [replay_pc EXCEPT ![q] = s]
           /\ s = "conflicted" => ReplayTaken(q) /\ ReplaySource(q)
    BY <1>0, <1>3 DEF CreateReplay, CopiesAreStored, ExistingReplay, Created, Deliveries,
                      CopyOf, Delivery
  <2>4. TypeOK'
    BY <1>1, <1>3, <2>3 DEF TypeOK, sent, history, requestVars
  <2>5. OneCopyPerKey'
    BY <1>1, <2>1 DEF OneCopyPerKey, sent
  <2>6. CopiesAreStored'
    BY <1>0, <1>1, <1>3, <2>1, <2>2, <2>3
       DEF CopiesAreStored, CopyOf, Deliveries, ReplayTaken, ReplaySource, TypeOK, sent
  <2>. QED
    BY <1>2, <2>4, <2>5, <2>6 DEF IngestionInv
<1>4. CASE ~UNCHANGED <<copy, waiting>>
  <2>1. /\ d \in settled /\ ExistingReplay(q, d) = {}
        /\ replay_pc' = [replay_pc EXCEPT ![q] = "accepted"]
        /\ copy' = [copy EXCEPT ![q] = q]
        /\ waiting' = waiting \cup {<<q, d[2]>>}
    BY <1>4 DEF CreateReplay, ReplaySource, ReplayTaken, CopyOf
  <2>2. d[2] \in Endpoint
    BY <1>0 DEF Delivery
  <2>3. \A p \in Replayer : Created(p)' <=> Created(p) \/ p = q
    BY <1>1, <2>1, <2>2 DEF Created, Deliveries
  <2>4. \A p \in Replayer : \A c : ExistingReplay(p, c) \subseteq ExistingReplay(p, c)'
    BY <1>1, <2>3 DEF ExistingReplay, sent
  <2>5. TypeOK'
    BY <1>1, <2>1, <2>2 DEF TypeOK, sent, history, requestVars, Delivery
  <2>6. OneCopyPerKey'
    BY <1>1, <2>1, <2>3 DEF OneCopyPerKey, ExistingReplay, sent
  <2>7. q \in ExistingReplay(q, d)' /\ CopyOf(q, d) \in Deliveries'
    BY <1>1, <2>1, <2>3 DEF ExistingReplay, CopyOf, Deliveries, sent
  <2>8. CopiesAreStored'
    BY <1>0, <1>1, <2>1, <2>3, <2>4, <2>7
       DEF CopiesAreStored, CopyOf, Deliveries, TypeOK, sent
  <2>. QED
    BY <1>2, <2>5, <2>6, <2>8 DEF IngestionInv
<1>. QED
  BY <1>3, <1>4

LEMMA ReplayKeepsInv ==
    ASSUME IngestionInv, NEW q \in Replayer, Replay(q)
    PROVE  IngestionInv'
<1>. /\ TypeOK /\ OneCopyPerKey /\ CopiesAreStored
  BY DEF IngestionInv
<1>1. ASSUME NEW d \in Deliveries, LookReplay(q, d)
      PROVE  IngestionInv'
  <2>1. UNCHANGED <<sent, requestVars, stored, waiting, settled, open, history>>
    BY <1>1 DEF LookReplay
  <2>2. /\ replay_pc[q] = "new" /\ replay_of[q] = NoDelivery /\ ~Created(q)
        /\ replay_of' = [replay_of EXCEPT ![q] = d]
        /\ d \in Delivery /\ d # NoDelivery
    BY <1>1, IngestionAssumption
       DEF LookReplay, CopiesAreStored, Deliveries, TypeOK, Delivery, IngestionAssumption
  <2>3. OneEventPerKey' /\ AnswersAreStored'
    BY <2>1, EventPartsKept DEF eventParts, requestVars
  <2>4. \A p \in Replayer : Created(p)' <=> Created(p)
    BY <2>1 DEF Created, Deliveries
  <2>5. \A p \in Replayer : \A c : c # NoDelivery =>
           (ExistingReplay(p, c)' = ExistingReplay(p, c))
    BY <2>1, <2>2, <2>4 DEF ExistingReplay, TypeOK, sent
  <2>6. TypeOK'
    BY <1>1, <2>1, <2>2 DEF LookReplay, ExistingReplay, TypeOK, sent, history, requestVars
  <2>7. OneCopyPerKey'
    BY <2>1, <2>2, <2>4 DEF OneCopyPerKey, TypeOK, sent
  <2>8. ASSUME NEW p \in ExistingReplay(q, d)
        PROVE  CopyOf(p, d) \in Deliveries /\ d \in settled
    <3>1. Created(p) /\ p \in Replayer /\ replay_of[p] = d /\ replay_pc[p] = "accepted"
      BY <2>8 DEF ExistingReplay, CopiesAreStored
    <3>2. /\ copy[p] \in ExistingReplay(p, d) /\ d \in settled
          /\ CopyOf(copy[p], d) \in Deliveries
      BY <3>1 DEF CopiesAreStored
    <3>3. copy[p] = p
      BY <3>1, <3>2 DEF ExistingReplay, OneCopyPerKey
    <3>. QED
      BY <3>2, <3>3
  <2>9. CopiesAreStored'
    <3>1. ASSUME NEW p \in Replayer, p # q
          PROVE  /\ replay_of[p]' = replay_of[p] /\ replay_pc[p]' = replay_pc[p]
                 /\ copy[p]' = copy[p]
      BY <1>1, <3>1 DEF LookReplay, TypeOK
    <3>2. CASE \E p \in ExistingReplay(q, d) :
                  /\ replay_pc' = [replay_pc EXCEPT ![q] = "accepted"]
                  /\ copy' = [copy EXCEPT ![q] = p]
      <4>1. PICK p \in ExistingReplay(q, d) :
                  /\ replay_pc' = [replay_pc EXCEPT ![q] = "accepted"]
                  /\ copy' = [copy EXCEPT ![q] = p]
        BY <3>2
      <4>2. /\ replay_pc'[q] = "accepted" /\ copy'[q] = p /\ replay_of'[q] = d
        BY <2>2, <4>1 DEF TypeOK
      <4>. QED
        BY <2>1, <2>2, <2>4, <2>5, <2>8, <3>1, <4>1, <4>2
           DEF CopiesAreStored, CopyOf, Deliveries
    <3>3. CASE replay_pc' = [replay_pc EXCEPT ![q] = "missed"]
      BY <2>1, <2>2, <2>4, <2>5, <3>1, <3>3 DEF CopiesAreStored, CopyOf, Deliveries, TypeOK
    <3>. QED
      BY <1>1, <3>2, <3>3 DEF LookReplay
  <2>. QED
    BY <2>3, <2>6, <2>7, <2>9 DEF IngestionInv
<1>2. CASE CreateReplay(q)
  BY <1>2, CreateReplayKeepsInv
<1>3. CASE LookAgainReplay(q) \/ StopReplay(q)
  <2>1. UNCHANGED <<sent, requestVars, stored, waiting, settled, replay_of, open, history>>
    BY <1>3 DEF LookAgainReplay, StopReplay
  <2>2. OneEventPerKey' /\ AnswersAreStored'
    BY <2>1, EventPartsKept DEF eventParts, requestVars
  <2>3. \A p \in Replayer : Created(p)' <=> Created(p)
    BY <2>1 DEF Created, Deliveries
  <2>4. \A p \in Replayer : \A c : ExistingReplay(p, c)' = ExistingReplay(p, c)
    BY <2>1, <2>3 DEF ExistingReplay, sent
  <2>5. OneCopyPerKey'
    BY <2>1, <2>3 DEF OneCopyPerKey, sent
  <2>6. CASE StopReplay(q)
    <3>1. TypeOK'
      BY <2>6 DEF StopReplay, TypeOK, sent, history, requestVars
    <3>2. CopiesAreStored'
      BY <2>1, <2>3, <2>4, <2>6 DEF StopReplay, CopiesAreStored, CopyOf, Deliveries, TypeOK
    <3>. QED
      BY <2>2, <2>5, <3>1, <3>2 DEF IngestionInv
  <2>7. CASE LookAgainReplay(q)
    <3>1. PICK p \in ExistingReplay(q, replay_of[q]) :
             /\ replay_pc[q] = "conflicted" /\ replay_of[q] \in settled
             /\ replay_pc' = [replay_pc EXCEPT ![q] = "accepted"]
             /\ copy' = [copy EXCEPT ![q] = p]
      BY <2>7 DEF LookAgainReplay, CopiesAreStored
    <3>2. Created(p) /\ p \in Replayer /\ replay_of[p] = replay_of[q]
      BY <3>1 DEF ExistingReplay
    <3>3. copy[p] = p /\ CopyOf(p, replay_of[q]) \in Deliveries
      BY <3>2 DEF CopiesAreStored, ExistingReplay, OneCopyPerKey
    <3>4. TypeOK'
      BY <2>1, <3>1, <3>2 DEF TypeOK, sent, history, requestVars
    <3>5. CopiesAreStored'
      BY <2>1, <2>3, <2>4, <3>1, <3>2, <3>3 DEF CopiesAreStored, CopyOf, Deliveries, TypeOK
    <3>. QED
      BY <2>2, <2>5, <3>4, <3>5 DEF IngestionInv
  <2>. QED
    BY <1>3, <2>6, <2>7
<1>4. CASE ReplayUnknown(q)
  <2>1. /\ UNCHANGED <<sent, requestVars, stored, waiting, settled, replay_of, copy, open, history>>
        /\ replay_pc[q] = "new" /\ replay_pc' = [replay_pc EXCEPT ![q] = "not_found"]
    BY <1>4 DEF ReplayUnknown
  <2>2. OneEventPerKey' /\ AnswersAreStored'
    BY <2>1, EventPartsKept DEF eventParts, requestVars
  <2>3. \A p \in Replayer : Created(p)' <=> Created(p)
    BY <2>1 DEF Created, Deliveries
  <2>4. \A p \in Replayer : \A c : ExistingReplay(p, c)' = ExistingReplay(p, c)
    BY <2>1, <2>3 DEF ExistingReplay, sent
  <2>5. OneCopyPerKey'
    BY <2>1, <2>3 DEF OneCopyPerKey, sent
  <2>6. TypeOK'
    BY <2>1 DEF TypeOK, sent, history, requestVars
  <2>7. CopiesAreStored'
    BY <2>1, <2>3, <2>4 DEF CopiesAreStored, CopyOf, Deliveries, TypeOK
  <2>. QED
    BY <2>2, <2>5, <2>6, <2>7 DEF IngestionInv
<1>. QED
  BY <1>1, <1>2, <1>3, <1>4 DEF Replay

LEMMA OthersKeepInv ==
    ASSUME IngestionInv,
           \/ \E d \in Delivery : Settle(d)
           \/ \E e \in Endpoint : Open(e) \/ Close(e)
           \/ UNCHANGED vars
    PROVE  IngestionInv'
<1>. TypeOK
  BY DEF IngestionInv
<1>1. /\ UNCHANGED <<sent, requestVars, stored, replayVars>>
      /\ Deliveries' = Deliveries /\ settled \subseteq settled'
  BY DEF Settle, Open, Close, vars, Deliveries
<1>2. TypeOK'
  <2>1. /\ waiting' \subseteq Delivery /\ settled' \subseteq Delivery /\ open' \subseteq Endpoint
        /\ uncounted' \subseteq Delivery /\ repeats' \subseteq Request
    BY DEF Settle, Open, Close, vars, history, TypeOK, Delivery
  <2>. QED
    BY <1>1, <2>1 DEF TypeOK, sent, history, requestVars, replayVars
<1>3. OneEventPerKey' /\ AnswersAreStored'
  BY <1>1, EventPartsKept DEF eventParts, requestVars
<1>4. \A q \in Replayer : Created(q)' => Created(q)
  BY <1>1 DEF Created
<1>5. OneCopyPerKey' /\ CopiesAreStored'
  BY <1>1, <1>4, ReplayPartsKept
<1>. QED
  BY <1>2, <1>3, <1>5 DEF IngestionInv

LEMMA StepKeepsIngestionInv == IngestionInv /\ [Next]_vars => IngestionInv'
  BY IngestKeepsInv, ReplayKeepsInv, OthersKeepInv DEF Next

(***************************************************************************)
(* However many requests race, there is one event per key and one copy per *)
(* delivery and key, and every answer is about one of them.                *)
(***************************************************************************)
THEOREM IngestionIsConsistent == Spec => []IngestionInv
<1>1. Init => IngestionInv
  BY InitHasIngestionInv
<1>2. IngestionInv /\ [Next]_vars => IngestionInv'
  BY StepKeepsIngestionInv
<1>. QED
  BY <1>1, <1>2, PTL DEF Spec

(***************************************************************************)
(* Requests with one key agree on the event and its content.               *)
(***************************************************************************)
THEOREM AnswersAlwaysAgree == Spec => []AnswersAgree
<1>1. IngestionInv => AnswersAgree
  <2>. SUFFICES ASSUME IngestionInv, NEW r \in Request, NEW s \in Request,
                       pc[r] = "accepted", key[r] = key[s]
                PROVE  /\ pc[s] = "accepted" => event[r] = event[s] /\ content[r] = content[s]
                       /\ pc[s] = "conflict" => content[r] # content[s]
    BY DEF AnswersAgree
  <2>1. event[r] \in stored /\ key[event[r]] = key[r] /\ content[event[r]] = content[r]
    BY DEF IngestionInv, AnswersAreStored
  <2>2. pc[s] = "accepted" => event[r] = event[s] /\ content[r] = content[s]
    BY <2>1 DEF IngestionInv, AnswersAreStored, OneEventPerKey
  <2>3. pc[s] = "conflict" => content[r] # content[s]
    BY <2>1 DEF IngestionInv, AnswersAreStored, OneEventPerKey, Existing
  <2>. QED
    BY <2>2, <2>3
<1>. QED
  BY <1>1, IngestionIsConsistent, PTL

(***************************************************************************)
(* Replays of one delivery under one key are one delivery.                 *)
(***************************************************************************)
THEOREM AlwaysReplayedOnce == Spec => []ReplayedOnce
<1>1. IngestionInv => ReplayedOnce
  BY DEF IngestionInv, CopiesAreStored, OneCopyPerKey, ExistingReplay, ReplayedOnce
<1>. QED
  BY <1>1, IngestionIsConsistent, PTL
-----------------------------------------------------------------------------
(***************************************************************************)
(* The backlog: what an ingest has counted stays within the limit until    *)
(* its transaction is over, because nobody else inserts originals.         *)
(***************************************************************************)
\* what has deliveries is accepted, so it is in no transaction any more
AcceptedOnly == \A d \in waiting : d[1] \in Request => pc[d[1]] = "accepted"

BacklogInv == IngestionInv /\ AcceptedOnly /\ RoomIsKept /\ BacklogBound

LEMMA StepKeepsAcceptedOnly ==
    IngestionInv /\ AcceptedOnly /\ [Next]_vars => AcceptedOnly'
<1>. SUFFICES ASSUME IngestionInv, AcceptedOnly, [Next]_vars PROVE AcceptedOnly'
  OBVIOUS
<1>. TypeOK
  BY DEF IngestionInv
<1>1. ASSUME NEW r \in Request, Ingest(r)
      PROVE  AcceptedOnly'
  <2>1. /\ pc[r] # "accepted"
        /\ \A s \in Request : s # r => pc'[s] = pc[s]
        /\ \/ waiting' = waiting
           \/ waiting' \subseteq waiting \cup ({r} \X Endpoint) /\ pc'[r] = "accepted"
    BY <1>1 DEF Ingest, Look, CountBacklog, ReadEndpoints, Insert, LookAgain, Stop, AnswerFrom,
                InTransaction, TypeOK
  <2>. QED
    BY <2>1 DEF AcceptedOnly
<1>2. ASSUME UNCHANGED pc, waiting' \subseteq waiting \cup (Replayer \X Endpoint)
      PROVE  AcceptedOnly'
  BY <1>2, IngestionAssumption DEF AcceptedOnly, IngestionAssumption
<1>3. ASSUME NEW q \in Replayer, Replay(q)
      PROVE  AcceptedOnly'
  <2>1. CASE CreateReplay(q)
    <3>1. replay_of[q] \in Delivery
      BY <2>1 DEF CreateReplay, IngestionInv, CopiesAreStored, TypeOK
    <3>. QED
      BY <1>2, <2>1, <3>1 DEF CreateReplay, requestVars, CopyOf, Delivery
  <2>. QED
    BY <1>2, <1>3, <2>1
       DEF Replay, LookReplay, ReplayUnknown, LookAgainReplay, StopReplay, requestVars
<1>4. CASE \/ \E d \in Delivery : Settle(d)
           \/ \E e \in Endpoint : Open(e) \/ Close(e)
           \/ UNCHANGED vars
  BY <1>2, <1>4 DEF Settle, Open, Close, vars, requestVars
<1>. QED
  BY <1>1, <1>3, <1>4 DEF Next

LEMMA BacklogTypes ==
    ASSUME TypeOK
    PROVE  /\ BacklogLimit \in Nat
           /\ IsFiniteSet(Bounded) /\ Cardinality(Bounded) \in Nat
           /\ \A r : \A S \in SUBSET Endpoint :
                /\ IsFiniteSet(Counted(r, S)) /\ Counted(r, S) \in SUBSET Endpoint
                /\ Cardinality(Counted(r, S)) \in Nat
<1>1. IsFiniteSet(Request \cup Replayer)
  BY IngestionAssumption, FS_Union DEF IngestionAssumption
<1>2. IsFiniteSet(Delivery)
  BY <1>1, IngestionAssumption, FS_Product DEF IngestionAssumption, Delivery
<1>3. IsFiniteSet(Bounded)
  BY <1>2, FS_Subset DEF TypeOK, Bounded
<1>4. \A r : \A S \in SUBSET Endpoint :
         IsFiniteSet(Counted(r, S)) /\ Counted(r, S) \in SUBSET Endpoint
  BY IngestionAssumption, FS_Subset DEF IngestionAssumption, Counted
<1>. QED
  BY <1>3, <1>4, FS_CardinalityType, IngestionAssumption DEF IngestionAssumption

\* One delivery for each endpoint read.
LEMMA GraphSize ==
    ASSUME NEW r, NEW S, IsFiniteSet(S)
    PROVE  IsFiniteSet({r} \X S) /\ Cardinality({r} \X S) = Cardinality(S)
<1>1. IsFiniteSet({r}) /\ Cardinality({r}) = 1
  BY FS_Singleton
<1>2. IsFiniteSet({r} \X S) /\ Cardinality({r} \X S) = 1 * Cardinality(S)
  BY <1>1, FS_Product
<1>3. Cardinality(S) \in Nat
  BY FS_CardinalityType
<1>. QED
  BY <1>2, <1>3

\* A union is no larger than its parts together.
LEMMA UnionSize ==
    ASSUME NEW S, NEW T, IsFiniteSet(S), IsFiniteSet(T)
    PROVE  /\ IsFiniteSet(S \cup T) /\ Cardinality(S \cup T) \in Nat
           /\ Cardinality(S \cup T) <= Cardinality(S) + Cardinality(T)
<1>1. Cardinality(S) \in Nat /\ Cardinality(T) \in Nat
  BY FS_CardinalityType
<1>2. Cardinality(S \cap T) \in Nat
  BY FS_Intersection, FS_CardinalityType
<1>3. Cardinality(S \cup T) = Cardinality(S) + Cardinality(T) - Cardinality(S \cap T)
  BY FS_Union
<1>4. IsFiniteSet(S \cup T) /\ Cardinality(S \cup T) \in Nat
  BY FS_Union, FS_CardinalityType
<1>. QED
  BY <1>1, <1>2, <1>3, <1>4

LEMMA InitHasBacklogInv == Init => BacklogInv
<1>. SUFFICES ASSUME Init PROVE BacklogInv
  OBVIOUS
<1>1. Cardinality(Bounded) = 0
  <2>1. Bounded = {}
    BY DEF Init, Bounded
  <2>. QED
    BY <2>1, FS_EmptySet
<1>2. RoomIsKept
  BY DEF Init, RoomIsKept, InTransaction
<1>3. AcceptedOnly
  BY DEF Init, AcceptedOnly
<1>. QED
  BY <1>1, <1>2, <1>3, InitHasIngestionInv, IngestionAssumption
     DEF BacklogInv, BacklogBound, IngestionAssumption

\* A step that adds no original, moves no transaction into its critical part,
\* and opens nothing that a transaction which has counted will count.
LEMMA RoomUntouched ==
    ASSUME BacklogInv, TypeOK',
           Bounded' \subseteq Bounded,
           \A r \in Request : pc'[r] = "counted" =>
               pc[r] = "counted" /\ Counted(r, open)' \subseteq Counted(r, open),
           \A r \in Request : pc'[r] = "matched" =>
               pc[r] = "matched" /\ Counted(r, matched[r])' \subseteq Counted(r, matched[r])
    PROVE  RoomIsKept' /\ BacklogBound'
<1>. TypeOK
  BY DEF BacklogInv, IngestionInv
<1>1. /\ Cardinality(Bounded) \in Nat /\ Cardinality(Bounded') \in Nat
      /\ Cardinality(Bounded') <= Cardinality(Bounded)
      /\ BacklogLimit \in Nat
  <2>1. IsFiniteSet(Bounded)
    BY BacklogTypes
  <2>. QED
    BY <2>1, BacklogTypes, FS_Subset, FS_CardinalityType
<1>2. BacklogBound'
  BY <1>1 DEF BacklogInv, BacklogBound
<1>3. \A r, s \in Request : pc'[r] \in InTransaction /\ pc'[s] \in InTransaction => r = s
  BY DEF BacklogInv, RoomIsKept, InTransaction
<1>4. ASSUME NEW r \in Request, pc'[r] = "counted"
      PROVE  Cardinality(Bounded') + Cardinality(Counted(r, open)') <= BacklogLimit
  <2>1. pc[r] = "counted" /\ Counted(r, open)' \subseteq Counted(r, open)
    BY <1>4
  <2>2. IsFiniteSet(Counted(r, open)) /\ Cardinality(Counted(r, open)) \in Nat
    BY BacklogTypes DEF TypeOK
  <2>3. /\ Cardinality(Counted(r, open)') <= Cardinality(Counted(r, open))
        /\ Cardinality(Counted(r, open)') \in Nat
    BY <2>1, <2>2, FS_Subset, FS_CardinalityType
  <2>4. Cardinality(Bounded) + Cardinality(Counted(r, open)) <= BacklogLimit
    BY <2>1 DEF BacklogInv, RoomIsKept
  <2>. QED
    BY <1>1, <2>2, <2>3, <2>4
<1>5. ASSUME NEW r \in Request, pc'[r] = "matched"
      PROVE  Cardinality(Bounded') + Cardinality(Counted(r, matched[r])') <= BacklogLimit
  <2>1. pc[r] = "matched"
    BY <1>5
  <2>2. Counted(r, matched[r])' \subseteq Counted(r, matched[r])
    BY <1>5
  <2>3. /\ IsFiniteSet(Counted(r, matched[r])) /\ Cardinality(Counted(r, matched[r])) \in Nat
    <3>1. matched[r] \in SUBSET Endpoint
      BY DEF TypeOK
    <3>. QED
      BY <3>1, BacklogTypes
  <2>4. /\ Cardinality(Counted(r, matched[r])') <= Cardinality(Counted(r, matched[r]))
        /\ Cardinality(Counted(r, matched[r])') \in Nat
    BY <2>2, <2>3, FS_Subset, FS_CardinalityType
  <2>5. Cardinality(Bounded) + Cardinality(Counted(r, matched[r])) <= BacklogLimit
    BY <2>1 DEF BacklogInv, RoomIsKept
  <2>. QED
    BY <1>1, <2>3, <2>4, <2>5
<1>. QED
  BY <1>2, <1>3, <1>4, <1>5 DEF RoomIsKept

\* The count: what fits, fits without the deliveries that are not bounded.
LEMMA CountingKeepsRoom ==
    ASSUME BacklogInv, NEW r \in Request, CountBacklog(r)
    PROVE  RoomIsKept' /\ BacklogBound'
<1>. TypeOK
  BY DEF BacklogInv, IngestionInv
<1>1. /\ UNCHANGED <<matched, waiting, open, uncounted>>
      /\ \A s \in Request : pc[s] \notin InTransaction
      /\ pc' = [pc EXCEPT ![r] = IF Fits THEN "counted" ELSE "limit"]
  BY DEF CountBacklog, OrganizationLocked, history
<1>2. Bounded' = Bounded /\ Counted(r, open)' = Counted(r, open)
  BY <1>1 DEF Bounded, Counted
<1>3. BacklogBound'
  BY <1>2 DEF BacklogInv, BacklogBound
<1>4. Fits => Cardinality(Bounded) + Cardinality(Counted(r, open)) <= BacklogLimit
  <2>1. IsFiniteSet(Request \cup Replayer)
    BY IngestionAssumption, FS_Union DEF IngestionAssumption
  <2>2. IsFiniteSet(Delivery)
    BY <2>1, IngestionAssumption, FS_Product DEF IngestionAssumption, Delivery
  <2>3. IsFiniteSet(waiting) /\ IsFiniteSet(open)
    BY <2>2, IngestionAssumption, FS_Subset DEF TypeOK, IngestionAssumption
  <2>4. Bounded \subseteq waiting /\ Counted(r, open) \subseteq open
    BY DEF Bounded, Counted
  <2>5. /\ Cardinality(Bounded) <= Cardinality(waiting)
        /\ Cardinality(Counted(r, open)) <= Cardinality(open)
    BY <2>3, <2>4, FS_Subset
  <2>6. /\ Cardinality(Bounded) \in Nat /\ Cardinality(waiting) \in Nat
        /\ Cardinality(Counted(r, open)) \in Nat /\ Cardinality(open) \in Nat
        /\ BacklogLimit \in Nat
    BY <2>3, BacklogTypes, FS_CardinalityType DEF TypeOK
  <2>. QED
    BY <2>5, <2>6 DEF Fits
<1>5. \A s \in Request : /\ pc'[s] \in InTransaction => s = r
                         /\ pc'[s] # "matched"
                         /\ pc'[s] = "counted" => Fits
  BY <1>1 DEF InTransaction, TypeOK
<1>6. \A s \in Request :
         pc'[s] = "counted" =>
             Cardinality(Bounded)' + Cardinality(Counted(s, open))' <= BacklogLimit
  BY <1>2, <1>4, <1>5 DEF InTransaction
<1>. QED
  BY <1>3, <1>5, <1>6 DEF RoomIsKept, InTransaction

LEMMA InsertKeepsRoom ==
    ASSUME BacklogInv, NEW r \in Request, Insert(r)
    PROVE  RoomIsKept' /\ BacklogBound'
<1>. TypeOK
  BY DEF BacklogInv, IngestionInv
<1>. DEFINE new == {r} \X Counted(r, matched[r])
<1>1. /\ pc[r] = "matched" /\ UNCHANGED uncounted
      /\ \E s \in {"accepted", "conflicted"} : pc' = [pc EXCEPT ![r] = s]
      /\ waiting' \in {waiting, waiting \cup ({r} \X matched[r])}
  BY DEF Insert
<1>2. \A s \in Request : pc'[s] \notin InTransaction
  BY <1>1 DEF BacklogInv, RoomIsKept, InTransaction, TypeOK
<1>3. RoomIsKept'
  BY <1>2 DEF RoomIsKept, InTransaction
<1>4. Bounded' \in SUBSET (Bounded \cup new)
  BY <1>1 DEF Bounded, Counted
<1>5. /\ IsFiniteSet(Bounded) /\ IsFiniteSet(Counted(r, matched[r]))
      /\ Cardinality(Bounded) \in Nat /\ Cardinality(Counted(r, matched[r])) \in Nat
      /\ BacklogLimit \in Nat
  <2>1. matched[r] \in SUBSET Endpoint
    BY DEF TypeOK
  <2>. QED
    BY <2>1, BacklogTypes
<1>6. IsFiniteSet(new) /\ Cardinality(new) = Cardinality(Counted(r, matched[r]))
  BY <1>5, GraphSize
<1>7. /\ IsFiniteSet(Bounded \cup new) /\ Cardinality(Bounded \cup new) \in Nat
      /\ Cardinality(Bounded \cup new) <= Cardinality(Bounded) + Cardinality(new)
  BY <1>5, <1>6, UnionSize
<1>8. /\ Cardinality(Bounded') <= Cardinality(Bounded \cup new)
      /\ Cardinality(Bounded') \in Nat
  <2>1. Bounded' \subseteq Bounded \cup new
    BY <1>4
  <2>. QED
    BY <1>7, <2>1, FS_Subset, FS_CardinalityType
<1>9. Cardinality(Bounded) + Cardinality(Counted(r, matched[r])) <= BacklogLimit
  BY <1>1 DEF BacklogInv, RoomIsKept
<1>10. Cardinality(Bounded') <= BacklogLimit
  BY <1>5, <1>6, <1>7, <1>8, <1>9
<1>. QED
  BY <1>3, <1>10 DEF BacklogBound

LEMMA StepKeepsBacklogInv == BacklogInv /\ [Next]_vars => BacklogInv'
<1>. SUFFICES ASSUME BacklogInv, [Next]_vars PROVE BacklogInv'
  OBVIOUS
<1>. TypeOK
  BY DEF BacklogInv, IngestionInv
<1>1. IngestionInv' /\ AcceptedOnly'
  BY StepKeepsIngestionInv, StepKeepsAcceptedOnly DEF BacklogInv
<1>. TypeOK'
  BY <1>1 DEF IngestionInv
<1>. SUFFICES RoomIsKept' /\ BacklogBound'
  BY <1>1 DEF BacklogInv
<1>2. ASSUME NEW r \in Request, CountBacklog(r) \/ Insert(r)
      PROVE  RoomIsKept' /\ BacklogBound'
  BY <1>2, CountingKeepsRoom, InsertKeepsRoom
<1>3. ASSUME NEW r \in Request, ReadEndpoints(r)
      PROVE  RoomIsKept' /\ BacklogBound'
  <2>1. /\ UNCHANGED <<waiting, uncounted>>
        /\ pc[r] = "counted" /\ pc' = [pc EXCEPT ![r] = "matched"]
        /\ matched' = [matched EXCEPT ![r] = open]
    BY <1>3 DEF ReadEndpoints, history
  <2>2. Bounded' = Bounded /\ Counted(r, matched[r])' = Counted(r, open)
    BY <2>1 DEF Bounded, Counted, TypeOK
  <2>3. \A s \in Request : /\ pc'[s] \in InTransaction => s = r
                           /\ pc'[s] # "counted"
    BY <2>1 DEF BacklogInv, RoomIsKept, InTransaction, TypeOK
  <2>4. Cardinality(Bounded) + Cardinality(Counted(r, open)) <= BacklogLimit
    BY <2>1 DEF BacklogInv, RoomIsKept
  <2>5. \A s \in Request :
           pc'[s] = "matched" =>
               Cardinality(Bounded)' + Cardinality(Counted(s, matched[s]))' <= BacklogLimit
    BY <2>2, <2>3, <2>4 DEF InTransaction
  <2>6. RoomIsKept'
    BY <2>3, <2>5 DEF RoomIsKept
  <2>. QED
    BY <2>2, <2>6 DEF BacklogInv, BacklogBound
<1>4. ASSUME NEW r \in Request, Look(r) \/ LookAgain(r) \/ Stop(r)
      PROVE  RoomIsKept' /\ BacklogBound'
  <2>1. /\ UNCHANGED <<waiting, open, uncounted>>
        /\ \A s \in Request : /\ pc'[s] \in InTransaction => pc'[s] = pc[s]
                              /\ pc'[s] = "matched" => matched'[s] = matched[s]
    BY <1>4 DEF Look, LookAgain, Stop, AnswerFrom, InTransaction, TypeOK, history
  <2>2. /\ Bounded' \subseteq Bounded
        /\ \A s : Counted(s, open)' \subseteq Counted(s, open)
        /\ \A s \in Request : pc'[s] = "matched" =>
              Counted(s, matched[s])' \subseteq Counted(s, matched[s])
    BY <2>1 DEF Bounded, Counted
  <2>. QED
    BY <2>1, <2>2, RoomUntouched DEF InTransaction
<1>5. CASE \/ \E q \in Replayer : Replay(q)
           \/ \E d \in Delivery : Settle(d)
           \/ \E e \in Endpoint : Open(e) \/ Close(e)
           \/ UNCHANGED vars
  <2>1. /\ UNCHANGED <<pc, matched>>
        /\ \A d \in Delivery : d \in uncounted /\ d \notin uncounted' => d \in waiting \ waiting'
    BY <1>5 DEF Replay, LookReplay, ReplayUnknown, CreateReplay, LookAgainReplay, StopReplay,
                Settle, Open, Close, vars, requestVars, history
  <2>2. waiting' \subseteq waiting \cup (Replayer \X Endpoint)
    <3>1. ASSUME NEW q \in Replayer, CreateReplay(q)
          PROVE  waiting' \subseteq waiting \cup (Replayer \X Endpoint)
      <4>1. replay_of[q] \in Delivery
        BY <3>1 DEF CreateReplay, BacklogInv, IngestionInv, CopiesAreStored, TypeOK
      <4>. QED
        BY <3>1, <4>1 DEF CreateReplay, CopyOf, Delivery
    <3>. QED
      BY <1>5, <3>1 DEF Replay, LookReplay, ReplayUnknown, LookAgainReplay, StopReplay,
                             Settle, Open, Close, vars
  <2>3. Bounded' \subseteq Bounded
    <3>1. \A d \in waiting' : d[1] \in Request => d \in waiting /\ d \in Delivery
      BY <2>2, IngestionAssumption DEF IngestionAssumption, TypeOK
    <3>. QED
      BY <2>1, <3>1 DEF Bounded
  <2>4. \A r \in Request : pc[r] \in InTransaction =>
           \A e \in Endpoint : <<r, e>> \in uncounted => <<r, e>> \in uncounted'
    BY <2>1 DEF BacklogInv, AcceptedOnly, InTransaction, Delivery
  <2>5. ASSUME NEW r \in Request, pc[r] = "matched"
        PROVE  Counted(r, matched[r])' \subseteq Counted(r, matched[r])
    BY <2>1, <2>4, <2>5 DEF Counted, InTransaction, TypeOK
  <2>6. ASSUME NEW r \in Request, pc[r] = "counted"
        PROVE  Counted(r, open)' \subseteq Counted(r, open)
    <3>1. ASSUME NEW e \in Endpoint, Open(e)
          PROVE  Counted(r, open)' \subseteq Counted(r, open)
      BY <2>6, <3>1 DEF Open, Counted
    <3>2. CASE open' \subseteq open
      BY <2>6, <2>4, <3>2 DEF Counted, InTransaction, TypeOK
    <3>. QED
      BY <1>5, <3>1, <3>2
         DEF Replay, LookReplay, ReplayUnknown, CreateReplay, LookAgainReplay, StopReplay,
             Settle, Close, vars
  <2>. QED
    BY <2>1, <2>3, <2>6, <2>5, RoomUntouched
<1>. QED
  BY <1>2, <1>3, <1>4, <1>5 DEF Next, Ingest

LEMMA BacklogInvHolds == Spec => []BacklogInv
<1>. QED
  BY InitHasBacklogInv, StepKeepsBacklogInv, PTL DEF Spec

(***************************************************************************)
(* While a transaction holds the organization, what it has counted stays   *)
(* within the limit, and nobody else counts.                               *)
(***************************************************************************)
THEOREM RoomIsAlwaysKept == Spec => []RoomIsKept
<1>1. BacklogInv => RoomIsKept
  BY DEF BacklogInv
<1>. QED
  BY <1>1, BacklogInvHolds, PTL

(***************************************************************************)
(* The lock of the organization keeps its backlog within the limit, but    *)
(* for replays and for endpoints that open in the middle of an ingest.     *)
(***************************************************************************)
THEOREM BacklogIsBounded == Spec => []BacklogBound
<1>1. BacklogInv => BacklogBound
  BY DEF BacklogInv
<1>. QED
  BY <1>1, BacklogInvHolds, PTL

-----------------------------------------------------------------------------
\* A replay has created one delivery, the copy of its source.
CopiesAreOfTheirSource ==
    \A d \in Deliveries : d[1] \in Replayer => d = CopyOf(d[1], replay_of[d[1]])

LEMMA StepKeepsSources ==
    IngestionInv /\ CopiesAreOfTheirSource /\ [Next]_vars => CopiesAreOfTheirSource'
<1>. SUFFICES ASSUME IngestionInv, CopiesAreOfTheirSource, [Next]_vars
              PROVE  CopiesAreOfTheirSource'
  OBVIOUS
<1>. TypeOK /\ CopiesAreStored
  BY DEF IngestionInv
<1>1. ASSUME UNCHANGED replay_of, Deliveries' \subseteq Deliveries
      PROVE  CopiesAreOfTheirSource'
  BY <1>1 DEF CopiesAreOfTheirSource, CopyOf
<1>2. ASSUME NEW r \in Request, Ingest(r)
      PROVE  CopiesAreOfTheirSource'
  <2>1. UNCHANGED replay_of
    BY <1>2 DEF Ingest, Look, CountBacklog, ReadEndpoints, Insert, LookAgain, Stop, replayVars
  <2>2. Deliveries' \subseteq Deliveries \cup ({r} \X Endpoint)
    BY <1>2 DEF Ingest, Look, CountBacklog, ReadEndpoints, Insert, LookAgain, Stop, Deliveries, TypeOK
  <2>3. r \notin Replayer
    BY IngestionAssumption DEF IngestionAssumption
  <2>. QED
    BY <2>1, <2>2, <2>3 DEF CopiesAreOfTheirSource, CopyOf
<1>3. ASSUME NEW q \in Replayer, NEW d \in Deliveries, LookReplay(q, d)
      PROVE  CopiesAreOfTheirSource'
  <2>1. Deliveries' = Deliveries /\ Deliveries \subseteq Delivery
    BY <1>3 DEF LookReplay, Deliveries, TypeOK
  <2>2. ~Created(q)
    BY <1>3 DEF LookReplay, CopiesAreStored
  <2>3. \A c \in Deliveries : c[1] # q
    BY <2>1, <2>2 DEF Created, Delivery
  <2>4. \A p \in Replayer \ {q} : replay_of'[p] = replay_of[p]
    BY <1>3 DEF LookReplay, TypeOK
  <2>. QED
    BY <2>1, <2>3, <2>4 DEF CopiesAreOfTheirSource, CopyOf
<1>4. ASSUME NEW q \in Replayer, CreateReplay(q)
      PROVE  CopiesAreOfTheirSource'
  <2>1. UNCHANGED replay_of /\ Deliveries' \subseteq Deliveries \cup {CopyOf(q, replay_of[q])}
    BY <1>4 DEF CreateReplay, Deliveries
  <2>2. CopyOf(q, replay_of[q])[1] = q
    BY DEF CopyOf
  <2>. QED
    BY <2>1, <2>2 DEF CopiesAreOfTheirSource, CopyOf
<1>5. ASSUME NEW q \in Replayer, ReplayUnknown(q) \/ LookAgainReplay(q) \/ StopReplay(q)
      PROVE  CopiesAreOfTheirSource'
  BY <1>1, <1>5 DEF ReplayUnknown, LookAgainReplay, StopReplay, Deliveries
<1>6. CASE \/ \E d \in Delivery : Settle(d)
           \/ \E e \in Endpoint : Open(e) \/ Close(e)
           \/ UNCHANGED vars
  <2>1. UNCHANGED replay_of /\ Deliveries' = Deliveries
    BY <1>6 DEF Settle, Open, Close, vars, replayVars, Deliveries
  <2>. QED
    BY <1>1, <2>1
<1>. QED
  BY <1>2, <1>3, <1>4, <1>5, <1>6 DEF Next, Replay

\* the deliveries that replays have created
Replayed == {q \in Replayer : Created(q)}

LEMMA BacklogParts ==
    ASSUME IngestionInv, BacklogBound, CopiesAreOfTheirSource
    PROVE  Cardinality(waiting) <= BacklogLimit + Cardinality(uncounted) + Cardinality(Replayed)
<1>. TypeOK
  BY DEF IngestionInv
<1>. DEFINE Copied == {d \in waiting : d[1] \in Replayer}
<1>1. /\ IsFiniteSet(Delivery) /\ IsFiniteSet(waiting) /\ IsFiniteSet(uncounted)
      /\ IsFiniteSet(Bounded) /\ IsFiniteSet(Copied) /\ IsFiniteSet(Replayed)
  <2>1. IsFiniteSet(Request \cup Replayer)
    BY IngestionAssumption, FS_Union DEF IngestionAssumption
  <2>2. IsFiniteSet(Delivery)
    BY <2>1, IngestionAssumption, FS_Product DEF IngestionAssumption, Delivery
  <2>. QED
    BY <2>2, IngestionAssumption, FS_Subset DEF IngestionAssumption, TypeOK, Bounded, Replayed
<1>2. waiting \subseteq (Bounded \cup uncounted) \cup Copied
  BY DEF Bounded, TypeOK, Delivery
<1>3. Cardinality(Copied) <= Cardinality(Replayed)
  <2>. DEFINE f == [d \in Copied |-> d[1]]
  <2>1. \A d \in Copied : d[1] \in Replayed
    BY DEF TypeOK, Delivery, Replayed, Created, Deliveries
  <2>2. \A c, d \in Copied : c[1] = d[1] => c = d
    BY DEF CopiesAreOfTheirSource, Deliveries
  <2>3. f \in Injection(Copied, Replayed)
    <3>. HIDE DEF Copied
    <3>. QED
      BY <2>1, <2>2 DEF Injection, IsInjective
  <2>. QED
    BY <1>1, <2>3, FS_Injection
<1>4. Cardinality(waiting) <= Cardinality(Bounded) + Cardinality(uncounted) + Cardinality(Copied)
  <2>. HIDE DEF Copied
  <2>1. IsFiniteSet(Bounded \cup uncounted) /\ IsFiniteSet((Bounded \cup uncounted) \cup Copied)
    BY <1>1, FS_Union
  <2>2. Cardinality(waiting) <= Cardinality((Bounded \cup uncounted) \cup Copied)
    BY <1>1, <1>2, <2>1, FS_Subset
  <2>3. Cardinality(Bounded \cup uncounted) <= Cardinality(Bounded) + Cardinality(uncounted)
    BY <1>1, UnionSize
  <2>4. Cardinality((Bounded \cup uncounted) \cup Copied)
          <= Cardinality(Bounded \cup uncounted) + Cardinality(Copied)
    BY <1>1, <2>1, UnionSize
  <2>5. /\ Cardinality(waiting) \in Nat /\ Cardinality((Bounded \cup uncounted) \cup Copied) \in Nat
        /\ Cardinality(Bounded \cup uncounted) \in Nat
        /\ Cardinality(Bounded) \in Nat /\ Cardinality(uncounted) \in Nat
        /\ Cardinality(Copied) \in Nat
    BY <1>1, <2>1, FS_CardinalityType
  <2>. QED
    BY <2>2, <2>3, <2>4, <2>5
<1>5. /\ Cardinality(Bounded) \in Nat /\ Cardinality(uncounted) \in Nat
      /\ Cardinality(Copied) \in Nat /\ Cardinality(Replayed) \in Nat
      /\ Cardinality(waiting) \in Nat
  BY <1>1, FS_CardinalityType
<1>. QED
  BY <1>3, <1>4, <1>5, IngestionAssumption DEF IngestionAssumption, BacklogBound

(***************************************************************************)
(* The whole backlog: it exceeds its limit by at most one delivery for     *)
(* each replay, and one for each endpoint that opened between the count    *)
(* and the read of an ingest.                                              *)
(***************************************************************************)
THEOREM BacklogStaysNearLimit ==
    Spec => [](Cardinality(waiting) <=
                  BacklogLimit + Cardinality(uncounted) + Cardinality(Replayed))
<1>1. Init => CopiesAreOfTheirSource
  BY DEF Init, CopiesAreOfTheirSource, Deliveries
<1>2. IngestionInv /\ CopiesAreOfTheirSource /\ [Next]_vars => CopiesAreOfTheirSource'
  BY StepKeepsSources
<1>3. IngestionInv /\ BacklogBound /\ CopiesAreOfTheirSource
      => Cardinality(waiting) <= BacklogLimit + Cardinality(uncounted) + Cardinality(Replayed)
  BY BacklogParts
<1>. QED
  BY <1>1, <1>2, <1>3, IngestionIsConsistent, BacklogIsBounded, PTL DEF Spec

-----------------------------------------------------------------------------
\* A request whose event is stored finds it, and never leaves that answer.
RepeatsInv ==
    /\ IngestionInv /\ RepeatsAreRecognised
    /\ \A r \in repeats : Existing(r) # {}

LEMMA StepKeepsRepeatsInv == RepeatsInv /\ [Next]_vars => RepeatsInv'
<1>. SUFFICES ASSUME RepeatsInv, [Next]_vars PROVE RepeatsInv'
  OBVIOUS
<1>. TypeOK
  BY DEF RepeatsInv, IngestionInv
<1>1. IngestionInv'
  BY StepKeepsIngestionInv DEF RepeatsInv
<1>2. UNCHANGED key /\ stored \subseteq stored'
  BY DEF Next, Ingest, Look, CountBacklog, ReadEndpoints, Insert, LookAgain, Stop,
         Replay, LookReplay, ReplayUnknown, CreateReplay, LookAgainReplay, StopReplay,
         Settle, Open, Close, vars, sent
<1>3. \A r \in Request : Existing(r) \subseteq Existing(r)'
  BY <1>2 DEF Existing
<1>4. ASSUME NEW r \in Request, Insert(r)
      PROVE  RepeatsAreRecognised' /\ \A s \in repeats' : Existing(s)' # {}
  <2>1. pc[r] = "matched" /\ \E v \in {"accepted", "conflicted"} : pc' = [pc EXCEPT ![r] = v]
    BY <1>4 DEF Insert
  <2>2. r \notin repeats
    BY <2>1 DEF RepeatsInv, RepeatsAreRecognised
  <2>3. CASE repeats' = repeats
    BY <1>3, <2>1, <2>2, <2>3 DEF RepeatsInv, RepeatsAreRecognised, TypeOK
  <2>4. CASE /\ stored' = stored \cup {r}
             /\ repeats' = repeats \cup {s \in Request : pc[s] = "new" /\ key[s] = key[r]}
    <3>1. \A s \in repeats' : s \in repeats \/ (s \in Request /\ pc[s] = "new" /\ key[s] = key[r])
      BY <2>4
    <3>2. \A s \in repeats' : s \in Request /\ s # r
      BY <2>1, <2>2, <3>1 DEF TypeOK
    <3>3. \A s \in Request : key[s] = key[r] => r \in Existing(s)'
      BY <1>2, <2>4 DEF Existing
    <3>4. \A s \in repeats' : pc'[s] = pc[s]
      BY <2>1, <3>2 DEF TypeOK
    <3>5. RepeatsAreRecognised'
      BY <3>1, <3>4 DEF RepeatsInv, RepeatsAreRecognised
    <3>. QED
      BY <1>3, <3>1, <3>2, <3>3, <3>5 DEF RepeatsInv
  <2>. QED
    BY <1>4, <2>3, <2>4 DEF Insert
<1>5. CASE ~\E r \in Request : Insert(r)
  <2>1. repeats' = repeats
    BY <1>5 DEF Next, Ingest, Look, CountBacklog, ReadEndpoints, LookAgain, Stop,
           Replay, LookReplay, ReplayUnknown, CreateReplay, LookAgainReplay, StopReplay,
           Settle, Open, Close, vars, history
  <2>2. ASSUME NEW r \in repeats
        PROVE  pc'[r] \in {"new", "accepted", "conflict"}
    <3>1. r \in Request /\ pc[r] \in {"new", "accepted", "conflict"} /\ Existing(r) # {}
      BY <2>2 DEF RepeatsInv, RepeatsAreRecognised, TypeOK
    <3>2. ASSUME NEW s \in Request, Ingest(s)
          PROVE  pc'[r] = pc[r] \/ pc'[r] \in {"accepted", "conflict"}
      BY <1>5, <3>1, <3>2 DEF Ingest, Look, CountBacklog, ReadEndpoints, LookAgain, Stop,
                              AnswerFrom, InTransaction, TypeOK
    <3>3. CASE ~\E s \in Request : Ingest(s)
      <4>1. UNCHANGED pc
        BY <3>3
           DEF Next, Replay, LookReplay, ReplayUnknown, CreateReplay, LookAgainReplay, StopReplay,
                    Settle, Open, Close, vars, requestVars
      <4>. QED
        BY <3>1, <4>1
    <3>. QED
      BY <3>1, <3>2, <3>3
  <2>. QED
    BY <1>1, <1>3, <2>1, <2>2 DEF RepeatsInv, RepeatsAreRecognised, TypeOK
<1>. QED
  BY <1>1, <1>4, <1>5 DEF RepeatsInv

(***************************************************************************)
(* A repetition that is sent when its original is stored is recognised,    *)
(* however full the backlog is.                                            *)
(***************************************************************************)
THEOREM RepeatsAreAlwaysRecognised == Spec => []RepeatsAreRecognised
<1>1. Init => RepeatsInv
  BY InitHasIngestionInv DEF Init, RepeatsInv, RepeatsAreRecognised
<1>2. RepeatsInv => RepeatsAreRecognised
  BY DEF RepeatsInv
<1>. QED
  BY <1>1, <1>2, StepKeepsRepeatsInv, PTL DEF Spec
-----------------------------------------------------------------------------
(***************************************************************************)
(* The idempotent stores: an answer is a step of one of them, whatever     *)
(* looks, locks and rollbacks led to it, and nothing else is.              *)
(***************************************************************************)
LEMMA InitImplementsIdempotency == Init => Events!Init /\ Replays!Init
<1>. SUFFICES ASSUME Init PROVE Events!Init /\ Replays!Init
  OBVIOUS
<1>1. \A r \in Request : Told(r) = {}
  BY DEF Init, Told, Answered
<1>2. \A q \in Replayer : ToldReplay(q) = {} /\ ~Created(q)
  BY DEF Init, ToldReplay, Answered, Created, Deliveries
<1>3. {[by |-> s, id |-> key[s], content |-> content[s]] : s \in stored} = {}
  BY DEF Init
<1>4. {[by |-> q, id |-> ReplayId(q), content |-> "the source's"] :
         q \in {p \in Replayer : Created(p)}} = {}
  BY <1>2
<1>. QED
  BY <1>1, <1>2, <1>3, <1>4 DEF Events!Init, Replays!Init

\* A request that goes on is told nothing yet.
LEMMA NothingToldYet ==
    ASSUME TypeOK, NEW r \in Request, NEW st, UNCHANGED <<sent, event, stored>>,
           ~Answered(pc[r]), ~Answered(st), pc' = [pc EXCEPT ![r] = st]
    PROVE  UNCHANGED Events!vars
<1>1. \A s \in Request : Told(s)' = Told(s)
  BY DEF Told, TypeOK, sent
<1>2. {[by |-> s, id |-> key[s], content |-> content[s]] : s \in stored}'
        = {[by |-> s, id |-> key[s], content |-> content[s]] : s \in stored}
  BY DEF sent
<1>. QED
  BY <1>1, <1>2 DEF Events!vars

\* A request that ends is told one thing, and nobody else anything.
LEMMA EventTold ==
    ASSUME TypeOK, NEW r \in Request, NEW st, NEW e, NEW id, NEW c, NEW about,
           UNCHANGED sent, ~Answered(pc[r]), Answered(st),
           pc' = [pc EXCEPT ![r] = st], event' = [event EXCEPT ![r] = e],
           id = key[r], c = content[r], about = IF st = "accepted" THEN e ELSE st
    PROVE  Events!Answering(r) /\ Events!Answer(r, id, c, about)
<1>1. \A s \in Request : s # r => Told(s)' = Told(s)
  BY DEF Told, TypeOK, sent
<1>2. Told(r) = {} /\ Told(r)' = {[id |-> id, content |-> c, about |-> about]}
  BY DEF Told, TypeOK, sent
<1>3. [s \in Request |-> Told(s)]'
        = [[s \in Request |-> Told(s)] EXCEPT ![r] = {[id |-> id, content |-> c, about |-> about]}]
  BY <1>1, <1>2
<1>4. Told(r)' # {}
  BY <1>2
<1>. QED
  BY <1>2, <1>3, <1>4 DEF Events!Answering, Events!Answer

\* Looking an event up tells what the store would.
LEMMA LookingImplements ==
    ASSUME IngestionInv, NEW r \in Request, UNCHANGED <<sent, stored>>, ~Answered(pc[r]),
           \E s \in Existing(r) : AnswerFrom(r, s)
    PROVE  Events!Next
<1>. TypeOK
  BY DEF IngestionInv
<1>1. PICK s \in Existing(r) : AnswerFrom(r, s)
  OBVIOUS
<1>2. s \in Request /\ s \in stored /\ key[s] = key[r]
  BY <1>1 DEF Existing, TypeOK
<1>3. PICK id \in Key : id = key[r]
  BY DEF TypeOK
<1>4. PICK c \in Content : c = content[r]
  BY DEF TypeOK
<1>5. PICK d : d = content[s]
  OBVIOUS
<1>6. PICK e : e = event[r]
  OBVIOUS
<1>. DEFINE E == {[by |-> t, id |-> key[t], content |-> content[t]] : t \in stored}
<1>7. E' = E
  BY DEF sent
<1>8. [by |-> s, id |-> id, content |-> d] \in E
  BY <1>2, <1>3, <1>5
<1>9. CASE SameContent(r, s)
  <2>1. pc' = [pc EXCEPT ![r] = "accepted"] /\ event' = [event EXCEPT ![r] = s]
    BY <1>1, <1>9 DEF AnswerFrom
  <2>2. Events!Answering(r) /\ Events!Answer(r, id, c, s)
    BY <1>3, <1>4, <2>1, EventTold DEF Answered
  <2>3. c = d
    BY <1>4, <1>5, <1>9 DEF SameContent
  <2>4. Events!Repeat(r, id, c)
    BY <1>7, <1>8, <2>2, <2>3 DEF Events!Repeat
  <2>. QED
    BY <2>2, <2>4 DEF Events!Next
<1>10. CASE ~SameContent(r, s)
  <2>1. pc' = [pc EXCEPT ![r] = "conflict"] /\ event' = [event EXCEPT ![r] = e]
    BY <1>1, <1>6, <1>10 DEF AnswerFrom, TypeOK
  <2>2. Events!Answering(r) /\ Events!Answer(r, id, c, "conflict")
    BY <1>3, <1>4, <2>1, EventTold DEF Answered
  <2>3. c # d
    BY <1>4, <1>5, <1>10 DEF SameContent
  <2>4. Events!Refuse(r, id, c)
    BY <1>7, <1>8, <2>2, <2>3 DEF Events!Refuse
  <2>. QED
    BY <2>2, <2>4 DEF Events!Next
<1>. QED
  BY <1>9, <1>10

\* One that ends without an event has left nothing behind.
LEMMA FailingImplements ==
    ASSUME TypeOK, NEW r \in Request, NEW st \in {"limit", "stopped"},
           UNCHANGED <<sent, event, stored>>, ~Answered(pc[r]), pc' = [pc EXCEPT ![r] = st]
    PROVE  Events!Next
<1>1. PICK id \in Key : id = key[r]
  BY DEF TypeOK
<1>2. PICK c \in Content : c = content[r]
  BY DEF TypeOK
<1>3. PICK e : e = event[r]
  OBVIOUS
<1>4. event' = [event EXCEPT ![r] = e]
  BY <1>3 DEF TypeOK
<1>5. Events!Answering(r) /\ Events!Answer(r, id, c, st)
  BY <1>1, <1>2, <1>4, EventTold DEF Answered
<1>6. {[by |-> s, id |-> key[s], content |-> content[s]] : s \in stored}'
        = {[by |-> s, id |-> key[s], content |-> content[s]] : s \in stored}
  BY DEF sent
<1>7. Events!Fail(r, id, c)
  BY <1>5, <1>6 DEF Events!Fail
<1>. QED
  BY <1>5, <1>7 DEF Events!Next

LEMMA InsertingImplements ==
    ASSUME IngestionInv, NEW r \in Request, Insert(r)
    PROVE  [Events!Next]_Events!vars
<1>. TypeOK
  BY DEF IngestionInv
<1>0. ~Answered(pc[r]) /\ UNCHANGED sent
  BY DEF Insert, Answered
<1>1. CASE KeyTaken(r)
  <2>1. UNCHANGED <<sent, event, stored>> /\ pc' = [pc EXCEPT ![r] = "conflicted"]
    BY <1>1 DEF Insert
  <2>. QED
    BY <1>0, <2>1, NothingToldYet DEF Answered
<1>2. CASE ~KeyTaken(r)
  <2>1. /\ pc' = [pc EXCEPT ![r] = "accepted"] /\ event' = [event EXCEPT ![r] = r]
        /\ stored' = stored \cup {r}
    BY <1>2 DEF Insert
  <2>2. PICK id \in Key : id = key[r]
    BY DEF TypeOK
  <2>3. PICK c \in Content : c = content[r]
    BY DEF TypeOK
  <2>4. Events!Answering(r) /\ Events!Answer(r, id, c, r)
    BY <1>0, <2>1, <2>2, <2>3, EventTold DEF Answered
  <2>. DEFINE E == {[by |-> t, id |-> key[t], content |-> content[t]] : t \in stored}
  <2>5. E' = E \cup {[by |-> r, id |-> id, content |-> c]}
    <3>1. E' = {[by |-> t, id |-> key[t], content |-> content[t]] : t \in stored \cup {r}}
      BY <1>0, <2>1 DEF sent
    <3>. QED
      BY <2>2, <2>3, <3>1
  <2>6. \A s \in E : s.id # id
    BY <1>2, <2>2 DEF KeyTaken, Existing
  <2>7. Events!Store(r, id, c)
    BY <2>4, <2>5, <2>6 DEF Events!Store
  <2>. QED
    BY <2>4, <2>7 DEF Events!Next
<1>. QED
  BY <1>1, <1>2

LEMMA IngestImplementsEvents ==
    ASSUME IngestionInv, NEW r \in Request, Ingest(r)
    PROVE  [Events!Next]_Events!vars
<1>. TypeOK /\ AnswersAreStored
  BY DEF IngestionInv
<1>1. ~Answered(pc[r])
  BY DEF Ingest, Look, CountBacklog, ReadEndpoints, Insert, LookAgain, Stop, Answered,
         InTransaction
<1>2. CASE Look(r)
  <2>1. UNCHANGED <<sent, stored>>
    BY <1>2 DEF Look
  <2>2. CASE \E s \in Existing(r) : AnswerFrom(r, s)
    BY <1>1, <2>1, <2>2, LookingImplements
  <2>3. CASE ~(\E s \in Existing(r) : AnswerFrom(r, s))
    <3>1. UNCHANGED event /\ pc' = [pc EXCEPT ![r] = "missed"]
      BY <1>2, <2>3 DEF Look
    <3>. QED
      BY <1>1, <2>1, <3>1, NothingToldYet DEF Answered
  <2>. QED
    BY <2>2, <2>3
<1>3. CASE CountBacklog(r) \/ ReadEndpoints(r) \/ Stop(r)
  <2>1. UNCHANGED <<sent, event, stored>>
    BY <1>3 DEF CountBacklog, ReadEndpoints, Stop
  <2>2. PICK st \in {"counted", "matched", "limit", "stopped"} : pc' = [pc EXCEPT ![r] = st]
    BY <1>3 DEF CountBacklog, ReadEndpoints, Stop
  <2>3. CASE st \in {"counted", "matched"}
    BY <1>1, <2>1, <2>2, <2>3, NothingToldYet DEF Answered
  <2>4. CASE st \in {"limit", "stopped"}
    BY <1>1, <2>1, <2>2, <2>4, FailingImplements
  <2>. QED
    BY <2>3, <2>4
<1>4. CASE Insert(r)
  BY <1>4, InsertingImplements
<1>5. CASE LookAgain(r)
  <2>1. UNCHANGED <<sent, stored>> /\ \E s \in Existing(r) : AnswerFrom(r, s)
    BY <1>5 DEF LookAgain, AnswersAreStored
  <2>. QED
    BY <1>1, <2>1, LookingImplements
<1>. QED
  BY <1>2, <1>3, <1>4, <1>5 DEF Ingest

\* Whatever keeps the requests and the events is nothing to the store of events.
LEMMA EventsUntouched ==
    ASSUME UNCHANGED <<sent, requestVars, stored>>
    PROVE  UNCHANGED Events!vars
<1>1. \A r \in Request : Told(r)' = Told(r)
  BY DEF Told, sent, requestVars
<1>2. {[by |-> s, id |-> key[s], content |-> content[s]] : s \in stored}'
        = {[by |-> s, id |-> key[s], content |-> content[s]] : s \in stored}
  BY DEF sent
<1>. QED
  BY <1>1, <1>2 DEF Events!vars

-----------------------------------------------------------------------------
\* The same for the replays.
Copies == {[by |-> q, id |-> ReplayId(q), content |-> "the source's"] :
             q \in {p \in Replayer : Created(p)}}

LEMMA CopiesKept ==
    ASSUME UNCHANGED sent, \A q \in Replayer : Created(q)' <=> Created(q),
           \A q \in Replayer : Created(q) => replay_of'[q] = replay_of[q]
    PROVE  Copies' = Copies
<1>1. \A q \in Replayer : Created(q) => ReplayId(q)' = ReplayId(q)
  BY DEF ReplayId, sent
<1>. QED
  BY <1>1 DEF Copies

LEMMA ReplayGoesOn ==
    ASSUME TypeOK, NEW q \in Replayer, NEW st, UNCHANGED <<sent, copy>>, Copies' = Copies,
           ~Answered(replay_pc[q]), ~Answered(st),
           replay_pc' = [replay_pc EXCEPT ![q] = st],
           \A p \in Replayer : p # q => replay_of'[p] = replay_of[p]
    PROVE  UNCHANGED Replays!vars
<1>1. ASSUME NEW p \in Replayer
      PROVE  ToldReplay(p)' = ToldReplay(p)
  <2>1. CASE p = q
    BY <2>1 DEF ToldReplay, TypeOK
  <2>2. CASE p # q
    BY <2>2 DEF ToldReplay, ReplayId, TypeOK, sent
  <2>. QED
    BY <2>1, <2>2
<1>. QED
  BY <1>1 DEF Replays!vars, Copies

LEMMA ReplayTold ==
    ASSUME TypeOK, NEW q \in Replayer, NEW st, NEW p, NEW d, NEW id, NEW about,
           UNCHANGED sent, ~Answered(replay_pc[q]), Answered(st),
           replay_pc' = [replay_pc EXCEPT ![q] = st],
           copy' = [copy EXCEPT ![q] = p],
           replay_of' = [replay_of EXCEPT ![q] = d],
           id = <<d, replay_key[q]>>, about = IF st = "accepted" THEN p ELSE st
    PROVE  Replays!Answering(q) /\ Replays!Answer(q, id, "the source's", about)
<1>1. \A r \in Replayer : r # q => ToldReplay(r)' = ToldReplay(r)
  BY DEF ToldReplay, ReplayId, TypeOK, sent
<1>2. /\ ToldReplay(q) = {}
      /\ ToldReplay(q)' = {[id |-> id, content |-> "the source's", about |-> about]}
  BY DEF ToldReplay, ReplayId, TypeOK, sent
<1>3. [r \in Replayer |-> ToldReplay(r)]'
        = [[r \in Replayer |-> ToldReplay(r)] EXCEPT
             ![q] = {[id |-> id, content |-> "the source's", about |-> about]}]
  BY <1>1, <1>2
<1>4. ToldReplay(q)' # {}
  BY <1>2
<1>. QED
  BY <1>2, <1>3, <1>4 DEF Replays!Answering, Replays!Answer

\* Looking a replay up tells what the store would.
LEMMA LookingReplayImplements ==
    ASSUME TypeOK, NEW q \in Replayer, NEW d \in Delivery, NEW p \in ExistingReplay(q, d),
           UNCHANGED sent, Copies' = Copies, ~Answered(replay_pc[q]),
           replay_pc' = [replay_pc EXCEPT ![q] = "accepted"],
           copy' = [copy EXCEPT ![q] = p],
           replay_of' = [replay_of EXCEPT ![q] = d]
    PROVE  Replays!Next
<1>1. /\ p \in Replayer /\ Created(p)
      /\ replay_of[p] = d /\ replay_key[p] = replay_key[q]
  BY DEF ExistingReplay
<1>2. PICK id \in Delivery \X Key : id = <<d, replay_key[q]>>
  BY DEF TypeOK
<1>3. [by |-> p, id |-> id, content |-> "the source's"] \in Copies
  <2>1. ReplayId(p) = id
    BY <1>1, <1>2 DEF ReplayId
  <2>. QED
    BY <1>1, <2>1 DEF Copies
<1>4. Replays!Answering(q) /\ Replays!Answer(q, id, "the source's", p)
  BY <1>2, ReplayTold DEF Answered
<1>5. Replays!Repeat(q, id, "the source's")
  BY <1>3, <1>4 DEF Replays!Repeat, Copies
<1>. QED
  BY <1>4, <1>5 DEF Replays!Next

LEMMA FailingReplayImplements ==
    ASSUME TypeOK, NEW q \in Replayer, NEW st \in {"not_terminal", "stopped"},
           replay_of[q] \in Delivery,
           UNCHANGED <<sent, copy, replay_of>>, Copies' = Copies, ~Answered(replay_pc[q]),
           replay_pc' = [replay_pc EXCEPT ![q] = st]
    PROVE  Replays!Next
<1>1. PICK d \in Delivery : d = replay_of[q]
  OBVIOUS
<1>2. PICK p : p = copy[q]
  OBVIOUS
<1>3. PICK id \in Delivery \X Key : id = <<d, replay_key[q]>>
  BY DEF TypeOK
<1>4. copy' = [copy EXCEPT ![q] = p] /\ replay_of' = [replay_of EXCEPT ![q] = d]
  BY <1>1, <1>2 DEF TypeOK
<1>5. Replays!Answering(q) /\ Replays!Answer(q, id, "the source's", st)
  <2>1. Answered(st) /\ st = IF st = "accepted" THEN p ELSE st
    BY DEF Answered
  <2>. QED
    BY <1>3, <1>4, <2>1, ReplayTold
<1>6. Replays!Fail(q, id, "the source's")
  BY <1>5 DEF Replays!Fail, Copies
<1>. QED
  BY <1>5, <1>6 DEF Replays!Next

LEMMA CreatingImplements ==
    ASSUME IngestionInv, NEW q \in Replayer, CreateReplay(q)
    PROVE  [Replays!Next]_Replays!vars
<1>. TypeOK /\ CopiesAreStored
  BY DEF IngestionInv
<1>1. PICK d : d = replay_of[q]
  OBVIOUS
<1>2. /\ d \in Delivery /\ ~Answered(replay_pc[q]) /\ ~Created(q)
      /\ UNCHANGED <<sent, replay_of, settled>>
  BY <1>1 DEF CreateReplay, CopiesAreStored, TypeOK, Answered
<1>3. CASE UNCHANGED <<copy, waiting>>
  <2>1. PICK st \in {"not_terminal", "conflicted"} : replay_pc' = [replay_pc EXCEPT ![q] = st]
    <3>1. CASE ReplaySource(q) /\ ~ReplayTaken(q)
      <4>1. q \in Replayer /\ Created(q)'
        BY <1>1, <1>2, <3>1 DEF CreateReplay, CopyOf, Created, Deliveries, Delivery
      <4>2. Created(q)' = Created(q)
        BY <1>2, <1>3 DEF Created, Deliveries
      <4>. QED
        BY <1>2, <4>1, <4>2
    <3>. QED
      BY <3>1 DEF CreateReplay
  <2>2. Copies' = Copies
    BY <1>2, <1>3, CopiesKept DEF Created, Deliveries
  <2>3. CASE st = "conflicted"
    BY <1>2, <1>3, <2>1, <2>2, <2>3, ReplayGoesOn DEF Answered
  <2>4. CASE st = "not_terminal"
    BY <1>1, <1>2, <1>3, <2>1, <2>2, <2>4, FailingReplayImplements
  <2>. QED
    BY <2>3, <2>4
<1>4. CASE ~UNCHANGED <<copy, waiting>>
  <2>1. /\ ExistingReplay(q, d) = {}
        /\ replay_pc' = [replay_pc EXCEPT ![q] = "accepted"]
        /\ copy' = [copy EXCEPT ![q] = q]
        /\ waiting' = waiting \cup {<<q, d[2]>>}
    BY <1>1, <1>4 DEF CreateReplay, ReplaySource, ReplayTaken, CopyOf
  <2>2. replay_of' = [replay_of EXCEPT ![q] = d]
    BY <1>1, <1>2 DEF TypeOK
  <2>3. PICK id \in Delivery \X Key : id = <<d, replay_key[q]>>
    BY <1>2 DEF TypeOK
  <2>4. Replays!Answering(q) /\ Replays!Answer(q, id, "the source's", q)
    BY <1>2, <2>1, <2>2, <2>3, ReplayTold DEF Answered
  <2>5. Copies' = Copies \cup {[by |-> q, id |-> id, content |-> "the source's"]}
    <3>1. \A p \in Replayer : Created(p)' <=> Created(p) \/ p = q
      BY <1>2, <2>1 DEF Created, Deliveries, Delivery
    <3>2. \A p \in Replayer : ReplayId(p)' = ReplayId(p)
      BY <1>2 DEF ReplayId, sent
    <3>3. ReplayId(q) = id
      BY <1>1, <2>3 DEF ReplayId
    <3>. QED
      BY <3>1, <3>2, <3>3 DEF Copies
  <2>6. \A s \in Copies : s.id # id
    <3>1. ASSUME NEW p \in Replayer, Created(p), ReplayId(p) = id
          PROVE  p \in ExistingReplay(q, d)
      BY <2>3, <3>1 DEF ReplayId, ExistingReplay
    <3>2. \A p \in {r \in Replayer : Created(r)} : ReplayId(p) # id
      BY <2>1, <3>1
    <3>3. ASSUME NEW s \in Copies
          PROVE  s.id # id
      <4>1. PICK p \in {r \in Replayer : Created(r)} :
               s = [by |-> p, id |-> ReplayId(p), content |-> "the source's"]
        BY Zenon DEF Copies
      <4>2. s.id = ReplayId(p)
        BY <4>1
      <4>. QED
        BY <3>2, <4>2
    <3>. QED
      BY <3>3
  <2>7. Replays!Store(q, id, "the source's")
    BY <2>4, <2>5, <2>6 DEF Replays!Store, Copies
  <2>. QED
    BY <2>4, <2>7 DEF Replays!Next
<1>. QED
  BY <1>3, <1>4

LEMMA ReplayImplementsReplays ==
    ASSUME IngestionInv, NEW q \in Replayer, Replay(q)
    PROVE  [Replays!Next]_Replays!vars
<1>. TypeOK /\ CopiesAreStored
  BY DEF IngestionInv
<1>1. ASSUME NEW d \in Deliveries, LookReplay(q, d)
      PROVE  [Replays!Next]_Replays!vars
  <2>1. /\ replay_pc[q] = "new" /\ ~Created(q) /\ ~Answered(replay_pc[q])
        /\ replay_of' = [replay_of EXCEPT ![q] = d] /\ d \in Delivery
        /\ UNCHANGED <<sent, waiting, settled>>
    BY <1>1 DEF LookReplay, CopiesAreStored, Answered, Deliveries, TypeOK
  <2>2. Copies' = Copies
    BY <2>1, CopiesKept DEF Created, Deliveries, TypeOK
  <2>3. CASE UNCHANGED copy /\ replay_pc' = [replay_pc EXCEPT ![q] = "missed"]
    BY <2>1, <2>2, <2>3, ReplayGoesOn DEF Answered, TypeOK
  <2>4. CASE \E p \in ExistingReplay(q, d) :
                /\ replay_pc' = [replay_pc EXCEPT ![q] = "accepted"]
                /\ copy' = [copy EXCEPT ![q] = p]
    BY <2>1, <2>2, <2>4, LookingReplayImplements
  <2>. QED
    BY <1>1, <2>3, <2>4 DEF LookReplay
<1>2. CASE CreateReplay(q)
  BY <1>2, CreatingImplements
<1>3. CASE LookAgainReplay(q) \/ StopReplay(q)
  <2>1. /\ replay_of[q] \in Delivery /\ ~Answered(replay_pc[q])
        /\ UNCHANGED <<sent, waiting, settled, replay_of>>
    BY <1>3 DEF LookAgainReplay, StopReplay, CopiesAreStored, Answered, TypeOK
  <2>2. Copies' = Copies
    BY <2>1, CopiesKept DEF Created, Deliveries
  <2>3. CASE StopReplay(q)
    BY <2>1, <2>2, <2>3, FailingReplayImplements DEF StopReplay
  <2>4. CASE LookAgainReplay(q)
    <3>1. PICK d \in Delivery : d = replay_of[q]
      BY <2>1
    <3>2. replay_of' = [replay_of EXCEPT ![q] = d]
      BY <2>1, <3>1 DEF TypeOK
    <3>3. PICK p \in ExistingReplay(q, d) :
             /\ replay_pc' = [replay_pc EXCEPT ![q] = "accepted"]
             /\ copy' = [copy EXCEPT ![q] = p]
      BY <2>4, <3>1 DEF LookAgainReplay, CopiesAreStored
    <3>. QED
      BY <2>1, <2>2, <3>2, <3>3, LookingReplayImplements
  <2>. QED
    BY <1>3, <2>3, <2>4
<1>4. CASE ReplayUnknown(q)
  <2>1. /\ ~Answered(replay_pc[q]) /\ UNCHANGED <<sent, copy, waiting, settled, replay_of>>
        /\ replay_pc' = [replay_pc EXCEPT ![q] = "not_found"]
    BY <1>4 DEF ReplayUnknown, Answered
  <2>2. Copies' = Copies
    BY <2>1, CopiesKept DEF Created, Deliveries
  <2>. QED
    BY <2>1, <2>2, ReplayGoesOn DEF Answered
<1>. QED
  BY <1>1, <1>2, <1>3, <1>4 DEF Replay

\* Nor do the requests and the pipeline concern the store of replays.
LEMMA ReplaysUntouched ==
    ASSUME UNCHANGED <<sent, replayVars>>,
           \A q \in Replayer : Created(q)' <=> Created(q)
    PROVE  UNCHANGED Replays!vars
<1>1. \A q \in Replayer : ToldReplay(q)' = ToldReplay(q)
  BY DEF ToldReplay, ReplayId, sent, replayVars
<1>2. Copies' = Copies
  BY CopiesKept DEF replayVars
<1>. QED
  BY <1>1, <1>2 DEF Replays!vars, Copies

LEMMA StepImplementsIdempotency ==
    IngestionInv /\ [Next]_vars => [Events!Next]_Events!vars /\ [Replays!Next]_Replays!vars
<1>. SUFFICES ASSUME IngestionInv, [Next]_vars
              PROVE  [Events!Next]_Events!vars /\ [Replays!Next]_Replays!vars
  OBVIOUS
<1>1. ASSUME NEW r \in Request, Ingest(r)
      PROVE  [Events!Next]_Events!vars /\ [Replays!Next]_Replays!vars
  <2>1. /\ UNCHANGED <<sent, settled, replayVars>>
        /\ waiting \subseteq waiting' /\ waiting' \subseteq waiting \cup ({r} \X matched[r])
    BY <1>1 DEF Ingest, Look, CountBacklog, ReadEndpoints, Insert, LookAgain, Stop
  <2>2. \A q \in Replayer : Created(q)' <=> Created(q)
    BY <2>1, IngestionAssumption DEF Created, Deliveries, IngestionAssumption
  <2>. QED
    BY <1>1, <2>1, <2>2, IngestImplementsEvents, ReplaysUntouched
<1>2. ASSUME NEW q \in Replayer, Replay(q)
      PROVE  [Events!Next]_Events!vars /\ [Replays!Next]_Replays!vars
  <2>1. UNCHANGED <<sent, requestVars, stored>>
    BY <1>2 DEF Replay, LookReplay, ReplayUnknown, CreateReplay, LookAgainReplay, StopReplay
  <2>. QED
    BY <1>2, <2>1, EventsUntouched, ReplayImplementsReplays
<1>3. ASSUME \/ \E d \in Delivery : Settle(d)
             \/ \E e \in Endpoint : Open(e) \/ Close(e)
             \/ UNCHANGED vars
      PROVE  [Events!Next]_Events!vars /\ [Replays!Next]_Replays!vars
  <2>1. UNCHANGED <<sent, requestVars, stored, replayVars>> /\ Deliveries' = Deliveries
    BY <1>3 DEF Settle, Open, Close, vars, Deliveries
  <2>2. \A q \in Replayer : Created(q)' <=> Created(q)
    BY <2>1 DEF Created
  <2>. QED
    BY <2>1, <2>2, EventsUntouched, ReplaysUntouched
<1>. QED
  BY <1>1, <1>2, <1>3 DEF Next

(***************************************************************************)
(* To their clients, POST /events and the replay of a delivery are         *)
(* idempotent stores that answer at once.                                  *)
(***************************************************************************)
THEOREM IngestionImplementsIdempotency == Spec => ImplementsIdempotency
<1>1. Init => Events!Init /\ Replays!Init
  BY InitImplementsIdempotency
<1>2. IngestionInv /\ [Next]_vars => [Events!Next]_Events!vars /\ [Replays!Next]_Replays!vars
  BY StepImplementsIdempotency
<1>. QED
  BY <1>1, <1>2, IngestionIsConsistent, PTL
     DEF Spec, ImplementsIdempotency, Events!Spec, Replays!Spec

=============================================================================

---------------------------- MODULE RowLocks_proofs ----------------------------
(***************************************************************************)
(* Proofs about RowLocks for any number of transactions, deliveries and    *)
(* endpoints, one reconciler, and any capacity.                            *)
(*                                                                         *)
(* The locks that are held keep what was read under them (LocksInv), which *)
(* is inductive only together with AnswersSurvive: a deadlock never        *)
(* includes a transaction that still has an answer to record.              *)
(***************************************************************************)
EXTENDS RowLocks, FiniteSetTheorems, TLAPS

\* who is who
LEMMA Subjects ==
    /\ \A d \in Delivery : Target[d] \in Endpoint
    /\ \A t \in Called : About[t] \in Delivery /\ Target[About[t]] \in Endpoint
    /\ \A t \in Change : About[t] \in Endpoint \cup {ApiKey}
    /\ \A d \in Delivery : d \notin Endpoint /\ d # Organization /\ d # ApiKey
    /\ \A e \in Endpoint : e # Organization /\ e # ApiKey
    /\ Organization # ApiKey
    /\ Nothing \notin Row /\ Nothing \notin Delivery /\ Nothing \notin Endpoint
    /\ Nothing # Organization /\ Nothing # ApiKey
BY RowLocksAssumption DEF RowLocksAssumption, Row

\* the stations of a path of two or three locks
LEMMA TwoStations ==
    ASSUME NEW t, NEW a, NEW b
    PROVE  Path(t, <<a, b>>) <=> \/ waits[t] = a /\ held[t] = {}
                                 \/ waits[t] = b /\ held[t] = {a}
<1>. DEFINE p == <<a, b>>
<1>1. DOMAIN p = {1, 2} /\ p[1] = a /\ p[2] = b
  OBVIOUS
<1>2. {p[m] : m \in 1..(1-1)} = {} /\ {p[m] : m \in 1..(2-1)} = {a}
  BY <1>1
<1>. HIDE DEF p
<1>3. Path(t, p) <=> \/ waits[t] = p[1] /\ held[t] = {p[m] : m \in 1..(1-1)}
                     \/ waits[t] = p[2] /\ held[t] = {p[m] : m \in 1..(2-1)}
  BY <1>1 DEF Path
<1>4. Path(t, p) <=> \/ waits[t] = a /\ held[t] = {}
                     \/ waits[t] = b /\ held[t] = {a}
  BY <1>1, <1>2, <1>3
<1>. QED
  BY <1>4 DEF p

LEMMA ThreeStations ==
    ASSUME NEW t, NEW a, NEW b, NEW c
    PROVE  Path(t, <<a, b, c>>) <=> \/ waits[t] = a /\ held[t] = {}
                                    \/ waits[t] = b /\ held[t] = {a}
                                    \/ waits[t] = c /\ held[t] = {a, b}
<1>. DEFINE p == <<a, b, c>>
<1>1. DOMAIN p = {1, 2, 3} /\ p[1] = a /\ p[2] = b /\ p[3] = c
  OBVIOUS
<1>2. /\ {p[m] : m \in 1..(1-1)} = {} /\ {p[m] : m \in 1..(2-1)} = {a}
      /\ {p[m] : m \in 1..(3-1)} = {a, b}
  BY <1>1
<1>. HIDE DEF p
<1>3. Path(t, p) <=> \/ waits[t] = p[1] /\ held[t] = {p[m] : m \in 1..(1-1)}
                     \/ waits[t] = p[2] /\ held[t] = {p[m] : m \in 1..(2-1)}
                     \/ waits[t] = p[3] /\ held[t] = {p[m] : m \in 1..(3-1)}
  BY <1>1 DEF Path
<1>4. Path(t, p) <=> \/ waits[t] = a /\ held[t] = {}
                     \/ waits[t] = b /\ held[t] = {a}
                     \/ waits[t] = c /\ held[t] = {a, b}
  BY <1>1, <1>2, <1>3
<1>. QED
  BY <1>4 DEF p

\* Where a transaction of each kind can be.
Ended(t) == waits[t] = Nothing /\ held[t] = {} /\ todo[t] = {}

LEMMA Stations ==
    ASSUME NEW t \in Transaction, InOrder(t)
    PROVE  /\ t \in Claim \cup Replay =>
                \/ Ended(t)
                \/ waits[t] = About[t] /\ held[t] = {}
                \/ waits[t] = Target[About[t]] /\ held[t] = {About[t]}
                \/ waits[t] = Organization /\ held[t] = {About[t], Target[About[t]]}
           /\ t \in Finalize =>
                \/ Ended(t)
                \/ waits[t] = About[t] /\ held[t] = {}
                \/ waits[t] = Target[About[t]] /\ held[t] = {About[t]}
           /\ t \in Reconcile =>
                \/ Ended(t)
                \/ waits[t] \in Endpoint /\ held[t] \subseteq Delivery \cup Endpoint
           /\ t \in Change =>
                \/ Ended(t)
                \/ waits[t] = About[t] /\ held[t] = {} /\ todo[t] = {}
                \/ /\ waits[t] \in Delivery \cup {Organization}
                   /\ About[t] \in held[t] /\ held[t] \subseteq Delivery \cup {About[t]}
                   /\ todo[t] \subseteq Delivery
           /\ t \in Ingest =>
                \/ Ended(t)
                \/ waits[t] = Organization /\ held[t] = {}
                \/ /\ waits[t] \in Endpoint \cup {ApiKey}
                   /\ Organization \in held[t]
                   /\ held[t] \subseteq Endpoint \cup {Organization, ApiKey}
                   /\ todo[t] \subseteq Endpoint
BY TwoStations, ThreeStations, KindAssumption DEF InOrder, Ended, KindAssumption

-----------------------------------------------------------------------------
(***************************************************************************)
(* Deadlocks.                                                              *)
(***************************************************************************)
\* in a deadlock nobody can be spared, so everybody blocks somebody
LEMMA EachBlocksAnother ==
    ASSUME NEW C, Deadlock(C), NEW t \in C
    PROVE  \E u \in C : BlockedBy(u, t)
<1>. SUFFICES ASSUME \A u \in C : ~BlockedBy(u, t)
              PROVE  FALSE
  OBVIOUS
<1>. DEFINE D == C \ {t}
<1>1. \A u \in C : \E s \in C : BlockedBy(u, s)
  BY DEF Deadlock, Stuck
<1>2. D # {}
  <2>1. PICK s \in C : BlockedBy(t, s)
    BY <1>1
  <2>. QED
    BY <2>1 DEF BlockedBy
<1>3. \A u \in D : \E s \in D : BlockedBy(u, s)
  BY <1>1
<1>4. D \in SUBSET C /\ Stuck(D)
  BY <1>2, <1>3 DEF Stuck
<1>5. D = C
  BY <1>4 DEF Deadlock
<1>. QED
  BY <1>5

LEMMA OnTheWay ==
    ASSUME NEW C \in SUBSET Transaction, Deadlock(C), NEW t \in C
    PROVE  held[t] # {} /\ \E s \in C : s # t /\ waits[t] \in held[s]
<1>1. \E u \in C : BlockedBy(u, t)
  BY EachBlocksAnother
<1>2. \E s \in C : BlockedBy(t, s)
  BY DEF Deadlock, Stuck
<1>. QED
  BY <1>1, <1>2 DEF BlockedBy, Conflict

LEMMA AnswersAreSpared == LocksInv => AnswersSurvive
<1>. SUFFICES ASSUME LocksInv, NEW f \in started, Deadlocked(f)
              PROVE  FALSE
  BY DEF AnswersSurvive
<1>1. f \in Finalize /\ f \in Transaction /\ About[f] \in Delivery
  BY Subjects DEF LocksInv, TypeOK, Transaction, Worker, Called
<1>2. PICK C \in SUBSET Transaction : f \in C /\ Deadlock(C)
  BY DEF Deadlocked, Blocked
<1>3. PICK t \in C : t # f /\ waits[t] \in held[f]
  BY <1>2, EachBlocksAnother DEF BlockedBy, Conflict
<1>4. held[f] \subseteq {About[f]}
  BY <1>1, Stations DEF LocksInv, Ended
<1>5. waits[t] = About[f] /\ status[waits[t]] = "delivering"
  BY <1>3, <1>4 DEF LocksInv, AttemptsAreOpen
<1>6. t \in Transaction /\ waits[t] \in Delivery
  BY <1>1, <1>5
<1>7. t \notin Change
  BY <1>5, <1>6 DEF LocksInv, ReadsStillHold
<1>8. held[t] = {}
  BY <1>6, <1>7, Stations, Subjects DEF LocksInv, Ended, Transaction, Worker, Called
<1>. QED
  BY <1>2, <1>8, OnTheWay

LEMMA DeadlocksAreMixed == LocksInv => DeadlocksNeedIngestOrChange
<1>. SUFFICES ASSUME LocksInv, NEW C \in SUBSET (Blocked \cap (Worker \cup Replay)),
                     Deadlock(C)
              PROVE  FALSE
  BY DEF DeadlocksNeedIngestOrChange
<1>1. C \in SUBSET Transaction
  BY DEF Blocked
<1>2. \A t \in C : t \in Claim \cup Replay \/ t \in Finalize \/ t \in Reconcile
  BY DEF Worker
<1>3. \A t \in C : Organization \notin held[t]
  BY <1>1, <1>2, Stations, Subjects DEF LocksInv, Ended, Called
<1>4. \A t \in C : waits[t] # Organization /\ held[t] # {}
  BY <1>1, <1>3, OnTheWay
<1>5. \A t \in C : waits[t] \in Endpoint
  BY <1>1, <1>2, <1>4, Stations, Subjects DEF LocksInv, Ended, Called
<1>6. \A t \in C : t \in Reconcile \/ held[t] \subseteq Delivery
  BY <1>1, <1>2, <1>4, Stations, Subjects DEF LocksInv, Ended, Called
<1>7. \A t \in C : \E s \in C : s # t /\ s \in Reconcile
  BY <1>1, <1>5, <1>6, OnTheWay, Subjects
<1>. QED
  BY <1>7, SchedulerAssumption DEF SchedulerAssumption, Deadlock, Stuck
-----------------------------------------------------------------------------
(***************************************************************************)
(* What one transaction does to what the others rely on.                   *)
(***************************************************************************)
OnlyMoves(t) ==
    \A s \in Transaction \ {t} :
        /\ waits'[s] = waits[s] /\ held'[s] = held[s] /\ todo'[s] = todo[s]
        /\ s \in Claim => seen'[s] = seen[s]

\* t has the row, or gets it with this step
Has(t, row) == row \in held[t] \/ (row = waits[t] /\ Granted(t))

\* nobody has the row
Free(row) == \A s \in Transaction : row \notin held[s]

\* t changes rows it has only, and sends a delivery off under its endpoint's lock
RowsGuarded(t) ==
    /\ \A d \in Delivery : status'[d] # status[d] => d \in held[t]
    /\ \A d \in Delivery : status'[d] = "delivering" =>
          status[d] = "delivering" \/ (t \in Claim /\ Target[d] \in held[t])
    /\ \A e \in Endpoint :
          active_delivery_count'[e] # active_delivery_count[e] \/ ~(e \in open' <=> e \in open) =>
              t \notin Ingest \cup Replay /\ Has(t, e)

LEMMA HasExcludes ==
    ASSUME LocksInv, NEW s \in Transaction, NEW t \in Transaction, s # t,
           NEW row, row \in held[s], Has(t, row)
    PROVE  Shares(s, row) /\ Shares(t, row)
BY DEF LocksInv, LocksExclude, Has, Granted, BlockedBy, Conflict

\* nobody else holds a delivery of t, or an endpoint that t does not share
LEMMA Alone ==
    ASSUME LocksInv, NEW s \in Transaction, NEW t \in Transaction, s # t
    PROVE  /\ \A d \in Delivery : d \in held[s] => ~Has(t, d)
           /\ t \notin Ingest \cup Replay => \A e \in Endpoint : e \in held[s] => ~Has(t, e)
           /\ s \notin Ingest \cup Replay => \A e \in Endpoint : e \in held[s] => ~Has(t, e)
BY HasExcludes, Subjects DEF Shares, RefersToEndpoint

LEMMA OthersKeepReading ==
    ASSUME LocksInv, NEW t \in Transaction, NEW s \in Transaction, s # t,
           OnlyMoves(t), RowsGuarded(t)
    PROVE  InOrder(s)' /\ ReadsStillHold(s)'
<1>1. /\ waits'[s] = waits[s] /\ held'[s] = held[s] /\ todo'[s] = todo[s]
      /\ s \in Claim => seen'[s] = seen[s]
  BY DEF OnlyMoves
<1>2. InOrder(s) /\ ReadsStillHold(s)
  BY DEF LocksInv
<1>3. InOrder(s)'
  BY <1>1, <1>2 DEF InOrder, Path
<1>4. \A d \in Delivery : d \in held[s] => status'[d] = status[d]
  BY Alone DEF RowsGuarded, Has
<1>5. s \notin Ingest \cup Replay =>
        \A e \in Endpoint : e \in held[s] =>
            /\ active_delivery_count'[e] = active_delivery_count[e]
            /\ e \in open' <=> e \in open
  BY Alone DEF RowsGuarded
<1>6. CASE s \in Claim
  <2>1. s \notin Ingest \cup Replay \cup Reconcile \cup Change
    BY <1>6, KindAssumption DEF KindAssumption
  <2>2. About[s] \in Delivery /\ Target[About[s]] \in Endpoint
    BY <1>6, Subjects DEF Called
  <2>3. waits[s] \in {Target[About[s]], Organization} => About[s] \in held[s]
    BY <1>2, <1>6, <2>2, Stations, Subjects DEF Ended
  <2>4. waits[s] = Organization => Target[About[s]] \in held[s]
    BY <1>2, <1>6, <2>2, Stations, Subjects DEF Ended
  <2>. QED
    BY <1>1, <1>2, <1>3, <1>4, <1>5, <1>6, <2>1, <2>2, <2>3, <2>4 DEF ReadsStillHold
<1>7. CASE s \in Reconcile
  <2>1. s \notin Claim \cup Change
    BY <1>7, KindAssumption DEF KindAssumption
  <2>. QED
    BY <1>1, <1>2, <1>3, <1>4, <2>1 DEF ReadsStillHold, Batch
<1>8. CASE s \in Change
  <2>1. s \notin Claim \cup Reconcile \cup Ingest \cup Replay
    BY <1>8, KindAssumption DEF KindAssumption
  <2>2. ASSUME NEW d \in Delivery, d \in held[s] \cup todo[s] \cup {waits[s]}
        PROVE  status'[d] # "delivering" /\ Target[d] = About[s]
    <3>1. status[d] # "delivering" /\ Target[d] = About[s]
      BY <1>2, <1>8, <2>2 DEF ReadsStillHold
    <3>2. About[s] \in held[s]
      BY <1>2, <1>8, <2>2, Stations, Subjects DEF Ended
    <3>3. About[s] \in Endpoint
      BY <3>1, Subjects
    <3>4. ~Has(t, Target[d])
      BY <2>1, <3>1, <3>2, <3>3, Alone
    <3>. QED
      BY <3>1, <3>4 DEF RowsGuarded, Has
  <2>. QED
    BY <1>1, <1>3, <2>1, <2>2 DEF ReadsStillHold
<1>9. CASE s \notin Claim \cup Reconcile \cup Change
  BY <1>3, <1>9 DEF ReadsStillHold
<1>. QED
  BY <1>6, <1>7, <1>8, <1>9

LEMMA LocksStayExclusive ==
    ASSUME LocksInv, NEW t \in Transaction, OnlyMoves(t),
           \A row \in held'[t] : Has(t, row) \/ Free(row)
    PROVE  LocksExclude'
<1>1. \A s \in Transaction, row \in held'[t] :
         s # t /\ row \in held'[s] => Shares(s, row) /\ Shares(t, row)
  BY HasExcludes DEF OnlyMoves, Free
<1>2. \A s, u \in Transaction : \A row \in held'[s] \cap held'[u] :
         s # t /\ u # t => s = u \/ (Shares(s, row) /\ Shares(u, row))
  BY DEF OnlyMoves, LocksInv, LocksExclude
<1>3. \A s, u \in Transaction : \A row \in held'[s] \cap held'[u] :
         s = u \/ (Shares(s, row) /\ Shares(u, row))
  BY <1>1, <1>2
<1>. QED
  BY <1>3 DEF LocksExclude, Shares, RefersToOrganization, RefersToKey, RefersToEndpoint

\* a step to the next lock, which changes no row
LEMMA LockKeepsInv ==
    ASSUME LocksInv, TypeOK', NEW t \in Transaction, OnlyMoves(t), UNCHANGED rows,
           \A row \in held'[t] : Has(t, row) \/ Free(row), waits'[t] # Nothing,
           InOrder(t)', ReadsStillHold(t)'
    PROVE  LocksInv'
<1>1. RowsGuarded(t)
  BY DEF rows, RowsGuarded
<1>2. LocksExclude'
  BY LocksStayExclusive
<1>3. \A s \in Transaction : InOrder(s)' /\ ReadsStillHold(s)'
  BY <1>1, OthersKeepReading
<1>4. AttemptsAreOpen'
  <2>1. \A f \in started : f \in Transaction
    BY DEF LocksInv, TypeOK, Transaction, Worker
  <2>. QED
    BY <2>1 DEF rows, LocksInv, AttemptsAreOpen, OnlyMoves
<1>. QED
  BY <1>2, <1>3, <1>4 DEF LocksInv

\* the step that ends a transaction
LEMMA EndKeepsInv ==
    ASSUME LocksInv, TypeOK', NEW t \in Transaction, NEW how, End(t, how),
           UNCHANGED seen, RowsGuarded(t), AttemptsAreOpen'
    PROVE  LocksInv'
<1>1. Ended(t)'
  BY DEF End, Ended, LocksInv, TypeOK
<1>2. OnlyMoves(t)
  BY DEF End, OnlyMoves, LocksInv, TypeOK
<1>3. InOrder(t)' /\ ReadsStillHold(t)'
  <2>1. t \in Claim => waits'[t] # Target[About[t]] /\ waits'[t] # Organization
    BY <1>1, Subjects DEF Ended, Called
  <2>2. Batch(t)' = {} /\ Delivery \cap (todo'[t] \cup {waits'[t]}) = {}
    BY <1>1, Subjects DEF Ended, Batch
  <2>. QED
    BY <1>1, <2>1, <2>2 DEF Ended, InOrder, ReadsStillHold
<1>4. LocksExclude'
  BY <1>1, <1>2, LocksStayExclusive DEF Ended
<1>5. \A s \in Transaction : InOrder(s)' /\ ReadsStillHold(s)'
  BY <1>2, <1>3, OthersKeepReading
<1>. QED
  BY <1>4, <1>5 DEF LocksInv

\* a step that does not touch the open attempts or what they are about
LEMMA AttemptsKept ==
    ASSUME LocksInv, NEW t \in Transaction, OnlyMoves(t), t \notin started',
           started' \subseteq started,
           \A f \in started' : status'[About[f]] = status[About[f]]
    PROVE  AttemptsAreOpen'
<1>1. \A f \in started : f \in Transaction
  BY DEF LocksInv, TypeOK, Transaction, Worker
<1>. QED
  BY <1>1 DEF LocksInv, AttemptsAreOpen, OnlyMoves

LEMMA EndMovesOne ==
    ASSUME LocksInv, NEW t \in Transaction, NEW how, End(t, how), UNCHANGED seen
    PROVE  OnlyMoves(t)
BY DEF End, OnlyMoves, LocksInv, TypeOK

\* how a path goes on
LEMMA NextStation ==
    ASSUME NEW t, NEW a, NEW b, NEW c
    PROVE  /\ waits'[t] = b /\ held'[t] = {a} => Path(t, <<a, b>>)' /\ Path(t, <<a, b, c>>)'
           /\ waits'[t] = c /\ held'[t] = {a, b} => Path(t, <<a, b, c>>)'
<1>. DEFINE p == <<a, b>>
            q == <<a, b, c>>
<1>1. 2 \in DOMAIN p /\ p[2] = b /\ {p[m] : m \in 1..(2-1)} = {a}
  <2>1. DOMAIN p = 1..2 /\ p[1] = a /\ p[2] = b
    OBVIOUS
  <2>. QED
    BY <2>1
<1>2. /\ 2 \in DOMAIN q /\ q[2] = b /\ {q[m] : m \in 1..(2-1)} = {a}
      /\ 3 \in DOMAIN q /\ q[3] = c /\ {q[m] : m \in 1..(3-1)} = {a, b}
  <2>1. DOMAIN q = 1..3 /\ q[1] = a /\ q[2] = b /\ q[3] = c
    OBVIOUS
  <2>. QED
    BY <2>1
<1>. HIDE DEF p, q
<1>3. waits'[t] = b /\ held'[t] = {a} => Path(t, p)' /\ Path(t, q)'
  BY <1>1, <1>2 DEF Path
<1>4. waits'[t] = c /\ held'[t] = {a, b} => Path(t, q)'
  BY <1>2 DEF Path
<1>. QED
  BY <1>3, <1>4 DEF p, q

-----------------------------------------------------------------------------
(***************************************************************************)
(* The transactions, one after the other.                                  *)
(***************************************************************************)
LEMMA RowTypes ==
    /\ \A t \in Called : About[t] \in Row /\ Target[About[t]] \in Row
    /\ \A t \in Change : About[t] \in Row
    /\ Organization \in Row /\ ApiKey \in Row
    /\ Delivery \subseteq Row /\ Endpoint \subseteq Row
    /\ Claim \subseteq Called /\ Finalize \subseteq Called /\ Replay \subseteq Called
    /\ Claim \subseteq Transaction /\ Finalize \subseteq Transaction
    /\ Reconcile \subseteq Transaction /\ Change \subseteq Transaction
    /\ Ingest \subseteq Transaction /\ Replay \subseteq Transaction
BY Subjects DEF Row, Called, Transaction, Worker

\* an end that changes no row
LEMMA EmptyEndKeepsInv ==
    ASSUME LocksInv, NEW t \in Transaction, t \notin started,
           NEW how \in {"committed", "victim"}, End(t, how), UNCHANGED <<rows, seen>>
    PROVE  LocksInv'
<1>1. TypeOK'
  BY DEF LocksInv, TypeOK, End, rows
<1>2. RowsGuarded(t)
  BY DEF RowsGuarded, rows
<1>3. AttemptsAreOpen'
  BY EndMovesOne, AttemptsKept DEF rows
<1>. QED
  BY <1>1, <1>2, <1>3, EndKeepsInv

LEMMA ClaimKeepsInv ==
    ASSUME LocksInv, NEW t \in Claim, ClaimDelivery(t) \/ ClaimEndpoint(t) \/ ClaimAttempt(t)
    PROVE  LocksInv'
<1>. DEFINE d == About[t]
            e == Target[d]
<1>0. /\ t \in Transaction /\ t \in Called /\ d \in Delivery /\ e \in Endpoint
      /\ t \notin Finalize \cup Reconcile \cup Change \cup Ingest \cup Replay
      /\ t \notin started
  BY Subjects, RowTypes, KindAssumption DEF KindAssumption, LocksInv, TypeOK
<1>. TypeOK /\ InOrder(t) /\ ReadsStillHold(t)
  BY <1>0 DEF LocksInv
<1>1. ASSUME ClaimDelivery(t) PROVE LocksInv'
  <2>1. waits[t] = d /\ held[t] = {}
    BY <1>0, <1>1, Stations, Subjects DEF ClaimDelivery, Ended
  <2>2. CASE Commit(t)
    BY <1>0, <1>1, <2>2, EmptyEndKeepsInv DEF ClaimDelivery, Commit
  <2>3. CASE status[d] = "queued" /\ Lock(t, e) /\ UNCHANGED todo
    <3>1. /\ waits'[t] = e /\ held'[t] = {d} /\ OnlyMoves(t) /\ UNCHANGED rows /\ TypeOK'
      BY <1>0, <1>1, <2>1, <2>3, RowTypes DEF ClaimDelivery, Lock, OnlyMoves, TypeOK, rows
    <3>2. \A row \in held'[t] : Has(t, row)
      BY <1>1, <2>1, <3>1 DEF ClaimDelivery, Has
    <3>3. InOrder(t)'
      BY <3>1, NextStation DEF InOrder
    <3>4. ReadsStillHold(t)'
      BY <1>0, <2>3, <3>1, Subjects DEF ReadsStillHold, rows
    <3>. QED
      BY <1>0, <3>1, <3>2, <3>3, <3>4, LockKeepsInv, Subjects
  <2>. QED
    BY <1>1, <2>2, <2>3 DEF ClaimDelivery
<1>2. ASSUME ClaimEndpoint(t) PROVE LocksInv'
  <2>1. waits[t] = e /\ held[t] = {d} /\ status[d] = "queued" /\ Granted(t)
    BY <1>0, <1>2, Stations, Subjects DEF ClaimEndpoint, Ended, ReadsStillHold
  <2>2. ASSUME NEW s \in Status, s # "delivering",
               status' = [status EXCEPT ![d] = s], Commit(t), UNCHANGED seen
        PROVE  LocksInv'
    <3>1. UNCHANGED <<open, active_delivery_count, started>>
      BY <1>2 DEF ClaimEndpoint
    <3>2. TypeOK'
      BY <1>0, <2>2, <3>1 DEF TypeOK, Commit, End
    <3>3. RowsGuarded(t)
      BY <1>0, <2>1, <2>2, <3>1 DEF RowsGuarded, TypeOK
    <3>4. \A f \in started : About[f] # d
      BY <2>1 DEF LocksInv, AttemptsAreOpen
    <3>5. AttemptsAreOpen'
      BY <1>0, <2>2, <3>1, <3>4, EndMovesOne, AttemptsKept DEF Commit, TypeOK
    <3>. QED
      BY <1>0, <2>2, <3>2, <3>3, <3>5, EndKeepsInv DEF Commit
  <2>3. CASE /\ e \in open /\ active_delivery_count[e] < Capacity
             /\ seen' = [seen EXCEPT ![t] = active_delivery_count[e]]
             /\ Lock(t, Organization) /\ UNCHANGED <<status, todo>>
    <3>1. /\ waits'[t] = Organization /\ held'[t] = {d, e}
          /\ OnlyMoves(t) /\ UNCHANGED rows /\ TypeOK'
          /\ seen'[t] = active_delivery_count[e]
      BY <1>0, <1>2, <2>1, <2>3, RowTypes DEF ClaimEndpoint, Lock, OnlyMoves, TypeOK, rows
    <3>2. \A row \in held'[t] : Has(t, row)
      BY <2>1, <3>1 DEF Has
    <3>3. InOrder(t)'
      BY <3>1, NextStation DEF InOrder
    <3>4. ReadsStillHold(t)'
      BY <1>0, <2>1, <2>3, <3>1 DEF ReadsStillHold, rows
    <3>. QED
      BY <1>0, <3>1, <3>2, <3>3, <3>4, LockKeepsInv, Subjects
  <2>. QED
    BY <1>2, <2>2, <2>3 DEF ClaimEndpoint, Status, Waiting
<1>3. ASSUME ClaimAttempt(t) PROVE LocksInv'
  <2>1. waits[t] = Organization /\ held[t] = {d, e} /\ status[d] = "queued"
    BY <1>0, <1>3, Stations, Subjects DEF ClaimAttempt, Ended, ReadsStillHold
  <2>2. PICK s \in {"delivering", "settled"} : status' = [status EXCEPT ![d] = s]
    BY <1>3 DEF ClaimAttempt
  <2>3. /\ End(t, "committed") /\ UNCHANGED <<open, seen, started>>
        /\ active_delivery_count' \in [Endpoint -> Int]
        /\ \A x \in Endpoint : x # e => active_delivery_count'[x] = active_delivery_count[x]
    BY <1>0, <1>3 DEF ClaimAttempt, Commit, TypeOK
  <2>4. TypeOK'
    BY <1>0, <2>2, <2>3 DEF TypeOK, End, Status
  <2>5. RowsGuarded(t)
    BY <1>0, <2>1, <2>2, <2>3 DEF RowsGuarded, TypeOK, Has
  <2>6. \A f \in started : About[f] # d
    BY <2>1 DEF LocksInv, AttemptsAreOpen
  <2>7. AttemptsAreOpen'
    BY <1>0, <2>2, <2>3, <2>6, EndMovesOne, AttemptsKept DEF TypeOK
  <2>. QED
    BY <1>0, <2>3, <2>4, <2>5, <2>7, EndKeepsInv
<1>. QED
  BY <1>1, <1>2, <1>3

LEMMA FinalizeKeepsInv ==
    ASSUME LocksInv, NEW t \in Finalize, FinalizeBegins(t) \/ FinalizeCommits(t)
    PROVE  LocksInv'
<1>. DEFINE d == About[t]
            e == Target[d]
<1>0. /\ t \in Transaction /\ d \in Delivery /\ e \in Endpoint
      /\ t \notin Claim \cup Reconcile \cup Change \cup Ingest \cup Replay
      /\ FinalizeOrder(t)[1] = d /\ FinalizeOrder(t)[2] = e
  BY Subjects, RowTypes, KindAssumption DEF KindAssumption, FinalizeOrder
<1>. TypeOK /\ InOrder(t) /\ ReadsStillHold(t)
  BY <1>0 DEF LocksInv
<1>1. ASSUME FinalizeBegins(t) PROVE LocksInv'
  <2>1. waits[t] = d /\ held[t] = {} /\ Granted(t)
    BY <1>0, <1>1, Stations, Subjects DEF FinalizeBegins, Ended
  <2>2. /\ waits'[t] = e /\ held'[t] = {d} /\ OnlyMoves(t) /\ UNCHANGED rows /\ TypeOK'
    BY <1>0, <1>1, <2>1, RowTypes DEF FinalizeBegins, Lock, OnlyMoves, TypeOK, rows
  <2>3. \A row \in held'[t] : Has(t, row)
    BY <2>1, <2>2 DEF Has
  <2>4. InOrder(t)'
    BY <2>2, NextStation DEF InOrder
  <2>5. ReadsStillHold(t)'
    BY <1>0 DEF ReadsStillHold
  <2>. QED
    BY <1>0, <2>2, <2>3, <2>4, <2>5, LockKeepsInv, Subjects
<1>2. ASSUME FinalizeCommits(t) PROVE LocksInv'
  <2>1. waits[t] = e /\ held[t] = {d} /\ Granted(t)
    BY <1>0, <1>2, Stations, Subjects DEF FinalizeCommits, Ended
  <2>2. End(t, "committed") /\ UNCHANGED <<open, seen>>
    BY <1>2 DEF FinalizeCommits, Commit
  <2>3. CASE t \in started
    <3>1. PICK s \in {"settled", "retry_scheduled"} : status' = [status EXCEPT ![d] = s]
      BY <1>2, <2>3 DEF FinalizeCommits
    <3>2. /\ active_delivery_count' = [active_delivery_count EXCEPT ![e] = @ - 1]
          /\ started' = started \ {t}
      BY <1>2, <2>3 DEF FinalizeCommits
    <3>3. TypeOK'
      BY <1>0, <2>2, <3>1, <3>2 DEF TypeOK, End, Status, Waiting
    <3>4. RowsGuarded(t)
      BY <1>0, <2>1, <2>2, <3>1, <3>2 DEF RowsGuarded, TypeOK, Has
    <3>5. \A f \in started' : About[f] # d
      BY <2>3, <3>2 DEF LocksInv, AttemptsAreOpen
    <3>6. AttemptsAreOpen'
      BY <1>0, <2>2, <3>1, <3>2, <3>5, EndMovesOne, AttemptsKept DEF TypeOK
    <3>. QED
      BY <1>0, <2>2, <3>3, <3>4, <3>6, EndKeepsInv
  <2>4. CASE t \notin started
    BY <1>0, <1>2, <2>2, <2>4, EmptyEndKeepsInv DEF FinalizeCommits, rows
  <2>. QED
    BY <2>3, <2>4
<1>. QED
  BY <1>1, <1>2

LEMMA ReconcileKeepsInv ==
    ASSUME LocksInv, NEW t \in Reconcile, ReconcileSelect(t) \/ ReconcileEndpoint(t)
    PROVE  LocksInv'
<1>0. /\ t \in Transaction /\ t \notin started
      /\ t \notin Claim \cup Finalize \cup Change \cup Ingest \cup Replay
  BY RowTypes, KindAssumption DEF KindAssumption, LocksInv, TypeOK
<1>. TypeOK /\ InOrder(t) /\ ReadsStillHold(t)
  BY <1>0 DEF LocksInv
<1>1. ASSUME ReconcileSelect(t) PROVE LocksInv'
  <2>1. CASE Commit(t)
    BY <1>0, <1>1, <2>1, EmptyEndKeepsInv DEF ReconcileSelect, Commit
  <2>2. ASSUME NEW S \in SUBSET {d \in Delivery : /\ status[d] = "delivering"
                                                  /\ \A s \in Transaction : d \notin held[s]},
               NEW d \in S,
               held' = [held EXCEPT ![t] = S], waits' = [waits EXCEPT ![t] = Target[d]],
               UNCHANGED <<todo, outcome>>
        PROVE  LocksInv'
    <3>1. UNCHANGED <<rows, seen>> /\ Target[d] \in Endpoint /\ S \subseteq Delivery
      BY <1>1, Subjects DEF ReconcileSelect
    <3>2. /\ waits'[t] = Target[d] /\ held'[t] = S /\ OnlyMoves(t) /\ TypeOK'
      BY <1>0, <2>2, <3>1, RowTypes DEF OnlyMoves, TypeOK, rows
    <3>3. \A row \in held'[t] : Free(row)
      BY <3>2 DEF Free
    <3>4. InOrder(t)'
      BY <3>1, <3>2 DEF InOrder
    <3>5. ReadsStillHold(t)'
      BY <1>0, <3>1, <3>2 DEF ReadsStillHold, Batch, rows
    <3>. QED
      BY <1>0, <3>1, <3>2, <3>3, <3>4, <3>5, LockKeepsInv, Subjects
  <2>. QED
    BY <1>1, <2>1, <2>2 DEF ReconcileSelect
<1>2. ASSUME ReconcileEndpoint(t) PROVE LocksInv'
  <2>. DEFINE left == {Target[d] : d \in Batch(t)} \ (held[t] \cup {waits[t]})
  <2>1. waits[t] \in Endpoint /\ held[t] \subseteq Delivery \cup Endpoint /\ Granted(t)
    BY <1>0, <1>2, Stations DEF ReconcileEndpoint, Granted, Ended
  <2>2. ASSUME NEW e \in left, Lock(t, e), UNCHANGED <<todo, rows, seen>>
        PROVE  LocksInv'
    <3>1. e \in Endpoint
      BY <2>2, Subjects DEF Batch
    <3>2. /\ waits'[t] = e /\ held'[t] = held[t] \cup {waits[t]} /\ OnlyMoves(t) /\ TypeOK'
      BY <1>0, <2>1, <2>2, <3>1, RowTypes DEF Lock, OnlyMoves, TypeOK, rows
    <3>3. \A row \in held'[t] : Has(t, row)
      BY <2>1, <3>2 DEF Has
    <3>4. InOrder(t)'
      BY <2>1, <3>1, <3>2 DEF InOrder
    <3>5. Batch(t)' = Batch(t)
      BY <2>1, <3>2, Subjects DEF Batch
    <3>6. ReadsStillHold(t)'
      BY <1>0, <2>2, <3>5 DEF ReadsStillHold, rows
    <3>. QED
      BY <1>0, <2>2, <3>1, <3>2, <3>3, <3>4, <3>6, LockKeepsInv, Subjects
  <2>3. CASE left = {} /\ ~\E e \in left : Lock(t, e)
    <3>1. PICK retried \in SUBSET Batch(t) :
            status' = [d \in Delivery |-> CASE d \in retried  -> "retry_scheduled"
                                            [] d \in Batch(t) \ retried -> "settled"
                                            [] OTHER -> status[d]]
      BY <1>2, <2>3 DEF ReconcileEndpoint
    <3>2. /\ active_delivery_count' =
                [e \in Endpoint |-> active_delivery_count[e]
                                      - Cardinality({d \in Batch(t) : Target[d] = e})]
          /\ started' = {f \in started : About[f] \notin Batch(t)}
          /\ End(t, "committed") /\ UNCHANGED <<open, seen>>
      BY <1>2, <2>3 DEF ReconcileEndpoint, Commit
    <3>3. ASSUME NEW e \in Endpoint
          PROVE  Cardinality({d \in Batch(t) : Target[d] = e}) \in Nat
      <4>1. IsFiniteSet({d \in Batch(t) : Target[d] = e})
        BY RowLocksAssumption, FS_Subset DEF RowLocksAssumption, Batch
      <4>. QED
        BY <4>1, FS_CardinalityType
    <3>4. \A d \in Delivery : /\ d \notin Batch(t) => status'[d] = status[d]
                              /\ d \in Batch(t) => status'[d] \in {"settled", "retry_scheduled"}
      BY <3>1
    <3>5. status' \in [Delivery -> Status]
      BY <3>1, <3>4 DEF TypeOK, Status, Waiting
    <3>6. TypeOK'
      BY <1>0, <3>2, <3>3, <3>5 DEF TypeOK, End
    <3>7. ASSUME NEW e \in Endpoint, active_delivery_count'[e] # active_delivery_count[e]
          PROVE  Has(t, e)
      <4>1. {d \in Batch(t) : Target[d] = e} # {}
        <5>1. CASE {d \in Batch(t) : Target[d] = e} = {}
          <6>1. Cardinality({d \in Batch(t) : Target[d] = e}) = 0
            BY <5>1, FS_EmptySet
          <6>2. active_delivery_count'[e] = active_delivery_count[e] - 0
            BY <3>2, <6>1
          <6>. QED
            BY <3>7, <6>2 DEF TypeOK
        <5>. QED
          BY <5>1
      <4>2. e \in held[t] \cup {waits[t]}
        BY <2>3, <4>1
      <4>. QED
        BY <2>1, <4>2 DEF Has
    <3>8. RowsGuarded(t)
      BY <1>0, <3>2, <3>4, <3>7 DEF RowsGuarded, Batch
    <3>9. \A f \in started' : About[f] \in Delivery /\ About[f] \notin Batch(t)
      BY <3>2, Subjects DEF TypeOK, Called
    <3>10. AttemptsAreOpen'
      BY <1>0, <3>2, <3>4, <3>9, EndMovesOne, AttemptsKept
    <3>. QED
      BY <1>0, <3>2, <3>6, <3>8, <3>10, EndKeepsInv
  <2>. QED
    BY <1>2, <2>2, <2>3 DEF ReconcileEndpoint
<1>. QED
  BY <1>1, <1>2

LEMMA ChangeKeepsInv ==
    ASSUME LocksInv, NEW t \in Change, ChangeRow(t) \/ ChangeDelivery(t) \/ ChangeAudit(t)
    PROVE  LocksInv'
<1>0. /\ t \in Transaction /\ t \notin started
      /\ t \notin Claim \cup Finalize \cup Reconcile \cup Ingest \cup Replay
      /\ About[t] \in Row /\ About[t] \in Endpoint \cup {ApiKey} /\ About[t] \notin Delivery
  BY Subjects, RowTypes, KindAssumption DEF KindAssumption, LocksInv, TypeOK
<1>. TypeOK /\ InOrder(t) /\ ReadsStillHold(t)
  BY <1>0 DEF LocksInv
<1>1. ASSUME ChangeRow(t) PROVE LocksInv'
  <2>. DEFINE found == {d \in Delivery : Target[d] = About[t] /\ Cancellable(d)}
  <2>1. waits[t] = About[t] /\ held[t] = {} /\ todo[t] = {} /\ Granted(t)
    BY <1>0, <1>1, Stations, Subjects DEF ChangeRow, Ended
  <2>2. UNCHANGED <<rows, seen>>
    BY <1>1 DEF ChangeRow
  <2>3. CASE Commit(t)
    BY <1>0, <2>2, <2>3, EmptyEndKeepsInv DEF Commit
  <2>4. ASSUME NEW next \in found \cup {Organization}, Lock(t, next),
               todo' \in [Transaction -> SUBSET (Delivery \cup Endpoint)],
               todo'[t] \subseteq found, \A s \in Transaction \ {t} : todo'[s] = todo[s]
        PROVE  LocksInv'
    <3>1. /\ waits'[t] = next /\ held'[t] = {About[t]} /\ OnlyMoves(t) /\ TypeOK'
      BY <1>0, <2>1, <2>2, <2>4, RowTypes DEF Lock, OnlyMoves, TypeOK, rows
    <3>2. \A row \in held'[t] : Has(t, row)
      BY <2>1, <3>1 DEF Has
    <3>3. InOrder(t)'
      BY <2>4, <3>1 DEF InOrder
    <3>4. \A d \in Delivery \cap (held'[t] \cup todo'[t] \cup {waits'[t]}) :
             status'[d] # "delivering" /\ Target[d] = About[t]
      BY <1>0, <2>2, <2>4, <3>1, Subjects DEF Cancellable, Waiting, rows
    <3>5. ReadsStillHold(t)'
      BY <1>0, <3>4 DEF ReadsStillHold
    <3>6. next # Nothing
      BY <2>4, Subjects
    <3>. QED
      BY <1>0, <2>2, <3>1, <3>2, <3>3, <3>5, <3>6, LockKeepsInv
  <2>5. CASE Lock(t, Organization) /\ UNCHANGED todo
    BY <2>1, <2>4, <2>5 DEF TypeOK
  <2>6. ASSUME NEW d \in found, Lock(t, d), todo' = [todo EXCEPT ![t] = found \ {d}]
        PROVE  LocksInv'
    BY <1>0, <2>4, <2>6 DEF TypeOK
  <2>. QED
    BY <1>1, <2>3, <2>5, <2>6 DEF ChangeRow
<1>2. ASSUME ChangeDelivery(t) PROVE LocksInv'
  <2>. DEFINE d == waits[t]
  <2>1. /\ d \in Delivery /\ Granted(t) /\ About[t] \in held[t]
        /\ held[t] \subseteq Delivery \cup {About[t]} /\ todo[t] \subseteq Delivery
    BY <1>0, <1>2, Stations, Subjects DEF ChangeDelivery, Ended
  <2>2. UNCHANGED <<rows, seen>>
    BY <1>2 DEF ChangeDelivery
  <2>3. /\ held'[t] = held[t] \cup {d}
        /\ waits'[t] \in todo[t] \cup {Organization} /\ todo'[t] \subseteq todo[t]
        /\ OnlyMoves(t) /\ TypeOK'
    BY <1>0, <1>2, <2>1, <2>2, RowTypes DEF ChangeDelivery, Lock, OnlyMoves, TypeOK, rows
  <2>4. \A row \in held'[t] : Has(t, row)
    BY <2>1, <2>3 DEF Has
  <2>5. InOrder(t)'
    BY <2>1, <2>3 DEF InOrder
  <2>6. \A x \in Delivery \cap (held'[t] \cup todo'[t] \cup {waits'[t]}) :
           status'[x] # "delivering" /\ Target[x] = About[t]
    BY <2>2, <2>3, Subjects DEF ReadsStillHold, rows
  <2>7. ReadsStillHold(t)'
    BY <1>0, <2>6 DEF ReadsStillHold
  <2>8. waits'[t] # Nothing
    BY <2>1, <2>3, Subjects
  <2>. QED
    BY <1>0, <2>2, <2>3, <2>4, <2>5, <2>7, <2>8, LockKeepsInv
<1>3. ASSUME ChangeAudit(t) PROVE LocksInv'
  <2>1. waits[t] = Organization /\ About[t] \in held[t]
    BY <1>0, <1>3, Stations, Subjects DEF ChangeAudit, Ended
  <2>2. /\ End(t, "committed") /\ UNCHANGED <<active_delivery_count, seen, started>>
        /\ status' = [d \in Delivery |-> IF d \in Cancelled(t) THEN "settled" ELSE status[d]]
        /\ open' \in {open, open \cup ({About[t]} \cap Endpoint), open \ {About[t]}}
    BY <1>3 DEF ChangeAudit, Commit
  <2>3. TypeOK'
    BY <1>0, <2>2 DEF TypeOK, End, Status
  <2>4. RowsGuarded(t)
    BY <1>0, <2>1, <2>2 DEF RowsGuarded, Has, Cancelled, Batch
  <2>5. \A f \in started : About[f] \in Delivery /\ About[f] \notin Cancelled(t)
    BY <1>0, Subjects
       DEF LocksInv, AttemptsAreOpen, Cancelled, Cancellable, Waiting, TypeOK, Called
  <2>6. AttemptsAreOpen'
    BY <1>0, <2>2, <2>5, EndMovesOne, AttemptsKept
  <2>. QED
    BY <1>0, <2>2, <2>3, <2>4, <2>6, EndKeepsInv
<1>. QED
  BY <1>1, <1>2, <1>3

LEMMA IngestKeepsInv ==
    ASSUME LocksInv, NEW t \in Ingest, IngestOrganization(t) \/ IngestInsert(t)
    PROVE  LocksInv'
<1>0. /\ t \in Transaction /\ t \notin started
      /\ t \notin Claim \cup Finalize \cup Reconcile \cup Change \cup Replay
  BY RowTypes, KindAssumption DEF KindAssumption, LocksInv, TypeOK
<1>. TypeOK /\ InOrder(t)
  BY <1>0 DEF LocksInv
<1>1. UNCHANGED <<rows, seen>> /\ Granted(t)
  BY DEF IngestOrganization, IngestInsert
<1>2. CASE Commit(t)
  BY <1>0, <1>1, <1>2, EmptyEndKeepsInv DEF Commit
<1>3. ASSUME NEW next \in Endpoint \cup {ApiKey}, Lock(t, next),
             todo' \in [Transaction -> SUBSET (Delivery \cup Endpoint)],
             todo'[t] \subseteq Endpoint, \A s \in Transaction \ {t} : todo'[s] = todo[s],
             waits[t] = Organization \/ waits[t] \in Endpoint \cup {ApiKey}
      PROVE  LocksInv'
  <2>1. \/ waits[t] = Organization /\ held[t] = {}
        \/ /\ waits[t] \in Endpoint \cup {ApiKey} /\ Organization \in held[t]
           /\ held[t] \subseteq Endpoint \cup {Organization, ApiKey}
    BY <1>0, <1>3, Stations, Subjects DEF Ended
  <2>2. /\ waits'[t] = next /\ held'[t] = held[t] \cup {waits[t]} /\ OnlyMoves(t) /\ TypeOK'
    BY <1>0, <1>1, <1>3, RowTypes DEF Lock, OnlyMoves, TypeOK, rows
  <2>3. \A row \in held'[t] : Has(t, row)
    BY <1>1, <2>2 DEF Has
  <2>4. InOrder(t)'
    BY <1>3, <2>1, <2>2 DEF InOrder
  <2>5. ReadsStillHold(t)'
    BY <1>0 DEF ReadsStillHold
  <2>6. next # Nothing
    BY <1>3, Subjects
  <2>. QED
    BY <1>0, <1>1, <2>2, <2>3, <2>4, <2>5, <2>6, LockKeepsInv
<1>4. ASSUME IngestOrganization(t) PROVE LocksInv'
  <2>1. ASSUME NEW S \in SUBSET open, Lock(t, ApiKey), todo' = [todo EXCEPT ![t] = S]
        PROVE  LocksInv'
    BY <1>0, <1>3, <1>4, <2>1 DEF IngestOrganization, TypeOK
  <2>. QED
    BY <1>2, <1>4, <2>1 DEF IngestOrganization
<1>5. ASSUME IngestInsert(t) PROVE LocksInv'
  <2>1. waits[t] \in Endpoint \cup {ApiKey} /\ todo[t] \subseteq Endpoint
    BY <1>0, <1>5, Stations, Subjects DEF IngestInsert, Ended
  <2>2. ASSUME NEW e \in todo[t], Lock(t, e), todo' = [todo EXCEPT ![t] = @ \ {e}]
        PROVE  LocksInv'
    BY <1>0, <1>3, <2>1, <2>2 DEF TypeOK
  <2>. QED
    BY <1>2, <1>5, <2>2 DEF IngestInsert
<1>. QED
  BY <1>4, <1>5

LEMMA ReplayKeepsInv ==
    ASSUME LocksInv, NEW t \in Replay, ReplaySource(t) \/ ReplayInsert(t)
    PROVE  LocksInv'
<1>. DEFINE d == About[t]
            e == Target[d]
<1>0. /\ t \in Transaction /\ d \in Delivery /\ e \in Endpoint /\ t \notin started
      /\ t \notin Claim \cup Finalize \cup Reconcile \cup Change \cup Ingest
  BY Subjects, RowTypes, KindAssumption DEF KindAssumption, LocksInv, TypeOK
<1>. TypeOK /\ InOrder(t)
  BY <1>0 DEF LocksInv
<1>1. UNCHANGED <<rows, seen>> /\ Granted(t)
  BY DEF ReplaySource, ReplayInsert
<1>2. CASE Commit(t)
  BY <1>0, <1>1, <1>2, EmptyEndKeepsInv DEF Commit
<1>3. ASSUME NEW next, Lock(t, next), UNCHANGED todo,
             \/ waits[t] = d /\ held[t] = {} /\ next = e
             \/ waits[t] = e /\ held[t] = {d} /\ next = Organization
      PROVE  LocksInv'
  <2>1. /\ waits'[t] = next /\ held'[t] = held[t] \cup {waits[t]} /\ OnlyMoves(t) /\ TypeOK'
    BY <1>0, <1>1, <1>3, RowTypes DEF Lock, OnlyMoves, TypeOK, rows
  <2>2. \A row \in held'[t] : Has(t, row)
    BY <1>1, <2>1 DEF Has
  <2>3. InOrder(t)'
    <3>1. \/ waits'[t] = e /\ held'[t] = {d}
          \/ waits'[t] = Organization /\ held'[t] = {d, e}
      BY <1>3, <2>1
    <3>. QED
      BY <3>1, NextStation DEF InOrder
  <2>4. ReadsStillHold(t)'
    BY <1>0 DEF ReadsStillHold
  <2>5. next # Nothing
    BY <1>0, <1>3, Subjects
  <2>. QED
    BY <1>0, <1>1, <2>1, <2>2, <2>3, <2>4, <2>5, LockKeepsInv
<1>4. ASSUME ReplaySource(t), ~Commit(t) PROVE LocksInv'
  <2>1. waits[t] = d /\ held[t] = {} /\ Lock(t, e) /\ UNCHANGED todo
    BY <1>0, <1>4, Stations, Subjects DEF ReplaySource, Ended
  <2>. QED
    BY <1>3, <2>1
<1>5. ASSUME ReplayInsert(t), ~Commit(t) PROVE LocksInv'
  <2>1. waits[t] = e /\ held[t] = {d} /\ Lock(t, Organization) /\ UNCHANGED todo
    BY <1>0, <1>5, Stations, Subjects DEF ReplayInsert, Ended
  <2>. QED
    BY <1>3, <2>1
<1>. QED
  BY <1>2, <1>4, <1>5

LEMMA SacrificeKeepsInv ==
    ASSUME LocksInv, NEW t \in Transaction, Sacrifice(t)
    PROVE  LocksInv'
<1>1. t \notin started
  BY AnswersAreSpared DEF Sacrifice, AnswersSurvive
<1>. QED
  BY <1>1, EmptyEndKeepsInv DEF Sacrifice

LEMMA InitHasLocksInv == Init => LocksInv
<1>. SUFFICES ASSUME Init PROVE LocksInv
  OBVIOUS
<1>1. ASSUME NEW t \in Transaction
      PROVE  /\ waits[t] \in Row \cup {Nothing} /\ held[t] = {} /\ todo[t] = {}
             /\ t \in Claim \cup Replay \cup Change \cup Finalize => waits[t] = About[t]
             /\ t \in Ingest => waits[t] = Organization
             /\ t \in Reconcile => waits[t] = Nothing
  BY RowTypes, KindAssumption DEF Init, FirstRow, FinalizeOrder, KindAssumption
<1>2. \A e \in Endpoint : Cardinality(Delivering(e)) \in Nat
  <2>1. \A e \in Endpoint : IsFiniteSet(Delivering(e))
    BY RowLocksAssumption, FS_Subset DEF RowLocksAssumption, Delivering
  <2>. QED
    BY <2>1, FS_CardinalityType
<1>3. TypeOK
  BY <1>1, <1>2 DEF Init, TypeOK
<1>4. LocksExclude
  BY <1>1 DEF LocksExclude
<1>5. AttemptsAreOpen
  <2>1. \A f \in started : f \in Finalize /\ status[About[f]] = "delivering"
    BY DEF Init
  <2>2. \A f \in Finalize : waits[f] # Nothing
    BY <1>1, Subjects, RowTypes DEF Called
  <2>. QED
    BY <2>1, <2>2 DEF Init, AttemptsAreOpen
<1>6. ASSUME NEW t \in Transaction PROVE InOrder(t) /\ ReadsStillHold(t)
  <2>1. Batch(t) = {}
    BY <1>1 DEF Batch
  <2>2. InOrder(t)
    BY <1>1, TwoStations, ThreeStations DEF InOrder, Transaction, Worker
  <2>3. ReadsStillHold(t)
    BY <1>1, <2>1, Subjects DEF ReadsStillHold, Called
  <2>. QED
    BY <2>2, <2>3
<1>. QED
  BY <1>3, <1>4, <1>5, <1>6 DEF LocksInv

LEMMA StepKeepsLocksInv == LocksInv /\ [Next]_vars => LocksInv'
<1>. SUFFICES ASSUME LocksInv, [Next]_vars PROVE LocksInv'
  OBVIOUS
<1>1. ASSUME NEW t \in Transaction, Step(t) PROVE LocksInv'
  BY <1>1, ClaimKeepsInv, FinalizeKeepsInv, ReconcileKeepsInv, ChangeKeepsInv,
     IngestKeepsInv, ReplayKeepsInv DEF Step
<1>2. ASSUME NEW t \in Transaction, Sacrifice(t) PROVE LocksInv'
  BY <1>2, SacrificeKeepsInv
<1>3. CASE UNCHANGED vars
  <2>1. \A t : InOrder(t)' = InOrder(t) /\ ReadsStillHold(t)' = ReadsStillHold(t)
    BY <1>3 DEF vars, locks, rows, InOrder, Path, ReadsStillHold, Batch
  <2>. QED
    BY <1>3, <2>1 DEF vars, locks, rows, LocksInv, TypeOK, LocksExclude, AttemptsAreOpen,
                      Shares, RefersToOrganization, RefersToKey, RefersToEndpoint
<1>. QED
  BY <1>1, <1>2, <1>3 DEF Next

(***************************************************************************)
(* Whatever the transactions and their order, the locks keep what was read *)
(* under them, and answers are not lost to deadlocks.                      *)
(***************************************************************************)
THEOREM LocksProtect == Spec => []LocksInv
<1>. QED
  BY InitHasLocksInv, StepKeepsLocksInv, PTL DEF Spec

(***************************************************************************)
(* No deadlock ever includes a transaction that has an answer to record.   *)
(***************************************************************************)
THEOREM AnswersAlwaysSurvive == Spec => []AnswersSurvive
<1>. QED
  BY LocksProtect, AnswersAreSpared, PTL

(***************************************************************************)
(* Without an ingest and a change nobody deadlocks.                        *)
(***************************************************************************)
THEOREM DeadlocksAlwaysMixed == Spec => []DeadlocksNeedIngestOrChange
<1>. QED
  BY LocksProtect, DeadlocksAreMixed, PTL

-----------------------------------------------------------------------------
(***************************************************************************)
(* The count of an endpoint.                                               *)
(***************************************************************************)
LEMMA DeliveringFinite == \A e \in Endpoint : IsFiniteSet(Delivering(e))
BY RowLocksAssumption, FS_Subset DEF RowLocksAssumption, Delivering

\* a step that sends nothing off, ends no call and leaves the counts alone
LEMMA CountsKept ==
    ASSUME SlotsAreCounted, UNCHANGED active_delivery_count,
           \A d \in Delivery : status'[d] = "delivering" <=> status[d] = "delivering"
    PROVE  SlotsAreCounted'
<1>1. \A e \in Endpoint : Delivering(e)' = Delivering(e)
  BY DEF Delivering
<1>. QED
  BY <1>1 DEF SlotsAreCounted

LEMMA ClaimKeepsCounts ==
    ASSUME LocksInv, SlotsAreCounted, NEW t \in Claim,
           ClaimDelivery(t) \/ ClaimEndpoint(t) \/ ClaimAttempt(t)
    PROVE  SlotsAreCounted'
<1>. DEFINE d == About[t]
            e == Target[d]
<1>0. t \in Transaction /\ t \in Called /\ d \in Delivery /\ e \in Endpoint
  BY Subjects, RowTypes
<1>. TypeOK /\ ReadsStillHold(t)
  BY <1>0 DEF LocksInv
<1>1. CASE ClaimDelivery(t)
  BY <1>1, CountsKept DEF ClaimDelivery, rows
<1>2. CASE ClaimEndpoint(t)
  <2>1. status[d] = "queued"
    BY <1>2 DEF ClaimEndpoint, ReadsStillHold
  <2>2. /\ UNCHANGED active_delivery_count
        /\ \/ UNCHANGED status
           \/ \E s \in {"settled", "retry_scheduled"} : status' = [status EXCEPT ![d] = s]
    BY <1>2 DEF ClaimEndpoint
  <2>. QED
    BY <1>0, <2>1, <2>2, CountsKept DEF TypeOK
<1>3. CASE ClaimAttempt(t)
  <2>1. waits[t] = Organization /\ status[d] = "queued" /\ seen[t] = active_delivery_count[e]
    BY <1>3 DEF ClaimAttempt, ReadsStillHold
  <2>2. CASE /\ status' = [status EXCEPT ![d] = "delivering"]
             /\ active_delivery_count' = [active_delivery_count EXCEPT ![e] = seen[t] + 1]
    <3>1. \A x \in Endpoint : x # e =>
             Delivering(x)' = Delivering(x) /\ active_delivery_count'[x] = active_delivery_count[x]
      BY <1>0, <2>2 DEF Delivering, TypeOK
    <3>2. Delivering(e)' = Delivering(e) \cup {d} /\ d \notin Delivering(e)
      BY <1>0, <2>1, <2>2 DEF Delivering, TypeOK
    <3>3. Cardinality(Delivering(e) \cup {d}) = Cardinality(Delivering(e)) + 1
      BY <1>0, <3>2, DeliveringFinite, FS_AddElement
    <3>4. active_delivery_count'[e] = Cardinality(Delivering(e)')
      BY <1>0, <2>1, <2>2, <3>2, <3>3 DEF SlotsAreCounted, TypeOK
    <3>. QED
      BY <3>1, <3>4 DEF SlotsAreCounted
  <2>3. CASE status' = [status EXCEPT ![d] = "settled"] /\ UNCHANGED active_delivery_count
    BY <1>0, <2>1, <2>3, CountsKept DEF TypeOK
  <2>. QED
    BY <1>3, <2>2, <2>3 DEF ClaimAttempt
<1>. QED
  BY <1>1, <1>2, <1>3

LEMMA FinalizeKeepsCounts ==
    ASSUME LocksInv, SlotsAreCounted, NEW t \in Finalize, FinalizeCommits(t)
    PROVE  SlotsAreCounted'
<1>. DEFINE d == About[t]
            e == Target[d]
<1>0. d \in Delivery /\ e \in Endpoint /\ TypeOK
  BY Subjects, RowTypes DEF LocksInv
<1>1. CASE t \in started
  <2>1. PICK s \in {"settled", "retry_scheduled"} : status' = [status EXCEPT ![d] = s]
    BY <1>1 DEF FinalizeCommits
  <2>2. /\ active_delivery_count' = [active_delivery_count EXCEPT ![e] = @ - 1]
        /\ status[d] = "delivering"
    BY <1>1 DEF FinalizeCommits, LocksInv, AttemptsAreOpen
  <2>3. \A x \in Endpoint : x # e =>
           Delivering(x)' = Delivering(x) /\ active_delivery_count'[x] = active_delivery_count[x]
    BY <1>0, <2>1, <2>2 DEF Delivering, TypeOK
  <2>4. Delivering(e)' = Delivering(e) \ {d} /\ d \in Delivering(e)
    BY <1>0, <2>1, <2>2 DEF Delivering, TypeOK
  <2>5. Cardinality(Delivering(e) \ {d}) = Cardinality(Delivering(e)) - 1
    BY <1>0, <2>4, DeliveringFinite, FS_RemoveElement
  <2>6. active_delivery_count'[e] = Cardinality(Delivering(e)')
    BY <1>0, <2>2, <2>4, <2>5 DEF SlotsAreCounted, TypeOK
  <2>. QED
    BY <2>3, <2>6 DEF SlotsAreCounted
<1>2. CASE t \notin started
  BY <1>2, CountsKept DEF FinalizeCommits
<1>. QED
  BY <1>1, <1>2

LEMMA ReconcileKeepsCounts ==
    ASSUME LocksInv, SlotsAreCounted, NEW t \in Reconcile, ReconcileEndpoint(t)
    PROVE  SlotsAreCounted'
<1>0. t \in Transaction /\ TypeOK /\ ReadsStillHold(t)
  BY RowTypes DEF LocksInv
<1>1. CASE UNCHANGED rows
  BY <1>1, CountsKept DEF rows
<1>2. CASE ~UNCHANGED rows
  <2>1. PICK retried \in SUBSET Batch(t) :
          status' = [d \in Delivery |-> CASE d \in retried  -> "retry_scheduled"
                                          [] d \in Batch(t) \ retried -> "settled"
                                          [] OTHER -> status[d]]
    BY <1>2 DEF ReconcileEndpoint
  <2>2. active_delivery_count' =
              [e \in Endpoint |-> active_delivery_count[e]
                                    - Cardinality({d \in Batch(t) : Target[d] = e})]
    BY <1>2 DEF ReconcileEndpoint
  <2>3. \A d \in Delivery : /\ d \notin Batch(t) => status'[d] = status[d]
                            /\ d \in Batch(t) => status'[d] # "delivering"
    BY <2>1
  <2>4. \A d \in Batch(t) : d \in Delivery /\ status[d] = "delivering"
    BY <1>0 DEF ReadsStillHold, Batch
  <2>5. ASSUME NEW e \in Endpoint
        PROVE  active_delivery_count'[e] = Cardinality(Delivering(e)')
    <3>. DEFINE B == {d \in Batch(t) : Target[d] = e}
    <3>1. Delivering(e)' = Delivering(e) \ B /\ B \subseteq Delivering(e)
      BY <2>3, <2>4 DEF Delivering
    <3>2. IsFiniteSet(Delivering(e)) /\ IsFiniteSet(B)
      BY <3>1, DeliveringFinite, FS_Subset
    <3>3. Cardinality(Delivering(e) \ B) =
            Cardinality(Delivering(e)) - Cardinality(Delivering(e) \cap B)
      BY <3>2, FS_Difference
    <3>4. Delivering(e) \cap B = B
      BY <3>1
    <3>. QED
      BY <2>2, <3>1, <3>3, <3>4 DEF SlotsAreCounted
  <2>. QED
    BY <2>5 DEF SlotsAreCounted
<1>. QED
  BY <1>1, <1>2

(***************************************************************************)
(* At every commit the count of an endpoint is its deliveries in flight,   *)
(* although it is read in one step of a claim and written in another.      *)
(***************************************************************************)
THEOREM SlotsAlwaysCounted == Spec => []SlotsAreCounted
<1>1. Init => SlotsAreCounted
  BY DEF Init, SlotsAreCounted
<1>2. LocksInv /\ SlotsAreCounted /\ [Next]_vars => SlotsAreCounted'
  <2>. SUFFICES ASSUME LocksInv, SlotsAreCounted, [Next]_vars PROVE SlotsAreCounted'
    OBVIOUS
  <2>1. CASE UNCHANGED rows
    BY <2>1, CountsKept DEF rows
  <2>2. ASSUME NEW t \in Claim, ClaimDelivery(t) \/ ClaimEndpoint(t) \/ ClaimAttempt(t)
        PROVE  SlotsAreCounted'
    BY <2>2, ClaimKeepsCounts
  <2>3. ASSUME NEW t \in Finalize, FinalizeBegins(t) \/ FinalizeCommits(t)
        PROVE  SlotsAreCounted'
    BY <2>1, <2>3, FinalizeKeepsCounts DEF FinalizeBegins
  <2>4. ASSUME NEW t \in Reconcile, ReconcileSelect(t) \/ ReconcileEndpoint(t)
        PROVE  SlotsAreCounted'
    BY <2>1, <2>4, ReconcileKeepsCounts DEF ReconcileSelect
  <2>5. ASSUME NEW t \in Change, ChangeAudit(t)
        PROVE  SlotsAreCounted'
    <3>1. \A d \in Cancelled(t) : status[d] # "delivering"
      BY DEF Cancelled, Cancellable, Waiting
    <3>. QED
      BY <2>5, <3>1, CountsKept DEF ChangeAudit
  <2>. QED
    BY <2>1, <2>2, <2>3, <2>4, <2>5
       DEF Next, Step, ChangeRow, ChangeDelivery, IngestOrganization, IngestInsert,
           ReplaySource, ReplayInsert, Sacrifice, vars
<1>. QED
  BY <1>1, <1>2, LocksProtect, PTL DEF Spec

-----------------------------------------------------------------------------
(***************************************************************************)
(* Calls start under open endpoints only.                                  *)
(***************************************************************************)
LEMMA StartsWhileOpen ==
    ASSUME LocksInv, [Next]_vars, NEW d \in Delivery,
           status[d] # "delivering", status'[d] = "delivering"
    PROVE  Target[d] \in open' /\ active_delivery_count'[Target[d]] <= Capacity
<1>. TypeOK
  BY DEF LocksInv
<1>1. PICK t \in Transaction : Step(t)
  BY DEF Next, Sacrifice, vars, rows
<1>2. t \in Claim /\ ClaimAttempt(t)
  <2>1. ~FinalizeBegins(t) /\ ~FinalizeCommits(t)
    BY DEF FinalizeBegins, FinalizeCommits, rows, TypeOK
  <2>2. ~ReconcileSelect(t) /\ ~ReconcileEndpoint(t)
    BY DEF ReconcileSelect, ReconcileEndpoint, rows, TypeOK
  <2>3. ~ChangeRow(t) /\ ~ChangeDelivery(t) /\ ~ChangeAudit(t)
    BY DEF ChangeRow, ChangeDelivery, ChangeAudit, rows, TypeOK
  <2>4. ~IngestOrganization(t) /\ ~IngestInsert(t) /\ ~ReplaySource(t) /\ ~ReplayInsert(t)
    BY DEF IngestOrganization, IngestInsert, ReplaySource, ReplayInsert, rows
  <2>5. ~ClaimDelivery(t) /\ ~ClaimEndpoint(t)
    BY DEF ClaimDelivery, ClaimEndpoint, rows, TypeOK
  <2>. QED
    BY <1>1, <2>1, <2>2, <2>3, <2>4, <2>5 DEF Step
<1>3. d = About[t] /\ Target[d] \in Endpoint
  BY <1>2, Subjects DEF ClaimAttempt, TypeOK
<1>4. /\ Target[d] \in open /\ seen[t] = active_delivery_count[Target[d]] /\ seen[t] < Capacity
  BY <1>2, <1>3 DEF ClaimAttempt, LocksInv, ReadsStillHold
<1>5. open' = open /\ active_delivery_count'[Target[d]] = seen[t] + 1
  BY <1>2, <1>3 DEF ClaimAttempt, TypeOK
<1>6. seen[t] \in Int /\ Capacity \in Nat
  BY <1>2, RowLocksAssumption DEF TypeOK, RowLocksAssumption
<1>. QED
  BY <1>4, <1>5, <1>6

(***************************************************************************)
(* A delivery goes out only while its endpoint is open and has a slot.     *)
(***************************************************************************)
THEOREM AlwaysClaimedWhileOpen == Spec => ClaimedWhileOpen
<1>1. LocksInv /\ [Next]_vars =>
        [\A d \in Delivery :
           status[d] # "delivering" /\ status'[d] = "delivering" =>
               Target[d] \in open' /\ active_delivery_count'[Target[d]] <= Capacity]_vars
  BY StartsWhileOpen
<1>. QED
  BY <1>1, LocksProtect, PTL DEF Spec, ClaimedWhileOpen

-----------------------------------------------------------------------------
(***************************************************************************)
(* RowLocks implements DeliveryTransactions: every commit is one of its    *)
(* steps, and before it nothing shows.                                     *)
(***************************************************************************)
\* both modules count in the same way
LEMMA SameCount == \A S : Transactions!Cardinality(S) = Cardinality(S)
BY DEF Transactions!Cardinality, Cardinality

LEMMA SameSlots ==
    ASSUME NEW e \in Endpoint
    PROVE  Transactions!Cardinality(Transactions!InFlight(e)) = Cardinality(Delivering(e))
<1>1. Transactions!InFlight(e) = Delivering(e)
  BY DEF Transactions!InFlight, Delivering
<1>. QED
  BY <1>1, SameCount

\* some deliveries move, each to one of the statuses of a choice
LEMMA MovesAll ==
    ASSUME NEW S \in SUBSET Delivery, NEW choice, NEW to \in [S -> choice],
           status' = [d \in Delivery |-> IF d \in S THEN to[d] ELSE status[d]]
    PROVE  Transactions!Moves(S, choice)
BY DEF Transactions!Moves

LEMMA MovesOne ==
    ASSUME TypeOK, NEW d \in Delivery, NEW choice, NEW s \in choice,
           status' = [status EXCEPT ![d] = s]
    PROVE  Transactions!Moves({d}, choice)
<1>. DEFINE to == [x \in {d} |-> s]
<1>1. to \in [{d} -> choice]
  OBVIOUS
<1>2. status' = [x \in Delivery |-> IF x \in {d} THEN to[x] ELSE status[x]]
  BY DEF TypeOK
<1>. QED
  BY <1>1, <1>2, MovesAll

LEMMA InitImplements == Init => Transactions!Init
<1>. SUFFICES ASSUME Init PROVE Transactions!Init
  OBVIOUS
<1>1. \A e \in Endpoint : Transactions!Cardinality(Transactions!InFlight(e)) <= Capacity
  BY SameSlots DEF Init
<1>2. status \in [Delivery -> Transactions!Status]
  BY DEF Init, Status, Waiting, Transactions!Status, Transactions!Waiting
<1>3. open \in SUBSET Endpoint
  BY DEF Init
<1>4. /\ started \in SUBSET {f \in Finalize : status[About[f]] = "delivering"}
      /\ \A f, g \in started : About[f] = About[g] => f = g
  BY DEF Init
<1>. QED
  BY <1>1, <1>2, <1>3, <1>4 DEF Transactions!Init

LEMMA ClaimImplements ==
    ASSUME LocksInv, SlotsAreCounted, NEW t \in Claim,
           ClaimDelivery(t) \/ ClaimEndpoint(t) \/ ClaimAttempt(t)
    PROVE  [Transactions!Next]_(Transactions!vars)
<1>. DEFINE d == About[t]
            e == Target[d]
<1>0. t \in Transaction /\ d \in Delivery /\ e \in Endpoint /\ TypeOK /\ ReadsStillHold(t)
  BY Subjects, RowTypes DEF LocksInv
<1>1. Transactions!HasSlot(d) <=> active_delivery_count[e] < Capacity
  <2>1. active_delivery_count[e] = Transactions!Cardinality(Transactions!InFlight(e))
    BY <1>0, SameSlots DEF SlotsAreCounted
  <2>. QED
    BY <2>1 DEF Transactions!HasSlot
<1>2. active_delivery_count[e] \in Int /\ Capacity \in Nat
  BY <1>0, RowLocksAssumption DEF TypeOK, RowLocksAssumption
<1>3. CASE ClaimDelivery(t)
  BY <1>3 DEF ClaimDelivery, rows, Transactions!vars
<1>4. CASE ClaimEndpoint(t)
  <2>1. status[d] = "queued" /\ UNCHANGED <<open, started>>
    BY <1>4, <1>0 DEF ClaimEndpoint, ReadsStillHold
  <2>2. CASE e \notin open /\ status' = [status EXCEPT ![d] = "settled"]
    <3>1. Transactions!Refuse(d)
      BY <1>0, <2>1, <2>2, MovesOne DEF Transactions!Refuse
    <3>. QED
      BY <1>0, <3>1 DEF Transactions!Next
  <2>3. CASE /\ e \in open /\ active_delivery_count[e] >= Capacity
             /\ status' = [status EXCEPT ![d] = "retry_scheduled"]
    <3>1. ~Transactions!HasSlot(d)
      BY <1>1, <1>2, <2>3
    <3>2. Transactions!Moves({d}, {"retry_scheduled"})
      BY <1>0, <2>3, MovesOne
    <3>3. Transactions!Defer(d)
      BY <2>1, <2>3, <3>1, <3>2 DEF Transactions!Defer
    <3>. QED
      BY <1>0, <3>3 DEF Transactions!Next
  <2>4. CASE UNCHANGED status
    BY <2>1, <2>4 DEF Transactions!vars
  <2>. QED
    BY <1>4, <2>2, <2>3, <2>4 DEF ClaimEndpoint
<1>5. CASE ClaimAttempt(t)
  <2>1. /\ status[d] = "queued" /\ e \in open /\ Transactions!HasSlot(d)
        /\ UNCHANGED <<open, started>>
    BY <1>0, <1>1, <1>5 DEF ClaimAttempt, ReadsStillHold
  <2>2. CASE status' = [status EXCEPT ![d] = "delivering"]
    <3>1. Transactions!Start(d)
      BY <1>0, <2>1, <2>2, MovesOne DEF Transactions!Start
    <3>. QED
      BY <1>0, <3>1 DEF Transactions!Next
  <2>3. CASE status' = [status EXCEPT ![d] = "settled"]
    <3>1. Transactions!Refuse(d)
      BY <1>0, <2>1, <2>3, MovesOne DEF Transactions!Refuse
    <3>. QED
      BY <1>0, <3>1 DEF Transactions!Next
  <2>. QED
    BY <1>5, <2>2, <2>3 DEF ClaimAttempt
<1>. QED
  BY <1>3, <1>4, <1>5

LEMMA FinalizeImplements ==
    ASSUME LocksInv, NEW t \in Finalize, FinalizeBegins(t) \/ FinalizeCommits(t)
    PROVE  [Transactions!Next]_(Transactions!vars)
<1>0. About[t] \in Delivery /\ TypeOK
  BY Subjects, RowTypes DEF LocksInv
<1>1. CASE t \in started /\ FinalizeCommits(t)
  <2>1. PICK s \in {"settled", "retry_scheduled"} : status' = [status EXCEPT ![About[t]] = s]
    BY <1>1 DEF FinalizeCommits
  <2>2. Transactions!Moves({About[t]}, {"settled", "retry_scheduled"})
    BY <1>0, <2>1, MovesOne
  <2>3. started' = started \ {t} /\ UNCHANGED open
    BY <1>1 DEF FinalizeCommits
  <2>4. Transactions!Record(t)
    BY <1>1, <2>2, <2>3 DEF Transactions!Record
  <2>. QED
    BY <2>4 DEF Transactions!Next
<1>2. CASE UNCHANGED <<status, open, started>>
  BY <1>2 DEF Transactions!vars
<1>. QED
  BY <1>1, <1>2 DEF FinalizeBegins, FinalizeCommits, rows

LEMMA ReconcileImplements ==
    ASSUME LocksInv, NEW t \in Reconcile, ReconcileSelect(t) \/ ReconcileEndpoint(t)
    PROVE  [Transactions!Next]_(Transactions!vars)
<1>0. t \in Transaction /\ TypeOK /\ ReadsStillHold(t)
  BY RowTypes DEF LocksInv
<1>1. CASE UNCHANGED rows
  BY <1>1 DEF rows, Transactions!vars
<1>2. CASE ~UNCHANGED rows
  <2>. DEFINE S == Batch(t)
  <2>0. S \in SUBSET Delivery
    BY DEF Batch
  <2>1. PICK retried \in SUBSET S :
          status' = [d \in Delivery |-> CASE d \in retried  -> "retry_scheduled"
                                          [] d \in S \ retried -> "settled"
                                          [] OTHER -> status[d]]
    BY <1>2 DEF ReconcileEndpoint, ReconcileSelect
  <2>. DEFINE to == [d \in S |-> IF d \in retried THEN "retry_scheduled" ELSE "settled"]
  <2>2. to \in [S -> {"settled", "retry_scheduled"}]
    OBVIOUS
  <2>3. status' = [d \in Delivery |-> IF d \in S THEN to[d] ELSE status[d]]
    BY <2>1
  <2>4. started' = {f \in started : About[f] \notin S} /\ UNCHANGED open
    BY <1>2 DEF ReconcileEndpoint, ReconcileSelect
  <2>5. \A d \in S : status[d] = "delivering"
    BY <1>0 DEF ReadsStillHold
  <2>6. Transactions!Moves(S, {"settled", "retry_scheduled"})
    BY <2>0, <2>2, <2>3, MovesAll
  <2>7. Transactions!GiveUp(S)
    BY <2>4, <2>5, <2>6 DEF Transactions!GiveUp
  <2>. QED
    BY <2>0, <2>7 DEF Transactions!Next
<1>. QED
  BY <1>1, <1>2

LEMMA ChangeImplements ==
    ASSUME LocksInv, NEW t \in Change, ChangeAudit(t)
    PROVE  [Transactions!Next]_(Transactions!vars)
<1>. DEFINE S == Cancelled(t)
            e == About[t]
<1>0. t \in Transaction /\ TypeOK /\ ReadsStillHold(t) /\ S \in SUBSET Batch(t) /\ S \in SUBSET Delivery
  BY RowTypes DEF LocksInv, Cancelled, Batch
<1>1. \A d \in S : status[d] \in Waiting /\ Target[d] = e
  BY <1>0 DEF ReadsStillHold, Cancelled, Cancellable, Batch
<1>2. /\ status' = [d \in Delivery |-> IF d \in S THEN "settled" ELSE status[d]]
      /\ UNCHANGED started
      /\ \/ open' = open \ {e}
         \/ S = {} /\ open' \in {open, open \cup ({e} \cap Endpoint)}
  BY <1>0 DEF ChangeAudit
<1>3. CASE e \in Endpoint
  <2>. DEFINE to == [d \in S |-> "settled"]
  <2>1. to \in [S -> {"settled"}]
    OBVIOUS
  <2>2. status' = [d \in Delivery |-> IF d \in S THEN to[d] ELSE status[d]]
    BY <1>2
  <2>3. Transactions!Moves(S, {"settled"})
    BY <1>0, <2>1, <2>2, MovesAll
  <2>4. \/ open' = open \cup {e} /\ S = {}
        \/ open' = open \ {e}
    BY <1>2, <1>3
  <2>5. Transactions!OpenOrClose(e, S)
    BY <1>1, <1>2, <2>3, <2>4 DEF Transactions!OpenOrClose, Transactions!Waiting, Waiting
  <2>. QED
    BY <1>0, <1>3, <2>5 DEF Transactions!Next
<1>4. CASE e \notin Endpoint
  <2>1. S = {}
    BY <1>0, <1>1, <1>4, Subjects
  <2>2. status' = status
    BY <1>0, <1>2, <2>1 DEF TypeOK
  <2>3. open' = open
    <3>1. e \notin open /\ {e} \cap Endpoint = {}
      BY <1>0, <1>4 DEF TypeOK
    <3>. QED
      BY <1>2, <3>1
  <2>. QED
    BY <1>2, <2>2, <2>3 DEF Transactions!vars
<1>. QED
  BY <1>3, <1>4

(***************************************************************************)
(* For any number of transactions, and whatever they wait for and whoever  *)
(* is rolled back, the rows change as if each transaction that commits did *)
(* so at once: the grain of the other modules loses nothing.               *)
(***************************************************************************)
THEOREM LocksImplementTransactions == Spec => ImplementsTransactions
<1>1. LocksInv /\ SlotsAreCounted /\ [Next]_vars => [Transactions!Next]_(Transactions!vars)
  <2>. SUFFICES ASSUME LocksInv, SlotsAreCounted, [Next]_vars
                PROVE  [Transactions!Next]_(Transactions!vars)
    OBVIOUS
  <2>1. CASE UNCHANGED rows
    BY <2>1 DEF rows, Transactions!vars
  <2>2. ASSUME NEW t \in Transaction, Step(t), ~UNCHANGED rows
        PROVE  [Transactions!Next]_(Transactions!vars)
    BY <2>2, ClaimImplements, FinalizeImplements, ReconcileImplements, ChangeImplements
       DEF Step, ChangeRow, ChangeDelivery, IngestOrganization, IngestInsert,
           ReplaySource, ReplayInsert
  <2>. QED
    BY <2>1, <2>2 DEF Next, Sacrifice, vars
<1>. QED
  BY <1>1, InitImplements, LocksProtect, SlotsAlwaysCounted, PTL
     DEF Spec, ImplementsTransactions, Transactions!Spec

-----------------------------------------------------------------------------
(***************************************************************************)
(* What AnswersAreRecorded owes to the order of the locks: the workers,    *)
(* the scheduler and the replays do not depend on the detector among       *)
(* themselves.                                                             *)
(***************************************************************************)
GoesOn(t) ==
    \/ Granted(t)
    \/ t \in Reconcile /\ outcome[t] = "running" /\ held[t] = {}

RunningWaits ==
    \A t \in Transaction :
        outcome[t] = "running" => waits[t] # Nothing \/ (t \in Reconcile /\ held[t] = {})

Ordered == Worker \cup Replay

WorkersGoOn ==
    (\E t \in Ordered : outcome[t] = "running")
        => \E t \in Ordered :
             GoesOn(t) \/ (\E s \in Change \cup Ingest : BlockedBy(t, s))

LEMMA InitHasRunningWaits == Init => RunningWaits
<1>. SUFFICES ASSUME Init, NEW t \in Transaction, t \notin Reconcile
              PROVE  waits[t] # Nothing
  BY DEF Init, RunningWaits
<1>1. \/ t \in Claim \cup Replay \cup Change \cup Finalize /\ waits[t] = About[t]
      \/ t \in Ingest /\ waits[t] = Organization
  BY KindAssumption
     DEF Init, FirstRow, FinalizeOrder, KindAssumption, Transaction, Worker
<1>. QED
  BY <1>1, Subjects DEF Called

\* a transaction that is not over waits for its next row
LEMMA StepLeavesWaiting ==
    ASSUME LocksInv, NEW t \in Transaction, Step(t)
    PROVE  /\ \A s \in Transaction : s # t =>
                 waits'[s] = waits[s] /\ held'[s] = held[s] /\ outcome'[s] = outcome[s]
           /\ outcome'[t] # "running" \/ waits'[t] # Nothing
<1>. TypeOK
  BY DEF LocksInv
<1>1. \A r \in Row : r # Nothing
  BY Subjects
<1>2. todo[t] \subseteq Delivery \cup Endpoint
  BY DEF TypeOK
<1>3. \A r \in Delivery \cup Endpoint \cup {Organization, ApiKey} : r # Nothing
  BY <1>1 DEF Row
<1>. DEFINE Others == \A s \in Transaction : s # t =>
                 waits'[s] = waits[s] /\ held'[s] = held[s] /\ outcome'[s] = outcome[s]
<1>4. ASSUME NEW how \in {"committed", "victim"}, End(t, how)
      PROVE  Others /\ outcome'[t] # "running"
  BY <1>4 DEF End, TypeOK
<1>5. ASSUME NEW next \in Delivery \cup Endpoint \cup {Organization, ApiKey}, Lock(t, next)
      PROVE  Others /\ waits'[t] # Nothing
  BY <1>3, <1>5 DEF Lock, TypeOK
<1>6. CASE t \in Claim /\ (ClaimDelivery(t) \/ ClaimEndpoint(t) \/ ClaimAttempt(t))
  <2>1. \/ Commit(t)
        \/ \E next \in Delivery \cup Endpoint \cup {Organization, ApiKey} : Lock(t, next)
    BY <1>6, Subjects DEF ClaimDelivery, ClaimEndpoint, ClaimAttempt, Called
  <2>. QED
    BY <1>4, <1>5, <2>1 DEF Commit
<1>7. CASE t \in Finalize /\ (FinalizeBegins(t) \/ FinalizeCommits(t))
  <2>1. \/ Commit(t)
        \/ \E next \in Delivery \cup Endpoint \cup {Organization, ApiKey} : Lock(t, next)
    BY <1>7, Subjects DEF FinalizeBegins, FinalizeCommits, FinalizeOrder, Called
  <2>. QED
    BY <1>4, <1>5, <2>1 DEF Commit
<1>8. CASE ReconcileSelect(t)
  <2>1. CASE Commit(t)
    BY <1>4, <2>1 DEF Commit
  <2>2. CASE ~Commit(t)
    <3>1. PICK d \in Delivery : waits' = [waits EXCEPT ![t] = Target[d]]
      BY <1>8, <2>2 DEF ReconcileSelect
    <3>2. waits'[t] # Nothing
      BY <1>3, <3>1, Subjects DEF TypeOK
    <3>3. \A s \in Transaction : s # t => waits'[s] = waits[s]
      BY <3>1 DEF TypeOK
    <3>4. \A s \in Transaction : s # t => held'[s] = held[s] /\ outcome'[s] = outcome[s]
      BY <1>8, <2>2 DEF ReconcileSelect, TypeOK
    <3>. QED
      BY <3>2, <3>3, <3>4
  <2>. QED
    BY <2>1, <2>2
<1>9. CASE t \in Reconcile /\ ReconcileEndpoint(t)
  <2>1. \/ Commit(t)
        \/ \E next \in Delivery \cup Endpoint \cup {Organization, ApiKey} : Lock(t, next)
    BY <1>9, Subjects DEF ReconcileEndpoint, Batch
  <2>. QED
    BY <1>4, <1>5, <2>1 DEF Commit
<1>10. CASE ChangeRow(t) \/ ChangeDelivery(t) \/ ChangeAudit(t)
  <2>1. \/ Commit(t)
        \/ \E next \in Delivery \cup Endpoint \cup {Organization, ApiKey} : Lock(t, next)
    BY <1>2, <1>10 DEF ChangeRow, ChangeDelivery, ChangeAudit
  <2>. QED
    BY <1>4, <1>5, <2>1 DEF Commit
<1>11. CASE t \in Ingest /\ (IngestOrganization(t) \/ IngestInsert(t))
  <2>1. \/ Commit(t)
        \/ \E next \in Delivery \cup Endpoint \cup {Organization, ApiKey} : Lock(t, next)
    BY <1>2, <1>11 DEF IngestOrganization, IngestInsert
  <2>. QED
    BY <1>4, <1>5, <2>1 DEF Commit
<1>12. CASE t \in Replay /\ (ReplaySource(t) \/ ReplayInsert(t))
  <2>1. \/ Commit(t)
        \/ \E next \in Delivery \cup Endpoint \cup {Organization, ApiKey} : Lock(t, next)
    BY <1>12, Subjects DEF ReplaySource, ReplayInsert, Called
  <2>. QED
    BY <1>4, <1>5, <2>1 DEF Commit
<1>. QED
  BY <1>6, <1>7, <1>8, <1>9, <1>10, <1>11, <1>12 DEF Step

LEMMA StepKeepsRunningWaits == LocksInv /\ RunningWaits /\ [Next]_vars => RunningWaits'
<1>. SUFFICES ASSUME LocksInv, RunningWaits, [Next]_vars PROVE RunningWaits'
  OBVIOUS
<1>1. ASSUME NEW t \in Transaction, Step(t) PROVE RunningWaits'
  BY <1>1, StepLeavesWaiting DEF RunningWaits
<1>2. ASSUME NEW t \in Transaction, Sacrifice(t) PROVE RunningWaits'
  BY <1>2 DEF Sacrifice, End, RunningWaits, LocksInv, TypeOK
<1>3. CASE UNCHANGED vars
  BY <1>3 DEF vars, locks, RunningWaits
<1>. QED
  BY <1>1, <1>2, <1>3 DEF Next

\* if everybody in a set waits for somebody in it, some of them are a deadlock
LEMMA StuckHasDeadlock ==
    ASSUME NEW C, IsFiniteSet(C), Stuck(C)
    PROVE  \E D \in SUBSET C : Deadlock(D)
<1>. DEFINE T == {D \in SUBSET C : Stuck(D)}
            R == StrictSubsetOrdering(C)
<1>1. IsWellFoundedOn(R, SUBSET C)
  BY FS_StrictSubsetOrderingWellFounded, FS_FiniteSubsetsOfFinite
<1>2. T \subseteq SUBSET C /\ T # {}
  OBVIOUS
<1>3. PICK D \in T : \A E \in T : <<E, D>> \notin R
  <2>. HIDE DEF T, R
  <2>. QED
    BY <1>1, <1>2, WFMin
<1>4. \A E \in SUBSET D : Stuck(E) => E = D
  <2>. SUFFICES ASSUME NEW E \in SUBSET D, Stuck(E), E # D PROVE FALSE
    OBVIOUS
  <2>1. E \in T
    OBVIOUS
  <2>2. <<E, D>> \in R
    BY DEF StrictSubsetOrdering
  <2>. QED
    BY <1>3, <2>1, <2>2
<1>. QED
  BY <1>3, <1>4 DEF Deadlock

LEMMA OrderedGoOn ==
    ASSUME IsFiniteSet(Ordered), LocksInv, RunningWaits
    PROVE  WorkersGoOn
<1>. SUFFICES ASSUME NEW r \in Ordered, outcome[r] = "running",
                     \A t \in Ordered : ~GoesOn(t),
                     \A t \in Ordered, s \in Change \cup Ingest : ~BlockedBy(t, s)
              PROVE  FALSE
  BY DEF WorkersGoOn
<1>. DEFINE W == {t \in Ordered : waits[t] # Nothing}
<1>0. Ordered \subseteq Transaction /\ Transaction = Ordered \cup Change \cup Ingest
  BY DEF Ordered, Transaction
<1>1. r \in W
  BY <1>0 DEF RunningWaits, GoesOn
<1>2. ASSUME NEW t \in W
      PROVE  \E s \in W : BlockedBy(t, s)
  <2>1. PICK s \in Transaction : BlockedBy(t, s)
    BY DEF GoesOn, Granted
  <2>2. s \in Ordered /\ held[s] # {}
    BY <1>0, <2>1 DEF BlockedBy, Conflict
  <2>3. waits[s] # Nothing
    <3>1. InOrder(s)
      BY DEF LocksInv
    <3>2. s \in Called \cup Reconcile
      BY <2>2 DEF Ordered, Worker, Called
    <3>. QED
      BY <2>2, <3>1, <3>2, Stations, Subjects DEF Ended, Called
  <2>. QED
    BY <2>1, <2>2, <2>3
<1>3. Stuck(W) /\ W \subseteq Blocked \cap Ordered /\ IsFiniteSet(W)
  BY <1>0, <1>1, <1>2, FS_Subset DEF Stuck, Blocked
<1>4. PICK D \in SUBSET W : Deadlock(D)
  <2>. HIDE DEF W
  <2>. QED
    BY <1>3, StuckHasDeadlock
<1>5. D \in SUBSET (Blocked \cap (Worker \cup Replay))
  <2>. HIDE DEF W
  <2>. QED
    BY <1>3 DEF Ordered
<1>. QED
  BY <1>4, <1>5, DeadlocksAreMixed DEF DeadlocksNeedIngestOrChange

(***************************************************************************)
(* As long as finitely many claims, finalizes, reconciles and replays are  *)
(* not over, one of them has the lock it needs or waits for a change or an *)
(* ingest, whatever the database does about deadlocks. It is the order of  *)
(* their locks, delivery, endpoint, organization, that this rests on: with *)
(* the endpoint before the delivery in finalize it is false.               *)
(***************************************************************************)
THEOREM WorkersNeverStuck == IsFiniteSet(Ordered) /\ Spec => []WorkersGoOn
<1>1. Init => LocksInv /\ RunningWaits
  BY InitHasLocksInv, InitHasRunningWaits
<1>2. LocksInv /\ RunningWaits /\ [Next]_vars => (LocksInv /\ RunningWaits)'
  BY StepKeepsLocksInv, StepKeepsRunningWaits
<1>3. CASE IsFiniteSet(Ordered)
  <2>1. LocksInv /\ RunningWaits => WorkersGoOn
    BY <1>3, OrderedGoOn
  <2>. QED
    BY <1>1, <1>2, <2>1, PTL DEF Spec
<1>. QED
  BY <1>3

=============================================================================

------------------------- MODULE DeliveryLifecycle -------------------------
(***************************************************************************)
(* What the platform promises about one delivery, with no outbox, broker,  *)
(* worker, lease or slot in sight: it waits, is attempted at most          *)
(* MaxAttempts times one attempt after the other, and settles once and for *)
(* all. Deliveries are independent; one transaction may move several.      *)
(***************************************************************************)
EXTENDS Naturals

CONSTANTS Delivery, MaxAttempts

VARIABLES
    phase,  \* where each delivery is
    used    \* the attempts it has begun

vars == <<phase, used>>

Settled == {"succeeded", "dead_lettered", "cancelled"}
Phase == {"absent", "waiting", "delivering"} \cup Settled

Init ==
    /\ phase = [d \in Delivery |-> "absent"]
    /\ used = [d \in Delivery |-> 0]

Moves(d, from, to) == phase[d] = from /\ phase'[d] = to
Spends(d, n) == used'[d] = used[d] + n /\ used'[d] <= MaxAttempts

Accept(d) == Moves(d, "absent", "waiting") /\ Spends(d, 0)

Begin(d) == Moves(d, "waiting", "delivering") /\ Spends(d, 1)

\* the endpoint stopped: a waiting delivery never starts
Cancel(d) == Moves(d, "waiting", "cancelled") /\ Spends(d, 0)

\* an attempt that could not be signed is spent without a call
Refuse(d) == Moves(d, "waiting", "dead_lettered") /\ Spends(d, 1)

Succeed(d) == Moves(d, "delivering", "succeeded") /\ Spends(d, 0)

\* a failed or unknown attempt is retried only while attempts are left
Retry(d) == Moves(d, "delivering", "waiting") /\ used[d] < MaxAttempts /\ Spends(d, 0)

GiveUp(d) == Moves(d, "delivering", "dead_lettered") /\ Spends(d, 0)

Rest(d) == phase'[d] = phase[d] /\ used'[d] = used[d]

Step(d) ==
    \/ Accept(d) \/ Begin(d) \/ Cancel(d) \/ Refuse(d)
    \/ Succeed(d) \/ Retry(d) \/ GiveUp(d) \/ Rest(d)

Next ==
    /\ phase' \in [Delivery -> Phase]
    /\ used' \in [Delivery -> 0..MaxAttempts]
    /\ \A d \in Delivery : Step(d)

Spec == Init /\ [][Next]_vars

=============================================================================

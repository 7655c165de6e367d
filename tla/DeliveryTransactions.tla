------------------------ MODULE DeliveryTransactions ------------------------
(***************************************************************************)
(* What the transactions on deliveries and endpoints come to, with no row  *)
(* lock, message, process or counter in sight: each of them happens at     *)
(* once, in some order, and decides by what is so at that moment. A call   *)
(* starts only for a queued delivery of an open endpoint that has fewer    *)
(* deliveries in flight than it takes, and the answer of an attempt counts *)
(* only while nobody has given that attempt up.                            *)
(***************************************************************************)
EXTENDS Integers, FiniteSets

CONSTANTS
    Delivery, Endpoint,
    Target,     \* the endpoint of every delivery
    Attempt,    \* whatever names the attempts at deliveries
    Subject,    \* the delivery of every attempt
    Capacity    \* calls an endpoint takes at once

VARIABLES
    status,     \* where each delivery is; "settled" is any of its ends
    open,       \* the endpoints that are to be called
    started     \* the attempts nobody has ended

vars == <<status, open, started>>

Waiting == {"queued", "retry_scheduled"}
Status == {"absent", "delivering", "settled"} \cup Waiting

InFlight(e) == {d \in Delivery : Target[d] = e /\ status[d] = "delivering"}
HasSlot(d) == Cardinality(InFlight(Target[d])) < Capacity

Init ==
    /\ status \in [Delivery -> Status]
    /\ open \in SUBSET Endpoint
    /\ started \in SUBSET {a \in Attempt : status[Subject[a]] = "delivering"}
    /\ \A a, b \in started : Subject[a] = Subject[b] => a = b
    /\ \A e \in Endpoint : Cardinality(InFlight(e)) <= Capacity

Moves(S, choice) ==
    status' \in {[d \in Delivery |-> IF d \in S THEN to[d] ELSE status[d]] : to \in [S -> choice]}

-----------------------------------------------------------------------------
\* deliveries are created, or their time has come
Enqueue(S) ==
    /\ \A d \in S : status[d] \in {"absent", "retry_scheduled"}
    /\ Moves(S, {"queued"})
    /\ UNCHANGED <<open, started>>

Start(d) ==
    /\ status[d] = "queued" /\ Target[d] \in open /\ HasSlot(d)
    /\ Moves({d}, {"delivering"})
    /\ \/ UNCHANGED started
       \/ \E a \in Attempt : Subject[a] = d /\ started' = started \cup {a}
    /\ UNCHANGED open

\* all calls are taken
Defer(d) ==
    /\ status[d] = "queued" /\ Target[d] \in open /\ ~HasSlot(d)
    /\ Moves({d}, {"retry_scheduled"})
    /\ UNCHANGED <<open, started>>

\* the endpoint is closed, or the attempt, for which there was a slot, is not made
Refuse(d) ==
    /\ status[d] = "queued" /\ (Target[d] \in open => HasSlot(d))
    /\ Moves({d}, {"settled"})
    /\ UNCHANGED <<open, started>>

\* the end of an attempt that nobody has ended before
Record(a) ==
    /\ a \in started
    /\ Moves({Subject[a]}, {"settled", "retry_scheduled"})
    /\ started' = started \ {a}
    /\ UNCHANGED open

\* several deliveries at once, and the attempts at them
GiveUp(S) ==
    /\ \A d \in S : status[d] = "delivering"
    /\ Moves(S, {"settled", "retry_scheduled"})
    /\ started' = {a \in started : Subject[a] \notin S}
    /\ UNCHANGED open

\* an endpoint opens, or it closes and what waits for it is cancelled; what
\* comes to wait while it closes is left for Refuse
OpenOrClose(e, S) ==
    /\ \A d \in S : Target[d] = e /\ status[d] \in Waiting
    /\ \/ open' = open \cup {e} /\ S = {}
       \/ open' = open \ {e}
    /\ Moves(S, {"settled"})
    /\ UNCHANGED started

Next ==
    \/ \E S \in SUBSET Delivery : Enqueue(S) \/ GiveUp(S)
    \/ \E d \in Delivery : Start(d) \/ Defer(d) \/ Refuse(d)
    \/ \E a \in Attempt : Record(a)
    \/ \E e \in Endpoint, S \in SUBSET Delivery : OpenOrClose(e, S)

Spec == Init /\ [][Next]_vars

=============================================================================

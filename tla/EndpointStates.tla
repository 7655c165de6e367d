---------------------------- MODULE EndpointStates ----------------------------
(***************************************************************************)
(* The states an endpoint is promised to go through (spec, section 9,      *)
(* "pending_verification -> active <-> disabled -> deleted; URL change ->  *)
(* pending; deleted terminal"), with what the states are for: only the     *)
(* answer of the receiver at the url makes an endpoint active, work comes  *)
(* only to an active one, and disabling or deleting it cancels what waits. *)
(***************************************************************************)
CONSTANT Url

VARIABLES
    url,       \* where deliveries go
    status,    \* the state
    answered,  \* the urls whose receiver has answered a challenge
    waiting    \* has the endpoint deliveries that wait?

vars == <<url, status, answered, waiting>>

Init ==
    /\ url \in Url
    /\ status = "pending_verification"
    /\ answered = {}
    /\ waiting = FALSE

\* the receiver at the url answers a challenge
Answer ==
    /\ status # "deleted"
    /\ answered' = answered \cup {url}
    /\ UNCHANGED <<url, status, waiting>>

Verify ==
    /\ status # "deleted"
    /\ url \in answered
    /\ status' = "active"
    /\ UNCHANGED <<url, answered, waiting>>

\* another url, or the same one written in another way
ChangeUrl ==
    /\ status # "deleted"
    /\ url' \in Url
    /\ status' = "pending_verification"
    /\ UNCHANGED <<answered, waiting>>

Disable ==
    /\ status = "active"
    /\ status' = "disabled"
    /\ waiting' = FALSE
    /\ UNCHANGED <<url, answered>>

Enable ==
    /\ status = "disabled"
    /\ status' = "active"
    /\ UNCHANGED <<url, answered, waiting>>

Delete ==
    /\ status # "deleted"
    /\ status' = "deleted"
    /\ waiting' = FALSE
    /\ UNCHANGED <<url, answered>>

AddWork ==
    /\ status = "active"
    /\ waiting' = TRUE
    /\ UNCHANGED <<url, status, answered>>

Drain ==
    /\ waiting' = FALSE
    /\ UNCHANGED <<url, status, answered>>

Next == Answer \/ Verify \/ ChangeUrl \/ Disable \/ Enable \/ Delete \/ AddWork \/ Drain

Spec == Init /\ [][Next]_vars

=============================================================================

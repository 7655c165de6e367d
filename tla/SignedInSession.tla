---------------------------- MODULE SignedInSession ----------------------------
(***************************************************************************)
(* What refresh tokens are for: a session that begins with a login, lives  *)
(* in one token at a time, and ends for good. Each renewal is one step: it *)
(* spends the token and gives out one that was never seen before.          *)
(***************************************************************************)
CONSTANT Token

VARIABLES
    usable,  \* the token that renews the session, if it has not ended
    known    \* the tokens given out so far

vars == <<usable, known>>

Init == \E t \in Token : usable = {t} /\ known = {t}

Renew(old, new) ==
    /\ usable = {old}
    /\ new \notin known
    /\ usable' = {new}
    /\ known' = known \cup {new}

\* by a logout, or because a token was used twice
End ==
    /\ usable # {}
    /\ usable' = {}
    /\ UNCHANGED known

Next == End \/ \E old, new \in Token : Renew(old, new)

Spec == Init /\ [][Next]_vars

=============================================================================

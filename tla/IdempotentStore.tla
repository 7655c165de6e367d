--------------------------- MODULE IdempotentStore ---------------------------
(***************************************************************************)
(* What an idempotent operation promises to its clients, with no look,     *)
(* lock, index or rollback in sight: a request is answered at once. The    *)
(* first one of an identity is stored; one that repeats it is told what    *)
(* was stored; one that uses the identity for something else is refused;   *)
(* one that fails leaves nothing behind. There is no other answer.         *)
(***************************************************************************)
CONSTANTS
    Request,      \* one also names what it stores
    Identity,     \* what makes two requests the same
    Content,      \* what they have to agree on then
    Conflict,     \* the answer to a request that does not
    Failure       \* the answers of requests that did nothing

VARIABLES
    told,         \* the answer to each request, with what it asked; {} before
    stored        \* what is stored, with the request it is from

vars == <<told, stored>>

Init ==
    /\ told = [r \in Request |-> {}]
    /\ stored = {}

Answering(r) == told[r] = {} /\ told'[r] # {}

Answer(r, id, c, about) ==
    told' = [told EXCEPT ![r] = {[id |-> id, content |-> c, about |-> about]}]

Store(r, id, c) ==
    /\ Answer(r, id, c, r)
    /\ \A s \in stored : s.id # id
    /\ stored' = stored \cup {[by |-> r, id |-> id, content |-> c]}

Repeat(r, id, c) ==
    /\ \E s \in stored : s.id = id /\ s.content = c /\ Answer(r, id, c, s.by)
    /\ UNCHANGED stored

Refuse(r, id, c) ==
    /\ Answer(r, id, c, Conflict)
    /\ \E s \in stored : s.id = id /\ s.content # c
    /\ UNCHANGED stored

Fail(r, id, c) ==
    /\ \E why \in Failure : Answer(r, id, c, why)
    /\ UNCHANGED stored

Next ==
    \E r \in Request : Answering(r) /\ \E id \in Identity, c \in Content :
        Store(r, id, c) \/ Repeat(r, id, c) \/ Refuse(r, id, c) \/ Fail(r, id, c)

Spec == Init /\ [][Next]_vars

=============================================================================

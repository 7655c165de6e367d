CONSTANTS
    r1 = r1
    r2 = r2
    r3 = r3
    q1 = q1
    q2 = q2
    k1 = k1
    k2 = k2
    c1 = c1
    c2 = c2
    e1 = e1
    NoDelivery = NoDelivery
    Request = {r1, r2, r3}
    Replayer = {q1, q2}
    Key = {k1, k2}
    Content = {c1, c2}
    Endpoint = {e1}
    BacklogLimit = 1
SPECIFICATION Spec
SYMMETRY Symmetry
INVARIANTS
    IngestionInv
    ReplayedOnce
    BacklogBound
    RepeatsAreRecognised
PROPERTIES
    ImplementsIdempotency

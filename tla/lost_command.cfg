CONSTANTS
    d1 = d1
    d2 = d2
    e1 = e1
    e2 = e2
    w1 = w1
    w2 = w2
    p1 = p1
    Delivery = {d1}
    Endpoint = {e1}
    Target <- OneTarget
    Worker = {w1, w2}
    Dispatcher = {p1}
    NoDelivery = NoDelivery
    StatusCode <- Answers
    Capacity = 1
    MaxAttempts = 1
    BatchSize = 2
    RowsPerDelivery = 2
    MaxCopies = 1
    MaxFaults = 2
    ClaimMayFail = TRUE
    CallMayOutliveLease = TRUE
SPECIFICATION Spec
INVARIANTS
    NoLostCommand

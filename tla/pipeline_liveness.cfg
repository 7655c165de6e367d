CONSTANTS
    d1 = d1
    d2 = d2
    e1 = e1
    e2 = e2
    w1 = w1
    w2 = w2
    p1 = p1
    Delivery = {d1, d2}
    Endpoint = {e1}
    Target <- OneTarget
    Worker = {w1}
    Dispatcher = {p1}
    NoDelivery = NoDelivery
    StatusCode <- Answers
    Capacity = 1
    MaxAttempts = 1
    BatchSize = 2
    RowsPerDelivery = 1
    MaxCopies = 1
    MaxFaults = 1
    ClaimMayFail = FALSE
    CallMayOutliveLease = FALSE
SPECIFICATION FairSpec
PROPERTIES
    EventuallySettled

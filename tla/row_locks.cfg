CONSTANTS
    d1 = d1
    d2 = d2
    d3 = d3
    e1 = e1
    e2 = e2
    c1 = c1
    f1 = f1
    s1 = s1
    u1 = u1
    i1 = i1
    q1 = q1
    Organization = Organization
    ApiKey = ApiKey
    Nothing = Nothing
    Claim = {c1}
    Finalize = {f1}
    Reconcile = {s1}
    Change = {u1}
    Ingest = {i1}
    Replay = {q1}
    Delivery = {d1, d2, d3}
    Endpoint = {e1, e2}
    Target <- Targets
    About <- Subjects
    Capacity = 2
    Initially <- Statuses
SPECIFICATION FairSpec
CHECK_DEADLOCK FALSE
INVARIANTS
    LocksInv
    SlotsAreCounted
    DeadlocksNeedIngestOrChange
    AnswersSurvive
PROPERTIES
    ImplementsTransactions
    AnswersAreRecorded

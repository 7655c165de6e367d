CONSTANTS
    MaxDeliveries = 3
    MaxReplays = 2
    BatchSize = 3
    Row = {1, 2, 3}
    CreatedAt <- Created
    Id <- Number
    Ascending = FALSE
    PageSize = 2
    Wanted = {"settled"}
SPECIFICATION ListingSpec
INVARIANTS
    RetentionInv
    NothingMissed
PROPERTIES
    NothingForgottenEarly
    EventuallyForgotten
    PagesInOrder

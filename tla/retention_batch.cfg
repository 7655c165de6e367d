CONSTANTS
    MaxDeliveries = 3
    MaxReplays = 1
    BatchSize = 2
SPECIFICATION FairSpec
PROPERTIES
    EventuallyForgotten

CONSTANTS
    u1 = u1
    u2 = u2
    r1 = r1
    r2 = r2
    Url = {u1, u2}
    Request = {r1, r2}
    Keep = Keep
    MaxChallenges = 3
SPECIFICATION Spec
SYMMETRY Symmetry
INVARIANTS
    EndpointInv
    VerifiedUnlessOverlapped
PROPERTIES
    FollowsStatesUnlessOverlapped
\* nothing can be done with a deleted endpoint
CHECK_DEADLOCK FALSE

CONSTANTS
    u1 = u1
    u2 = u2
    u3 = u3
    k1 = k1
    k2 = k2
    r1 = r1
    r2 = r2
    User = {u1, u2, u3}
    Founder = u1
    Key = {k1}
    EndpointLimit = 1
    Request = {r1, r2}
    NoJob = NoJob
SPECIFICATION Spec
SYMMETRY Symmetry
INVARIANTS
    OrganizationInv
    AlwaysAnOwner
    EndpointsNearLimit
    RevokedKeyEnds
PROPERTIES
    OwnersDecide

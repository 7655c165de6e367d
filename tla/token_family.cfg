CONSTANTS
    r1 = r1
    r2 = r2
    r3 = r3
    Request = {r1, r2, r3}
    MaxTokens = 4
SPECIFICATION Spec
SYMMETRY Symmetry
INVARIANTS
    TokenInv
    OneLiveToken
    ReuseEndsFamily
PROPERTIES
    ImplementsSession

SPECIFICATION Spec
CONSTANTS
    Clients = {c1, c2}
    Subjects = {s1}
    Requests = {r1, r2}
    Grants = {g1}
    Handles = {h1, h2, h3, h4}
    None = None
    c1 = c1
    c2 = c2
    Usage <- Mixed
    Expiration <- Sliding
    AbsoluteLifetime <- Two
    SlidingLifetime <- One
    AccessTokenType <- Jwt
    AccessTokenLifetime <- One
    MaxTime = 3
    MaxInt = 7
SYMMETRY SymmetricValues
INVARIANTS TypeOK RevocationIsFinal OneHandle
PROPERTIES RefreshWindow ConsumedStaysConsumed GrantKept
CHECK_DEADLOCK FALSE

SPECIFICATION Spec
CONSTANTS
    Clients = {c1, c2}
    Subjects = {s1}
    Requests = {r1, r2}
    Grants = {g1}
    Handles = {h1, h2, h3, h4}
    None = None
    c1 = c1
    c2 = c2
    Usage <- Mixed
    Expiration <- AbsoluteThenSliding
    AbsoluteLifetime <- One
    SlidingLifetime <- One
    AccessTokenType <- Reference
    AccessTokenLifetime <- Zero
    MaxTime = 0
    MaxInt = 7
SYMMETRY SymmetricValues
PROPERTIES OwnerOnly
CHECK_DEADLOCK FALSE

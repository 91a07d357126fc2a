SPECIFICATION FairSpec
CONSTANTS
    Clients = {c1}
    Subjects = {s1}
    Requests = {r1, r2}
    Grants = {g1}
    Handles = {h1, h2, h3}
    None = None
    c1 = c1
    c2 = c2
    Usage <- OneTime
    Expiration <- Sliding
    AbsoluteLifetime <- Two
    SlidingLifetime <- One
    AccessTokenType <- Jwt
    AccessTokenLifetime <- One
    MaxTime = 0
    MaxInt = 7
PROPERTIES RevocationEnds
CHECK_DEADLOCK FALSE

\* Two requests at a time and up to three entries, while a withdrawal or a revocation at a
\* time goes through the stores.
SPECIFICATION Spec
CONSTANTS
    Requests = {r1, r2}
    Clearings = {w1}
    Ids = {i1, i2, i3}
    None = None
SYMMETRY SymmetricActors
CHECK_DEADLOCK FALSE
INVARIANTS
    TypeOK
    GrantsAreWithdrawn
    RefreshTokensAreCleared
    AccessTokensGoLast

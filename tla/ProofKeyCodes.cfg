SPECIFICATION Spec
CONSTANTS
    Clients = {c1, c2}
    Subjects = {s1}
    Requests = {r1, r2}
    Codes = {k1}
    Uris = {u1, u2}
    Texts = {t1, t2}
    None = None
    c1 = c1
    c2 = c2
    t1 = t1
    t2 = t2
    u1 = u1
    u2 = u2
    Flow <- Mixed
    RedirectUris <- OneUri
    CodeLifetime <- Zero
    S256 <- Digest
    MaxTime = 1
SYMMETRY SymmetricValues
INVARIANTS TypeOK OneAttempt TokensNeedProof WithdrawalIsFinal
CHECK_DEADLOCK FALSE

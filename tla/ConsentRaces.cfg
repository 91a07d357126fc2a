SPECIFICATION Spec
CONSTANTS
    Tabs = {t1, t2}
    Subjects = {s1}
    Clients = {c1, c2}
    Idps = {local, google}
    LocalIdp = local
    Scopes = {read, profile, offline}
    OfflineAccess = offline
    RequiredScopes = {profile}
    None = None
    c1 = c1
    c2 = c2
    local = local
    google = google
    read = read
    profile = profile
    offline = offline
    RequireConsent = {c1, c2}
    AllowRememberConsent = {c1}
    ClientLocalLogin = {c1, c2}
    EnableLocalLogin = TRUE
    IdPRestrictions <- NoRestrictions
    Accounts <- LocalOnly
    MayBecomeInactive = {}
    RawRequests <- ConsentRequests
    MaxTime = 0
SYMMETRY SymmetricTabs
INVARIANTS TypeOK AskedEveryTime
PROPERTY ConsentBacksIssue
CHECK_DEADLOCK FALSE

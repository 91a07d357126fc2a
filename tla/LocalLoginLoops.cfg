SPECIFICATION FairSpec
CONSTANTS
    Tabs = {t1}
    Subjects = {s1}
    Clients = {c1, c2}
    Idps = {local, google}
    LocalIdp = local
    Scopes = {read, profile, offline}
    OfflineAccess = offline
    RequiredScopes = {profile}
    None = None
    c1 = c1
    c2 = c2
    local = local
    google = google
    read = read
    profile = profile
    offline = offline
    RequireConsent = {c1, c2}
    AllowRememberConsent = {c1}
    ClientLocalLogin = {c1, c2}
    EnableLocalLogin = TRUE
    IdPRestrictions <- GoogleForC1
    Accounts <- LocalOnly
    MayBecomeInactive = {}
    RawRequests <- PlainRequest
    MaxTime = 0

PROPERTY LoginSuffices
CHECK_DEADLOCK FALSE

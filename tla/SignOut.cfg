SPECIFICATION Spec
CONSTANTS
    Users = {u1, u2}
    Clients = {a, b}
    Sids = {i1, i2}
    Tabs = {t1, t2}
    None = None
    a = a
    b = b
    u1 = u1
    u2 = u2
    HasLogoutUri = {a, b}
    SessionRequired = {a}
    ClientPrompts = {b}
    External = {}
    RequireSignOutPrompt = FALSE
    EnableSignOutPrompt = TRUE
    EnableAutoCallback = TRUE
    AutoRedirect = TRUE
    RequireUserForMessage = FALSE
    Persistent = TRUE
    SlidingExpiration = FALSE
    EndSessionEnabled = TRUE
    NullSidsMatch = TRUE
SYMMETRY SymmetricValues
INVARIANTS TypeOK ClientsAccounted CheckSessionTruth SessionKeepsItsId
PROPERTIES SignOutIsForTheUser
CHECK_DEADLOCK FALSE

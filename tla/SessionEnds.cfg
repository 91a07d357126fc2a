SPECIFICATION FairSpec
CONSTANTS
    Users = {u1}
    Clients = {a, b}
    Sids = {i1}
    Tabs = {t1, t2}
    None = None
    a = a
    b = b
    u1 = u1
    u2 = u2
    HasLogoutUri = {a, b}
    SessionRequired = {a}
    ClientPrompts = {b}
    External = {u1}
    RequireSignOutPrompt = FALSE
    EnableSignOutPrompt = TRUE
    EnableAutoCallback = TRUE
    AutoRedirect = TRUE
    RequireUserForMessage = FALSE
    Persistent = FALSE
    SlidingExpiration = FALSE
    EndSessionEnabled = TRUE
    NullSidsMatch = TRUE
PROPERTIES SignOutReachesClients
CHECK_DEADLOCK FALSE

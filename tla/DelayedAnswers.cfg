\* Two callers, four units of time, a cache duration of two and fills of up to one.
SPECIFICATION Spec
CONSTANTS
    Callers = {c1, c2}
    client = client
    user = user
    Clients <- MCClients
    Scopes <- MCScopes
    PublicScopes <- MCPublicScopes
    AllScopesName = 3
    AllScopesPublicName = 4
    Users <- MCUsers
    Questions <- MCQuestions
    MaxQuestions = 2
    Duration = 2
    MaxFill = 1
    LastTime = 4
    MaxVersion = 2
    None = None
SYMMETRY SymmetricCallers
INVARIANTS
    TypeOK
    NewIsFound
PROPERTIES
    AnswersAreRecent

----------------------------- MODULE RefreshTokens -----------------------------
(***************************************************************************)
(* The refresh tokens and reference access tokens of IdentityServer3, and  *)
(* every request that reads or writes their stores: issuing, refreshing,   *)
(* revocation by a client, withdrawal of permissions by a user, and the    *)
(* validation of reference tokens.                                         *)
(*                                                                         *)
(* Requests are served concurrently.  A store call is atomic (the stores   *)
(* are ConcurrentDictionaries), what lies between two calls is not, so an  *)
(* action is one store call, or one read of the clock, of the user service *)
(* or of the shared RefreshToken object.                                   *)
(*                                                                         *)
(* The store keeps a reference to the RefreshToken object, and every       *)
(* refresh stores the SAME object again, perhaps under a new handle.  The  *)
(* identity of that object is what a user granted: it is called a grant.   *)
(***************************************************************************)
EXTENDS Integers, FiniteSets

CONSTANTS
    Clients,            \* client ids
    Subjects,           \* subject ids
    Requests,           \* the requests that may be in progress at a time
    Grants,             \* identities of RefreshToken objects
    Handles,            \* values of CryptoRandom.CreateUniqueId
    None,               \* null
    Usage,              \* Client.RefreshTokenUsage
    Expiration,         \* Client.RefreshTokenExpiration
    AbsoluteLifetime,   \* Client.AbsoluteRefreshTokenLifetime
    SlidingLifetime,    \* Client.SlidingRefreshTokenLifetime
    AccessTokenType,    \* Client.AccessTokenType
    AccessTokenLifetime,\* Client.AccessTokenLifetime
    MaxTime,            \* bound: the clock stops here
    MaxInt              \* Int32.MaxValue

ASSUME NoneAssumption ==
    None \notin Clients \cup Subjects \cup Grants \cup Handles

ASSUME ConfigAssumption ==
    /\ Usage \in [Clients -> {"ReUse", "OneTimeOnly"}]
    /\ Expiration \in [Clients -> {"Sliding", "Absolute"}]
    /\ AccessTokenType \in [Clients -> {"Jwt", "Reference"}]

ASSUME LifetimeAssumption ==
    /\ MaxInt \in Nat
    /\ MaxTime \in Nat
    /\ AbsoluteLifetime \in [Clients -> 0 .. MaxInt]
    /\ SlidingLifetime \in [Clients -> 0 .. MaxInt]
    /\ AccessTokenLifetime \in [Clients -> 0 .. MaxInt]

VARIABLES
    now,            \* DateTimeOffsetHelper.UtcNow, in seconds
    grants,         \* the heap of RefreshToken objects
    refreshTokens,  \* InMemoryRefreshTokenStore: handle -> RefreshToken object
    tokenHandles,   \* InMemoryTokenHandleStore: handle -> access token
    minted,         \* the handles generated so far
    delivered,      \* the handles some response has carried to a client
    requests,       \* the requests in progress: where they are, their locals
    revoked,        \* history: grants a completed revocation covered
    contended,      \* history: grants that were in use while one covered them
    raced           \* history: grants whose old handle was gone when removed

vars == <<now, grants, refreshTokens, tokenHandles, minted, delivered,
          requests, revoked, contended, raced>>

stores == <<grants, refreshTokens, tokenHandles>>
history == <<revoked, contended, raced>>

------------------------------------------------------------------------------
\* Types

Grant == [client: Clients, subject: Subjects, created: Nat, lifeTime: Int]

AccessToken == [client: Clients, subject: Subjects, expires: Nat]

ASSUME RecordAssumption == None \notin Grant \cup AccessToken

RefreshSteps == {"check", "active", "token", "removeOld", "slide", "write", "store"}

Steps == RefreshSteps \cup
    {"idle", "removeExpired", "create", "issue", "reply",
     "removeAccess", "revokeGet", "revokeStart", "revokeRefresh",
     "accessStart", "revokeAccess", "dropAccess"}

Request == [at: Steps, client: Clients \cup {None}, subject: Subjects \cup {None},
            handle: Handles \cup {None}, newHandle: Handles \cup {None},
            accessHandle: Handles \cup {None}, grant: Grants \cup {None},
            created: Nat, lifeTime: Int,
            pending: SUBSET Handles, covered: SUBSET Grants]

Idle == [at |-> "idle", client |-> None, subject |-> None, handle |-> None,
         newHandle |-> None, accessHandle |-> None, grant |-> None,
         created |-> 0, lifeTime |-> 0, pending |-> {}, covered |-> {}]

TypeOK ==
    /\ now \in Nat
    /\ grants \in [Grants -> Grant \cup {None}]
    /\ refreshTokens \in [Handles -> Grants \cup {None}]
    /\ tokenHandles \in [Handles -> AccessToken \cup {None}]
    /\ minted \subseteq Handles
    /\ delivered \subseteq Handles
    /\ requests \in [Requests -> Request]
    /\ revoked \subseteq Grants
    /\ contended \subseteq Grants
    /\ raced \subseteq Grants

------------------------------------------------------------------------------
\* Helpers

At(r, step) == requests[r].at = step

Become(r, request) == requests' = [requests EXCEPT ![r] = request]

Goto(r, step) == Become(r, [requests[r] EXCEPT !.at = step])

Finish(r) == Become(r, Idle)

\* A refresh that has read the grant and may still store it again.
Holds(r, g) == requests[r].grant = g /\ requests[r].at \in RefreshSteps

\* A revocation that is removing, or about to remove, the handles of the grant.
Covers(r, g) == At(r, "revokeRefresh") /\ g \in requests[r].covered

\* Int32 addition, unchecked.
IntAdd(a, b) == ((a + b + MaxInt + 1) % (2 * (MaxInt + 1))) - (MaxInt + 1)

\* DateTimeOffset.HasExceeded(seconds)
HasExceeded(created, seconds) == now > created + seconds

\* The handles a RevokeAsync(subject, client) query selects.
RefreshHandlesOf(s, c) ==
    {h \in Handles : /\ refreshTokens[h] # None
                     /\ grants[refreshTokens[h]].subject = s
                     /\ grants[refreshTokens[h]].client = c}

AccessHandlesOf(s, c) ==
    {h \in Handles : /\ tokenHandles[h] # None
                     /\ tokenHandles[h].subject = s
                     /\ tokenHandles[h].client = c}

\* Bound: a request starts only when the handles, and the RefreshToken object,
\* it may need are left over from what the requests in progress may need.
HandlesPerRequest == IF \E c \in Clients : AccessTokenType[c] = "Reference" THEN 2 ELSE 1

Minting ==
    {r \in Requests :
        requests[r].at \in {"create", "issue", "check", "active", "token", "removeOld"}}

HandlesLeft ==
    Cardinality(Handles \ minted) >= HandlesPerRequest * (1 + Cardinality(Minting))

GrantsLeft ==
    Cardinality({g \in Grants : grants[g] = None})
        > Cardinality({r \in Requests : At(r, "create")})

\* CreateSecurityTokenAsync: a reference token is stored under a new handle,
\* a JWT leaves no trace on the server.
CreateSecurityToken(r, s, created, next) ==
    LET c == requests[r].client IN
    IF AccessTokenType[c] = "Reference"
    THEN \E h \in Handles \ minted :
            /\ tokenHandles' = [tokenHandles EXCEPT ![h] =
                   [client |-> c, subject |-> s, expires |-> created + AccessTokenLifetime[c]]]
            /\ minted' = minted \cup {h}
            /\ Become(r, [requests[r] EXCEPT !.at = next, !.accessHandle = h])
    ELSE Goto(r, next) /\ UNCHANGED <<tokenHandles, minted>>

Init ==
    /\ now = 0
    /\ grants = [g \in Grants |-> None]
    /\ refreshTokens = [h \in Handles |-> None]
    /\ tokenHandles = [h \in Handles |-> None]
    /\ minted = {}
    /\ delivered = {}
    /\ requests = [r \in Requests |-> Idle]
    /\ revoked = {}
    /\ contended = {}
    /\ raced = {}

------------------------------------------------------------------------------
\* Issuing: the token endpoint has validated a code or credentials of the client
\* for the subject, and the scopes ask for offline access or they do not.

BeginIssue(r, s, c, offline) ==
    /\ At(r, "idle")
    /\ HandlesLeft
    /\ offline => GrantsLeft
    /\ Become(r, [Idle EXCEPT !.at = IF offline THEN "create" ELSE "issue",
                               !.client = c, !.subject = s, !.created = now])
    /\ UNCHANGED <<now, stores, minted, delivered, history>>

\* CreateRefreshTokenAsync
CreateRefreshToken(r, g, h) ==
    LET c == requests[r].client IN
    /\ At(r, "create")
    /\ grants[g] = None
    /\ h \notin minted
    /\ grants' = [grants EXCEPT ![g] =
           [client |-> c, subject |-> requests[r].subject, created |-> now,
            lifeTime |-> IF Expiration[c] = "Absolute" THEN AbsoluteLifetime[c]
                                                      ELSE SlidingLifetime[c]]]
    /\ refreshTokens' = [refreshTokens EXCEPT ![h] = g]
    /\ minted' = minted \cup {h}
    /\ Become(r, [requests[r] EXCEPT !.at = "issue", !.newHandle = h])
    /\ UNCHANGED <<now, tokenHandles, delivered, history>>

IssueAccessToken(r) ==
    /\ At(r, "issue")
    /\ CreateSecurityToken(r, requests[r].subject, requests[r].created, "reply")
    /\ UNCHANGED <<now, grants, refreshTokens, delivered, history>>

\* Mutant: a token that was not issued is answered as if it were.
ReplyWithMissingTokens(r) ==
    /\ At(r, "reply")
    /\ delivered' = delivered \cup {requests[r].newHandle, requests[r].accessHandle}
    /\ Finish(r)
    /\ UNCHANGED <<now, stores, minted, history>>

\* The token response carries the handles to the client.
Reply(r) ==
    /\ At(r, "reply")
    /\ delivered' = delivered \cup ({requests[r].newHandle, requests[r].accessHandle} \ {None})
    /\ Finish(r)
    /\ UNCHANGED <<now, stores, minted, history>>

------------------------------------------------------------------------------
\* Refreshing: ValidateRefreshTokenRequestAsync, ProcessRefreshTokenRequestAsync
\* and UpdateRefreshTokenAsync, one store call after the other.

RefreshGet(r, c, h) ==
    LET g == refreshTokens[h] IN
    /\ At(r, "idle")
    /\ HandlesLeft
    /\ g # None
    /\ Become(r, [Idle EXCEPT !.at = "check", !.client = c, !.subject = grants[g].subject,
                               !.handle = h, !.newHandle = h, !.grant = g])
    /\ contended' = IF \E q \in Requests : Covers(q, g) THEN contended \cup {g} ELSE contended
    /\ UNCHANGED <<now, stores, minted, delivered, revoked, raced>>

\* To the removal of what was found expired.  The lifetime that was over is a history: the
\* object may have another one by the time the request removes the handle.
FoundExpired(r, g) ==
    /\ HasExceeded(g.created, g.lifeTime)
    /\ Become(r, [requests[r] EXCEPT !.at = "removeExpired", !.lifeTime = g.lifeTime])

\* Mutant: no client binding.
RefreshCheckAnyClient(r) ==
    LET g == grants[requests[r].grant] IN
    /\ At(r, "check")
    /\ \/ FoundExpired(r, g)
       \/ ~HasExceeded(g.created, g.lifeTime) /\ Goto(r, "active")
    /\ UNCHANGED <<now, stores, minted, delivered, history>>

\* Expiration first, then client binding, then the scopes: the settings of the
\* client may have lost offline_access, or a scope of the grant, at any time.
RefreshCheck(r) ==
    LET g == grants[requests[r].grant] IN
    /\ At(r, "check")
    /\ \/ FoundExpired(r, g)
       \/ /\ ~HasExceeded(g.created, g.lifeTime)
          /\ requests[r].client = g.client
          /\ Goto(r, "active")
       \/ /\ ~HasExceeded(g.created, g.lifeTime)
          /\ Finish(r)
    /\ UNCHANGED <<now, stores, minted, delivered, history>>

RemoveExpired(r) ==
    /\ At(r, "removeExpired")
    /\ refreshTokens' = [refreshTokens EXCEPT ![requests[r].handle] = None]
    /\ Finish(r)
    /\ UNCHANGED <<now, grants, tokenHandles, minted, delivered, history>>

\* The user service finds the user active or disabled.
CheckActive(r) ==
    /\ At(r, "active")
    /\ Goto(r, "token") \/ Finish(r)
    /\ UNCHANGED <<now, stores, minted, delivered, history>>

\* The access token is created and stored before the refresh token is updated.
RefreshAccessToken(r) ==
    LET c == requests[r].client IN
    /\ At(r, "token")
    /\ CreateSecurityToken(r, requests[r].subject, now,
           IF Usage[c] = "OneTimeOnly" THEN "removeOld"
           ELSE IF Expiration[c] = "Sliding" THEN "slide" ELSE "reply")
    /\ UNCHANGED <<now, grants, refreshTokens, delivered, history>>

\* Mutant: a new handle is generated, the old one stays.
RemoveNothing(r, h) ==
    /\ At(r, "removeOld")
    /\ h \notin minted
    /\ minted' = minted \cup {h}
    /\ Become(r, [requests[r] EXCEPT !.at = "store", !.newHandle = h])
    /\ UNCHANGED <<now, stores, delivered, history>>

\* Mutant: the old handle is removed and no new one is generated.
RemoveAndKeepHandle(r, h) ==
    /\ At(r, "removeOld")
    /\ h \notin minted
    /\ refreshTokens' = [refreshTokens EXCEPT ![requests[r].handle] = None]
    /\ Goto(r, "store")
    /\ UNCHANGED <<now, grants, tokenHandles, minted, delivered, history>>

\* RemoveAsync ignores whether TryRemove found anything.
RemoveOld(r, h) ==
    LET old == requests[r].handle IN
    /\ At(r, "removeOld")
    /\ h \notin minted
    /\ refreshTokens' = [refreshTokens EXCEPT ![old] = None]
    /\ raced' = IF refreshTokens[old] = None THEN raced \cup {requests[r].grant} ELSE raced
    /\ minted' = minted \cup {h}
    /\ Become(r, [requests[r] EXCEPT
           !.at = IF Expiration[requests[r].client] = "Sliding" THEN "slide" ELSE "store",
           !.newHandle = h])
    /\ UNCHANGED <<now, grants, tokenHandles, delivered, revoked, contended>>

\* Mutant: no cap.
UncappedLifetime(c, created, t) == IntAdd(t - created, SlidingLifetime[c])

\* The lifetime a refresh at time t gives a grant created at the given time.
NewLifetime(c, created, t) ==
    LET extended == IntAdd(t - created, SlidingLifetime[c]) IN
    IF AbsoluteLifetime[c] # 0 /\ extended > AbsoluteLifetime[c]
    THEN AbsoluteLifetime[c]
    ELSE extended

Slide(r) ==
    /\ At(r, "slide")
    /\ Become(r, [requests[r] EXCEPT
           !.at = "write",
           !.lifeTime = NewLifetime(requests[r].client, grants[requests[r].grant].created, now)])
    /\ UNCHANGED <<now, stores, minted, delivered, history>>

\* Mutant: the object is in the store already, and is not stored again.
WriteNotStored(r) ==
    /\ At(r, "write")
    /\ grants' = [grants EXCEPT ![requests[r].grant].lifeTime = requests[r].lifeTime]
    /\ Goto(r, "reply")
    /\ UNCHANGED <<now, refreshTokens, tokenHandles, minted, delivered, history>>

\* refreshToken.LifeTime = newLifetime, on the object every request shares
WriteLifetime(r) ==
    /\ At(r, "write")
    /\ grants' = [grants EXCEPT ![requests[r].grant].lifeTime = requests[r].lifeTime]
    /\ Goto(r, "store")
    /\ UNCHANGED <<now, refreshTokens, tokenHandles, minted, delivered, history>>

StoreUpdated(r) ==
    /\ At(r, "store")
    /\ refreshTokens' = [refreshTokens EXCEPT ![requests[r].newHandle] = requests[r].grant]
    /\ Goto(r, "reply")
    /\ UNCHANGED <<now, grants, tokenHandles, minted, delivered, history>>

------------------------------------------------------------------------------
\* Revocation: the revocation endpoint, by a client that presents a handle, and
\* the permissions page, by a user for a client.

\* Hint access_token, or no hint.
RevokeAccessGet(r, c, h, hinted) ==
    /\ At(r, "idle")
    /\ \/ /\ tokenHandles[h] # None
          /\ tokenHandles[h].client = c
          /\ Become(r, [Idle EXCEPT !.at = "removeAccess", !.client = c, !.handle = h])
       \/ /\ tokenHandles[h] = None
          /\ ~hinted
          /\ Become(r, [Idle EXCEPT !.at = "revokeGet", !.client = c, !.handle = h])
    /\ UNCHANGED <<now, stores, minted, delivered, history>>

RemoveAccess(r) ==
    /\ At(r, "removeAccess")
    /\ tokenHandles' = [tokenHandles EXCEPT ![requests[r].handle] = None]
    /\ Finish(r)
    /\ UNCHANGED <<now, grants, refreshTokens, minted, delivered, history>>

\* Hint refresh_token.
BeginRevokeRefresh(r, c, h) ==
    /\ At(r, "idle")
    /\ Become(r, [Idle EXCEPT !.at = "revokeGet", !.client = c, !.handle = h])
    /\ UNCHANGED <<now, stores, minted, delivered, history>>

RevokeRefreshGet(r) ==
    LET g == refreshTokens[requests[r].handle] IN
    /\ At(r, "revokeGet")
    /\ IF g # None /\ grants[g].client = requests[r].client
       THEN Become(r, [requests[r] EXCEPT !.at = "revokeStart", !.subject = grants[g].subject])
       ELSE Finish(r)
    /\ UNCHANGED <<now, stores, minted, delivered, history>>

BeginRevokePermissions(r, s, c) ==
    /\ At(r, "idle")
    /\ Become(r, [Idle EXCEPT !.at = "revokeStart", !.client = c, !.subject = s])
    /\ UNCHANGED <<now, stores, minted, delivered, history>>

\* RevokeAsync enumerates the live dictionary and removes the matching keys one
\* by one.  The enumeration is not a snapshot: it meets every key that is there
\* from its start until it gets to it, and may or may not meet one added later.
RevokeStart(r) ==
    LET s == requests[r].subject
        c == requests[r].client
        all == {g \in Grants : grants[g] # None /\ grants[g].subject = s /\ grants[g].client = c}
    IN
    /\ At(r, "revokeStart")
    /\ Become(r, [requests[r] EXCEPT !.at = "revokeRefresh",
                                     !.pending = RefreshHandlesOf(s, c), !.covered = all])
    /\ contended' = contended \cup {g \in all : \E q \in Requests : Holds(q, g)}
    /\ UNCHANGED <<now, stores, minted, delivered, revoked, raced>>

\* Mutant: the key is removed from another store.
RevokeElsewhere(r, h) ==
    /\ At(r, "revokeRefresh")
    /\ h \in RefreshHandlesOf(requests[r].subject, requests[r].client)
    /\ tokenHandles' = [tokenHandles EXCEPT ![h] = None]
    /\ UNCHANGED <<now, grants, refreshTokens, minted, delivered, requests, history>>

RevokeOneRefresh(r, h) ==
    /\ At(r, "revokeRefresh")
    /\ h \in RefreshHandlesOf(requests[r].subject, requests[r].client)
    /\ refreshTokens' = [refreshTokens EXCEPT ![h] = None]
    /\ Become(r, [requests[r] EXCEPT !.pending = @ \ {h}])
    /\ UNCHANGED <<now, grants, tokenHandles, minted, delivered, history>>

\* Mutant: the enumeration ends early.
RevokeRefreshEarly(r) ==
    /\ At(r, "revokeRefresh")
    /\ revoked' = revoked \cup requests[r].covered
    /\ Goto(r, "accessStart")
    /\ UNCHANGED <<now, stores, minted, delivered, contended, raced>>

RevokeRefreshDone(r) ==
    /\ At(r, "revokeRefresh")
    /\ \A h \in requests[r].pending : refreshTokens[h] = None
    /\ revoked' = revoked \cup requests[r].covered
    /\ Become(r, [requests[r] EXCEPT !.at = "accessStart", !.pending = {}, !.covered = {}])
    /\ UNCHANGED <<now, stores, minted, delivered, contended, raced>>

RevokeAccessStart(r) ==
    /\ At(r, "accessStart")
    /\ Become(r, [requests[r] EXCEPT
           !.at = "revokeAccess",
           !.pending = AccessHandlesOf(requests[r].subject, requests[r].client)])
    /\ UNCHANGED <<now, stores, minted, delivered, history>>

RevokeOneAccess(r, h) ==
    /\ At(r, "revokeAccess")
    /\ h \in AccessHandlesOf(requests[r].subject, requests[r].client)
    /\ tokenHandles' = [tokenHandles EXCEPT ![h] = None]
    /\ Become(r, [requests[r] EXCEPT !.pending = @ \ {h}])
    /\ UNCHANGED <<now, grants, refreshTokens, minted, delivered, history>>

RevokeAccessDone(r) ==
    /\ At(r, "revokeAccess")
    /\ \A h \in requests[r].pending : tokenHandles[h] = None
    /\ Finish(r)
    /\ UNCHANGED <<now, stores, minted, delivered, history>>

------------------------------------------------------------------------------
\* Validation of a reference token, which removes an expired one.

ValidateGet(r, h) ==
    /\ At(r, "idle")
    /\ tokenHandles[h] # None
    /\ now >= tokenHandles[h].expires
    /\ Become(r, [Idle EXCEPT !.at = "dropAccess", !.handle = h])
    /\ UNCHANGED <<now, stores, minted, delivered, history>>

DropExpiredAccess(r) ==
    /\ At(r, "dropAccess")
    /\ tokenHandles' = [tokenHandles EXCEPT ![requests[r].handle] = None]
    /\ Finish(r)
    /\ UNCHANGED <<now, grants, refreshTokens, minted, delivered, history>>

------------------------------------------------------------------------------
\* The environment: the clock, and requests that end early.

Tick ==
    /\ now < MaxTime
    /\ now' = now + 1
    /\ UNCHANGED <<stores, minted, delivered, requests, history>>

\* A service the request calls throws, or the connection is lost: what the
\* request has done stays done, what it had still to do is not.
Abort(r) ==
    /\ ~At(r, "idle")
    /\ Finish(r)
    /\ UNCHANGED <<now, stores, minted, delivered, history>>

Arrive(r) ==
    \/ \E s \in Subjects, c \in Clients, offline \in BOOLEAN : BeginIssue(r, s, c, offline)
    \/ \E h \in delivered, c \in Clients : RefreshGet(r, c, h)
    \/ \E h \in delivered, c \in Clients, hinted \in BOOLEAN : RevokeAccessGet(r, c, h, hinted)
    \/ \E h \in delivered, c \in Clients : BeginRevokeRefresh(r, c, h)
    \/ \E s \in Subjects, c \in Clients : BeginRevokePermissions(r, s, c)
    \/ \E h \in delivered : ValidateGet(r, h)

Serve(r) ==
    \/ \E g \in Grants, h \in Handles : CreateRefreshToken(r, g, h)
    \/ IssueAccessToken(r)
    \/ Reply(r)
    \/ RefreshCheck(r)
    \/ RemoveExpired(r)
    \/ CheckActive(r)
    \/ RefreshAccessToken(r)
    \/ \E h \in Handles : RemoveOld(r, h)
    \/ Slide(r)
    \/ WriteLifetime(r)
    \/ StoreUpdated(r)
    \/ RemoveAccess(r)
    \/ RevokeRefreshGet(r)
    \/ RevokeStart(r)
    \/ \E h \in Handles : RevokeOneRefresh(r, h)
    \/ RevokeRefreshDone(r)
    \/ RevokeAccessStart(r)
    \/ \E h \in Handles : RevokeOneAccess(r, h)
    \/ RevokeAccessDone(r)
    \/ DropExpiredAccess(r)

Next ==
    \/ Tick
    \/ \E r \in Requests : Arrive(r) \/ Serve(r) \/ Abort(r)

Spec == Init /\ [][Next]_vars

\* A request in progress is a thread pool work item: it goes on until it ends.
FairSpec == Spec /\ \A r \in Requests : WF_vars(Serve(r))

------------------------------------------------------------------------------
\* Properties

\* A revocation is final: once one that covered a grant has gone through, no
\* handle of the grant is live, now or later, unless a refresh held the grant
\* while it ran (RevokeAsync removes handles, a refresh that has read the grant
\* stores it again whatever happened in between).
RevocationIsFinal ==
    \A g \in revoked \ contended : \A h \in Handles : refreshTokens[h] # g

\* A grant has one live handle, also for a client whose refreshes generate a new
\* handle each time, unless two of them presented the same handle and one found
\* it gone when it removed it (RemoveAsync does not tell).
OneHandle ==
    \A g \in Grants \ raced : \A h1, h2 \in Handles :
        refreshTokens[h1] = g /\ refreshTokens[h2] = g => h1 = h2

\* The configurations for which the code caps the lifetime of a grant: a sliding lifetime
\* above the absolute one is capped when a grant is renewed, and not when it is created.
Capped(c) ==
    \/ Expiration[c] = "Absolute"
    \/ AbsoluteLifetime[c] # 0 /\ SlidingLifetime[c] <= AbsoluteLifetime[c]

\* However often a grant slides, and whichever of the requests that slide it at
\* a time writes last, no refresh is accepted once its absolute lifetime is over.
RefreshWindow ==
    [][\A r \in Requests :
          LET g == grants[requests[r].grant] IN
          At(r, "check") /\ requests'[r].at = "active" /\ Capped(g.client)
              => now <= g.created + AbsoluteLifetime[g.client]]_vars

\* A one-time handle that was given to a client and has left the store, because
\* it was used, revoked or found expired, never becomes valid again: no request
\* that started earlier stores it back.
ConsumedStaysConsumed ==
    [][\A h \in delivered :
          refreshTokens[h] = None /\ refreshTokens'[h] # None
              => Usage[grants[refreshTokens'[h]].client] = "ReUse"]_vars

\* A refresh that has removed the handle it was given, and has still to store the
\* grant under the new one.
Owes(request) ==
    request.at \in {"slide", "write", "store"} /\ Usage[request.client] = "OneTimeOnly"

\* A grant that can be refreshed, or will be able to when a refresh has stored it.
Alive(g) ==
    \/ \E h \in Handles : refreshTokens[h] = g
    \/ \E r \in Requests : Owes(requests[r]) /\ requests[r].grant = g

\* A request removes the handle of the grant because it found the grant expired, and
\* that it still is.
RemovesExpired(r, g) ==
    /\ At(r, "removeExpired") /\ refreshTokens[requests[r].handle] = g
    /\ HasExceeded(grants[g].created, grants[g].lifeTime)

\* A request removes the handle of the grant because it found the grant expired, but
\* another refresh, which had checked it before it expired, has extended it since.
RemovesExtended(r, g) ==
    /\ At(r, "removeExpired") /\ refreshTokens[requests[r].handle] = g
    /\ HasExceeded(grants[g].created, requests[r].lifeTime)
    /\ ~HasExceeded(grants[g].created, grants[g].lifeTime)

\* What ends a grant: it is expired, it is revoked, the refresh fails that has its new
\* handle, or the one race the code loses.
EndedBy(r, g) ==
    \/ RemovesExpired(r, g)
    \/ /\ At(r, "revokeRefresh")
       /\ requests[r].client = grants[g].client /\ requests[r].subject = grants[g].subject
    \/ Owes(requests[r]) /\ requests[r].grant = g /\ At(r, "idle")'
    \/ RemovesExtended(r, g)

\* Requests that interleave lose a live grant in one way only: one finds it expired
\* and removes the handle after another has extended it (the code does not look again).
\* Otherwise a user has to consent again only when the grant is expired at the time it
\* is removed, was revoked, or a refresh failed: neither refreshes that overtake each
\* other, of this grant or of another, nor the removal of an old handle before the new
\* one is stored, lose a grant.
GrantKept ==
    [][\A g \in Grants : Alive(g) /\ ~Alive(g)' => \E r \in Requests : EndedBy(r, g)]_vars

\* Whose request takes a handle out of its store.
RefreshOwnersRequest(r, h) ==
    LET g == grants[refreshTokens[h]]
        request == requests[r]
    IN \/ /\ At(r, "removeExpired") /\ request.handle = h
          /\ HasExceeded(g.created, request.lifeTime)
       \/ At(r, "removeOld") /\ request.handle = h /\ request.client = g.client
       \/ At(r, "revokeRefresh") /\ request.client = g.client /\ request.subject = g.subject

AccessOwnersRequest(r, h) ==
    LET token == tokenHandles[h]
        request == requests[r]
    IN \/ At(r, "dropAccess") /\ request.handle = h /\ now >= token.expires
       \/ At(r, "removeAccess") /\ request.handle = h /\ request.client = token.client
       \/ At(r, "revokeAccess") /\ request.client = token.client /\ request.subject = token.subject

\* No client can take a token away from another, nor from another user of its own: a
\* handle leaves a store when a request of the client it was issued to uses or revokes
\* it, in a revocation for its user and client, or because a request, of any client,
\* found it expired.
OwnerOnly ==
    [][\A h \in Handles :
          /\ refreshTokens[h] # None /\ refreshTokens'[h] = None
                => \E r \in Requests : RefreshOwnersRequest(r, h)
          /\ tokenHandles[h] # None /\ tokenHandles'[h] = None
                => \E r \in Requests : AccessOwnersRequest(r, h)]_vars

\* The handles a revocation found when it started are all removed, unless its
\* request fails.
RevocationEnds ==
    \A r \in Requests, h \in Handles :
        At(r, "revokeRefresh") /\ h \in requests[r].pending
            ~> refreshTokens[h] = None \/ ~At(r, "revokeRefresh")
================================================================================

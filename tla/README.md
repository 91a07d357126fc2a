# IdentityServer3 in TLA+

This directory holds TLA+ models of IdentityServer3 (`src/source/Core`), the
runs that check them with TLC and the theorems TLAPS proves about them. Paths
below are relative to `src/source/Core` unless they say otherwise.

## The system

IdentityServer3 is an OpenID Connect provider and OAuth 2.0 authorization
server that runs as OWIN middleware. Each HTTP request is served by a
controller with its own object graph (Autofac, one lifetime scope per request),
and requests run concurrently on the thread pool. What they share is

* the **stores**, singletons behind `ITransientDataRepository` and its kin:
  authorization codes, refresh tokens, reference tokens, consents. The built-in
  ones are in memory (`Services/InMemory`), the interfaces are meant for
  databases;
* the **caches** in front of the client, scope and user stores;
* the **cookies** of a browser, which its concurrent requests read and replace:
  sign-in and partial sign-in, message cookies, session id, client list.

There is no lock in the core. Every handler is a sequence of awaited calls, and
any other request may run between two of them.

| component | where | state it keeps | operations |
|---|---|---|---|
| refresh tokens | `Services/Default/DefaultRefreshTokenService.cs`, `Services/InMemory/InMemoryRefreshTokenStore.cs` | handle -> RefreshToken object, shared by reference | create, update (remove, slide, store), get, remove, revoke all of a subject and client |
| reference tokens | `Services/Default/DefaultTokenService.cs`, `Services/InMemory/InMemoryTokenHandleStore.cs` | handle -> Token | create, validate and drop when expired, remove, revoke |
| authorization codes | `ResponseHandling/AuthorizeResponseGenerator.cs`, `Validation/TokenRequestValidator.cs`, `Services/InMemory/InMemoryAuthorizationCodeStore.cs` | code -> AuthorizationCode | create at the authorize endpoint, get and remove at the token endpoint, revoke |
| token endpoint | `Endpoints/Connect/TokenEndpointController.cs`, `Validation/TokenRequestValidator.cs`, `ResponseHandling/TokenResponseGenerator.cs` | none of its own | the five grant types, over the stores above |
| revocation endpoint | `Endpoints/Connect/RevocationEndpointController.cs` | none | revoke by access or refresh token handle |
| introspection, userinfo, access token validation | `Endpoints/Connect`, `Validation/TokenValidator.cs`, `ResponseHandling` | none | look a token up, drop it when it has expired |
| client permissions page | `Services/Default/DefaultClientPermissionsService.cs`, `Services/Default/AggregateConsentStore.cs` | none | list, revoke in four stores one after the other |
| consent | `Services/Default/DefaultConsentService.cs`, `Services/InMemory/InMemoryConsentStore.cs` | a List of consents | required?, update, revoke |
| authorize endpoint | `Endpoints/Connect/AuthorizeEndpointController.cs`, `ResponseHandling/AuthorizeInteractionResponseGenerator.cs`, `Validation/AuthorizeRequestValidator.cs` | the request, in the message cookie while the user signs in | validate, decide between login, consent, error and response |
| login and logout pages | `Endpoints/AuthenticationController.cs` | authentication cookies, message cookies | local, external and partial sign-in, resume, logout |
| message cookies | `Configuration/Hosting/MessageCookie.cs` | one cookie per pending sign-in | write with overflow limit, read, clear |
| session and client list cookies | `Configuration/Hosting/SessionCookie.cs`, `ClientListCookie.cs` | session id, clients signed in to | issue, add, clear |
| end session | `Endpoints/Connect/EndSessionController.cs`, `Validation/EndSessionRequestValidator.cs` | sign-out message | logout, front-channel notification of the clients |
| caches | `Services/Caching`, `Extensions/ICacheExtensions.cs`, `Services/Default/DefaultCache.cs` | key -> value with expiry | get, and fill on a miss |
| validation algorithms | `Validation/ScopeValidator.cs`, PKCE and proof-of-possession in `TokenRequestValidator.cs`, secrets parsers and validators | none | pure functions |
| claims, discovery, events, view service, CORS, logging, hosting | `Services/Default`, `ResponseHandling`, `Events`, `Configuration` | none that changes while requests run | formatting, wiring, pass-through |

### What is hard

* A one-time handle or code is read, checked and removed in separate awaited
  calls, and `RemoveAsync` does not say whether it removed anything. Two
  requests with the same handle can both go on.
* A refresh stores the grant again after it has removed it: what a revocation
  in between found is nothing.
* The in-memory store hands out the `RefreshToken` object itself, so that
  concurrent refreshes write one object.
* Lifetimes are `int` seconds added without overflow checks, and compared with
  a clock each step reads for itself.
* Two grants of the same client and user, several tabs of one browser and
  several requests of one client meet in the stores and the cookie jar.
* A request may fail after any awaited call. Nothing is rolled back.
* A cookie is read when the browser sends a request and written when the response
  arrives. Whatever other tabs did in between is overwritten.
* The end of a session reaches the clients by frames of a page, after the sign-out:
  the user may have signed in again, or left, by then.
* A fill of a cache that has read the inner store before a change stores the old value
  after it, for a full duration.
* The decision between login page, consent page and response is made anew for
  every request, from the session and the store as they are then: what a page
  showed may no longer be true when it is submitted.

For each component the properties that make it correct:

| component | what has to hold |
|---|---|
| refresh tokens | a revocation is final; one live handle per grant; a consumed one-time handle stays consumed; no refresh after the absolute lifetime; nobody takes a token away from another |
| authorization codes | one attempt per code; tokens only for the client, URI and verifier of the authorize request; a withdrawal is final |
| authorize endpoint and consent | no scope without a consent that is in force; what cannot be remembered is asked every time; prompts are honoured; a login that was asked for gets the user on |
| permissions over all stores | what a withdrawal covered is gone from consents, refresh tokens, codes and reference tokens |
| message cookies and sign-in | a pending login finds its message, unless the threshold is passed; the number of cookies is bounded; an identity is let in for the login it was presented for |
| session, client list, end session | every client that got a response is notified at sign-out; whoever polls the session notices another user; nobody is signed out unasked but for a client of hers |
| caches | an answer is one the inner store gave to this question, within the cache duration and the time of a fill, as far as keys tell questions apart; a new client is found |
| validation | what the validators accept is what the flow, the scopes and the client allow |

## The modules

In the order they were written, by what depends on what and by what is shared most.

| module | models | proofs | composes, or refines |
|---|---|---|---|
| `RefreshTokens` | the stores of refresh tokens and reference tokens, token and revocation endpoint | `RefreshTokensProofs` | |
| `AuthorizationCodes` | the store of codes, from the authorize endpoint to the token endpoint | `AuthorizationCodesProofs` | hands refresh tokens to `RefreshTokens` |
| `AuthorizeEndpoint` | login, consent and response; the store of consents | `AuthorizeEndpointProofs` | hands out codes of `AuthorizationCodes` |
| `Sessions` | the session of a browser, its client list, sign-out and the notification of the clients | `SessionsProofs`, `SessionListProofs` | begins where the login page of `SignInMessages` ends |
| `SignInMessages` | the login page, the message cookies, external and partial sign-in | `SignInMessagesProofs` | the login of `AuthorizeEndpoint` in detail; refines `PendingLogins` |
| `Caches` | the read-through caches | `CachesProofs` | refines `DelayedStore` |
| `Permissions` | a withdrawal and a revocation across the four stores | `PermissionsProofs` | consents, codes, refresh and access tokens of the first three together |

`PendingLogins` and `DelayedStore` are abstract specifications: what the message
cookies promise to a browser, and what a cache promises to its callers. An `MC`
module instantiates each of the others for TLC.

The modules share no variables. Where two of them meet at a store, the one that
only passes something on has the store as a set of what is in it (`refreshTokens`
in `AuthorizationCodes`); `Permissions` has all four stores, with the data left
out, for the properties that are about what goes from one to the next.

## Conventions

* An action is what a request does between two awaited calls of a store or a
  service: everything of the handler up to the next point where another request
  can run. `requests[r].at`, or `tabs[t].at`, is that point, and the other fields
  are the local variables that live across it.
* `Abort` ends a request at any such point: an exception of a service or a lost
  connection. What was done stays done.
* Handles, codes, clients and scopes are model values. Handles are never
  generated twice (`CryptoRandom.CreateUniqueId`).
* A definition whose comment begins with "Mutant" is a plausible mistake that
  replaces the definition after it. The mutants in `PROJECT.json` show that each
  property notices one.
* Variables called history are not in the code. They remember what a property
  needs and guard no action.

## RefreshTokens

`grants` is the heap of `RefreshToken` objects. `refreshTokens` maps a handle to
an object, because the in-memory store keeps the reference, and a refresh stores
the same object under the old or a new handle. `tokenHandles` is the store of
reference tokens, `requests` the requests in progress.

| code | actions |
|---|---|
| token endpoint, code or password grant | `BeginIssue`, `CreateRefreshToken`, `IssueAccessToken`, `Reply` |
| `ValidateRefreshTokenRequestAsync` | `RefreshGet`, `RefreshCheck`, `RemoveExpired`, `CheckActive` |
| `ProcessRefreshTokenRequestAsync`, `UpdateRefreshTokenAsync` | `RefreshAccessToken`, `RemoveOld`, `Slide`, `WriteLifetime`, `StoreUpdated`, `Reply` |
| revocation endpoint | `RevokeAccessGet`, `RemoveAccess`, `BeginRevokeRefresh`, `RevokeRefreshGet` |
| permissions page | `BeginRevokePermissions` |
| `RevokeAsync` of both stores | `RevokeStart`, `RevokeOneRefresh`, `RevokeRefreshDone`, `RevokeAccessStart`, `RevokeOneAccess`, `RevokeAccessDone` |
| reference token validation | `ValidateGet`, `DropExpiredAccess` |

`RevokeAsync` enumerates a `ConcurrentDictionary` while others write to it, so the
keys it found at the start are removed one by one and later ones may or may not
be met. Lifetimes are `Int32` (`IntAdd` wraps at `MaxInt`).

| run | shows |
|---|---|
| `SlidingTokens` | two requests at a time on a sliding grant, of a client with one-time handles or of one that keeps its handle and where concurrent refreshes write one object: `RevocationIsFinal`, `OneHandle`, `RefreshWindow`, `ConsumedStaysConsumed`, `GrantKept` |
| `TwoClients` | two clients with reference tokens, each presenting the handles of the other: `OwnerOnly` |
| `RevocationLiveness` | under fair requests a revocation gets through what it found |

`RevocationIsFinal` and `OneHandle` name their exceptions: grants a refresh held
while the revocation ran (`contended`), and grants whose old handle was gone
when a refresh removed it (`raced`). Both races are in the code: a refresh that has
read a grant stores it again after a revocation, and two refreshes with one one-time
handle both go on. A sliding lifetime near `Int32.MaxValue` becomes negative at the
first refresh; that only ends the grant, and `RefreshWindow` holds all the same.

`GrantKept` says what may end a grant. Between `RemoveOld` and `StoreUpdated` a grant
with one-time handles is in no store, and the request that is to store it `Owes` it a
handle: it is lost when that request fails. It also ends when it is revoked, and when a
request removes its handle because it is expired at that time (`RemovesExpired`).

Interleaving loses a live grant in one way, which the property names
(`RemovesExtended`) and the run reaches: a request finds the token expired
(`TokenRequestValidator.cs:579`), another that had checked it just before it expired
writes a longer lifetime into the object, and the first removes the handle
(`TokenRequestValidator.cs:585`) without looking again. The user has to consent again
although the token was extended. To tell this from the removal of a token that is
still expired, `FoundExpired` keeps the lifetime that was over in the request. No other
interleaving loses a grant. The run has one grant; that refreshes of other grants do
not take a handle of this one is in the theorem.

Bounds: two requests are enough for every race between two store calls, and the
histories are about pairs of requests. One grant, of either client, lets both requests meet in it.
A refresh takes one new handle, two with reference tokens, and `HandlesLeft` lets
a request start only when the handles it may need are there, so that no run ends
for want of handles in the middle of a request. Four handles allow three
generations of a one-time handle. Three units of time with lifetimes one and two
reach slide, cap and expiry. A sliding lifetime above the absolute one is not
capped when the grant is created, only when it is renewed, although `Client.cs:136`
calls the absolute lifetime the maximum: `RefreshWindow` does not hold for such clients
and leaves them out (`Capped`). `TwoClients` has no clock: reference tokens of
lifetime zero are expired and unexpired ones are those not yet validated.

## AuthorizationCodes

`codes` remembers what each code was issued for and `stored` which codes are in
the store. `refreshTokens` is the set of refresh tokens that came of a code and
of which request; what becomes of them is in `RefreshTokens`, here it is
`LoseToken`.

| code | actions |
|---|---|
| authorize endpoint, response with a code | `Authorize` (with the flow, response type and proof key validation) |
| `ValidateAuthorizationCodeRequestAsync` | `RedeemGet`, `RemoveCode`, `CheckRequest`, `CheckActive` |
| `ProcessAuthorizationCodeRequestAsync` | `IssueTokens`, `Reply` |
| permissions page | `BeginWithdraw`, `WithdrawTokensStart`, `WithdrawToken`, `WithdrawTokensDone`, `WithdrawCodesStart`, `WithdrawCode`, `WithdrawCodesDone` |

| run | shows |
|---|---|
| `ProofKeyCodes` | a hybrid client with proof keys and a code client present codes, URIs and verifiers, their own and the other's, while permissions are withdrawn: `OneAttempt`, `TokensNeedProof`, `WithdrawalIsFinal` |

`S256` is a constant, any function on texts without collisions; the run uses one
without fixed points and the theorem holds for all. `TokensNeedProof` needs this: the
texts a challenge can be made from (`Origins`) are the one the request presents. Two texts are enough: a challenge and one
that is not. One code is enough, for either client: it can be issued before a
withdrawal, during it or after. The clock matters for the lifetime of a code
only.

`OneAttempt` and `WithdrawalIsFinal` name their exceptions. `raced` are codes that
were gone when a request removed them: two requests can read one code before either
removes it, and both are answered. `held` are codes a request had in its hands
when the withdrawal began, and `taken` those read while it was under way: refresh
tokens are revoked before codes, so a code redeemed in between leaves a token.

## AuthorizeEndpoint

One browser with tabs that share `session`, the authentication cookie. A tab is
the request in progress or the page it shows; `raw` holds the parameters, which
travel through the sign-in message and the consent URL. `consents` is the List of
`InMemoryConsentStore` as a sequence per subject and client, and `damaged` says
that racing `List.Add` calls have left a null in it. Each request carries the
session it came with.

| code | actions |
|---|---|
| `Get`, `LoginAsDifferentUser`, `PostConsent` | `Arrive`, `SwitchUser`, `PostConsent` |
| login page, external callback | `Login`, `Return` |
| logout | `Logout` |
| `ProcessLoginAsync`, `ProcessClientLoginAsync` | `ProcessLogin` |
| `ProcessConsentAsync`, `RequiresConsentAsync` | `ProcessConsent` |
| `UpdateConsentAsync`, `InMemoryConsentStore` | `UpdateConsent`, `AddConsent`, `RevokeConsent` |
| `CreateAuthorizeResponseAsync` | `Issue` (the code is in `AuthorizationCodes`, the client list cookie in `Sessions`) |
| permissions page | `Withdraw` |

| run | shows |
|---|---|
| `ConsentRaces` | two tabs give, refuse, remember and reuse consent while it is withdrawn, with offline access and a client that may not remember: `ConsentBacksIssue`, `AskedEveryTime` |
| `SignIn` | every prompt, a provider asked for, `max_age`, restrictions, local logins off, a disabled user: `PromptHonoured`, `AskedEveryTime`, and under fairness, whoever signs in as asked gets past the sign-in: `LoginSuffices` |
| `LocalLoginLoops` | violated: a client with provider restrictions is offered a local login that is then refused, for ever |

The calls of `InMemoryConsentStore` take no lock. `UpdateAsync` is two steps, the query
and the `List.Add`; `RevokeAsync` is one, although it is a query and a `List.Remove`: what
another tab does to the entry in between has the outcome it has before or after the
call, and an `Add` in the middle of the `Remove` loses an entry or damages the list, which
two adds at a time do as well. The properties are about consent that is remembered
although it should not be; none of this adds any.

Behaviours of the code that a reader may not expect are in the model, and the
properties hold with them. Two tabs that agree at a time add an entry each, and
later queries throw. "No" on a consent page is answered with a response when
another tab has had consent remembered meanwhile. A page shown to one user is
submitted for whoever is signed in then, and remembered for that user. And the validator accepts `prompt=select_account`, which
`ProcessConsentAsync` throws on: the request ends in an error (`Fail`).

Bounds: two tabs where the races are about the store, one where the question is
about a single flow. Three scopes are one that is required, one that is not and
offline access. Two moments in time (`MaxTime = 1`) with `max_age=1` and a fraction
of a second between them are on both sides of the comparison. `max_age=0` is left
out of the liveness check: no login is ever fresh enough for it, because
`auth_time` is in whole seconds and the clock is not. `LoginSuffices` lets a flow
go that is overtaken by a sign-out or whose user is disabled. In `SignIn` the
clients and accounts are such that the login page offers only what the endpoint
accepts; `LocalLoginLoops` is the setting where it does not.

## Sessions

The server keeps nothing of a session. `jar` holds the cookies of one browser: who is
signed in (`user`), the session id (`sid`) and the list of the clients (`clients`).
`sessions` are those of the clients, which are external. A tab has one exchange in
flight or shows one page. An exchange is two actions: sending takes a copy of the
cookies, delivering applies what the handler makes of that copy. Handlers touch no
other shared state, so that nothing is lost between the two, and a response that never
arrives is one that is not delivered.

| code | actions |
|---|---|
| `AuthenticationController.SignInAndRedirectAsync`, `SessionCookie.IssueSessionId` | `SignIn` (reads none of these cookies, so that it is one action) |
| authorize response, `ClientListCookie.AddClient`; session_state | `Authorize`, `DeliverAuthorize` |
| `EndSessionController.Logout`, `EndSessionRequestValidator`, `EndSessionResponseGenerator` | `EndSession`, `DeliverEndSession` |
| `AuthenticationController.LogoutPrompt`, `Logout` | `VisitLogout`, `Return`, `DeliverLogoutPrompt`, `Confirm`, `DeliverLogout` |
| `ProcessFederatedSignoutAsync` | `FederatedSignOut`, `DeliverFederatedSignOut` |
| `EndSessionController.LogoutCallback`, `ValidateSid`, `ClearCookies` | `LoadCallback`, `DeliverCallback` |
| the frames of the page, the redirect of `app.js` | `Notify`, `Redirect` |
| expiration, the cookies of a browser that is closed | `TicketExpires`, `SidExpires`, `RestartBrowser`, `Leave` |

| run | shows |
|---|---|
| `SignOut` | two users in two tabs of one browser, two clients, two sign-ins: `ClientsAccounted`, `CheckSessionTruth`, `SessionKeepsItsId`, `SignOutIsForTheUser` |
| `SessionEnds` | under fairness the logged out page ends the sessions of the clients in the list: `SignOutReachesClients` |

`ClientsAccounted` names its exceptions, which are behaviours of the code. `raced`: two
responses that add different clients, or a response and a callback, overwrite each
other's list. `excused` also has the clients that the browser forgot (the list is a
session cookie even where the session is persistent) and those whose frames the
automatic redirect left. A client with `LogoutSessionRequired` that has an earlier
session id is not ended by the id of the page. `SessionKeepsItsId` excepts who signs in
while a callback is in flight (`late`): the response clears the new id.

With `SlidingExpiration`, which is off by default, a late response renews the ticket of
its request: a user can come back under the session id of another, or without one
(`revived`), and a session id that renewals do not extend expires before the ticket
(`latest` is `None`). `SessionKeepsItsId` and `CheckSessionTruth` except these. The run
keeps the default, where nothing needs to be excepted (`WithoutRenewals`); that the
properties hold with renewals too is in their theorems. `NullSidsMatch` is what
`TimeConstantComparer.IsEqual` makes of two nulls, a library of its own. The check
session endpoint is assumed to be on, as it is by default; without it no response has
a session state.

Bounds: two tabs are enough for a race of two responses; two users for a browser that
changes hands; two session ids for an earlier and a later sign-in. One of the clients
requires the session id, the other the prompt. `SessionEnds` has one user with an
external provider, so that the round trip to the provider is in the run.

## SignInMessages

`jar` holds the message cookies of the pending logins and two cookies that all tabs
share: the partial sign-in and the external identity. A tab names the message, and the
resume id, in its URL. Message ids are numbers in the order of `Message.Created`;
resume ids, which are random, are the tab and the message. Exchanges are as in
`Sessions`.

| code | actions |
|---|---|
| `AuthorizeEndpointController.RedirectToLogin`, `MessageCookie.Write`, `ClearOverflow` | `Ask`, `DeliverAsk` |
| `AuthenticationController.Login`, the restart link | `DeliverLogin`, `Restart` |
| `LoginLocal`, `LoginExternal` | `Submit`, `DeliverSubmit` |
| provider, `LoginExternalCallback` | `ReturnFromProvider`, `Callback`, `DeliverCallback` |
| `ResumeLoginFromRedirect` | `Resume`, `DeliverResume` |
| `SignInAndRedirectAsync` | `SignedIn`, `PartlySignedIn` |
| error pages | `TurnedAway`, `Refused` |
| expiration | `ExternalExpires`, `PartialExpires` |

The run `SignInMessages` checks `JarBounded`, `OwnLogin`, `RefusedWithReason` and that
the cookies implement `PendingLogins` (`KeepsPending`): a login is given up only when
there are enough later ones, although who clears cookies decides by those its request
carried. The users of the service may let in, send to a page or turn away at any step,
and a completed login can be submitted again after going back.

Bounds: two tabs and a hidden frame that renews tokens, which asks for logins but does
not show the page (`SecurityHeadersAttribute`). With a threshold of two it takes four
cookies to clear all; four at once need three concurrent requests, and a fifth message
clears them. Numbers of messages are used up, so that the run may stop. Renewal of the
partial cookie by the middleware is left out, as is the name of the last user. The
browser is not closed and opened again, which takes away its session cookies: it would
be a further reason in `RefusedWithReason` for a login that is unknown. Messages have
different `Created` ticks; with equal ones `ClearOverflow` may keep either.

## Caches

All three caches go through `ICacheExtensions.GetAsync`, an awaited question to the
cache, to the inner store and to the cache again. `Begin`, `Get` and `Set` are the
three parts; `Key` is what `GetKey` makes of a question, `Tell` what the inner store
answers, and `Throws` the empty list of claim types, for which `CachingUserService`
throws. `Change` changes what the stores hold, at any time; `Tick` lets time pass and
entries expire. The abstract `DelayedStore` answers from what the store held at some
time in the last `Delay`, which is `Duration + MaxFill - 1`.

Keys are texts, and so are the names they are made of. A name is a sequence of the parts
between its separators, and `Join` puts the names in order one after the other, as
`OrderBy` and `Aggregate` do with a comma: where one name ended is lost. The validator of
an authorize request looks up the scopes of the request as they are
(`AuthorizeRequestValidator.cs:360`), so a name with a comma in it, or one that is the
key of a list of all scopes, is a question like any other, and it has the key of another
question. Then the code gives either of the two the answer to the other one, for as long
as the entry lives: after a request for one scope `openid,profile`, a request for
`openid` and `profile` finds the empty list. `AnswersAreRecent` therefore says what the
code can keep: an answer is recent, and one to that very question when it and the
questions with its key are `Plain`; `TakenFor` has the others. Without that exception
the run has a counterexample of four steps. Subjects are taken to be without a colon,
and the scopes of the configuration without a comma.

`NewIsFound` is about clients, the only answers that can be null. A list without the
scopes that are missing, or without the claims of a user who is, is remembered like any
other, and `AnswersAreRecent` bounds for how long.

The run `DelayedAnswers` checks `NewIsFound` and, as a refinement, `AnswersAreRecent`.
Bounds: two callers, for a fill that overtakes another; a duration of two and fills of
one unit in four units of time, so that an entry expires, is filled late and expires
again; three versions, 0 to 2, for a change back and forth. Two questions at a time are
enough for two that share a key. The ten to choose from differ in each part of a key;
two of them have a name that is not plain.

## Permissions

What a user has given a client moves: a consent becomes a code, a code becomes a
refresh token and an access token, a refresh token another one. `Permissions` follows
it through the four stores while a withdrawal or a revocation goes through them. Each
entry has an `origin`, a history: `old`, from before a withdrawal that has completed,
and `raced`, from a request that was in flight during one.

| code | actions |
|---|---|
| `RequiresConsentAsync`, `UpdateConsentAsync`, `CreateCodeAsync` | `AuthorizeAgain`, `Agree`, `Remember`, `StoreCode` |
| code grant | `GetCode`, `RemoveCode`, `CreateRefresh`, `CreateAccess` |
| refresh grant | `GetRefresh`, `Refuse`, `RefreshAccess`, `StoreSame`, `RemoveOld`, `StoreNew` |
| `ClientPermissionsController.RevokePermission`, `AggregatePermissionsStore` | `Withdraw`, `ClearConsent`, `ClearItem`, `Proceed`, `Complete`, `Fail` |
| `RevokeRefreshTokenAsync` of the revocation endpoint | `Revoke`, then the same |

The run `WithdrawPermissions` checks `GrantsAreWithdrawn`, `RefreshTokensAreCleared`
and `AccessTokensGoLast`: that the access tokens are taken last, the order of
registration in `AutoFacConfig`, leaves fewer exceptions than any other order would.
Bounds: two requests, of which one can turn a code into tokens while the other moves a
refresh token; one withdrawal or revocation at a time; three codes and handles at a
time, of which a used one that nothing knows any more is used again. The access tokens
in the responses of the implicit and the hybrid flow, which the authorize endpoint
creates itself, are left out: `AccessTokensGoLast` is about those of the token endpoint.

## Fairness

Safety is checked without any. `RevocationLiveness` and `SignIn` assume weak fairness of
`Serve`: a request in progress is a work item of the thread pool and goes on until it
ends. `SignIn` also assumes that a browser follows a redirect (`Return`) and that the
user does sign in when the page asks (`Login`): the property is about users who do.
`SessionEnds` assumes weak fairness of `LoadCallback`, `DeliverCallback` and `Notify`: a
browser loads the frames of a page it shows, and the servers answer. No fairness is
assumed of arrivals, the consent page, the clock, failures or sign-outs. Where deadlock
is not checked the models stop when the values of a bound are used up, as no request
has to arrive.

## What is proved

For all values of the constants that satisfy the assumptions next to their
declarations: any number of clients, users, requests or tabs, handles and
scopes, any lifetimes and settings.

`RefreshTokensProofs`

* `TypeCorrect`. `TypeInv` adds to `TypeOK` what a request has to know for its next
  step (`Known`): without it `grants[requests[r].grant]` need not be a record.
* `RevocationFinal`. Inductive invariant `FinalInv`: a grant that a revocation
  covers and no refresh has held is held by nobody now (`Unheld`), and each of its
  live handles is still `pending`. When nothing is pending any more nothing is
  live, and only a holder could store it again.
* `RefreshWindowHolds`. Inductive invariant `LifeInv`: the lifetime of a capped
  grant, and the lifetime a request is about to write into it, are at most the
  absolute one (`Within`, `Bound`). `IntAdd` may give anything; the comparison with
  the absolute lifetime comes after it.
* `HandlesNameOneGrant`. Of the handles there are three more invariants. `MintedInv`: what
  is stored, delivered or carried by a request was generated, and a request about to
  remove an access token still knows it expired or its own. `NamesInv`, the theorem: the
  store and all requests that have read a handle agree on its grant. `OwesInv`: the new
  handle of a refresh that has removed the old one is its own, no client has seen it, and
  nothing is stored under it. `StepKinds` sorts the steps into the four that change what
  handles name and the rest (`Quiet`), which the later lemmas go through.
* `OneHandleHolds`, from `OnceInv`: all that names a grant of a client with reused handles
  is one handle, and a grant with one-time handles that was not raced for is stored or
  owed under one (`Carries`). Without the owed ones it is not inductive: the store of a
  new handle would add to one already there.
* `ConsumedStaysConsumedHolds`: a refresh that stores a handle a client has seen does not
  owe it (`OwesInv`), so that its client is one with reused handles.
* `OwnerOnlyHolds`. A refresh has compared the client with that of its grant (`Accepted`)
  some steps before it removes the handle; `NamesInv` says that what it removes is that
  grant, and `ExpiredInv` the same of a grant found expired. For access tokens it is `MintedInv`, whose handles are not used twice.
* `GrantKeptHolds`. A store that replaced another grant would need two grants for one
  handle, against `NamesInv`; a removal of the old handle leaves the request owing the
  grant; and who owes goes on until it stores the grant or ends. That a removal after the
  check for expiry is of an expired grant, or of one extended since, is `ExpiredInv`: the
  handle such a request removes names the grant it read (`NamesInv`, when it leaves the
  check; no step gives a handle another grant), whose creation time never changes, so
  that what was over stays over. Without the grant and lifetime in it, the invariant would
  say nothing of the object the removal takes out of the store.

`AuthorizationCodesProofs`

* `TypeCorrect`, with `HasProofKey`: a code has a challenge exactly when its client
  uses proof keys.
* `OneAttemptHolds`. `AttemptInv`: while a code is stored nobody is past its
  removal, and at most one request is or was, unless a request found it gone
  when it removed it.
* `ProofNeeded`. `ProofInv`: past the check a request agrees with the code it holds. Its
  verifier is then one of the texts the challenge may have been made from, and there is
  no other, because the digest has no collisions.
* `WithdrawalFinal`. `WithdrawInv`, of the form of `FinalInv`, over both stores.

`AuthorizeEndpointProofs`

* `TypeCorrect`, `AskedEveryTimeHolds` and `PromptHonouredHolds` from `TabInv`, which
  says of each tab (`Good`) what its step, its prompt and its page have to do with
  each other.
* `ConsentBacked`. `KeptInv`: every entry of the store is within what was remembered
  and not revoked since, however many entries races have added.

`SessionsProofs`

* `TypeCorrect`, `SessionIdKept`, `CheckSessionTruthHolds` and `SignOutForTheUser` from
  `Inv`. `GoodTab` says of each tab that a page of a sign-out has another session id
  than that of somebody who is signed in (so that its callback clears nothing of hers),
  that a response in flight is for the user of its session id, and that a sign-out
  message is about the user it began with. `Quiet` is what every step but a sign-in
  does to the cookies: the user changes by a late renewal only, and who is `Signed` keeps
  the session id. No option is assumed.
* `WithoutRenewals`. When `SlidingExpiration` is off `NotRenewed` is inductive, and the
  exceptions about renewals are empty.

`SessionListProofs`

* `ClientsAccountedHolds`, whatever the options. `ListInv`: a callback in flight has
  every client in the list it read that need not be excepted (`Kept`), an authorize
  request all but its own (`GoodRequest`), and who has not raced is alone with the list
  (`Alone`). It needs the session ids of `Inv`.

`CachesProofs`

* `TypeCorrect`, `NewIsFoundHolds` and the refinement `AnswersAreRecentHolds`, from
  `CacheInv`: what is in a cache, or on its way there, is what the store said to a
  question with that key, as long ago as its age says. `OneKeyOneAnswer`: of plain
  questions the key tells the answer. It rests on `KeyAssumption`, that sorting and
  joining plain names neither adds one nor loses one, which TLC evaluates.

`PermissionsProofs`

* `TypeCorrect`, `GrantsAreWithdrawnHolds`, `RefreshTokensAreClearedHolds` and
  `AccessTokensGoLastHolds` from one inductive invariant: what each request carries and
  each withdrawal has still to clear, by the store it has come to (`GoodRequest`,
  `GoodClearing`).

`SignInMessagesProofs`

* `TypeCorrect`, `OwnLoginHolds`, `RefusedWithReasonHolds` and the refinement
  `KeepsPendingHolds`, from `Inv`: a message that has reached the browser is in its
  cookies or gone (`Gone`), a shared cookie pairs a message with the identity that was
  presented for it (`GoodCookies`), and a tab finds the cookies it needs unless its
  message is gone or the tab is disturbed (`GoodTab`). For the refinement, what a request
  counts is part of what has arrived, so that counting it clears nothing too early
  (`ClearedExpendable`).
* `JarBoundedHolds`, from `Inv` and `Room`: in whatever order the responses to any of
  the requests under way arrive, there is room for the messages they bring. The
  response of a request that begins leaves at most `Threshold - 1` of those it saw
  (`OverflowLeaves`).

Only model-checked: the liveness properties `RevocationEnds`, `LoginSuffices` and
`SignOutReachesClients`, which are outside of what the prover does.

## What is not modelled

`PROJECT.json` lists every component with the reason. In short: rendering, events,
localisation, discovery and hosting change nothing; tokens, secrets and signatures are
values; the client, scope and user stores are constants, but for the caches in front
of them; databases in place of the in-memory stores are not in the repository. The
validators are pure functions of a request and a client: their decisions that matter to
what follows (flow, response type, proof keys, prompt) are in the modules that follow,
and what a model of the rest could check is its own translation. The anti-forgery
cookie and the name of the last user are left out. Most scripts of the repository are
vendored libraries of the pages (`HttpAssets/libs`); of its own, `app.js` and the check
session frame are in `Sessions` as far as a session depends on them.

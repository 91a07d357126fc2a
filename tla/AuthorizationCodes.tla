--------------------------- MODULE AuthorizationCodes ---------------------------
(***************************************************************************)
(* Authorization codes: the authorize endpoint stores one for a client and *)
(* a user, the token endpoint redeems it for tokens, and the user may      *)
(* withdraw the permissions of the client while that happens.              *)
(*                                                                         *)
(* As in RefreshTokens an action is one store call, or one read of the     *)
(* clock or of the user service, of a request that runs concurrently with  *)
(* the others.  Of the refresh tokens only their origin is kept: the code, *)
(* and the request that redeemed it.  Access tokens are JWTs, which leave  *)
(* no trace on the server; RefreshTokens has the reference tokens.         *)
(***************************************************************************)
EXTENDS Integers

CONSTANTS
    Clients,        \* client ids
    Subjects,       \* subject ids
    Requests,       \* the requests that may be in progress at a time
    Codes,          \* values of CryptoRandom.CreateUniqueId
    Uris,           \* redirect URIs
    Texts,          \* the strings used as code verifiers and code challenges
    None,           \* null
    Flow,           \* Client.Flow
    RedirectUris,   \* Client.RedirectUris
    CodeLifetime,   \* Client.AuthorizationCodeLifetime
    S256,           \* Base64Url(SHA256(text)), assumed free of collisions
    MaxTime         \* bound: the clock stops here

Flows == {"AuthorizationCode", "AuthorizationCodeWithProofKey", "Implicit",
          "Hybrid", "HybridWithProofKey", "ClientCredentials", "ResourceOwner", "Custom"}

ResponseTypes == {"code", "token", "id_token", "id_token token",
                  "code id_token", "code token", "code id_token token"}

Methods == {"plain", "S256"}

ASSUME NoneAssumption ==
    None \notin Clients \cup Subjects \cup Codes \cup Uris \cup Texts \cup Methods

ASSUME ClientAssumption ==
    /\ Flow \in [Clients -> Flows]
    /\ RedirectUris \in [Clients -> SUBSET Uris]
    /\ CodeLifetime \in [Clients -> Nat]

ASSUME DigestAssumption ==
    /\ S256 \in [Texts -> Texts]
    /\ \A t1, t2 \in Texts : S256[t1] = S256[t2] => t1 = t2

ASSUME TimeAssumption == MaxTime \in Nat

VARIABLES
    now,            \* DateTimeOffsetHelper.UtcNow, in seconds
    codes,          \* the AuthorizationCode objects, by the handle they were stored under
    stored,         \* InMemoryAuthorizationCodeStore: the handles it holds
    refreshTokens,  \* the refresh tokens in their store: <<code, request>>
    requests,       \* the requests in progress
    tried,          \* history: <<code, request>> once parameters were compared
    raced,          \* history: codes that were gone when a request removed them
    withdrawn,      \* history: codes a completed withdrawal covered
    held,           \* history: codes being redeemed when a withdrawal of them began
    taken           \* history: codes read for redemption while one was under way

vars == <<now, codes, stored, refreshTokens, requests, tried, raced,
          withdrawn, held, taken>>

stores == <<codes, stored, refreshTokens>>
history == <<tried, raced, withdrawn, held, taken>>

------------------------------------------------------------------------------
\* Types

Code == [client: Clients, subject: Subjects, uri: Uris,
         challenge: Texts \cup {None}, method: Methods \cup {None},
         offline: BOOLEAN, created: Nat]

RedeemSteps == {"remove", "check", "active", "issue", "reply"}
WithdrawSteps == {"tokens", "codesStart", "codes"}

Request == [at: {"idle", "tokensStart"} \cup RedeemSteps \cup WithdrawSteps,
            client: Clients \cup {None}, subject: Subjects \cup {None},
            code: Codes \cup {None}, uri: Uris \cup {None}, verifier: Texts \cup {None},
            pendingTokens: SUBSET (Codes \X Requests), pendingCodes: SUBSET Codes,
            covered: SUBSET Codes]

Idle == [at |-> "idle", client |-> None, subject |-> None, code |-> None, uri |-> None,
         verifier |-> None, pendingTokens |-> {}, pendingCodes |-> {}, covered |-> {}]

ASSUME RecordAssumption == None \notin Code

\* A code has a challenge and a method when its client uses proof keys, and only then.
ProofKeyFlows == {"AuthorizationCodeWithProofKey", "HybridWithProofKey"}

HasProofKey(code) ==
    /\ (Flow[code.client] \in ProofKeyFlows) <=> (code.challenge # None)
    /\ (Flow[code.client] \in ProofKeyFlows) <=> (code.method # None)

TypeOK ==
    /\ now \in Nat
    /\ codes \in [Codes -> Code \cup {None}]
    /\ \A k \in Codes : codes[k] # None => HasProofKey(codes[k])
    /\ stored \subseteq Codes
    /\ refreshTokens \subseteq Codes \X Requests
    /\ requests \in [Requests -> Request]
    /\ tried \subseteq Codes \X Requests
    /\ raced \subseteq Codes
    /\ withdrawn \subseteq Codes
    /\ held \subseteq Codes
    /\ taken \subseteq Codes

------------------------------------------------------------------------------
\* Helpers

At(r, step) == requests[r].at = step

Become(r, request) == requests' = [requests EXCEPT ![r] = request]

Goto(r, step) == Become(r, [requests[r] EXCEPT !.at = step])

Finish(r) == Become(r, Idle)

\* Requests that have read the code and may still answer it with tokens.
Redeems(r, k) == requests[r].code = k /\ requests[r].at \in RedeemSteps

\* Withdrawals that have started and have not left the store of the codes.
Withdraws(r, k) == requests[r].at \in WithdrawSteps /\ k \in requests[r].covered

OwnedBy(k, s, c) == codes[k] # None /\ codes[k].subject = s /\ codes[k].client = c

UnusedCodes == {k \in Codes : codes[k] = None}

CodesOf(s, c) == {k \in Codes : OwnedBy(k, s, c)}

TokensOf(s, c) == {t \in refreshTokens : OwnedBy(t[1], s, c)}

\* Constants.ResponseTypeToFlowMapping
FlowOfResponseType(type) ==
    CASE type = "code" -> "AuthorizationCode"
      [] type \in {"token", "id_token", "id_token token"} -> "Implicit"
      [] OTHER -> "Hybrid"

\* Constants.ProofKeyFlowToResponseTypesMapping
ProofKeyFlowUses(flow, type) ==
    \/ flow = "AuthorizationCodeWithProofKey" /\ type = "code"
    \/ flow = "HybridWithProofKey" /\ type \in {"code id_token", "code token", "code id_token token"}

\* The flow of an authorize request has to be the one of its client, and be one
\* of those that end with a code.
CodeFlows == {"AuthorizationCode", "Hybrid"} \cup ProofKeyFlows

FlowOfRequest(c, type) ==
    IF ProofKeyFlowUses(Flow[c], type) THEN Flow[c] ELSE FlowOfResponseType(type)

GivesCode(c, type) == FlowOfRequest(c, type) = Flow[c] /\ Flow[c] \in CodeFlows

HasExceeded(created, seconds) == now > created + seconds

\* Mutant: the challenge is compared with the verifier as it is.
PlainMatches(verifier, code) == verifier # None /\ verifier = code.challenge

Matches(verifier, code) ==
    /\ code.challenge # None
    /\ code.method # None
    /\ verifier # None
    /\ IF code.method = "plain" THEN verifier = code.challenge
                                ELSE S256[verifier] = code.challenge

Init ==
    /\ now = 0
    /\ codes = [k \in Codes |-> None]
    /\ stored = {}
    /\ refreshTokens = {}
    /\ requests = [r \in Requests |-> Idle]
    /\ tried = {}
    /\ raced = {}
    /\ withdrawn = {}
    /\ held = {}
    /\ taken = {}

------------------------------------------------------------------------------
\* The authorize endpoint.  The proof key parameters are required, and kept, in
\* the proof key flows only; a missing method means plain.

AuthorizeWith(k, s, c, uri, challenge, method, offline) ==
    /\ codes[k] = None
    /\ codes' = [codes EXCEPT ![k] =
           [client |-> c, subject |-> s, uri |-> uri, challenge |-> challenge,
            method |-> method, offline |-> offline, created |-> now]]
    /\ stored' = stored \cup {k}
    /\ UNCHANGED <<now, refreshTokens, requests, history>>

\* Mutant: the challenge is kept when the client sends one.
AuthorizeLax(k, s, c, type, uri, challenge, method, offline) ==
    /\ GivesCode(c, type)
    /\ uri \in RedirectUris[c]
    /\ AuthorizeWith(k, s, c, uri, challenge, IF method = None THEN "plain" ELSE method, offline)

Authorize(k, s, c, type, uri, challenge, method, offline) ==
    /\ GivesCode(c, type)
    /\ uri \in RedirectUris[c]
    /\ IF Flow[c] \in ProofKeyFlows
       THEN /\ challenge # None
            /\ AuthorizeWith(k, s, c, uri, challenge,
                             IF method = None THEN "plain" ELSE method, offline)
       ELSE AuthorizeWith(k, s, c, uri, None, None, offline)

------------------------------------------------------------------------------
\* The token endpoint: ValidateAuthorizationCodeRequestAsync of a request by an
\* authenticated client, then ProcessAuthorizationCodeRequestAsync.

RedeemGet(r, c, k, uri, verifier) ==
    /\ At(r, "idle")
    /\ Flow[c] \in CodeFlows
    /\ k \in stored
    /\ Become(r, [Idle EXCEPT !.at = "remove", !.client = c, !.code = k, !.uri = uri,
                              !.verifier = verifier])
    /\ taken' = IF \E q \in Requests : Withdraws(q, k) THEN taken \cup {k} ELSE taken
    /\ UNCHANGED <<now, stores, tried, raced, withdrawn, held>>

\* Mutant: the code is removed only for the client it was issued to.
RemoveOwnCode(r) ==
    LET k == requests[r].code IN
    /\ At(r, "remove")
    /\ stored' = IF requests[r].client = codes[k].client THEN stored \ {k} ELSE stored
    /\ raced' = IF k \in stored THEN raced ELSE raced \cup {k}
    /\ Goto(r, "check")
    /\ UNCHANGED <<now, codes, refreshTokens, tried, withdrawn, held, taken>>

\* The code is removed before anything the request says is compared with it, and
\* RemoveAsync does not tell whether it was still there.
RemoveCode(r) ==
    LET k == requests[r].code IN
    /\ At(r, "remove")
    /\ stored' = stored \ {k}
    /\ raced' = IF k \in stored THEN raced ELSE raced \cup {k}
    /\ Goto(r, "check")
    /\ UNCHANGED <<now, codes, refreshTokens, tried, withdrawn, held, taken>>

\* Client binding, proof key, expiration and redirect URI.
Accepts(r, code) ==
    /\ requests[r].client = code.client
    /\ IF Flow[code.client] \in ProofKeyFlows
       THEN Matches(requests[r].verifier, code)
       ELSE requests[r].verifier = None
    /\ ~HasExceeded(code.created, CodeLifetime[requests[r].client])
    /\ requests[r].uri = code.uri

\* Mutant: the verifier is compared with the challenge whatever the method.
CheckPlain(r) ==
    LET k == requests[r].code
        code == codes[k] IN
    /\ At(r, "check")
    /\ tried' = tried \cup {<<k, r>>}
    /\ IF /\ requests[r].client = code.client
          /\ Flow[code.client] \in ProofKeyFlows => PlainMatches(requests[r].verifier, code)
          /\ requests[r].uri = code.uri
       THEN Goto(r, "active") ELSE Finish(r)
    /\ UNCHANGED <<now, stores, raced, withdrawn, held, taken>>

CheckRequest(r) ==
    LET k == requests[r].code IN
    /\ At(r, "check")
    /\ tried' = tried \cup {<<k, r>>}
    /\ IF Accepts(r, codes[k]) THEN Goto(r, "active") ELSE Finish(r)
    /\ UNCHANGED <<now, stores, raced, withdrawn, held, taken>>

\* The user service finds the user active or disabled; the parameters of a proof
\* of possession token are well formed or not.
CheckActive(r) ==
    /\ At(r, "active")
    /\ Goto(r, "issue") \/ Finish(r)
    /\ UNCHANGED <<now, stores, history>>

\* CreateAccessTokenAsync: a refresh token when the scopes of the code have
\* offline_access.
IssueTokens(r) ==
    LET k == requests[r].code IN
    /\ At(r, "issue")
    /\ refreshTokens' = IF codes[k].offline THEN refreshTokens \cup {<<k, r>>} ELSE refreshTokens
    /\ Goto(r, "reply")
    /\ UNCHANGED <<now, codes, stored, history>>

Reply(r) ==
    /\ At(r, "reply")
    /\ Finish(r)
    /\ UNCHANGED <<now, stores, history>>

------------------------------------------------------------------------------
\* The user withdraws the permissions of a client: AggregatePermissionsStore
\* goes through the stores of the consents, the refresh tokens, the codes and the
\* access tokens, in this order.  The keys of a store are removed one by one.

BeginWithdraw(r, s, c) ==
    /\ At(r, "idle")
    /\ Become(r, [Idle EXCEPT !.at = "tokensStart", !.client = c, !.subject = s])
    /\ UNCHANGED <<now, stores, history>>

WithdrawTokensStart(r) ==
    LET s == requests[r].subject
        c == requests[r].client IN
    /\ At(r, "tokensStart")
    /\ Become(r, [requests[r] EXCEPT !.at = "tokens", !.pendingTokens = TokensOf(s, c),
                                     !.covered = CodesOf(s, c)])
    /\ held' = held \cup {k \in CodesOf(s, c) : \E q \in Requests : Redeems(q, k)}
    /\ UNCHANGED <<now, stores, tried, raced, withdrawn, taken>>

WithdrawToken(r, t) ==
    /\ At(r, "tokens")
    /\ t \in TokensOf(requests[r].subject, requests[r].client)
    /\ refreshTokens' = refreshTokens \ {t}
    /\ Become(r, [requests[r] EXCEPT !.pendingTokens = @ \ {t}])
    /\ UNCHANGED <<now, codes, stored, history>>

\* Mutant: the enumeration ends early.
WithdrawTokensEarly(r) ==
    /\ At(r, "tokens")
    /\ Goto(r, "codesStart")
    /\ UNCHANGED <<now, stores, history>>

WithdrawTokensDone(r) ==
    /\ At(r, "tokens")
    /\ requests[r].pendingTokens \cap refreshTokens = {}
    /\ Become(r, [requests[r] EXCEPT !.at = "codesStart", !.pendingTokens = {}])
    /\ UNCHANGED <<now, stores, history>>

WithdrawCodesStart(r) ==
    /\ At(r, "codesStart")
    /\ Become(r, [requests[r] EXCEPT
           !.at = "codes",
           !.pendingCodes = stored \cap CodesOf(requests[r].subject, requests[r].client)])
    /\ UNCHANGED <<now, stores, history>>

WithdrawCode(r, k) ==
    /\ At(r, "codes")
    /\ k \in stored \cap CodesOf(requests[r].subject, requests[r].client)
    /\ stored' = stored \ {k}
    /\ Become(r, [requests[r] EXCEPT !.pendingCodes = @ \ {k}])
    /\ UNCHANGED <<now, codes, refreshTokens, history>>

WithdrawCodesDone(r) ==
    /\ At(r, "codes")
    /\ requests[r].pendingCodes \cap stored = {}
    /\ withdrawn' = withdrawn \cup requests[r].covered
    /\ Finish(r)
    /\ UNCHANGED <<now, stores, tried, raced, held, taken>>

------------------------------------------------------------------------------
\* The environment: other uses of a refresh token, the clock, failing requests.

\* A refresh token leaves its store in one of the ways RefreshTokens describes.
LoseToken(t) ==
    /\ t \in refreshTokens
    /\ refreshTokens' = refreshTokens \ {t}
    /\ UNCHANGED <<now, codes, stored, requests, history>>

Tick ==
    /\ now < MaxTime
    /\ now' = now + 1
    /\ UNCHANGED <<stores, requests, history>>

Abort(r) ==
    /\ ~At(r, "idle")
    /\ Finish(r)
    /\ UNCHANGED <<now, stores, history>>

Arrive(r) ==
    \/ \E k \in stored, c \in Clients, uri \in Uris, verifier \in Texts \cup {None} :
            RedeemGet(r, c, k, uri, verifier)
    \/ \E s \in Subjects, c \in Clients : BeginWithdraw(r, s, c)

Serve(r) ==
    \/ RemoveCode(r)
    \/ CheckRequest(r)
    \/ CheckActive(r)
    \/ IssueTokens(r)
    \/ Reply(r)
    \/ WithdrawTokensStart(r)
    \/ \E t \in refreshTokens : WithdrawToken(r, t)
    \/ WithdrawTokensDone(r)
    \/ WithdrawCodesStart(r)
    \/ \E k \in Codes : WithdrawCode(r, k)
    \/ WithdrawCodesDone(r)

Next ==
    \/ Tick
    \/ \E k \in UnusedCodes, s \in Subjects, c \in Clients,
          type \in ResponseTypes, uri \in Uris,
          challenge \in Texts \cup {None}, method \in Methods \cup {None}, offline \in BOOLEAN :
            Authorize(k, s, c, type, uri, challenge, method, offline)
    \/ \E t \in refreshTokens : LoseToken(t)
    \/ \E r \in Requests : Arrive(r) \/ Serve(r) \/ Abort(r)

Spec == Init /\ [][Next]_vars

------------------------------------------------------------------------------
\* Properties

\* A code is good for one attempt, whoever makes it and however it ends: what a
\* second request says of its client, redirect URI or verifier is never compared
\* with a code, unless it had read the code before the first one removed it.
OneAttempt ==
    \A k \in Codes \ raced : \A r1, r2 \in Requests :
        <<k, r1>> \in tried /\ <<k, r2>> \in tried => r1 = r2

\* The texts an authorize request may have made its challenge from.
Origins(code) ==
    {v \in Texts : IF code.method = "plain" THEN v = code.challenge
                                            ELSE S256[v] = code.challenge}

\* Nobody gets tokens for a code with what passed through the browser alone: they
\* go to the client of the authorize request, for a URI registered for it, and in
\* the proof key flows to who presents the one text the challenge was made from,
\* which is not the challenge when the authorize request announced a digest (but for
\* a text that is its own digest).
TokensNeedProof ==
    \A r \in Requests : requests[r].at \in {"issue", "reply"} =>
        LET code == codes[requests[r].code] IN
        /\ requests[r].client = code.client
        /\ requests[r].uri \in RedirectUris[code.client]
        /\ Flow[code.client] \in ProofKeyFlows => Origins(code) = {requests[r].verifier}

\* A withdrawal that has gone through is final: no code it covered can be
\* redeemed any more, and no refresh token of such a code is left unless a
\* redemption of the code was under way, or began, while it ran.
WithdrawalIsFinal ==
    /\ withdrawn \cap stored = {}
    /\ \A t \in refreshTokens : t[1] \notin withdrawn \ (held \cup taken)
================================================================================

------------------------------ MODULE Permissions ------------------------------
(***************************************************************************)
(* What one user has given one client is in four stores: a consent, codes, *)
(* refresh tokens and reference access tokens.  Requests carry it from one *)
(* store to the next.  The permissions page takes it out of all four, the  *)
(* revocation endpoint, for a refresh token, out of the last two; both go  *)
(* through the stores one after the other, while requests are in flight.   *)
(*                                                                         *)
(* RefreshTokens, AuthorizationCodes and AuthorizeEndpoint have each store *)
(* in detail; this module has what passes between them.  An action is what *)
(* happens from one await of a store to the next.                          *)
(***************************************************************************)
EXTENDS FiniteSets, Naturals

CONSTANTS
    Requests,       \* requests in progress at a time
    Clearings,      \* withdrawals and revocations in progress at a time
    Ids,            \* codes and handles; bound: as many are in use at a time
    None            \* null

VARIABLES
    consent,    \* the entry of the consent store
    codes,      \* the authorization codes in their store
    refresh,    \* the refresh tokens
    access,     \* the reference access tokens
    requests,   \* the requests to the authorize and the token endpoint
    clearings   \* the withdrawals and the revocations in progress

vars == <<consent, codes, refresh, access, requests, clearings>>

------------------------------------------------------------------------------
\* Types

\* What is given, with a history for the properties.  old: it comes from before a
\* withdrawal that has completed, or before such a revocation for what comes from a
\* refresh token.  raced: a withdrawal or a revocation was in progress during a request
\* it comes from.
Origin == [old: BOOLEAN, raced: BOOLEAN]

Item == [id: Ids, origin: Origin]

Steps == {"remember", "storeCode", "removeCode", "createRefresh", "createAccess",
          "refreshAccess", "removeOld", "storeNew", "storeSame"}

\* id is the code or the handle the request came with.  follows: its origin was raced
\* before.  late: a withdrawal or a revocation was at the access tokens meanwhile.
Request == [at: {"idle"} \cup Steps, id: Ids \cup {None}, origin: Origin,
            follows: BOOLEAN, late: BOOLEAN]

\* todo: what the RevokeAsync of the step found when it began and still has to remove.
Clearing == [at: {"idle", "consents", "refresh", "codes", "access"},
             page: BOOLEAN, todo: SUBSET Ids]

Fresh == [old |-> FALSE, raced |-> FALSE]
Idle == [at |-> "idle", id |-> None, origin |-> Fresh, follows |-> FALSE, late |-> FALSE]
Resting == [at |-> "idle", page |-> FALSE, todo |-> {}]

Init ==
    /\ consent = None
    /\ codes = {} /\ refresh = {} /\ access = {}
    /\ requests = [r \in Requests |-> Idle]
    /\ clearings = [w \in Clearings |-> Resting]

------------------------------------------------------------------------------
\* Requests

At(r, step) == requests[r].at = step

Goto(r, step) == requests' = [requests EXCEPT ![r].at = step]

Finish(r) == requests' = [requests EXCEPT ![r] = Idle]

\* A request with something of the given origin, or with the agreement of the user.
Begin(r, step, id, origin) ==
    requests' = [requests EXCEPT ![r] =
        [at |-> step, id |-> id, follows |-> origin.raced,
         origin |-> [origin EXCEPT !.raced = @ \/ \E w \in Clearings : clearings[w].at # "idle"],
         late |-> \E w \in Clearings : clearings[w].at = "access"]]

IdsOf(items) == {item.id : item \in items}
Without(items, id) == {item \in items : item.id # id}

\* Codes and handles are random; here one that nothing knows any more is used again.
Unused ==
    Ids \ (IdsOf(codes \cup refresh \cup access)
            \cup {requests[r].id : r \in Requests}
            \cup UNION {clearings[w].todo : w \in Clearings})

New(id, origin) == [id |-> id, origin |-> origin]

\* Only what excuses an access token is kept with it.
NewAccess(r, id) ==
    New(id, [requests[r].origin EXCEPT !.raced = requests[r].follows \/ requests[r].late])

------------------------------------------------------------------------------
\* The authorize endpoint

\* RequiresConsentAsync finds that the user has agreed before.  The scopes are left out;
\* whether offline access is among them is open until the code is redeemed.
AuthorizeAgain(r) ==
    /\ At(r, "idle")
    /\ consent # None
    /\ Begin(r, "storeCode", None, consent)
    /\ UNCHANGED <<consent, codes, refresh, access, clearings>>

\* The user agrees on the consent page, of a client with AllowRememberConsent.
Agree(r) ==
    /\ At(r, "idle")
    /\ Begin(r, "remember", None, Fresh)
    /\ UNCHANGED <<consent, codes, refresh, access, clearings>>

\* UpdateConsentAsync: the agreement is remembered; when it is for this time only, what
\* was remembered before is revoked.
Remember(r) ==
    /\ At(r, "remember")
    /\ consent' \in {requests[r].origin, None}
    /\ Goto(r, "storeCode")
    /\ UNCHANGED <<codes, refresh, access, clearings>>

\* CreateCodeAsync
StoreCode(r) ==
    /\ At(r, "storeCode")
    /\ \E id \in Unused : codes' = codes \cup {New(id, requests[r].origin)}
    /\ Finish(r)
    /\ UNCHANGED <<consent, refresh, access, clearings>>

------------------------------------------------------------------------------
\* The token endpoint

\* ValidateAuthorizationCodeRequestAsync
GetCode(r) ==
    /\ At(r, "idle")
    /\ \E code \in codes : Begin(r, "removeCode", code.id, code.origin)
    /\ UNCHANGED <<consent, codes, refresh, access, clearings>>

\* The code is removed; the request fails, or it makes tokens, with offline access or
\* without.
RemoveCode(r) ==
    /\ At(r, "removeCode")
    /\ codes' = Without(codes, requests[r].id)
    /\ \/ Finish(r)
       \/ \E step \in {"createRefresh", "createAccess"} : Goto(r, step)
    /\ UNCHANGED <<consent, refresh, access, clearings>>

\* CreateAccessTokenAsync: the refresh token is stored first.
CreateRefresh(r) ==
    /\ At(r, "createRefresh")
    /\ \E id \in Unused : refresh' = refresh \cup {New(id, requests[r].origin)}
    /\ Goto(r, "createAccess")
    /\ UNCHANGED <<consent, codes, access, clearings>>

\* CreateSecurityTokenAsync
CreateAccess(r) ==
    /\ At(r, "createAccess")
    /\ \E id \in Unused : access' = access \cup {NewAccess(r, id)}
    /\ Finish(r)
    /\ UNCHANGED <<consent, codes, refresh, clearings>>

\* ValidateRefreshTokenRequestAsync
GetRefresh(r) ==
    /\ At(r, "idle")
    /\ \E token \in refresh : Begin(r, "refreshAccess", token.id, token.origin)
    /\ UNCHANGED <<consent, codes, refresh, access, clearings>>

\* The token has expired and is removed, or the request is refused for another reason.
Refuse(r) ==
    /\ At(r, "refreshAccess")
    /\ \/ refresh' = Without(refresh, requests[r].id)
       \/ UNCHANGED refresh
    /\ Finish(r)
    /\ UNCHANGED <<consent, codes, access, clearings>>

\* Mutant: the access token is stored under the handle of the refresh token.
RefreshAccessInPlace(r) ==
    /\ At(r, "refreshAccess")
    /\ access' = access \cup {NewAccess(r, requests[r].id)}
    /\ Finish(r) \/ Goto(r, "removeOld") \/ Goto(r, "storeSame")
    /\ UNCHANGED <<consent, codes, refresh, clearings>>

\* ProcessRefreshTokenRequestAsync: the access token first; then the refresh token is
\* left as it is, replaced by a new one (OneTimeOnly) or extended (Sliding).
RefreshAccess(r) ==
    /\ At(r, "refreshAccess")
    /\ \E id \in Unused : access' = access \cup {NewAccess(r, id)}
    /\ Finish(r) \/ Goto(r, "removeOld") \/ Goto(r, "storeSame")
    /\ UNCHANGED <<consent, codes, refresh, clearings>>

\* StoreAsync under the old handle, whether it is still there or not.
StoreSame(r) ==
    /\ At(r, "storeSame")
    /\ refresh' = Without(refresh, requests[r].id) \cup {New(requests[r].id, requests[r].origin)}
    /\ Finish(r)
    /\ UNCHANGED <<consent, codes, access, clearings>>

RemoveOld(r) ==
    /\ At(r, "removeOld")
    /\ refresh' = Without(refresh, requests[r].id)
    /\ Goto(r, "storeNew")
    /\ UNCHANGED <<consent, codes, access, clearings>>

StoreNew(r) ==
    /\ At(r, "storeNew")
    /\ \E id \in Unused : refresh' = refresh \cup {New(id, requests[r].origin)}
    /\ Finish(r)
    /\ UNCHANGED <<consent, codes, access, clearings>>

------------------------------------------------------------------------------
\* Withdrawal and revocation

InFlight(r) == requests[r].at # "idle"

Arrive(w, page, step) ==
    clearings' = [clearings EXCEPT ![w] =
        [at |-> step, page |-> page,
         todo |-> CASE step = "refresh" -> IdsOf(refresh) [] step = "codes" -> IdsOf(codes)
                    [] step = "access" -> IdsOf(access) [] OTHER -> {}]]

\* The requests in flight when a withdrawal or a revocation begins.
Race ==
    requests' = [r \in Requests |->
        IF InFlight(r) THEN [requests[r] EXCEPT !.origin.raced = TRUE] ELSE Idle]

\* RevokePermission: the user withdraws what the client has been given.
Withdraw(w) ==
    /\ clearings[w].at = "idle"
    /\ Arrive(w, TRUE, "consents")
    /\ Race
    /\ UNCHANGED <<consent, codes, refresh, access>>

\* RevokeRefreshTokenAsync: the client revokes one of the refresh tokens.
Revoke(w) ==
    /\ clearings[w].at = "idle"
    /\ refresh # {}
    /\ Arrive(w, FALSE, "refresh")
    /\ Race
    /\ UNCHANGED <<consent, codes, refresh, access>>

\* Mutant: the store of the refresh tokens is left out.
ClearConsentOnly(w) ==
    /\ clearings[w].at = "consents"
    /\ consent' = None
    /\ Arrive(w, TRUE, "codes")
    /\ UNCHANGED <<codes, refresh, access, requests>>

\* RevokeAsync of the consent store: a query for the entry of the client and its removal
\* from a List, without a lock, here in one step.  An entry that is added in between stays,
\* as one that is added after the call; what reads the old one in between does as before
\* the call, and its request is in flight during the withdrawal either way.
ClearConsent(w) ==
    /\ clearings[w].at = "consents"
    /\ consent' = None
    /\ Arrive(w, TRUE, "refresh")
    /\ UNCHANGED <<codes, refresh, access, requests>>

\* RevokeAsync of the other stores: each entry that was there when it began is removed, if
\* it still is there, and those that come while it looks may be.
ClearItem(w) ==
    LET at == clearings[w].at
        found(items) == clearings[w].todo \cup IdsOf(items)
    IN
    \E id \in Ids :
        /\ \/ /\ at = "refresh" /\ id \in found(refresh)
              /\ refresh' = Without(refresh, id)
              /\ UNCHANGED <<codes, access>>
           \/ /\ at = "codes" /\ id \in found(codes)
              /\ codes' = Without(codes, id)
              /\ UNCHANGED <<refresh, access>>
           \/ /\ at = "access" /\ id \in found(access)
              /\ access' = Without(access, id)
              /\ UNCHANGED <<codes, refresh>>
        /\ clearings' = [clearings EXCEPT ![w].todo = @ \ {id}]
        /\ UNCHANGED <<consent, requests>>

\* Mutant: the access tokens are taken before the codes.
StepAfterSwapped(clearing) ==
    CASE clearing.at = "refresh" -> "access"
      [] clearing.at = "access" -> IF clearing.page THEN "codes" ELSE "idle"
      [] clearing.at = "codes" -> "idle"

\* Mutant: the store of the codes is left out.
StepAfterNoCodes(clearing) ==
    IF clearing.at = "refresh" THEN "access" ELSE "idle"

\* AggregatePermissionsStore.RevokeAsync, RevokeRefreshTokenAsync
StepAfter(clearing) ==
    CASE clearing.at = "refresh" -> IF clearing.page THEN "codes" ELSE "access"
      [] clearing.at = "codes" -> "access"
      [] clearing.at = "access" -> "idle"

\* RevokeAsync has removed what it found.
Done(w) == clearings[w].todo = {}

\* On to the next store.
Proceed(w) ==
    LET next == StepAfter(clearings[w]) IN
    /\ clearings[w].at \in {"refresh", "codes", "access"}
    /\ Done(w)
    /\ next # "idle"
    /\ Arrive(w, clearings[w].page, next)
    /\ requests' = [r \in Requests |->
          IF next = "access" /\ InFlight(r) THEN [requests[r] EXCEPT !.late = TRUE]
          ELSE requests[r]]
    /\ UNCHANGED <<consent, codes, refresh, access>>

\* What is left when it is complete is old: all of it for the page, and for a revocation
\* what comes from a refresh token or a redeemed code.
Aged(items) == {[item EXCEPT !.origin.old = TRUE] : item \in items}

Complete(w) ==
    LET page == clearings[w].page IN
    /\ clearings[w].at \in {"refresh", "codes", "access"}
    /\ Done(w)
    /\ StepAfter(clearings[w]) = "idle"
    /\ clearings' = [clearings EXCEPT ![w] = Resting]
    /\ refresh' = Aged(refresh)
    /\ access' = Aged(access)
    /\ codes' = IF page THEN Aged(codes) ELSE codes
    /\ consent' = IF page /\ consent # None THEN [consent EXCEPT !.old = TRUE] ELSE consent
    /\ requests' = [r \in Requests |->
          IF InFlight(r) /\ (page \/ ~requests[r].at \in {"remember", "storeCode"})
          THEN [requests[r] EXCEPT !.origin.old = TRUE] ELSE requests[r]]

\* A store throws, as InMemoryConsentStore does for two entries of one client: the rest
\* stays, and the user or the client may try again.
Fail(w) ==
    /\ clearings[w].at # "idle"
    /\ clearings' = [clearings EXCEPT ![w] = Resting]
    /\ UNCHANGED <<consent, codes, refresh, access, requests>>

Next ==
    \/ \E r \in Requests :
          \/ AuthorizeAgain(r) \/ Agree(r) \/ Remember(r) \/ StoreCode(r)
          \/ GetCode(r) \/ RemoveCode(r) \/ CreateRefresh(r) \/ CreateAccess(r)
          \/ GetRefresh(r) \/ Refuse(r) \/ RefreshAccess(r) \/ StoreSame(r)
          \/ RemoveOld(r) \/ StoreNew(r)
    \/ \E w \in Clearings :
          Withdraw(w) \/ Revoke(w) \/ ClearConsent(w) \/ ClearItem(w)
          \/ Proceed(w) \/ Complete(w) \/ Fail(w)

Spec == Init /\ [][Next]_vars

------------------------------------------------------------------------------
\* Properties

\* The stores hold entries with a history, no two of them with one id.
TypeOK ==
    /\ consent \in Origin \cup {None}
    /\ codes \cup refresh \cup access \subseteq Item
    /\ \A a, b \in codes \cup refresh \cup access : a.id = b.id => a = b
    /\ requests \in [Requests -> Request]
    /\ clearings \in [Clearings -> Clearing]

\* When a withdrawal has completed, a consent or a code that is still there from before
\* comes from a request that was in flight during a withdrawal or a revocation.
GrantsAreWithdrawn ==
    /\ consent # None /\ consent.old => consent.raced
    /\ \A code \in codes : code.origin.old => code.origin.raced

\* The same for refresh tokens, which a revocation takes as well, although a refresh moves
\* them in their store and a code turns into one.
RefreshTokensAreCleared ==
    \A token \in refresh : token.origin.old => token.origin.raced

\* Access tokens are taken last, so that more is true of them: one that is left was stored
\* by a request in flight when the access tokens were taken, or was made later from a
\* code or a refresh token that had survived.  That a request was in flight at some time
\* during the withdrawal is not enough.
AccessTokensGoLast ==
    \A token \in access : token.origin.old => token.origin.raced
================================================================================

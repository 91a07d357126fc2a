-------------------------- MODULE RefreshTokensProofs --------------------------
(***************************************************************************)
(* What holds of the refresh tokens for every number of clients, requests, *)
(* grants and handles, and every setting of the clients.                   *)
(***************************************************************************)
EXTENDS RefreshTokens, TLAPS

------------------------------------------------------------------------------
\* Operators

\* Int32 addition gives an integer, whatever wraps around.
LEMMA IntAddType ==
    ASSUME NEW a \in Int, NEW b \in Int
    PROVE  IntAdd(a, b) \in Int
BY LifetimeAssumption DEF IntAdd

\* A new lifetime is an integer, and not above the absolute lifetime if the
\* client has one.
LEMMA NewLifetimeCapped ==
    ASSUME NEW c \in Clients, NEW created \in Int, NEW t \in Int
    PROVE  /\ NewLifetime(c, created, t) \in Int
           /\ AbsoluteLifetime[c] # 0 => NewLifetime(c, created, t) <= AbsoluteLifetime[c]
<1>1. AbsoluteLifetime[c] \in Int /\ SlidingLifetime[c] \in Int /\ t - created \in Int
  BY LifetimeAssumption
<1>2. IntAdd(t - created, SlidingLifetime[c]) \in Int
  BY <1>1, IntAddType
<1> QED
  BY <1>1, <1>2 DEF NewLifetime

\* An idle request is a request, and one request changes at a time.
LEMMA IdleType == Idle \in Request
BY NoneAssumption DEF Idle, Request, Steps

LEMMA BecomeOne ==
    ASSUME TypeOK, NEW r \in Requests, NEW q \in Request, Become(r, q)
    PROVE  /\ requests' \in [Requests -> Request]
           /\ requests'[r] = q
           /\ \A p \in Requests : p # r => requests'[p] = requests[p]
BY DEF TypeOK, Become

------------------------------------------------------------------------------
\* Type correctness.  TypeOK is not inductive: a request has to know the client,
\* the subject, the handle or the grant its next step uses.

Issuing == {"create", "issue"}
Revoking == {"revokeStart", "revokeRefresh", "accessStart", "revokeAccess"}
Removing == {"removeExpired", "removeAccess", "dropAccess", "revokeGet"}

Known(q, heap) ==
    /\ q.at \in Issuing \cup Revoking \cup RefreshSteps
          => q.client \in Clients /\ q.subject \in Subjects
    /\ q.at \in Removing \cup RefreshSteps => q.handle \in Handles
    /\ q.at \in RefreshSteps
          => q.newHandle \in Handles /\ q.grant \in Grants /\ heap[q.grant] # None

TypeInv ==
    /\ TypeOK
    /\ \A r \in Requests : Known(requests[r], grants)
    /\ \A h \in Handles : refreshTokens[h] # None => grants[refreshTokens[h]] # None

LEMMA TypeInit == Init => TypeInv
BY NoneAssumption DEF Init, TypeInv, TypeOK, Idle, Request, Steps, Known,
                      Issuing, Revoking, Removing, RefreshSteps

\* It is enough to look at the request that takes the step.
LEMMA KnownStep ==
    ASSUME TypeInv, NEW r \in Requests, NEW q \in Request, Become(r, q),
           Known(q, grants'), \A g \in Grants : grants[g] # None => grants'[g] # None
    PROVE  \A p \in Requests : Known(requests'[p], grants')
<1> SUFFICES ASSUME NEW p \in Requests PROVE Known(requests'[p], grants')
  OBVIOUS
<1>1. CASE p = r
  BY <1>1, BecomeOne DEF TypeInv
<1>2. CASE p # r
  <2>1. requests'[p] = requests[p] /\ Known(requests[p], grants)
    BY <1>2, BecomeOne DEF TypeInv
  <2> QED
    BY <2>1 DEF Known
<1> QED
  BY <1>1, <1>2

\* A step that changes no store and no clock.
LEMMA LocalStep ==
    ASSUME TypeInv, NEW r \in Requests, NEW q \in Request, Become(r, q), Known(q, grants'),
           UNCHANGED <<now, stores, minted, delivered>>,
           revoked' \subseteq Grants, contended' \subseteq Grants, raced' \subseteq Grants
    PROVE  TypeInv'
<1>1. \A p \in Requests : Known(requests'[p], grants')
  BY KnownStep DEF stores
<1>2. requests' \in [Requests -> Request]
  BY BecomeOne DEF TypeInv
<1> QED
  BY <1>1, <1>2 DEF TypeInv, TypeOK, stores

LEMMA FinishStep ==
    ASSUME TypeInv, NEW r \in Requests, Finish(r)
    PROVE  /\ Become(r, Idle) /\ Idle \in Request
           /\ Known(Idle, grants')
BY IdleType DEF Finish, Known, Idle, Issuing, Revoking, Removing, RefreshSteps

LEMMA SecurityTokenStep ==
    ASSUME TypeInv, NEW r \in Requests, NEW s \in Subjects, NEW t \in Nat, NEW next \in Steps,
           requests[r].client \in Clients, CreateSecurityToken(r, s, t, next)
    PROVE  /\ tokenHandles' \in [Handles -> AccessToken \cup {None}]
           /\ minted' \subseteq Handles /\ minted \subseteq minted'
           /\ \E a \in Handles \cup {None} :
                 LET q == [requests[r] EXCEPT !.at = next, !.accessHandle = a] IN
                 /\ q \in Request /\ Become(r, q)
                 /\ a = requests[r].accessHandle \/ a \notin minted
<1> DEFINE c == requests[r].client
<1>1. requests[r] \in Request
  BY DEF TypeInv, TypeOK
<1>2. CASE AccessTokenType[c] = "Reference"
  <2>1. PICK h \in Handles \ minted :
            /\ tokenHandles' = [tokenHandles EXCEPT ![h] =
                   [client |-> c, subject |-> s, expires |-> t + AccessTokenLifetime[c]]]
            /\ minted' = minted \cup {h}
            /\ Become(r, [requests[r] EXCEPT !.at = next, !.accessHandle = h])
    BY <1>2 DEF CreateSecurityToken
  <2>2. [client |-> c, subject |-> s, expires |-> t + AccessTokenLifetime[c]] \in AccessToken
    BY LifetimeAssumption DEF AccessToken
  <2>3. tokenHandles' \in [Handles -> AccessToken \cup {None}]
    BY <2>1, <2>2 DEF TypeInv, TypeOK
  <2>4. [requests[r] EXCEPT !.at = next, !.accessHandle = h] \in Request
    BY <1>1 DEF Request
  <2> QED
    BY <2>1, <2>3, <2>4 DEF TypeInv, TypeOK
<1>3. CASE AccessTokenType[c] # "Reference"
  <2>1. Become(r, [requests[r] EXCEPT !.at = next]) /\ UNCHANGED <<tokenHandles, minted>>
    BY <1>3 DEF CreateSecurityToken, Goto
  <2>2. [requests[r] EXCEPT !.at = next] \in Request
    BY <1>1 DEF Request
  <2>3. [requests[r] EXCEPT !.at = next]
            = [requests[r] EXCEPT !.at = next, !.accessHandle = requests[r].accessHandle]
    BY <1>1 DEF Request
  <2>4. requests[r].accessHandle \in Handles \cup {None}
    BY <1>1 DEF Request
  <2> QED
    BY <2>1, <2>2, <2>3, <2>4 DEF TypeInv, TypeOK
<1> QED
  BY <1>2, <1>3

LEMMA TypeBeginIssue ==
    ASSUME TypeInv, NEW r \in Requests, NEW s \in Subjects, NEW c \in Clients,
           NEW offline \in BOOLEAN, BeginIssue(r, s, c, offline)
    PROVE  TypeInv'
<1> DEFINE q == [Idle EXCEPT !.at = IF offline THEN "create" ELSE "issue",
                             !.client = c, !.subject = s, !.created = now]
<1>1. q \in Request
  BY IdleType DEF TypeInv, TypeOK, Request, Steps
<1>2. Known(q, grants')
  BY DEF Known, Idle, Issuing, Revoking, Removing, RefreshSteps
<1> QED
  BY <1>1, <1>2, LocalStep DEF BeginIssue, history, TypeInv, TypeOK

LEMMA TypeCreateRefreshToken ==
    ASSUME TypeInv, NEW r \in Requests, NEW g \in Grants, NEW h \in Handles,
           CreateRefreshToken(r, g, h)
    PROVE  TypeInv'
<1> DEFINE q == [requests[r] EXCEPT !.at = "issue", !.newHandle = h]
<1>1. requests[r] \in Request /\ requests[r].client \in Clients /\ requests[r].subject \in Subjects
  BY DEF CreateRefreshToken, At, TypeInv, TypeOK, Known, Issuing
<1>2. q \in Request
  BY <1>1 DEF Request, Steps
<1>3. Known(q, grants')
  BY <1>1 DEF Known, Request, Issuing, Revoking, Removing, RefreshSteps
<1> DEFINE c == requests[r].client
           new == [client |-> c, subject |-> requests[r].subject, created |-> now,
                   lifeTime |-> IF Expiration[c] = "Absolute" THEN AbsoluteLifetime[c]
                                                             ELSE SlidingLifetime[c]]
<1>4. new \in Grant
  BY <1>1, LifetimeAssumption DEF Grant, TypeInv, TypeOK
<1>9. grants' = [grants EXCEPT ![g] = new]
  BY DEF CreateRefreshToken
<1> HIDE DEF new
<1>5. /\ grants' \in [Grants -> Grant \cup {None}]
      /\ grants'[g] # None
      /\ \A k \in Grants : grants[k] # None => grants'[k] # None
  BY <1>4, <1>9, RecordAssumption DEF TypeInv, TypeOK
<1>6. Become(r, q)
  BY DEF CreateRefreshToken
<1>8. requests' \in [Requests -> Request] /\ \A p \in Requests : Known(requests'[p], grants')
  BY <1>2, <1>3, <1>5, <1>6, KnownStep, BecomeOne DEF TypeInv
<1>7. \A k \in Handles : refreshTokens'[k] # None => grants'[refreshTokens'[k]] # None
  BY <1>5 DEF CreateRefreshToken, TypeInv, TypeOK
<1> QED
  BY <1>5, <1>7, <1>8 DEF CreateRefreshToken, TypeInv, TypeOK, history

\* A request that goes to a step that needs no more than it knows, or ends.
LEMMA GotoStep ==
    ASSUME TypeInv, NEW r \in Requests, NEW step \in Steps,
           Known([requests[r] EXCEPT !.at = step], grants), Goto(r, step),
           UNCHANGED <<now, stores, minted, delivered, history>>
    PROVE  TypeInv'
<1> DEFINE q == [requests[r] EXCEPT !.at = step]
<1>1. q \in Request
  BY DEF TypeInv, TypeOK, Request
<1>2. Known(q, grants') /\ Become(r, q)
  BY DEF Goto, stores
<1> QED
  BY <1>1, <1>2, LocalStep DEF history, TypeInv, TypeOK

LEMMA EndStep ==
    ASSUME TypeInv, NEW r \in Requests, Finish(r),
           UNCHANGED <<now, stores, minted, delivered, history>>
    PROVE  TypeInv'
BY FinishStep, LocalStep DEF history, TypeInv, TypeOK

LEMMA TypeIssueAccessToken ==
    ASSUME TypeInv, NEW r \in Requests, IssueAccessToken(r)
    PROVE  TypeInv'
<1>1. /\ requests[r] \in Request /\ requests[r].created \in Nat
      /\ requests[r].client \in Clients /\ requests[r].subject \in Subjects
  BY DEF IssueAccessToken, At, TypeInv, TypeOK, Known, Issuing, Request
<1>2. PICK a \in Handles \cup {None} :
         LET q == [requests[r] EXCEPT !.at = "reply", !.accessHandle = a] IN
         q \in Request /\ Become(r, q)
  BY <1>1, SecurityTokenStep DEF IssueAccessToken, Steps
<1> DEFINE q == [requests[r] EXCEPT !.at = "reply", !.accessHandle = a]
<1>3. Known(q, grants')
  BY <1>1 DEF Known, Request, Issuing, Revoking, Removing, RefreshSteps
<1>4. requests' \in [Requests -> Request] /\ \A p \in Requests : Known(requests'[p], grants')
  BY <1>2, <1>3, KnownStep, BecomeOne DEF IssueAccessToken, TypeInv
<1>5. tokenHandles' \in [Handles -> AccessToken \cup {None}] /\ minted' \subseteq Handles
  BY <1>1, SecurityTokenStep DEF IssueAccessToken, Steps
<1> QED
  BY <1>4, <1>5 DEF IssueAccessToken, TypeInv, TypeOK, history

LEMMA TypeReply ==
    ASSUME TypeInv, NEW r \in Requests, Reply(r)
    PROVE  TypeInv'
<1>1. delivered' \subseteq Handles
  BY DEF Reply, TypeInv, TypeOK, Request
<1>2. requests' \in [Requests -> Request] /\ \A p \in Requests : Known(requests'[p], grants')
  BY FinishStep, KnownStep, BecomeOne DEF Reply, TypeInv, stores
<1> QED
  BY <1>1, <1>2 DEF Reply, TypeInv, TypeOK, stores, history

LEMMA TypeRefreshGet ==
    ASSUME TypeInv, NEW r \in Requests, NEW c \in Clients, NEW h \in delivered,
           RefreshGet(r, c, h)
    PROVE  TypeInv'
<1> DEFINE g == refreshTokens[h]
           q == [Idle EXCEPT !.at = "check", !.client = c, !.subject = grants[g].subject,
                             !.handle = h, !.newHandle = h, !.grant = g]
<1>1. h \in Handles /\ g \in Grants /\ grants[g] \in Grant /\ grants[g] # None
  BY DEF RefreshGet, TypeInv, TypeOK
<1>2. q \in Request
  BY <1>1, IdleType DEF Request, Steps, RefreshSteps, Grant
<1>3. Known(q, grants)
  BY <1>1, <1>2 DEF Known, Idle, Grant, Issuing, Revoking, Removing, RefreshSteps
<1>4. Become(r, q) /\ grants' = grants /\ contended' \subseteq Grants
  BY <1>1 DEF RefreshGet, stores, TypeInv, TypeOK
<1>5. Known(q, grants')
  BY <1>3, <1>4
<1> HIDE DEF q, g
<1> QED
  BY <1>2, <1>4, <1>5, LocalStep DEF RefreshGet, TypeInv, TypeOK

\* A request that found the grant expired, field by field.
LEMMA FoundExpiredForm ==
    ASSUME TypeInv, NEW r \in Requests, requests[r].at = "check",
           FoundExpired(r, grants[requests[r].grant])
    PROVE  \E q \in Request :
              /\ Become(r, q) /\ q.at = "removeExpired"
              /\ q.client = requests[r].client /\ q.grant = requests[r].grant
              /\ q.handle = requests[r].handle /\ q.newHandle = requests[r].newHandle
              /\ q.accessHandle = requests[r].accessHandle
              /\ HasExceeded(grants[requests[r].grant].created, q.lifeTime)
<1>1. PICK l : l = grants[requests[r].grant].lifeTime
  OBVIOUS
<1>2. requests[r] \in Request /\ grants[requests[r].grant] \in Grant
  BY DEF TypeInv, TypeOK, Known, RefreshSteps
<1>3. l \in Int
  BY <1>1, <1>2 DEF Grant
<1>4. PICK q : q = [requests[r] EXCEPT !.at = "removeExpired", !.lifeTime = l]
  OBVIOUS
<1>5. Become(r, q) /\ HasExceeded(grants[requests[r].grant].created, l)
  BY <1>1, <1>4 DEF FoundExpired
<1>6. q \in Request
  BY <1>2, <1>3, <1>4 DEF Request, Steps
<1>7. /\ q.at = "removeExpired" /\ q.lifeTime = l
      /\ q.client = requests[r].client /\ q.grant = requests[r].grant
      /\ q.handle = requests[r].handle /\ q.newHandle = requests[r].newHandle
      /\ q.accessHandle = requests[r].accessHandle
  BY <1>2, <1>4 DEF Request
<1> QED
  BY <1>5, <1>6, <1>7

LEMMA TypeRefreshCheck ==
    ASSUME TypeInv, NEW r \in Requests, RefreshCheck(r)
    PROVE  TypeInv'
<1>1. requests[r] \in Request /\ Known(requests[r], grants) /\ requests[r].at = "check"
  BY DEF RefreshCheck, At, TypeInv, TypeOK
<1>2. CASE Goto(r, "active")
  <2>1. Known([requests[r] EXCEPT !.at = "active"], grants) /\ "active" \in Steps
    BY <1>1 DEF Known, Request, Issuing, Revoking, Removing, RefreshSteps, Steps
  <2> QED
    BY <1>2, <2>1, GotoStep DEF RefreshCheck
<1>3. CASE FoundExpired(r, grants[requests[r].grant])
  <2>1. PICK q \in Request : /\ Become(r, q) /\ q.at = "removeExpired"
                            /\ q.handle = requests[r].handle
    BY <1>3, FoundExpiredForm DEF RefreshCheck, At
  <2>2. Known(q, grants')
    BY <1>1, <2>1 DEF Known, Issuing, Revoking, Removing, RefreshSteps
  <2> QED
    BY <2>1, <2>2, LocalStep DEF RefreshCheck, history, TypeInv, TypeOK
<1> QED
  BY <1>2, <1>3, EndStep DEF RefreshCheck

LEMMA TypeRemoveExpired ==
    ASSUME TypeInv, NEW r \in Requests, RemoveExpired(r)
    PROVE  TypeInv'
<1>1. requests[r].handle \in Handles
  BY DEF RemoveExpired, At, TypeInv, Known, Removing
<1>2. requests' \in [Requests -> Request] /\ \A p \in Requests : Known(requests'[p], grants')
  BY FinishStep, KnownStep, BecomeOne DEF RemoveExpired, TypeInv
<1> QED
  BY <1>1, <1>2 DEF RemoveExpired, TypeInv, TypeOK, history

LEMMA TypeCheckActive ==
    ASSUME TypeInv, NEW r \in Requests, CheckActive(r)
    PROVE  TypeInv'
<1>1. requests[r] \in Request /\ Known(requests[r], grants) /\ requests[r].at = "active"
  BY DEF CheckActive, At, TypeInv, TypeOK
<1>2. Known([requests[r] EXCEPT !.at = "token"], grants) /\ "token" \in Steps
  BY <1>1 DEF Known, Request, Issuing, Revoking, Removing, RefreshSteps, Steps
<1> QED
  BY <1>2, GotoStep, EndStep DEF CheckActive

LEMMA TypeRefreshAccessToken ==
    ASSUME TypeInv, NEW r \in Requests, RefreshAccessToken(r)
    PROVE  TypeInv'
<1> DEFINE c == requests[r].client
           next == IF Usage[c] = "OneTimeOnly" THEN "removeOld"
                   ELSE IF Expiration[c] = "Sliding" THEN "slide" ELSE "reply"
<1>1. /\ requests[r] \in Request /\ requests[r].at = "token" /\ Known(requests[r], grants)
      /\ requests[r].client \in Clients /\ requests[r].subject \in Subjects
  BY DEF RefreshAccessToken, At, TypeInv, TypeOK, Known, RefreshSteps
<1>2. next \in Steps /\ now \in Nat
  BY DEF Steps, RefreshSteps, TypeInv, TypeOK
<1>3. CreateSecurityToken(r, requests[r].subject, now, next)
  BY DEF RefreshAccessToken
<1> HIDE DEF next
<1>4. PICK a \in Handles \cup {None} :
         LET q == [requests[r] EXCEPT !.at = next, !.accessHandle = a] IN
         q \in Request /\ Become(r, q)
  BY <1>1, <1>2, <1>3, SecurityTokenStep
<1> DEFINE q == [requests[r] EXCEPT !.at = next, !.accessHandle = a]
<1>5. Known(q, grants')
  BY <1>1 DEF Known, Request, Issuing, Revoking, Removing, RefreshSteps, RefreshAccessToken, next
<1>6. requests' \in [Requests -> Request] /\ \A p \in Requests : Known(requests'[p], grants')
  BY <1>4, <1>5, KnownStep, BecomeOne DEF RefreshAccessToken, TypeInv
<1>7. tokenHandles' \in [Handles -> AccessToken \cup {None}] /\ minted' \subseteq Handles
  BY <1>1, <1>2, <1>3, SecurityTokenStep
<1> QED
  BY <1>6, <1>7 DEF RefreshAccessToken, TypeInv, TypeOK, history

LEMMA TypeRemoveOld ==
    ASSUME TypeInv, NEW r \in Requests, NEW h \in Handles, RemoveOld(r, h)
    PROVE  TypeInv'
<1> DEFINE next == IF Expiration[requests[r].client] = "Sliding" THEN "slide" ELSE "store"
           q == [requests[r] EXCEPT !.at = next, !.newHandle = h]
<1>1. requests[r] \in Request /\ requests[r].at = "removeOld" /\ Known(requests[r], grants)
  BY DEF RemoveOld, At, TypeInv, TypeOK
<1>2. q \in Request
  BY <1>1 DEF Request, Steps, RefreshSteps
<1>3. Known(q, grants')
  BY <1>1 DEF Known, Request, Issuing, Revoking, Removing, RefreshSteps, RemoveOld
<1>4. Become(r, q)
  BY DEF RemoveOld
<1>5. requests' \in [Requests -> Request] /\ \A p \in Requests : Known(requests'[p], grants')
  BY <1>2, <1>3, <1>4, KnownStep, BecomeOne DEF RemoveOld, TypeInv
<1>6. requests[r].handle \in Handles /\ requests[r].grant \in Grants
  BY <1>1 DEF Known, RefreshSteps
<1>7. refreshTokens' = [refreshTokens EXCEPT ![requests[r].handle] = None]
  BY DEF RemoveOld
<1>8. raced' \subseteq Grants
  BY <1>6 DEF RemoveOld, TypeInv, TypeOK
<1> QED
  BY <1>5, <1>6, <1>7, <1>8 DEF RemoveOld, TypeInv, TypeOK

LEMMA TypeSlide ==
    ASSUME TypeInv, NEW r \in Requests, Slide(r)
    PROVE  TypeInv'
<1> DEFINE l == NewLifetime(requests[r].client, grants[requests[r].grant].created, now)
           q == [requests[r] EXCEPT !.at = "write", !.lifeTime = l]
<1>1. /\ requests[r] \in Request /\ requests[r].at = "slide" /\ Known(requests[r], grants)
      /\ requests[r].client \in Clients /\ grants[requests[r].grant] \in Grant
  BY DEF Slide, At, TypeInv, TypeOK, Known, RefreshSteps
<1>2. l \in Int
  BY <1>1, NewLifetimeCapped DEF Grant, TypeInv, TypeOK
<1>3. Become(r, q) /\ UNCHANGED <<now, stores, minted, delivered, history>>
  BY DEF Slide
<1> HIDE DEF l
<1>4. q \in Request
  BY <1>1, <1>2 DEF Request, Steps, RefreshSteps
<1>5. Known(q, grants')
  BY <1>1, <1>3 DEF Known, Request, Issuing, Revoking, Removing, RefreshSteps, stores
<1> QED
  BY <1>3, <1>4, <1>5, LocalStep DEF history, TypeInv, TypeOK

LEMMA TypeWriteLifetime ==
    ASSUME TypeInv, NEW r \in Requests, WriteLifetime(r)
    PROVE  TypeInv'
<1> DEFINE g == requests[r].grant
           q == [requests[r] EXCEPT !.at = "store"]
<1>1. /\ requests[r] \in Request /\ requests[r].at = "write" /\ Known(requests[r], grants)
      /\ g \in Grants /\ grants[g] \in Grant
  BY DEF WriteLifetime, At, TypeInv, TypeOK, Known, RefreshSteps
<1>2. [grants[g] EXCEPT !.lifeTime = requests[r].lifeTime] \in Grant
  BY <1>1 DEF Grant, Request
<1>3. /\ grants' \in [Grants -> Grant \cup {None}]
      /\ \A k \in Grants : grants[k] # None => grants'[k] # None
  BY <1>1, <1>2, RecordAssumption DEF WriteLifetime, TypeInv, TypeOK
<1>4. q \in Request /\ Become(r, q)
  BY <1>1 DEF Request, Steps, RefreshSteps, WriteLifetime, Goto
<1>5. Known(q, grants')
  BY <1>1, <1>3 DEF Known, Request, Issuing, Revoking, Removing, RefreshSteps
<1>6. requests' \in [Requests -> Request] /\ \A p \in Requests : Known(requests'[p], grants')
  BY <1>3, <1>4, <1>5, KnownStep, BecomeOne DEF TypeInv
<1> QED
  BY <1>3, <1>6 DEF WriteLifetime, TypeInv, TypeOK, history

LEMMA TypeStoreUpdated ==
    ASSUME TypeInv, NEW r \in Requests, StoreUpdated(r)
    PROVE  TypeInv'
<1> DEFINE q == [requests[r] EXCEPT !.at = "reply"]
<1>1. /\ requests[r] \in Request /\ requests[r].at = "store" /\ Known(requests[r], grants)
      /\ requests[r].newHandle \in Handles /\ requests[r].grant \in Grants
      /\ grants[requests[r].grant] # None
  BY DEF StoreUpdated, At, TypeInv, TypeOK, Known, RefreshSteps
<1>2. q \in Request /\ Become(r, q)
  BY <1>1 DEF Request, Steps, RefreshSteps, StoreUpdated, Goto
<1>3. Known(q, grants')
  BY <1>1 DEF Known, Request, Issuing, Revoking, Removing, RefreshSteps
<1>4. requests' \in [Requests -> Request] /\ \A p \in Requests : Known(requests'[p], grants')
  BY <1>2, <1>3, KnownStep, BecomeOne DEF StoreUpdated, TypeInv
<1>5. \A k \in Handles : refreshTokens'[k] # None => grants'[refreshTokens'[k]] # None
  BY <1>1 DEF StoreUpdated, TypeInv, TypeOK
<1> QED
  BY <1>1, <1>4, <1>5 DEF StoreUpdated, TypeInv, TypeOK, history

LEMMA TypeRevokeAccessGet ==
    ASSUME TypeInv, NEW r \in Requests, NEW c \in Clients, NEW h \in delivered,
           NEW hinted \in BOOLEAN, RevokeAccessGet(r, c, h, hinted)
    PROVE  TypeInv'
<1>1. h \in Handles
  BY DEF TypeInv, TypeOK
<1>2. PICK step \in {"removeAccess", "revokeGet"} :
         Become(r, [Idle EXCEPT !.at = step, !.client = c, !.handle = h])
  BY DEF RevokeAccessGet
<1> DEFINE q == [Idle EXCEPT !.at = step, !.client = c, !.handle = h]
<1>3. q \in Request
  BY <1>1, IdleType DEF Request, Steps
<1>4. Known(q, grants')
  BY <1>1 DEF Known, Idle, Issuing, Revoking, Removing, RefreshSteps
<1> QED
  BY <1>2, <1>3, <1>4, LocalStep DEF RevokeAccessGet, history, TypeInv, TypeOK

LEMMA TypeBeginRevokeRefresh ==
    ASSUME TypeInv, NEW r \in Requests, NEW c \in Clients, NEW h \in delivered,
           BeginRevokeRefresh(r, c, h)
    PROVE  TypeInv'
<1> DEFINE q == [Idle EXCEPT !.at = "revokeGet", !.client = c, !.handle = h]
<1>1. h \in Handles
  BY DEF TypeInv, TypeOK
<1>2. q \in Request
  BY <1>1, IdleType DEF Request, Steps
<1>3. Known(q, grants')
  BY <1>1 DEF Known, Idle, Issuing, Revoking, Removing, RefreshSteps
<1> QED
  BY <1>2, <1>3, LocalStep DEF BeginRevokeRefresh, history, TypeInv, TypeOK

LEMMA TypeRevokeRefreshGet ==
    ASSUME TypeInv, NEW r \in Requests, RevokeRefreshGet(r)
    PROVE  TypeInv'
<1> DEFINE g == refreshTokens[requests[r].handle]
           q == [requests[r] EXCEPT !.at = "revokeStart", !.subject = grants[g].subject]
<1>1. /\ requests[r] \in Request /\ requests[r].at = "revokeGet" /\ Known(requests[r], grants)
      /\ requests[r].handle \in Handles
  BY DEF RevokeRefreshGet, At, TypeInv, TypeOK, Known, Removing
<1>2. CASE g # None /\ grants[g].client = requests[r].client
  <2>1. grants[g] \in Grant
    BY <1>1, <1>2 DEF TypeInv, TypeOK
  <2>2. q \in Request
    BY <1>1, <2>1 DEF Request, Steps, Grant
  <2>3. Become(r, q) /\ UNCHANGED <<now, stores, minted, delivered, history>>
    BY <1>2 DEF RevokeRefreshGet
  <2>4. q.client \in Clients /\ q.subject \in Subjects /\ q.at = "revokeStart"
    BY <1>1, <1>2, <2>1 DEF Grant, Request
  <2>5. Known(q, grants')
    BY <2>4 DEF Known, Issuing, Revoking, Removing, RefreshSteps
  <2> QED
    BY <2>2, <2>3, <2>5, LocalStep DEF history, TypeInv, TypeOK
<1>3. CASE ~(g # None /\ grants[g].client = requests[r].client)
  BY <1>3, EndStep DEF RevokeRefreshGet
<1> QED
  BY <1>2, <1>3

LEMMA TypeBeginRevokePermissions ==
    ASSUME TypeInv, NEW r \in Requests, NEW s \in Subjects, NEW c \in Clients,
           BeginRevokePermissions(r, s, c)
    PROVE  TypeInv'
<1> DEFINE q == [Idle EXCEPT !.at = "revokeStart", !.client = c, !.subject = s]
<1>1. q \in Request
  BY IdleType DEF Request, Steps
<1>2. Known(q, grants')
  BY DEF Known, Idle, Issuing, Revoking, Removing, RefreshSteps
<1> QED
  BY <1>1, <1>2, LocalStep DEF BeginRevokePermissions, history, TypeInv, TypeOK

\* A revocation that goes on: to another step, with other sets to work through.
LEMMA RevokingStep ==
    ASSUME TypeInv, NEW r \in Requests, requests[r].at \in Revoking,
           NEW step \in Revoking, NEW P \in SUBSET Handles, NEW G \in SUBSET Grants,
           Become(r, [requests[r] EXCEPT !.at = step, !.pending = P, !.covered = G]),
           UNCHANGED <<now, grants, minted, delivered>>
    PROVE  /\ requests' \in [Requests -> Request]
           /\ \A p \in Requests : Known(requests'[p], grants')
<1> DEFINE q == [requests[r] EXCEPT !.at = step, !.pending = P, !.covered = G]
<1>1. requests[r] \in Request /\ requests[r].client \in Clients /\ requests[r].subject \in Subjects
  BY DEF TypeInv, TypeOK, Known
<1>2. q \in Request
  BY <1>1 DEF Request, Steps, Revoking
<1>3. q.client \in Clients /\ q.subject \in Subjects /\ q.at = step
  BY <1>1 DEF Request
<1>4. Known(q, grants')
  BY <1>3 DEF Known, Issuing, Revoking, Removing, RefreshSteps
<1> QED
  BY <1>2, <1>4, KnownStep, BecomeOne DEF TypeInv

\* The forms in which the actions say so.
LEMMA RequestForms ==
    ASSUME NEW q \in Request, NEW step, NEW P, NEW G
    PROVE  /\ [q EXCEPT !.pending = P]
                = [q EXCEPT !.at = q.at, !.pending = P, !.covered = q.covered]
           /\ [q EXCEPT !.at = step, !.pending = P]
                = [q EXCEPT !.at = step, !.pending = P, !.covered = q.covered]
           /\ [q EXCEPT !.at = step, !.pending = P, !.covered = G]
                = [q EXCEPT !.at = step, !.covered = G, !.pending = P]
BY DEF Request

LEMMA TypeRevokeStart ==
    ASSUME TypeInv, NEW r \in Requests, RevokeStart(r)
    PROVE  TypeInv'
<1> DEFINE s == requests[r].subject
           c == requests[r].client
           all == {g \in Grants : grants[g] # None /\ grants[g].subject = s /\ grants[g].client = c}
<1>1. requests[r].at \in Revoking
  BY DEF RevokeStart, At, Revoking
<1>2. RefreshHandlesOf(s, c) \in SUBSET Handles /\ all \in SUBSET Grants
  BY DEF RefreshHandlesOf
<1>3. Become(r, [requests[r] EXCEPT !.at = "revokeRefresh",
                                   !.pending = RefreshHandlesOf(s, c), !.covered = all])
  BY DEF RevokeStart
<1>4. contended' \subseteq Grants
  BY DEF RevokeStart, TypeInv, TypeOK
<1> HIDE DEF all, s, c
<1>5. requests' \in [Requests -> Request] /\ \A p \in Requests : Known(requests'[p], grants')
  BY <1>1, <1>2, <1>3, RevokingStep DEF RevokeStart, stores, Revoking
<1> QED
  BY <1>4, <1>5 DEF RevokeStart, TypeInv, TypeOK, stores

LEMMA TypeRevokeOneRefresh ==
    ASSUME TypeInv, NEW r \in Requests, NEW h \in Handles, RevokeOneRefresh(r, h)
    PROVE  TypeInv'
<1>1. requests[r].at \in Revoking /\ requests[r] \in Request
  BY DEF RevokeOneRefresh, At, Revoking, TypeInv, TypeOK
<1>2. requests[r].pending \ {h} \in SUBSET Handles /\ requests[r].covered \in SUBSET Grants
  BY <1>1 DEF Request
<1>3. Become(r, [requests[r] EXCEPT !.at = requests[r].at,
            !.pending = requests[r].pending \ {h}, !.covered = requests[r].covered])
  BY <1>1, RequestForms DEF RevokeOneRefresh
<1>4. requests' \in [Requests -> Request] /\ \A p \in Requests : Known(requests'[p], grants')
  BY <1>1, <1>2, <1>3, RevokingStep DEF RevokeOneRefresh
<1>5. refreshTokens' = [refreshTokens EXCEPT ![h] = None]
  BY DEF RevokeOneRefresh
<1>6. /\ refreshTokens' \in [Handles -> Grants \cup {None}]
      /\ \A k \in Handles : refreshTokens'[k] # None => grants[refreshTokens'[k]] # None
  BY <1>5 DEF TypeInv, TypeOK
<1> QED
  BY <1>4, <1>6 DEF RevokeOneRefresh, TypeInv, TypeOK, history

LEMMA TypeRevokeRefreshDone ==
    ASSUME TypeInv, NEW r \in Requests, RevokeRefreshDone(r)
    PROVE  TypeInv'
<1>1. requests[r].at \in Revoking /\ requests[r] \in Request
  BY DEF RevokeRefreshDone, At, Revoking, TypeInv, TypeOK
<1>2. Become(r, [requests[r] EXCEPT !.at = "accessStart", !.pending = {}, !.covered = {}])
  BY DEF RevokeRefreshDone
<1>3. requests' \in [Requests -> Request] /\ \A p \in Requests : Known(requests'[p], grants')
  <2>1. {} \in SUBSET Handles /\ {} \in SUBSET Grants /\ "accessStart" \in Revoking
    BY DEF Revoking
  <2>2. UNCHANGED <<now, grants, minted, delivered>>
    BY DEF RevokeRefreshDone, stores
  <2> QED
    BY <1>1, <1>2, <2>1, <2>2, RevokingStep
<1>4. revoked' \subseteq Grants
  BY <1>1 DEF RevokeRefreshDone, Request, TypeInv, TypeOK
<1> QED
  BY <1>3, <1>4 DEF RevokeRefreshDone, TypeInv, TypeOK, stores

LEMMA TypeRevokeAccessStart ==
    ASSUME TypeInv, NEW r \in Requests, RevokeAccessStart(r)
    PROVE  TypeInv'
<1> DEFINE P == AccessHandlesOf(requests[r].subject, requests[r].client)
<1>1. requests[r].at \in Revoking /\ requests[r] \in Request
  BY DEF RevokeAccessStart, At, Revoking, TypeInv, TypeOK
<1>2. P \in SUBSET Handles /\ requests[r].covered \in SUBSET Grants
  BY <1>1 DEF AccessHandlesOf, Request
<1>3. Become(r, [requests[r] EXCEPT !.at = "revokeAccess",
            !.pending = P, !.covered = requests[r].covered])
  BY <1>1, RequestForms DEF RevokeAccessStart
<1> HIDE DEF P
<1>4. requests' \in [Requests -> Request] /\ \A p \in Requests : Known(requests'[p], grants')
  BY <1>1, <1>2, <1>3, RevokingStep DEF RevokeAccessStart, Revoking, stores
<1> QED
  BY <1>4 DEF RevokeAccessStart, TypeInv, TypeOK, stores, history

LEMMA TypeRevokeOneAccess ==
    ASSUME TypeInv, NEW r \in Requests, NEW h \in Handles, RevokeOneAccess(r, h)
    PROVE  TypeInv'
<1>1. requests[r].at \in Revoking /\ requests[r] \in Request
  BY DEF RevokeOneAccess, At, Revoking, TypeInv, TypeOK
<1>2. requests[r].pending \ {h} \in SUBSET Handles /\ requests[r].covered \in SUBSET Grants
  BY <1>1 DEF Request
<1>3. Become(r, [requests[r] EXCEPT !.at = requests[r].at,
            !.pending = requests[r].pending \ {h}, !.covered = requests[r].covered])
  BY <1>1, RequestForms DEF RevokeOneAccess
<1>4. requests' \in [Requests -> Request] /\ \A p \in Requests : Known(requests'[p], grants')
  BY <1>1, <1>2, <1>3, RevokingStep DEF RevokeOneAccess
<1>5. tokenHandles' \in [Handles -> AccessToken \cup {None}]
  BY DEF RevokeOneAccess, TypeInv, TypeOK
<1> QED
  BY <1>4, <1>5 DEF RevokeOneAccess, TypeInv, TypeOK, history

LEMMA TypeRevokeAccessDone ==
    ASSUME TypeInv, NEW r \in Requests, RevokeAccessDone(r)
    PROVE  TypeInv'
BY EndStep DEF RevokeAccessDone

LEMMA TypeDrop ==
    ASSUME TypeInv, NEW r \in Requests, RemoveAccess(r) \/ DropExpiredAccess(r)
    PROVE  TypeInv'
<1>1. tokenHandles' \in [Handles -> AccessToken \cup {None}]
  BY DEF RemoveAccess, DropExpiredAccess, TypeInv, TypeOK
<1>2. requests' \in [Requests -> Request] /\ \A p \in Requests : Known(requests'[p], grants')
  BY FinishStep, KnownStep, BecomeOne DEF RemoveAccess, DropExpiredAccess, TypeInv
<1> QED
  BY <1>1, <1>2 DEF RemoveAccess, DropExpiredAccess, TypeInv, TypeOK, history

LEMMA TypeValidateGet ==
    ASSUME TypeInv, NEW r \in Requests, NEW h \in delivered, ValidateGet(r, h)
    PROVE  TypeInv'
<1> DEFINE q == [Idle EXCEPT !.at = "dropAccess", !.handle = h]
<1>1. h \in Handles
  BY DEF TypeInv, TypeOK
<1>2. q \in Request
  BY <1>1, IdleType DEF Request, Steps
<1>3. Known(q, grants')
  BY <1>1 DEF Known, Idle, Issuing, Revoking, Removing, RefreshSteps
<1> QED
  BY <1>2, <1>3, LocalStep DEF ValidateGet, history, TypeInv, TypeOK

LEMMA TypeTick == TypeInv /\ Tick => TypeInv'
BY DEF Tick, TypeInv, TypeOK, stores, history

LEMMA TypeStep == TypeInv /\ [Next]_vars => TypeInv'
<1> SUFFICES ASSUME TypeInv, [Next]_vars PROVE TypeInv'
  OBVIOUS
<1>1. CASE UNCHANGED vars
  BY <1>1 DEF vars, TypeInv, TypeOK
<1>2. CASE Tick
  BY <1>2, TypeTick
<1>3. ASSUME NEW r \in Requests, Arrive(r) PROVE TypeInv'
  BY <1>3, TypeBeginIssue, TypeRefreshGet, TypeRevokeAccessGet, TypeBeginRevokeRefresh,
     TypeBeginRevokePermissions, TypeValidateGet DEF Arrive
<1>4. ASSUME NEW r \in Requests, Serve(r) PROVE TypeInv'
  BY <1>4, TypeCreateRefreshToken, TypeIssueAccessToken, TypeReply, TypeRefreshCheck,
     TypeRemoveExpired, TypeCheckActive, TypeRefreshAccessToken, TypeRemoveOld, TypeSlide,
     TypeWriteLifetime, TypeStoreUpdated, TypeDrop, TypeRevokeRefreshGet, TypeRevokeStart,
     TypeRevokeOneRefresh, TypeRevokeRefreshDone, TypeRevokeAccessStart, TypeRevokeOneAccess,
     TypeRevokeAccessDone DEF Serve
<1>5. ASSUME NEW r \in Requests, Abort(r) PROVE TypeInv'
  BY <1>5, EndStep DEF Abort
<1> QED
  BY <1>1, <1>2, <1>3, <1>4, <1>5 DEF Next

THEOREM TypeCorrect == Spec => []TypeOK
<1>1. TypeInv => TypeOK
  BY DEF TypeInv
<1> QED
  BY <1>1, TypeInit, TypeStep, PTL DEF Spec

------------------------------------------------------------------------------
\* What a step does to the request that takes it.

\* The request moves on with what it has, or becomes idle: no other request
\* changes, it starts no revocation, and it refreshes what it refreshed before.
Continues(r) ==
    /\ \A p \in Requests : p # r => requests'[p] = requests[p]
    /\ requests'[r].at # "revokeRefresh"
    /\ requests'[r].at \in RefreshSteps
          => requests[r].at \in RefreshSteps /\ requests'[r].grant = requests[r].grant

LEMMA GotoContinues ==
    ASSUME TypeInv, NEW r \in Requests, NEW step, Goto(r, step), step # "revokeRefresh",
           step \in RefreshSteps => requests[r].at \in RefreshSteps
    PROVE  Continues(r)
BY DEF Goto, Become, Continues, TypeInv, TypeOK, Request

LEMMA FinishContinues ==
    ASSUME TypeInv, NEW r \in Requests, Finish(r)
    PROVE  Continues(r)
BY DEF Finish, Become, Continues, TypeInv, TypeOK, Request, Idle, RefreshSteps

LEMMA SecurityTokenContinues ==
    ASSUME TypeInv, NEW r \in Requests, NEW s \in Subjects, NEW t \in Nat, NEW next \in Steps,
           requests[r].client \in Clients, CreateSecurityToken(r, s, t, next),
           next # "revokeRefresh", next \in RefreshSteps => requests[r].at \in RefreshSteps
    PROVE  Continues(r)
<1>1. PICK a \in Handles \cup {None} :
         LET q == [requests[r] EXCEPT !.at = next, !.accessHandle = a] IN
         q \in Request /\ Become(r, q)
  BY SecurityTokenStep
<1> QED
  BY <1>1 DEF Become, Continues, TypeInv, TypeOK, Request

\* Every request of every step that is neither the store of a refresh token nor
\* the read of one that will be stored again, nor part of a revocation.
LEMMA Continuing ==
    ASSUME TypeInv, NEW r \in Requests,
           \/ \E s \in Subjects, c \in Clients, offline \in BOOLEAN : BeginIssue(r, s, c, offline)
           \/ \E h \in delivered, c \in Clients, hinted \in BOOLEAN : RevokeAccessGet(r, c, h, hinted)
           \/ \E h \in delivered, c \in Clients : BeginRevokeRefresh(r, c, h)
           \/ \E s \in Subjects, c \in Clients : BeginRevokePermissions(r, s, c)
           \/ \E h \in delivered : ValidateGet(r, h)
           \/ IssueAccessToken(r) \/ Reply(r) \/ RefreshCheck(r) \/ RemoveExpired(r)
           \/ CheckActive(r) \/ RefreshAccessToken(r) \/ \E h \in Handles : RemoveOld(r, h)
           \/ Slide(r) \/ WriteLifetime(r) \/ RemoveAccess(r) \/ RevokeRefreshGet(r)
           \/ RevokeAccessStart(r) \/ \E h \in Handles : RevokeOneAccess(r, h)
           \/ RevokeAccessDone(r) \/ DropExpiredAccess(r) \/ Abort(r)
    PROVE  Continues(r)
<1>1. requests \in [Requests -> Request] /\ requests[r] \in Request /\ Known(requests[r], grants)
  BY DEF TypeInv, TypeOK
<1>2. ASSUME NEW s \in Subjects, NEW c \in Clients, NEW offline \in BOOLEAN,
             BeginIssue(r, s, c, offline)
      PROVE  Continues(r)
  BY <1>1, <1>2 DEF BeginIssue, Become, Continues, RefreshSteps, Idle
<1>3. ASSUME NEW h \in delivered, NEW c \in Clients, NEW hinted \in BOOLEAN,
             RevokeAccessGet(r, c, h, hinted)
      PROVE  Continues(r)
  <2>1. PICK step \in {"removeAccess", "revokeGet"} :
           Become(r, [Idle EXCEPT !.at = step, !.client = c, !.handle = h])
    BY <1>3 DEF RevokeAccessGet
  <2> QED
    BY <1>1, <2>1 DEF Become, Continues, RefreshSteps, Idle
<1>4. ASSUME NEW h \in delivered, NEW c \in Clients, BeginRevokeRefresh(r, c, h)
      PROVE  Continues(r)
  BY <1>1, <1>4 DEF BeginRevokeRefresh, Become, Continues, RefreshSteps, Idle
<1>5. ASSUME NEW s \in Subjects, NEW c \in Clients, BeginRevokePermissions(r, s, c)
      PROVE  Continues(r)
  BY <1>1, <1>5 DEF BeginRevokePermissions, Become, Continues, RefreshSteps, Idle
<1>6. ASSUME NEW h \in delivered, ValidateGet(r, h) PROVE Continues(r)
  BY <1>1, <1>6 DEF ValidateGet, Become, Continues, RefreshSteps, Idle
<1>7. CASE IssueAccessToken(r)
  BY <1>1, <1>7, SecurityTokenContinues
     DEF IssueAccessToken, At, Known, Issuing, Request, Steps, RefreshSteps
<1>8. CASE RefreshAccessToken(r)
  <2> DEFINE c == requests[r].client
             next == IF Usage[c] = "OneTimeOnly" THEN "removeOld"
                     ELSE IF Expiration[c] = "Sliding" THEN "slide" ELSE "reply"
  <2>1. CreateSecurityToken(r, requests[r].subject, now, next)
    BY <1>8 DEF RefreshAccessToken
  <2>2. next \in Steps /\ next # "revokeRefresh" /\ now \in Nat
    BY DEF Steps, RefreshSteps, TypeInv, TypeOK
  <2>3. /\ requests[r].client \in Clients /\ requests[r].subject \in Subjects
        /\ requests[r].at \in RefreshSteps
    BY <1>1, <1>8 DEF RefreshAccessToken, At, Known, RefreshSteps
  <2> HIDE DEF next
  <2> QED
    BY <2>1, <2>2, <2>3, SecurityTokenContinues
<1>9. CASE Reply(r) \/ RemoveExpired(r) \/ RemoveAccess(r) \/ RevokeAccessDone(r)
             \/ DropExpiredAccess(r) \/ Abort(r)
  BY <1>9, FinishContinues
     DEF Reply, RemoveExpired, RemoveAccess, RevokeAccessDone, DropExpiredAccess, Abort
<1>10. CASE RefreshCheck(r) \/ CheckActive(r) \/ WriteLifetime(r)
  <2>1. CASE RefreshCheck(r) /\ FoundExpired(r, grants[requests[r].grant])
    <3>1. PICK q \in Request : Become(r, q) /\ q.at = "removeExpired"
      BY <2>1, FoundExpiredForm DEF RefreshCheck, At
    <3> QED
      BY <3>1, BecomeOne DEF Continues, RefreshSteps, TypeInv
  <2> QED
    BY <1>10, <2>1, FinishContinues, GotoContinues
       DEF RefreshCheck, CheckActive, WriteLifetime, At, RefreshSteps
<1>11. ASSUME NEW h \in Handles, RemoveOld(r, h) PROVE Continues(r)
  BY <1>1, <1>11 DEF RemoveOld, At, Become, Continues, RefreshSteps, Request
<1>12. CASE Slide(r)
  BY <1>1, <1>12 DEF Slide, At, Become, Continues, RefreshSteps, Request
<1>13. CASE RevokeRefreshGet(r)
  <2>1. CASE Finish(r)
    BY <2>1, FinishContinues
  <2>2. CASE \E s : Become(r, [requests[r] EXCEPT !.at = "revokeStart", !.subject = s])
    BY <1>1, <2>2 DEF Become, Continues, RefreshSteps, Request
  <2> QED
    BY <1>13, <2>1, <2>2 DEF RevokeRefreshGet
<1>14. CASE RevokeAccessStart(r)
  BY <1>1, <1>14 DEF RevokeAccessStart, Become, Continues, RefreshSteps, Request
<1>15. ASSUME NEW h \in Handles, RevokeOneAccess(r, h) PROVE Continues(r)
  BY <1>1, <1>15 DEF RevokeOneAccess, At, Become, Continues, RefreshSteps, Request
<1> QED
  BY <1>2, <1>3, <1>4, <1>5, <1>6, <1>7, <1>8, <1>9, <1>10, <1>11, <1>12, <1>13, <1>14, <1>15

------------------------------------------------------------------------------
\* Revocation is final.  While a revocation that covers a grant runs, and after
\* it, no request holds the grant (or the grant is contended), so that the only
\* live handles are those the revocation has still to remove.

Created == {g \in Grants : grants[g] # None}

Unheld(g) == \A q \in Requests : ~Holds(q, g)

FinalInv ==
    /\ revoked \subseteq Created
    /\ \A r \in Requests : At(r, "revokeRefresh") => requests[r].covered \subseteq Created
    /\ \A g \in revoked \ contended :
          Unheld(g) /\ \A h \in Handles : refreshTokens[h] # g
    /\ \A r \in Requests, g \in Grants \ contended :
          Covers(r, g) => /\ Unheld(g)
                          /\ \A h \in Handles : refreshTokens[h] = g => h \in requests[r].pending

LEMMA FinalInit == Init => FinalInv
BY DEF Init, FinalInv, Idle, At, Covers

\* A step that neither stores a refresh token nor begins or ends to hold or to
\* cover a grant.
LEMMA FinalQuiet ==
    ASSUME TypeInv, FinalInv, NEW r \in Requests, Continues(r),
           \A g \in Grants : grants[g] # None => grants'[g] # None,
           \A h \in Handles : refreshTokens'[h] \in {refreshTokens[h], None},
           UNCHANGED <<revoked, contended>>
    PROVE  FinalInv'
<1>1. \A p \in Requests, g \in Grants : Holds(p, g)' => Holds(p, g)
  BY DEF Holds, Continues
<1>2. \A p \in Requests : At(p, "revokeRefresh")' => requests'[p] = requests[p]
  BY DEF Continues, At
<1>3. \A p \in Requests, g \in Grants : Covers(p, g)' => Covers(p, g)
  BY <1>2 DEF Covers, At
<1>4. \A g \in Grants : Unheld(g) => Unheld(g)'
  BY <1>1 DEF Unheld
<1>5. \A g \in Grants, h \in Handles : refreshTokens'[h] = g => refreshTokens[h] = g
  BY NoneAssumption
<1>6. Created \subseteq Created'
  BY DEF Created
<1> USE DEF FinalInv
<1>7. revoked' \subseteq Created'
  BY <1>6
<1>8. \A p \in Requests : At(p, "revokeRefresh")' => requests'[p].covered \subseteq Created'
  BY <1>2, <1>6 DEF At
<1>9. \A g \in revoked' \ contended' : Unheld(g)' /\ \A h \in Handles : refreshTokens'[h] # g
  BY <1>4, <1>5 DEF TypeInv, TypeOK
<1>10. \A p \in Requests, g \in Grants \ contended' : Covers(p, g)' =>
          Unheld(g)' /\ \A h \in Handles : refreshTokens'[h] = g => h \in requests'[p].pending
  BY <1>2, <1>3, <1>4, <1>5 DEF Covers
<1> QED
  BY <1>7, <1>8, <1>9, <1>10

LEMMA FinalCreateRefreshToken ==
    ASSUME TypeInv, FinalInv, NEW r \in Requests, NEW g \in Grants, NEW h \in Handles,
           CreateRefreshToken(r, g, h)
    PROVE  FinalInv'
<1>1. /\ requests' \in [Requests -> Request]
      /\ requests'[r].at = "issue"
      /\ \A p \in Requests : p # r => requests'[p] = requests[p]
  <2>1. TypeInv'
    BY TypeCreateRefreshToken
  <2> QED
    BY <2>1 DEF CreateRefreshToken, Become, TypeInv, TypeOK, Request
<1>2. g \notin Created /\ Created \subseteq Created'
  <2>1. TypeInv'
    BY TypeCreateRefreshToken
  <2> QED
    BY RecordAssumption DEF CreateRefreshToken, Created, TypeInv, TypeOK
<1>3. \A p \in Requests, k \in Grants : Holds(p, k)' => Holds(p, k)
  BY <1>1 DEF Holds, RefreshSteps
<1>4. \A p \in Requests, k \in Grants : Covers(p, k)' => Covers(p, k) /\ requests'[p] = requests[p]
  BY <1>1 DEF Covers, At
<1>5. \A k \in Grants, j \in Handles : k # g /\ refreshTokens'[j] = k => refreshTokens[j] = k
  BY DEF CreateRefreshToken, TypeInv, TypeOK
<1>6. revoked' = revoked /\ contended' = contended
  BY DEF CreateRefreshToken, history
<1>7. g \notin revoked /\ \A p \in Requests : ~Covers(p, g)
  BY <1>2 DEF FinalInv, Covers
<1>8. \A p \in Requests : At(p, "revokeRefresh")' => At(p, "revokeRefresh") /\ requests'[p] = requests[p]
  BY <1>1 DEF At
<1>9. \A k \in Grants : Unheld(k) => Unheld(k)'
  BY <1>3 DEF Unheld
<1> USE DEF FinalInv
<1>10. revoked' \subseteq Created'
  BY <1>2, <1>6
<1>11. \A p \in Requests : At(p, "revokeRefresh")' => requests'[p].covered \subseteq Created'
  BY <1>2, <1>8
<1>12. \A k \in revoked' \ contended' : Unheld(k)' /\ \A j \in Handles : refreshTokens'[j] # k
  BY <1>5, <1>6, <1>7, <1>9 DEF TypeInv, TypeOK
<1>13. \A p \in Requests, k \in Grants \ contended' : Covers(p, k)' =>
          Unheld(k)' /\ \A j \in Handles : refreshTokens'[j] = k => j \in requests'[p].pending
  BY <1>4, <1>5, <1>6, <1>7, <1>9
<1> QED
  BY <1>10, <1>11, <1>12, <1>13

LEMMA FinalRefreshGet ==
    ASSUME TypeInv, FinalInv, NEW r \in Requests, NEW c \in Clients, NEW h \in delivered,
           RefreshGet(r, c, h)
    PROVE  FinalInv'
<1> DEFINE g == refreshTokens[h]
<1>1. h \in Handles /\ g \in Grants
  BY DEF RefreshGet, TypeInv, TypeOK
<1>2. /\ requests'[r].at = "check" /\ requests'[r].grant = g
      /\ \A p \in Requests : p # r => requests'[p] = requests[p]
  BY DEF RefreshGet, Become, TypeInv, TypeOK, Idle
<1>3. /\ UNCHANGED <<grants, refreshTokens, revoked>>
      /\ contended \subseteq contended'
      /\ g \notin contended' => \A p \in Requests : ~Covers(p, g)
  BY DEF RefreshGet, stores
<1>4. \A p \in Requests, k \in Grants : k # g /\ Holds(p, k)' => Holds(p, k)
  BY <1>2 DEF Holds
<1>5. \A p \in Requests : At(p, "revokeRefresh")' => At(p, "revokeRefresh") /\ requests'[p] = requests[p]
  BY <1>2 DEF At
<1>6. \A p \in Requests, k \in Grants : Covers(p, k)' => Covers(p, k)
  BY <1>5 DEF Covers
<1>7. g \in revoked => g \in contended
  BY <1>1 DEF FinalInv
<1>8. Created' = Created
  BY <1>3 DEF Created
<1> HIDE DEF g
<1>9. \A k \in Grants : k # g /\ Unheld(k) => Unheld(k)'
  BY <1>4 DEF Unheld
<1> USE DEF FinalInv
<1>10. revoked' \subseteq Created'
  BY <1>3, <1>8
<1>11. \A p \in Requests : At(p, "revokeRefresh")' => requests'[p].covered \subseteq Created'
  BY <1>5, <1>8
<1>12. \A k \in revoked' \ contended' : Unheld(k)' /\ \A j \in Handles : refreshTokens'[j] # k
  BY <1>3, <1>7, <1>9 DEF TypeInv, TypeOK
<1>13. \A p \in Requests, k \in Grants \ contended' : Covers(p, k)' =>
          Unheld(k)' /\ \A j \in Handles : refreshTokens'[j] = k => j \in requests'[p].pending
  <2> SUFFICES ASSUME NEW p \in Requests, NEW k \in Grants \ contended', Covers(p, k)'
               PROVE  Unheld(k)' /\ \A j \in Handles : refreshTokens'[j] = k => j \in requests'[p].pending
    OBVIOUS
  <2>1. Covers(p, k) /\ requests'[p] = requests[p] /\ k \in Grants \ contended /\ k # g
    BY <1>3, <1>5, <1>6 DEF Covers
  <2>2. Unheld(k) /\ \A j \in Handles : refreshTokens[j] = k => j \in requests[p].pending
    BY <2>1
  <2> QED
    BY <1>3, <1>9, <2>1, <2>2
<1> QED
  BY <1>10, <1>11, <1>12, <1>13

LEMMA FinalStoreUpdated ==
    ASSUME TypeInv, FinalInv, NEW r \in Requests, StoreUpdated(r)
    PROVE  FinalInv'
<1> DEFINE g == requests[r].grant
<1>1. Holds(r, g) /\ g \in Grants
  BY DEF StoreUpdated, At, Holds, TypeInv, Known, RefreshSteps
<1>2. /\ requests'[r].at = "reply"
      /\ \A p \in Requests : p # r => requests'[p] = requests[p]
  BY DEF StoreUpdated, Goto, Become, TypeInv, TypeOK, Request
<1>3. UNCHANGED <<grants, revoked, contended>>
  BY DEF StoreUpdated, history
<1>4. \A k \in Grants, j \in Handles : k # g /\ refreshTokens'[j] = k => refreshTokens[j] = k
  BY DEF StoreUpdated, TypeInv, TypeOK
<1>5. \A p \in Requests, k \in Grants : Holds(p, k)' => Holds(p, k)
  BY <1>2 DEF Holds, RefreshSteps
<1>6. \A p \in Requests : At(p, "revokeRefresh")' => At(p, "revokeRefresh") /\ requests'[p] = requests[p]
  BY <1>2 DEF At
<1>7. \A p \in Requests, k \in Grants : Covers(p, k)' => Covers(p, k)
  BY <1>6 DEF Covers
<1>8. ~Unheld(g)
  BY <1>1 DEF Unheld
<1>9. Created' = Created
  BY <1>3 DEF Created
<1> HIDE DEF g
<1>10. \A k \in Grants : Unheld(k) => Unheld(k)' /\ k # g
  BY <1>5, <1>8 DEF Unheld
<1> USE DEF FinalInv
<1>11. revoked' \subseteq Created' /\ \A p \in Requests :
          At(p, "revokeRefresh")' => requests'[p].covered \subseteq Created'
  BY <1>3, <1>6, <1>9
<1>12. \A k \in revoked' \ contended' : Unheld(k)' /\ \A j \in Handles : refreshTokens'[j] # k
  BY <1>3, <1>4, <1>10 DEF TypeInv, TypeOK
<1>13. \A p \in Requests, k \in Grants \ contended' : Covers(p, k)' =>
          Unheld(k)' /\ \A j \in Handles : refreshTokens'[j] = k => j \in requests'[p].pending
  <2> SUFFICES ASSUME NEW p \in Requests, NEW k \in Grants \ contended', Covers(p, k)'
               PROVE  Unheld(k)' /\ \A j \in Handles : refreshTokens'[j] = k => j \in requests'[p].pending
    OBVIOUS
  <2>1. Covers(p, k) /\ requests'[p] = requests[p] /\ k \in Grants \ contended
    BY <1>3, <1>6, <1>7 DEF Covers
  <2>2. Unheld(k) /\ \A j \in Handles : refreshTokens[j] = k => j \in requests[p].pending
    BY <2>1
  <2> QED
    BY <1>4, <1>10, <2>1, <2>2
<1> QED
  BY <1>11, <1>12, <1>13

LEMMA FinalRevokeStart ==
    ASSUME TypeInv, FinalInv, NEW r \in Requests, RevokeStart(r)
    PROVE  FinalInv'
<1> DEFINE s == requests[r].subject
           c == requests[r].client
           all == {g \in Grants : grants[g] # None /\ grants[g].subject = s /\ grants[g].client = c}
<1>1. /\ requests'[r].at = "revokeRefresh"
      /\ requests'[r].pending = RefreshHandlesOf(s, c)
      /\ requests'[r].covered = all
      /\ \A p \in Requests : p # r => requests'[p] = requests[p]
  BY DEF RevokeStart, Become, TypeInv, TypeOK, Request
<1>2. UNCHANGED <<grants, refreshTokens, revoked>> /\ Created' = Created
  BY DEF RevokeStart, stores, Created
<1>3. contended' = contended \cup {g \in all : \E q \in Requests : Holds(q, g)}
  BY DEF RevokeStart
<1>4. all \subseteq Created
  BY DEF Created
<1>5. \A p \in Requests, k \in Grants : Holds(p, k)' => Holds(p, k)
  BY <1>1 DEF Holds, RefreshSteps
<1>6. \A k \in Grants : Unheld(k) => Unheld(k)'
  BY <1>5 DEF Unheld
<1>7. \A g \in all, h \in Handles : refreshTokens[h] = g => h \in RefreshHandlesOf(s, c)
  BY NoneAssumption DEF RefreshHandlesOf
<1>8. \A g \in all \ contended' : Unheld(g)
  BY <1>3 DEF Unheld
<1> HIDE DEF all, s, c
<1> USE DEF FinalInv
<1>9. revoked' \subseteq Created' /\ \A p \in Requests :
          At(p, "revokeRefresh")' => requests'[p].covered \subseteq Created'
  BY <1>1, <1>2, <1>4 DEF At
<1>10. \A k \in revoked' \ contended' : Unheld(k)' /\ \A j \in Handles : refreshTokens'[j] # k
  BY <1>2, <1>3, <1>6 DEF TypeInv, TypeOK
<1>11. \A p \in Requests, k \in Grants \ contended' : Covers(p, k)' =>
          Unheld(k)' /\ \A j \in Handles : refreshTokens'[j] = k => j \in requests'[p].pending
  <2> SUFFICES ASSUME NEW p \in Requests, NEW k \in Grants \ contended', Covers(p, k)'
               PROVE  Unheld(k)' /\ \A j \in Handles : refreshTokens'[j] = k => j \in requests'[p].pending
    OBVIOUS
  <2>1. CASE p = r
    BY <1>1, <1>2, <1>6, <1>7, <1>8, <2>1 DEF Covers
  <2>2. CASE p # r
    <3>1. Covers(p, k) /\ requests'[p] = requests[p] /\ k \in Grants \ contended
      BY <1>1, <1>3, <2>2 DEF Covers, At
    <3> QED
      BY <1>2, <1>6, <3>1
  <2> QED
    BY <2>1, <2>2
<1> QED
  BY <1>9, <1>10, <1>11

LEMMA FinalRevokeOneRefresh ==
    ASSUME TypeInv, FinalInv, NEW r \in Requests, NEW h \in Handles, RevokeOneRefresh(r, h)
    PROVE  FinalInv'
<1>1. /\ requests[r].at = "revokeRefresh" /\ requests'[r].at = "revokeRefresh"
      /\ requests'[r].pending = requests[r].pending \ {h}
      /\ requests'[r].covered = requests[r].covered
      /\ \A p \in Requests : p # r => requests'[p] = requests[p]
  BY DEF RevokeOneRefresh, At, Become, TypeInv, TypeOK, Request
<1>2. UNCHANGED <<grants, revoked, contended>> /\ Created' = Created
  BY DEF RevokeOneRefresh, history, Created
<1>3. \A j \in Handles, k \in Grants : refreshTokens'[j] = k => refreshTokens[j] = k /\ j # h
  BY NoneAssumption DEF RevokeOneRefresh, TypeInv, TypeOK
<1>4. \A p \in Requests, k \in Grants : Holds(p, k)' => Holds(p, k)
  BY <1>1 DEF Holds, RefreshSteps
<1>5. \A k \in Grants : Unheld(k) => Unheld(k)'
  BY <1>4 DEF Unheld
<1>6. \A p \in Requests : At(p, "revokeRefresh")' =>
          At(p, "revokeRefresh") /\ requests'[p].covered = requests[p].covered
  BY <1>1 DEF At
<1>7. \A p \in Requests, k \in Grants : Covers(p, k)' => Covers(p, k)
  BY <1>6 DEF Covers
<1>8. \A p \in Requests, j \in Handles : j # h /\ j \in requests[p].pending => j \in requests'[p].pending
  BY <1>1
<1> USE DEF FinalInv
<1>9. revoked' \subseteq Created' /\ \A p \in Requests :
          At(p, "revokeRefresh")' => requests'[p].covered \subseteq Created'
  BY <1>2, <1>6
<1>10. \A k \in revoked' \ contended' : Unheld(k)' /\ \A j \in Handles : refreshTokens'[j] # k
  BY <1>2, <1>3, <1>5 DEF TypeInv, TypeOK
<1>11. \A p \in Requests, k \in Grants \ contended' : Covers(p, k)' =>
          Unheld(k)' /\ \A j \in Handles : refreshTokens'[j] = k => j \in requests'[p].pending
  BY <1>2, <1>3, <1>5, <1>7, <1>8
<1> QED
  BY <1>9, <1>10, <1>11

LEMMA FinalRevokeRefreshDone ==
    ASSUME TypeInv, FinalInv, NEW r \in Requests, RevokeRefreshDone(r)
    PROVE  FinalInv'
<1>1. /\ At(r, "revokeRefresh") /\ requests'[r].at = "accessStart"
      /\ \A p \in Requests : p # r => requests'[p] = requests[p]
  BY DEF RevokeRefreshDone, Become, TypeInv, TypeOK, Request
<1>2. UNCHANGED <<grants, refreshTokens, contended>> /\ Created' = Created
  BY DEF RevokeRefreshDone, stores, Created
<1>3. revoked' = revoked \cup requests[r].covered
  BY DEF RevokeRefreshDone
<1>4. \A p \in Requests, k \in Grants : Holds(p, k)' => Holds(p, k)
  BY <1>1 DEF Holds, RefreshSteps
<1>5. \A k \in Grants : Unheld(k) => Unheld(k)'
  BY <1>4 DEF Unheld
<1>6. \A p \in Requests : At(p, "revokeRefresh")' => At(p, "revokeRefresh") /\ requests'[p] = requests[p]
  BY <1>1 DEF At
<1>7. \A p \in Requests, k \in Grants : Covers(p, k)' => Covers(p, k)
  BY <1>6 DEF Covers
<1> USE DEF FinalInv
<1>8. \A k \in requests[r].covered \ contended : Unheld(k) /\ \A j \in Handles : refreshTokens[j] # k
  <2> SUFFICES ASSUME NEW k \in requests[r].covered \ contended
               PROVE  Unheld(k) /\ \A j \in Handles : refreshTokens[j] # k
    OBVIOUS
  <2>1. k \in Grants \ contended /\ Covers(r, k) /\ grants[k] # None
    BY <1>1 DEF Covers, Created
  <2>2. Unheld(k) /\ \A j \in Handles : refreshTokens[j] = k => j \in requests[r].pending
    BY <2>1
  <2>3. \A j \in requests[r].pending : refreshTokens[j] = None
    BY DEF RevokeRefreshDone
  <2> QED
    BY <2>1, <2>2, <2>3, NoneAssumption
<1>9. revoked' \subseteq Created' /\ \A p \in Requests :
          At(p, "revokeRefresh")' => requests'[p].covered \subseteq Created'
  BY <1>1, <1>2, <1>3, <1>6
<1>10. \A k \in revoked' \ contended' : Unheld(k)' /\ \A j \in Handles : refreshTokens'[j] # k
  <2>1. \A k \in revoked' \ contended' : k \in Grants
    BY <1>9 DEF Created
  <2> QED
    BY <1>2, <1>3, <1>5, <1>8, <2>1
<1>11. \A p \in Requests, k \in Grants \ contended' : Covers(p, k)' =>
          Unheld(k)' /\ \A j \in Handles : refreshTokens'[j] = k => j \in requests'[p].pending
  <2> SUFFICES ASSUME NEW p \in Requests, NEW k \in Grants \ contended', Covers(p, k)'
               PROVE  Unheld(k)' /\ \A j \in Handles : refreshTokens'[j] = k => j \in requests'[p].pending
    OBVIOUS
  <2>1. Covers(p, k) /\ requests'[p] = requests[p]
    BY <1>6, <1>7 DEF Covers
  <2> QED
    BY <1>2, <1>5, <2>1
<1> QED
  BY <1>9, <1>10, <1>11

LEMMA FinalStep == TypeInv /\ FinalInv /\ [Next]_vars => FinalInv'
<1> SUFFICES ASSUME TypeInv, FinalInv, [Next]_vars PROVE FinalInv'
  OBVIOUS
<1>1. CASE UNCHANGED vars
  BY <1>1 DEF vars, FinalInv, Created, Unheld, Holds, Covers, At
<1>2. CASE Tick
  BY <1>2 DEF Tick, stores, history, FinalInv, Created, Unheld, Holds, Covers, At
<1>3. ASSUME NEW r \in Requests,
             \/ \E g \in Grants, h \in Handles : CreateRefreshToken(r, g, h)
             \/ \E h \in delivered, c \in Clients : RefreshGet(r, c, h)
             \/ StoreUpdated(r)
             \/ RevokeStart(r)
             \/ \E h \in Handles : RevokeOneRefresh(r, h)
             \/ RevokeRefreshDone(r)
      PROVE  FinalInv'
  BY <1>3, FinalCreateRefreshToken, FinalRefreshGet, FinalStoreUpdated, FinalRevokeStart,
     FinalRevokeOneRefresh, FinalRevokeRefreshDone
<1>4. ASSUME NEW r \in Requests, Continues(r), WriteLifetime(r) PROVE FinalInv'
  <2>1. requests[r].grant \in Grants /\ grants[requests[r].grant] \in Grant
    BY <1>4 DEF WriteLifetime, At, TypeInv, TypeOK, Known, RefreshSteps
  <2>2. [grants[requests[r].grant] EXCEPT !.lifeTime = requests[r].lifeTime] # None
    <3>1. requests[r].lifeTime \in Int
      BY DEF TypeInv, TypeOK, Request
    <3> QED
      BY <2>1, <3>1, RecordAssumption DEF Grant
  <2>3. \A g \in Grants : grants[g] # None => grants'[g] # None
    BY <1>4, <2>1, <2>2 DEF WriteLifetime, TypeInv, TypeOK
  <2> QED
    BY <1>4, <2>3, FinalQuiet DEF WriteLifetime, history
<1>5. ASSUME NEW r \in Requests, Continues(r),
             UNCHANGED <<grants, revoked, contended>>,
             \A h \in Handles : refreshTokens'[h] \in {refreshTokens[h], None}
      PROVE  FinalInv'
  BY <1>5, FinalQuiet
<1>6. ASSUME NEW r \in Requests, Arrive(r) PROVE FinalInv'
  <2>1. CASE \E h \in delivered, c \in Clients : RefreshGet(r, c, h)
    BY <1>3, <2>1
  <2>2. CASE ~\E h \in delivered, c \in Clients : RefreshGet(r, c, h)
    <3>1. Continues(r)
      BY <1>6, <2>2, Continuing DEF Arrive
    <3>2. UNCHANGED <<grants, refreshTokens, revoked, contended>>
      BY <1>6, <2>2 DEF Arrive, BeginIssue, RevokeAccessGet, BeginRevokeRefresh,
                        BeginRevokePermissions, ValidateGet, stores, history
    <3> QED
      BY <1>5, <3>1, <3>2
  <2> QED
    BY <2>1, <2>2
<1>7. ASSUME NEW r \in Requests, Abort(r) PROVE FinalInv'
  <2>1. Continues(r)
    BY <1>7, Continuing
  <2> QED
    BY <1>5, <1>7, <2>1 DEF Abort, stores, history
<1>8. ASSUME NEW r \in Requests, Serve(r) PROVE FinalInv'
  <2>1. CASE RemoveExpired(r) \/ \E h \in Handles : RemoveOld(r, h)
    <3>1. Continues(r)
      BY <2>1, Continuing
    <3>2. UNCHANGED <<grants, revoked, contended>>
      BY <2>1 DEF RemoveExpired, RemoveOld, history
    <3>3. \A h \in Handles : refreshTokens'[h] \in {refreshTokens[h], None}
      BY <2>1 DEF RemoveExpired, RemoveOld, TypeInv, TypeOK
    <3> QED
      BY <1>5, <3>1, <3>2, <3>3
  <2>2. CASE \/ IssueAccessToken(r) \/ Reply(r) \/ RefreshCheck(r) \/ CheckActive(r)
             \/ RefreshAccessToken(r) \/ Slide(r) \/ RemoveAccess(r) \/ RevokeRefreshGet(r)
             \/ RevokeAccessStart(r) \/ \E h \in Handles : RevokeOneAccess(r, h)
             \/ RevokeAccessDone(r) \/ DropExpiredAccess(r)
    <3>1. Continues(r)
      BY <2>2, Continuing
    <3>2. UNCHANGED <<grants, refreshTokens, revoked, contended>>
      BY <2>2 DEF IssueAccessToken, Reply, RefreshCheck, CheckActive, RefreshAccessToken,
                  Slide, RemoveAccess, RevokeRefreshGet, RevokeAccessStart, RevokeOneAccess,
                  RevokeAccessDone, DropExpiredAccess, stores, history
    <3> QED
      BY <1>5, <3>1, <3>2
  <2>3. CASE WriteLifetime(r)
    BY <1>4, <2>3, Continuing
  <2> QED
    BY <1>3, <1>8, <2>1, <2>2, <2>3 DEF Serve
<1> QED
  BY <1>1, <1>2, <1>6, <1>7, <1>8 DEF Next

THEOREM RevocationFinal == Spec => []RevocationIsFinal
<1>1. FinalInv => RevocationIsFinal
  BY DEF FinalInv, RevocationIsFinal
<1> QED
  BY <1>1, TypeInit, TypeStep, FinalInit, FinalStep, PTL DEF Spec

------------------------------------------------------------------------------
\* The refresh window.  The lifetime of a capped grant stays within the absolute
\* lifetime, and so does every lifetime some request has computed and has still
\* to write.

Accepted == {"active", "token", "removeOld", "slide", "write", "store"}

Bound(q, heap) ==
    /\ q.at \in Accepted => q.client = heap[q.grant].client
    /\ q.at \in {"slide", "write"} => Expiration[q.client] = "Sliding"
    /\ q.at = "write" /\ Capped(q.client) => q.lifeTime <= AbsoluteLifetime[q.client]

Within(grant) == Capped(grant.client) => grant.lifeTime <= AbsoluteLifetime[grant.client]

LifeInv ==
    /\ \A g \in Grants : grants[g] # None => Within(grants[g])
    /\ \A r \in Requests : Bound(requests[r], grants)

LEMMA LifeInit == Init => LifeInv
BY DEF Init, LifeInv, Bound, Idle, Accepted

\* It is enough to look at the request that takes the step, and at the grant it
\* changes, if any.
LEMMA LifeOne ==
    ASSUME TypeInv, LifeInv, NEW r \in Requests,
           \A p \in Requests : p # r => requests'[p] = requests[p],
           Bound(requests'[r], grants'),
           \A g \in Grants : grants[g] # None => grants'[g].client = grants[g].client,
           \A g \in Grants : grants'[g] # None => Within(grants'[g])
    PROVE  LifeInv'
<1> SUFFICES ASSUME NEW p \in Requests, p # r PROVE Bound(requests'[p], grants')
  BY DEF LifeInv
<1>1. requests'[p] = requests[p] /\ Bound(requests[p], grants) /\ Known(requests[p], grants)
  BY DEF LifeInv, TypeInv
<1> QED
  BY <1>1 DEF Bound, Known, Accepted, RefreshSteps

LEMMA LifeLocal ==
    ASSUME TypeInv, LifeInv, NEW r \in Requests, UNCHANGED grants,
           \A p \in Requests : p # r => requests'[p] = requests[p],
           Bound(requests'[r], grants)
    PROVE  LifeInv'
BY LifeOne DEF LifeInv

LEMMA LifeElsewhere ==
    ASSUME TypeInv, LifeInv, NEW r \in Requests, NEW q \in Request, Become(r, q),
           q.at \notin Accepted, UNCHANGED grants
    PROVE  LifeInv'
BY LifeLocal, BecomeOne DEF Bound, Accepted, TypeInv

LEMMA LifeCreateRefreshToken ==
    ASSUME TypeInv, LifeInv, NEW r \in Requests, NEW g \in Grants, NEW h \in Handles,
           CreateRefreshToken(r, g, h)
    PROVE  LifeInv'
<1> DEFINE c == requests[r].client
<1>1. c \in Clients
  BY DEF CreateRefreshToken, At, TypeInv, Known, Issuing
<1>2. /\ requests'[r].at = "issue"
      /\ \A p \in Requests : p # r => requests'[p] = requests[p]
  BY DEF CreateRefreshToken, Become, TypeInv, TypeOK, Request
<1>3. /\ grants'[g].client = c
      /\ grants'[g].lifeTime = IF Expiration[c] = "Absolute" THEN AbsoluteLifetime[c]
                                                            ELSE SlidingLifetime[c]
      /\ \A k \in Grants : k # g => grants'[k] = grants[k]
      /\ grants[g] = None
  BY DEF CreateRefreshToken, TypeInv, TypeOK
<1>4. Within(grants'[g])
  BY <1>1, <1>3, LifetimeAssumption DEF Within, Capped
<1>5. Bound(requests'[r], grants')
  BY <1>2 DEF Bound, Accepted
<1> QED
  BY <1>2, <1>3, <1>4, <1>5, LifeOne DEF LifeInv

LEMMA LifeRefreshCheck ==
    ASSUME TypeInv, LifeInv, NEW r \in Requests, RefreshCheck(r)
    PROVE  LifeInv'
<1> DEFINE g == grants[requests[r].grant]
<1>1. CASE Goto(r, "active") /\ requests[r].client = g.client
  <2>1. /\ requests'[r].at = "active" /\ requests'[r].client = g.client
        /\ requests'[r].grant = requests[r].grant
        /\ \A p \in Requests : p # r => requests'[p] = requests[p]
    BY <1>1 DEF Goto, Become, TypeInv, TypeOK, Request
  <2>2. Bound(requests'[r], grants)
    BY <2>1 DEF Bound
  <2> QED
    BY <2>1, <2>2, LifeLocal DEF RefreshCheck, stores
<1>2. CASE FoundExpired(r, g) \/ Finish(r)
  <2>1. /\ requests'[r].at \notin Accepted
        /\ \A p \in Requests : p # r => requests'[p] = requests[p]
    <3>1. CASE FoundExpired(r, g)
      <4>1. PICK q \in Request : Become(r, q) /\ q.at = "removeExpired"
        BY <3>1, FoundExpiredForm DEF RefreshCheck, At
      <4> QED
        BY <4>1, BecomeOne DEF Accepted, TypeInv
    <3>2. CASE Finish(r)
      BY <3>2 DEF Finish, Become, TypeInv, TypeOK, Request, Idle, Accepted
    <3> QED
      BY <1>2, <3>1, <3>2
  <2>2. Bound(requests'[r], grants)
    BY <2>1 DEF Bound, Accepted
  <2> QED
    BY <2>1, <2>2, LifeLocal DEF RefreshCheck, stores
<1> QED
  BY <1>1, <1>2 DEF RefreshCheck

LEMMA LifeCheckActive ==
    ASSUME TypeInv, LifeInv, NEW r \in Requests, CheckActive(r)
    PROVE  LifeInv'
<1>1. /\ requests'[r].at \in {"token", "idle"}
      /\ requests'[r].at = "token" => /\ requests'[r].client = requests[r].client
                                      /\ requests'[r].grant = requests[r].grant
      /\ \A p \in Requests : p # r => requests'[p] = requests[p]
  BY DEF CheckActive, Goto, Finish, Become, TypeInv, TypeOK, Request, Idle
<1>2. Bound(requests'[r], grants)
  BY <1>1 DEF Bound, Accepted, LifeInv, CheckActive, At
<1> QED
  BY <1>1, <1>2, LifeLocal DEF CheckActive, stores

LEMMA LifeRefreshAccessToken ==
    ASSUME TypeInv, LifeInv, NEW r \in Requests, RefreshAccessToken(r)
    PROVE  LifeInv'
<1> DEFINE c == requests[r].client
           next == IF Usage[c] = "OneTimeOnly" THEN "removeOld"
                   ELSE IF Expiration[c] = "Sliding" THEN "slide" ELSE "reply"
<1>1. CreateSecurityToken(r, requests[r].subject, now, next)
  BY DEF RefreshAccessToken
<1>2. next \in Steps /\ next # "write" /\ (next = "slide" => Expiration[c] = "Sliding")
  BY DEF Steps, RefreshSteps
<1>3. /\ requests[r].client \in Clients /\ requests[r].subject \in Subjects
      /\ requests[r].at \in Accepted /\ now \in Nat
  BY DEF RefreshAccessToken, At, Known, RefreshSteps, Accepted, TypeInv, TypeOK
<1> HIDE DEF next
<1>4. PICK a \in Handles \cup {None} :
         LET q == [requests[r] EXCEPT !.at = next, !.accessHandle = a] IN
         q \in Request /\ Become(r, q)
  BY <1>1, <1>2, <1>3, SecurityTokenStep
<1>5. /\ requests'[r].at = next /\ requests'[r].client = c
      /\ requests'[r].grant = requests[r].grant
      /\ \A p \in Requests : p # r => requests'[p] = requests[p]
  BY <1>4 DEF Become, TypeInv, TypeOK, Request
<1>6. Bound(requests'[r], grants)
  BY <1>2, <1>3, <1>5 DEF Bound, Accepted, LifeInv
<1> QED
  BY <1>5, <1>6, LifeLocal DEF RefreshAccessToken

LEMMA LifeRemoveOld ==
    ASSUME TypeInv, LifeInv, NEW r \in Requests, NEW h \in Handles, RemoveOld(r, h)
    PROVE  LifeInv'
<1>1. /\ requests[r].at \in Accepted
      /\ requests'[r].at = IF Expiration[requests[r].client] = "Sliding" THEN "slide" ELSE "store"
      /\ requests'[r].client = requests[r].client
      /\ requests'[r].grant = requests[r].grant
      /\ \A p \in Requests : p # r => requests'[p] = requests[p]
  BY DEF RemoveOld, At, Become, TypeInv, TypeOK, Request, Accepted
<1>2. Bound(requests'[r], grants)
  BY <1>1 DEF Bound, Accepted, LifeInv
<1> QED
  BY <1>1, <1>2, LifeLocal DEF RemoveOld

LEMMA LifeSlide ==
    ASSUME TypeInv, LifeInv, NEW r \in Requests, Slide(r)
    PROVE  LifeInv'
<1> DEFINE c == requests[r].client
           l == NewLifetime(c, grants[requests[r].grant].created, now)
<1>1. /\ requests[r].at = "slide" /\ c \in Clients /\ grants[requests[r].grant] \in Grant
      /\ Bound(requests[r], grants)
  BY DEF Slide, At, TypeInv, TypeOK, Known, RefreshSteps, LifeInv
<1>2. Capped(c) => l <= AbsoluteLifetime[c]
  BY <1>1, NewLifetimeCapped DEF Grant, TypeInv, TypeOK, Bound, Capped
<1> HIDE DEF l
<1>3. /\ requests'[r].at = "write" /\ requests'[r].lifeTime = l
      /\ requests'[r].client = c /\ requests'[r].grant = requests[r].grant
      /\ \A p \in Requests : p # r => requests'[p] = requests[p]
  BY DEF Slide, Become, TypeInv, TypeOK, Request, l
<1>4. Bound(requests'[r], grants)
  BY <1>1, <1>2, <1>3 DEF Bound, Accepted
<1> QED
  BY <1>3, <1>4, LifeLocal DEF Slide, stores

LEMMA LifeWriteLifetime ==
    ASSUME TypeInv, LifeInv, NEW r \in Requests, WriteLifetime(r)
    PROVE  LifeInv'
<1> DEFINE g == requests[r].grant
<1>1. /\ requests[r].at = "write" /\ Bound(requests[r], grants)
      /\ g \in Grants /\ grants[g] # None /\ grants[g] \in Grant
  BY DEF WriteLifetime, At, TypeInv, TypeOK, Known, RefreshSteps, LifeInv
<1>2. /\ grants'[g].client = grants[g].client /\ grants'[g].lifeTime = requests[r].lifeTime
      /\ \A k \in Grants : k # g => grants'[k] = grants[k]
  BY <1>1 DEF WriteLifetime, TypeInv, TypeOK, Grant
<1>3. /\ requests'[r].at = "store" /\ requests'[r].client = requests[r].client
      /\ requests'[r].grant = g
      /\ \A p \in Requests : p # r => requests'[p] = requests[p]
  BY DEF WriteLifetime, Goto, Become, TypeInv, TypeOK, Request
<1>4. Within(grants'[g]) /\ Bound(requests'[r], grants')
  BY <1>1, <1>2, <1>3 DEF Within, Bound, Accepted
<1> QED
  BY <1>2, <1>3, <1>4, LifeOne DEF LifeInv

\* The other steps of a request change no grant, and leave it with nothing accepted
\* and nothing found expired.
Other(r) ==
    \/ Arrive(r) \/ Abort(r)
    \/ IssueAccessToken(r) \/ Reply(r) \/ RemoveExpired(r) \/ StoreUpdated(r)
    \/ RemoveAccess(r) \/ RevokeRefreshGet(r) \/ RevokeStart(r)
    \/ \E h \in Handles : RevokeOneRefresh(r, h)
    \/ RevokeRefreshDone(r) \/ RevokeAccessStart(r)
    \/ \E h \in Handles : RevokeOneAccess(r, h)
    \/ RevokeAccessDone(r) \/ DropExpiredAccess(r)

Elsewhere(r) ==
    /\ \A p \in Requests : p # r => requests'[p] = requests[p]
    /\ requests'[r].at \notin Accepted \cup {"removeExpired"}

LEMMA OtherStep ==
    ASSUME TypeInv, NEW r \in Requests, Other(r)
    PROVE  Elsewhere(r) /\ UNCHANGED grants
<1>1. requests \in [Requests -> Request] /\ requests[r] \in Request
  BY DEF TypeInv, TypeOK
<1>2. ASSUME NEW step, Goto(r, step), step \notin Accepted \cup {"removeExpired"}
      PROVE  Elsewhere(r)
  BY <1>1, <1>2 DEF Goto, Become, Request, Elsewhere
<1>3. ASSUME Finish(r) PROVE Elsewhere(r)
  BY <1>1, <1>3 DEF Finish, Become, Idle, Accepted, Elsewhere
<1>5. ASSUME Arrive(r) PROVE Elsewhere(r) /\ UNCHANGED grants
  <2>1. ASSUME NEW s \in Subjects, NEW c \in Clients, NEW offline \in BOOLEAN, BeginIssue(r, s, c, offline)
        PROVE  Elsewhere(r) /\ UNCHANGED grants
    BY <1>1, <2>1 DEF BeginIssue, Become, Idle, Accepted, Elsewhere, stores
  <2>2. ASSUME NEW h \in delivered, NEW c \in Clients, RefreshGet(r, c, h)
        PROVE  Elsewhere(r) /\ UNCHANGED grants
    BY <1>1, <2>2 DEF RefreshGet, Become, Idle, Accepted, Elsewhere, stores
  <2>3. ASSUME NEW h \in delivered, NEW c \in Clients, NEW hinted \in BOOLEAN, RevokeAccessGet(r, c, h, hinted)
        PROVE  Elsewhere(r) /\ UNCHANGED grants
    <3>1. PICK step \in {"removeAccess", "revokeGet"} :
             Become(r, [Idle EXCEPT !.at = step, !.client = c, !.handle = h])
      BY <2>3 DEF RevokeAccessGet
    <3> QED
      BY <1>1, <2>3, <3>1 DEF RevokeAccessGet, Become, Idle, Accepted, Elsewhere, stores
  <2>4. ASSUME NEW h \in delivered, NEW c \in Clients, BeginRevokeRefresh(r, c, h)
        PROVE  Elsewhere(r) /\ UNCHANGED grants
    BY <1>1, <2>4 DEF BeginRevokeRefresh, Become, Idle, Accepted, Elsewhere, stores
  <2>5. ASSUME NEW s \in Subjects, NEW c \in Clients, BeginRevokePermissions(r, s, c)
        PROVE  Elsewhere(r) /\ UNCHANGED grants
    BY <1>1, <2>5 DEF BeginRevokePermissions, Become, Idle, Accepted, Elsewhere, stores
  <2>6. ASSUME NEW h \in delivered, ValidateGet(r, h) PROVE Elsewhere(r) /\ UNCHANGED grants
    BY <1>1, <2>6 DEF ValidateGet, Become, Idle, Accepted, Elsewhere, stores
  <2> QED
    BY <1>5, <2>1, <2>2, <2>3, <2>4, <2>5, <2>6 DEF Arrive
<1>6. ASSUME IssueAccessToken(r) PROVE Elsewhere(r) /\ UNCHANGED grants
  <2>1. /\ requests[r].client \in Clients /\ requests[r].subject \in Subjects
        /\ requests[r].created \in Nat /\ "reply" \in Steps
    BY <1>1, <1>6 DEF IssueAccessToken, At, Known, Issuing, TypeInv, Request, Steps
  <2>2. PICK a \in Handles \cup {None} :
           LET q == [requests[r] EXCEPT !.at = "reply", !.accessHandle = a] IN
           q \in Request /\ Become(r, q)
    BY <1>6, <2>1, SecurityTokenStep DEF IssueAccessToken
  <2> QED
    BY <1>1, <1>6, <2>2 DEF Become, Request, Accepted, Elsewhere, IssueAccessToken
<1>7. ASSUME Reply(r) \/ RemoveExpired(r) \/ RemoveAccess(r) \/ RevokeAccessDone(r)
             \/ DropExpiredAccess(r) \/ Abort(r)
      PROVE  Elsewhere(r) /\ UNCHANGED grants
  BY <1>3, <1>7 DEF Reply, RemoveExpired, RemoveAccess, RevokeAccessDone, DropExpiredAccess,
                    Abort, stores
<1>8. ASSUME StoreUpdated(r) PROVE Elsewhere(r) /\ UNCHANGED grants
  BY <1>2, <1>8 DEF StoreUpdated, Accepted
<1>9. ASSUME RevokeRefreshGet(r) PROVE Elsewhere(r) /\ UNCHANGED grants
  <2>1. CASE \E s : Become(r, [requests[r] EXCEPT !.at = "revokeStart", !.subject = s])
    BY <1>1, <1>9, <2>1 DEF RevokeRefreshGet, Become, Request, Accepted, Elsewhere, stores
  <2>2. CASE Finish(r)
    BY <1>3, <1>9, <2>2 DEF RevokeRefreshGet, stores
  <2> QED
    BY <1>9, <2>1, <2>2 DEF RevokeRefreshGet
<1>10. ASSUME RevokeStart(r) \/ RevokeRefreshDone(r) \/ RevokeAccessStart(r)
       PROVE  Elsewhere(r) /\ UNCHANGED grants
  <2>1. UNCHANGED grants
    BY <1>10 DEF RevokeStart, RevokeRefreshDone, RevokeAccessStart, stores
  <2>2. CASE RevokeStart(r)
    BY <1>1, <2>1, <2>2 DEF RevokeStart, Become, Request, Accepted, Elsewhere
  <2>3. CASE RevokeRefreshDone(r)
    BY <1>1, <2>1, <2>3 DEF RevokeRefreshDone, Become, Request, Accepted, Elsewhere
  <2>4. CASE RevokeAccessStart(r)
    BY <1>1, <2>1, <2>4 DEF RevokeAccessStart, Become, Request, Accepted, Elsewhere
  <2> QED
    BY <1>10, <2>2, <2>3, <2>4
<1>11. ASSUME NEW h \in Handles, RevokeOneRefresh(r, h) \/ RevokeOneAccess(r, h)
       PROVE  Elsewhere(r) /\ UNCHANGED grants
  BY <1>1, <1>11 DEF RevokeOneRefresh, RevokeOneAccess, At, Become, Request, Accepted, Elsewhere
<1> QED
  BY <1>5, <1>6, <1>7, <1>8, <1>9, <1>10, <1>11 DEF Other

LEMMA LifeOther ==
    ASSUME TypeInv, LifeInv, NEW r \in Requests, Other(r)
    PROVE  LifeInv'
<1>1. Elsewhere(r) /\ UNCHANGED grants
  BY OtherStep
<1>2. Bound(requests'[r], grants)
  BY <1>1 DEF Bound, Accepted, Elsewhere
<1> QED
  BY <1>1, <1>2, LifeLocal DEF Elsewhere

LEMMA LifeStep == TypeInv /\ LifeInv /\ [Next]_vars => LifeInv'
<1> SUFFICES ASSUME TypeInv, LifeInv, [Next]_vars PROVE LifeInv'
  OBVIOUS
<1>1. CASE UNCHANGED vars \/ Tick
  BY <1>1 DEF vars, Tick, stores, LifeInv
<1>2. ASSUME NEW r \in Requests, Serve(r) PROVE LifeInv'
  BY <1>2, LifeOther, LifeCreateRefreshToken, LifeRefreshCheck, LifeCheckActive,
     LifeRefreshAccessToken, LifeRemoveOld, LifeSlide, LifeWriteLifetime DEF Serve, Other
<1>3. ASSUME NEW r \in Requests, Arrive(r) \/ Abort(r) PROVE LifeInv'
  BY <1>3, LifeOther DEF Other
<1> QED
  BY <1>1, <1>2, <1>3 DEF Next

\* A step of a request changes no other request, and a request goes from check to
\* active in RefreshCheck only.
LEMMA StepBecomes ==
    ASSUME NEW r \in Requests, Arrive(r) \/ Serve(r) \/ Abort(r)
    PROVE  \E q : Become(r, q)
<1>1. ASSUME Arrive(r) PROVE \E q : Become(r, q)
  BY <1>1 DEF Arrive, BeginIssue, RefreshGet, RevokeAccessGet, BeginRevokeRefresh,
              BeginRevokePermissions, ValidateGet
<1>2. ASSUME Abort(r) PROVE \E q : Become(r, q)
  BY <1>2 DEF Abort, Finish
<1>3. ASSUME NEW s, NEW t, NEW next, CreateSecurityToken(r, s, t, next) PROVE \E q : Become(r, q)
  BY <1>3 DEF CreateSecurityToken, Goto
<1>4. ASSUME Serve(r) PROVE \E q : Become(r, q)
  <2>1. CASE IssueAccessToken(r) \/ RefreshAccessToken(r)
    BY <1>3, <2>1 DEF IssueAccessToken, RefreshAccessToken
  <2>2. CASE Reply(r) \/ RefreshCheck(r) \/ RemoveExpired(r) \/ CheckActive(r) \/ Slide(r)
             \/ WriteLifetime(r) \/ StoreUpdated(r) \/ RemoveAccess(r)
    BY <2>2 DEF Reply, RefreshCheck, RemoveExpired, CheckActive, Slide, WriteLifetime,
                StoreUpdated, RemoveAccess, FoundExpired, Goto, Finish
  <2>3. CASE RevokeRefreshGet(r) \/ RevokeStart(r) \/ RevokeRefreshDone(r)
             \/ RevokeAccessStart(r) \/ RevokeAccessDone(r) \/ DropExpiredAccess(r)
    BY <2>3 DEF RevokeRefreshGet, RevokeStart, RevokeRefreshDone, RevokeAccessStart,
                RevokeAccessDone, DropExpiredAccess, Finish
  <2>4. CASE \/ \E g \in Grants, h \in Handles : CreateRefreshToken(r, g, h)
             \/ \E h \in Handles : RemoveOld(r, h)
             \/ \E h \in Handles : RevokeOneRefresh(r, h)
             \/ \E h \in Handles : RevokeOneAccess(r, h)
    BY <2>4 DEF CreateRefreshToken, RemoveOld, RevokeOneRefresh, RevokeOneAccess
  <2> QED
    BY <1>4, <2>1, <2>2, <2>3, <2>4 DEF Serve
<1> QED
  BY <1>1, <1>2, <1>4

LEMMA ActiveByCheck ==
    ASSUME TypeInv, [Next]_vars, NEW r \in Requests, At(r, "check"), requests'[r].at = "active"
    PROVE  RefreshCheck(r)
<1>1. requests'[r] # requests[r]
  BY DEF At
<1>2. ~UNCHANGED vars /\ ~Tick
  BY <1>1 DEF vars, Tick
<1>3. PICK p \in Requests : Arrive(p) \/ Serve(p) \/ Abort(p)
  BY <1>2 DEF Next
<1>4. p = r
  BY <1>1, <1>3, StepBecomes DEF Become, TypeInv, TypeOK
<1>5. ~Arrive(r)
  BY DEF Arrive, At, BeginIssue, RefreshGet, RevokeAccessGet, BeginRevokeRefresh,
         BeginRevokePermissions, ValidateGet
<1>6. ~Abort(r)
  BY FinishStep, BecomeOne DEF Abort, TypeInv, Idle
<1> QED
  BY <1>3, <1>4, <1>5, <1>6 DEF Serve, At, CreateRefreshToken, IssueAccessToken, Reply,
     RemoveExpired, CheckActive, RefreshAccessToken, RemoveOld, Slide, WriteLifetime,
     StoreUpdated, RemoveAccess, RevokeRefreshGet, RevokeStart, RevokeOneRefresh,
     RevokeRefreshDone, RevokeAccessStart, RevokeOneAccess, RevokeAccessDone, DropExpiredAccess

\* However often a grant slides, whatever the number of requests that slide it,
\* no refresh is accepted after its absolute lifetime.
THEOREM RefreshWindowHolds == Spec => RefreshWindow
<1> DEFINE G(r) == grants[requests[r].grant]
           Step(r) == At(r, "check") /\ requests'[r].at = "active" /\ Capped(G(r).client)
                        => now <= G(r).created + AbsoluteLifetime[G(r).client]
<1>1. ASSUME TypeInv, LifeInv, [Next]_vars, NEW r \in Requests PROVE Step(r)
  <2> SUFFICES ASSUME At(r, "check"), requests'[r].at = "active", Capped(G(r).client)
               PROVE  now <= G(r).created + AbsoluteLifetime[G(r).client]
    OBVIOUS
  <2>1. RefreshCheck(r)
    BY <1>1, ActiveByCheck
  <2>2. G(r) \in Grant /\ G(r) # None /\ requests[r].grant \in Grants
    BY <1>1 DEF At, TypeInv, TypeOK, Known, RefreshSteps
  <2>3. ~HasExceeded(G(r).created, G(r).lifeTime)
    <3>1. ~FoundExpired(r, G(r))
      BY <1>1, FoundExpiredForm, BecomeOne DEF At, TypeInv
    <3> QED
      BY <1>1, <2>1, <3>1 DEF RefreshCheck, Goto, Finish, Become, Idle, TypeInv, TypeOK, Request
  <2>4. Within(G(r))
    BY <1>1, <2>2 DEF LifeInv
  <2> HIDE DEF G
  <2> QED
    BY <1>1, <2>2, <2>3, <2>4, LifetimeAssumption DEF HasExceeded, Within, Grant, TypeInv, TypeOK
<1>2. TypeInv /\ LifeInv /\ [Next]_vars => [\A r \in Requests : Step(r)]_vars
  BY <1>1
<1>3. Spec => []TypeInv /\ []LifeInv
  BY TypeInit, TypeStep, LifeInit, LifeStep, PTL DEF Spec
<1>4. Spec => [][\A r \in Requests : Step(r)]_vars
  BY <1>2, <1>3, PTL DEF Spec
<1> QED
  BY <1>4 DEF RefreshWindow

------------------------------------------------------------------------------
\* Handles.  A handle is generated once: it names one grant, or one access token,
\* for good, whoever holds it.

\* What a request found when it read the access token, of whatever is still there.
TokenFound(q) ==
    /\ q.at = "dropAccess" /\ tokenHandles[q.handle] # None
          => now >= tokenHandles[q.handle].expires
    /\ q.at = "removeAccess" /\ tokenHandles[q.handle] # None
          => q.client = tokenHandles[q.handle].client

MintedInv ==
    /\ delivered \subseteq minted
    /\ \A h \in Handles : refreshTokens[h] # None \/ tokenHandles[h] # None => h \in minted
    /\ \A r \in Requests :
          /\ requests[r].handle \in delivered \cup {None}
          /\ requests[r].newHandle \in minted \cup {None}
          /\ requests[r].accessHandle \in minted \cup {None}
          /\ TokenFound(requests[r])

\* A step of a request that issues no refresh token, reads none, and neither
\* removes an old one nor stores a new one.
Quiet(r) ==
    LET p == requests[r]
        q == requests'[r]
    IN
    /\ \A o \in Requests : o # r => requests'[o] = requests[o]
    /\ \A g \in Grants : grants[g] # None
          => grants'[g] # None /\ grants'[g].client = grants[g].client
    /\ \A g \in Grants : grants[g] = None => grants'[g] = None
    /\ now' = now /\ raced' = raced
    /\ minted \subseteq minted'
    /\ \/ delivered' = delivered
       \/ /\ p.at = "reply" /\ q.at = "idle"
          /\ delivered' = delivered \cup ({p.newHandle, p.accessHandle} \ {None})
    /\ \A h \in Handles : refreshTokens'[h] \in {refreshTokens[h], None}
    /\ \A h \in Handles : tokenHandles'[h] \in {tokenHandles[h], None} \/ h \in minted' \ minted
    /\ q.handle \in delivered \cup {None, p.handle}
    /\ q.newHandle \in {None, p.newHandle}
    /\ q.accessHandle \in {None, p.accessHandle} \cup (minted' \ minted)
    /\ TokenFound(q)
    /\ q.at \in RefreshSteps =>
          /\ p.at \in RefreshSteps
          /\ q.client = p.client /\ q.grant = p.grant
          /\ q.handle = p.handle /\ q.newHandle = p.newHandle
          /\ Owes(q) <=> Owes(p)
    /\ q.at = "removeOld" => Usage[q.client] = "OneTimeOnly"

\* The stores and the clock are as they were.
Untouched ==
    UNCHANGED <<now, grants, refreshTokens, tokenHandles, minted, delivered, raced>>

\* A request that ends, that goes on to another step, or that begins.
LEMMA QuietFinish ==
    ASSUME TypeInv, NEW r \in Requests, Finish(r), now' = now, raced' = raced, grants' = grants,
           minted' = minted, delivered' = delivered,
           \A h \in Handles : refreshTokens'[h] \in {refreshTokens[h], None},
           \A h \in Handles : tokenHandles'[h] \in {tokenHandles[h], None}
    PROVE  Quiet(r)
<1>1. /\ \A o \in Requests : o # r => requests'[o] = requests[o]
      /\ requests'[r] = Idle
  BY FinishStep, BecomeOne DEF TypeInv
<1>2. /\ Idle.at = "idle" /\ Idle.handle = None /\ Idle.newHandle = None
      /\ Idle.accessHandle = None
  BY DEF Idle
<1>3. TokenFound(Idle)
  BY <1>2 DEF TokenFound
<1> QED
  BY <1>1, <1>2, <1>3 DEF Quiet, RefreshSteps

\* A request that goes on with what it has.
LEMMA QuietOn ==
    ASSUME TypeInv, NEW r \in Requests, NEW q \in Request, Become(r, q), Untouched,
           q.client = requests[r].client, q.grant = requests[r].grant,
           q.handle = requests[r].handle, q.newHandle = requests[r].newHandle,
           q.accessHandle = requests[r].accessHandle,
           q.at \notin {"dropAccess", "removeAccess", "removeOld"},
           q.at \in RefreshSteps => requests[r].at \in RefreshSteps,
           q.at \in RefreshSteps => (Owes(q) <=> Owes(requests[r]))
    PROVE  Quiet(r)
<1>1. /\ \A o \in Requests : o # r => requests'[o] = requests[o]
      /\ requests'[r] = q
  BY BecomeOne DEF TypeInv
<1>2. TokenFound(q)
  BY DEF TokenFound
<1> QED
  BY <1>1, <1>2 DEF Quiet, Untouched

\* A request that begins, with or without a handle that was delivered to a client.
LEMMA QuietBegin ==
    ASSUME TypeInv, NEW r \in Requests, NEW q \in Request, Become(r, q), Untouched,
           q.handle \in delivered \cup {None}, q.newHandle = None, q.accessHandle = None,
           q.at \notin RefreshSteps, TokenFound(q)
    PROVE  Quiet(r)
<1>1. /\ \A o \in Requests : o # r => requests'[o] = requests[o]
      /\ requests'[r] = q
  BY BecomeOne DEF TypeInv
<1> QED
  BY <1>1 DEF Quiet, Untouched, RefreshSteps

LEMMA QuietArrive ==
    ASSUME TypeInv, NEW r \in Requests, Arrive(r),
           ~\E h \in delivered, c \in Clients : RefreshGet(r, c, h)
    PROVE  Quiet(r)
<1>1. ASSUME NEW s \in Subjects, NEW c \in Clients, NEW offline \in BOOLEAN,
             BeginIssue(r, s, c, offline)
      PROVE  Quiet(r)
  <2> DEFINE step == IF offline THEN "create" ELSE "issue"
  <2>1. PICK q : q = [Idle EXCEPT !.at = step, !.client = c, !.subject = s, !.created = now]
    OBVIOUS
  <2>2. Become(r, q) /\ Untouched
    BY <1>1, <2>1 DEF BeginIssue, stores, history, Untouched
  <2>3. q \in Request
    <3>1. step \in Steps /\ now \in Nat
      BY DEF Steps, TypeInv, TypeOK
    <3> HIDE DEF step
    <3> QED
      BY <2>1, <3>1, IdleType DEF Request
  <2>4. q.handle = None /\ q.newHandle = None /\ q.accessHandle = None /\ q.at = step
    BY <2>1 DEF Idle
  <2>5. q.at \notin RefreshSteps /\ TokenFound(q)
    BY <2>4 DEF TokenFound, RefreshSteps
  <2> QED
    BY <2>2, <2>3, <2>4, <2>5, QuietBegin
<1>2. ASSUME NEW h \in delivered, NEW c \in Clients, NEW hinted \in BOOLEAN,
             RevokeAccessGet(r, c, h, hinted)
      PROVE  Quiet(r)
  <2>1. PICK step \in {"removeAccess", "revokeGet"} :
           /\ Become(r, [Idle EXCEPT !.at = step, !.client = c, !.handle = h])
           /\ step = "removeAccess" => tokenHandles[h].client = c
    BY <1>2 DEF RevokeAccessGet
  <2>2. PICK q : q = [Idle EXCEPT !.at = step, !.client = c, !.handle = h]
    OBVIOUS
  <2>3. Become(r, q) /\ Untouched /\ h \in Handles
    BY <1>2, <2>1, <2>2 DEF RevokeAccessGet, stores, history, Untouched, TypeInv, TypeOK
  <2>4. q \in Request
    BY <2>2, <2>3, IdleType DEF Request, Steps
  <2>5. /\ q.handle = h /\ q.newHandle = None /\ q.accessHandle = None /\ q.at = step
        /\ q.client = c
    BY <2>2 DEF Idle
  <2>6. q.at \notin RefreshSteps /\ TokenFound(q)
    BY <2>1, <2>5 DEF TokenFound, RefreshSteps
  <2> QED
    BY <2>3, <2>4, <2>5, <2>6, QuietBegin
<1>3. ASSUME NEW h \in delivered, NEW c \in Clients, BeginRevokeRefresh(r, c, h)
      PROVE  Quiet(r)
  <2>1. PICK q : q = [Idle EXCEPT !.at = "revokeGet", !.client = c, !.handle = h]
    OBVIOUS
  <2>2. Become(r, q) /\ Untouched /\ h \in Handles
    BY <1>3, <2>1 DEF BeginRevokeRefresh, stores, history, Untouched, TypeInv, TypeOK
  <2>3. q \in Request
    BY <2>1, <2>2, IdleType DEF Request, Steps
  <2>4. q.handle = h /\ q.newHandle = None /\ q.accessHandle = None /\ q.at = "revokeGet"
    BY <2>1 DEF Idle
  <2>5. q.at \notin RefreshSteps /\ TokenFound(q)
    BY <2>4 DEF TokenFound, RefreshSteps
  <2> QED
    BY <2>2, <2>3, <2>4, <2>5, QuietBegin
<1>4. ASSUME NEW s \in Subjects, NEW c \in Clients, BeginRevokePermissions(r, s, c)
      PROVE  Quiet(r)
  <2>1. PICK q : q = [Idle EXCEPT !.at = "revokeStart", !.client = c, !.subject = s]
    OBVIOUS
  <2>2. Become(r, q) /\ Untouched
    BY <1>4, <2>1 DEF BeginRevokePermissions, stores, history, Untouched
  <2>3. q \in Request
    BY <2>1, IdleType DEF Request, Steps
  <2>4. q.handle = None /\ q.newHandle = None /\ q.accessHandle = None /\ q.at = "revokeStart"
    BY <2>1 DEF Idle
  <2>5. q.at \notin RefreshSteps /\ TokenFound(q)
    BY <2>4 DEF TokenFound, RefreshSteps
  <2> QED
    BY <2>2, <2>3, <2>4, <2>5, QuietBegin
<1>5. ASSUME NEW h \in delivered, ValidateGet(r, h) PROVE Quiet(r)
  <2>1. PICK q : q = [Idle EXCEPT !.at = "dropAccess", !.handle = h]
    OBVIOUS
  <2>2. Become(r, q) /\ Untouched /\ h \in Handles /\ now >= tokenHandles[h].expires
    BY <1>5, <2>1 DEF ValidateGet, stores, history, Untouched, TypeInv, TypeOK
  <2>3. q \in Request
    BY <2>1, <2>2, IdleType DEF Request, Steps
  <2>4. q.handle = h /\ q.newHandle = None /\ q.accessHandle = None /\ q.at = "dropAccess"
    BY <2>1 DEF Idle
  <2>5. q.at \notin RefreshSteps /\ TokenFound(q)
    BY <2>2, <2>4 DEF TokenFound, RefreshSteps
  <2> QED
    BY <2>2, <2>3, <2>4, <2>5, QuietBegin
<1> QED
  BY <1>1, <1>2, <1>3, <1>4, <1>5 DEF Arrive

LEMMA QuietSecurityToken ==
    ASSUME TypeInv, NEW r \in Requests, NEW s \in Subjects, NEW t \in Nat, NEW next \in Steps,
           requests[r].client \in Clients, CreateSecurityToken(r, s, t, next),
           UNCHANGED <<now, grants, refreshTokens, delivered, raced>>,
           next \notin {"dropAccess", "removeAccess"},
           next = "removeOld" => Usage[requests[r].client] = "OneTimeOnly",
           next \in RefreshSteps =>
               /\ requests[r].at \in RefreshSteps
               /\ requests[r].at \notin {"slide", "write", "store"}
               /\ next \in {"slide", "write", "store"}
                     => Usage[requests[r].client] # "OneTimeOnly"
    PROVE  Quiet(r)
<1> DEFINE c == requests[r].client
<1>1. requests[r] \in Request /\ requests \in [Requests -> Request]
  BY DEF TypeInv, TypeOK
<1>2. ASSUME NEW a \in Handles \cup {None}, NEW q, q = [requests[r] EXCEPT !.at = next, !.accessHandle = a],
             Become(r, q),
             a = requests[r].accessHandle \/ a \in minted' \ minted,
             minted \subseteq minted',
             \A h \in Handles : tokenHandles'[h] \in {tokenHandles[h], None} \/ h \in minted' \ minted
      PROVE  Quiet(r)
  <2>1. q \in Request
    BY <1>1, <1>2 DEF Request
  <2>2. /\ q.at = next /\ q.client = c /\ q.grant = requests[r].grant
        /\ q.handle = requests[r].handle /\ q.newHandle = requests[r].newHandle
        /\ q.accessHandle = a
    BY <1>1, <1>2 DEF Request
  <2>3. requests'[r] = q /\ \A o \in Requests : o # r => requests'[o] = requests[o]
    BY <1>2, <2>1, BecomeOne DEF TypeInv
  <2>4. TokenFound(q)
    BY <2>2 DEF TokenFound
  <2>5. next \in RefreshSteps => (Owes(q) <=> Owes(requests[r]))
    BY <2>2 DEF Owes
  <2> QED
    BY <1>2, <2>2, <2>3, <2>4, <2>5 DEF Quiet
<1>3. CASE AccessTokenType[c] = "Reference"
  <2>1. PICK h \in Handles \ minted :
            /\ tokenHandles' = [tokenHandles EXCEPT ![h] =
                   [client |-> c, subject |-> s, expires |-> t + AccessTokenLifetime[c]]]
            /\ minted' = minted \cup {h}
            /\ Become(r, [requests[r] EXCEPT !.at = next, !.accessHandle = h])
    BY <1>3 DEF CreateSecurityToken
  <2>2. \A k \in Handles : tokenHandles'[k] \in {tokenHandles[k], None} \/ k \in minted' \ minted
    BY <2>1 DEF TypeInv, TypeOK
  <2> QED
    BY <1>2, <2>1, <2>2
<1>4. CASE AccessTokenType[c] # "Reference"
  <2>1. Become(r, [requests[r] EXCEPT !.at = next]) /\ UNCHANGED <<tokenHandles, minted>>
    BY <1>4 DEF CreateSecurityToken, Goto
  <2>2. PICK a \in Handles \cup {None} : a = requests[r].accessHandle
    BY <1>1 DEF Request
  <2>3. [requests[r] EXCEPT !.at = next] = [requests[r] EXCEPT !.at = next, !.accessHandle = a]
    BY <1>1, <2>2 DEF Request
  <2>4. \A k \in Handles : tokenHandles'[k] \in {tokenHandles[k], None} \/ k \in minted' \ minted
    BY <2>1
  <2> QED
    BY <1>2, <2>1, <2>2, <2>3, <2>4
<1> QED
  BY <1>3, <1>4

LEMMA QuietServe ==
    ASSUME TypeInv, NEW r \in Requests,
           \/ IssueAccessToken(r) \/ Reply(r) \/ RefreshCheck(r) \/ RemoveExpired(r)
           \/ CheckActive(r) \/ RefreshAccessToken(r) \/ Slide(r) \/ WriteLifetime(r)
           \/ RemoveAccess(r) \/ RevokeRefreshGet(r) \/ RevokeStart(r)
           \/ \E h \in Handles : RevokeOneRefresh(r, h)
           \/ RevokeRefreshDone(r) \/ RevokeAccessStart(r)
           \/ \E h \in Handles : RevokeOneAccess(r, h)
           \/ RevokeAccessDone(r) \/ DropExpiredAccess(r) \/ Abort(r)
    PROVE  Quiet(r)
<1>1. requests \in [Requests -> Request] /\ requests[r] \in Request /\ Known(requests[r], grants)
  BY DEF TypeInv, TypeOK
<1>2. CASE IssueAccessToken(r)
  <2>1. /\ requests[r].client \in Clients /\ requests[r].subject \in Subjects
        /\ requests[r].created \in Nat /\ "reply" \in Steps /\ "reply" \notin RefreshSteps
    BY <1>1, <1>2 DEF IssueAccessToken, At, Known, Issuing, Request, Steps, RefreshSteps
  <2> QED
    BY <1>2, <2>1, QuietSecurityToken DEF IssueAccessToken, history
<1>3. CASE RefreshAccessToken(r)
  <2> DEFINE c == requests[r].client
             next == IF Usage[c] = "OneTimeOnly" THEN "removeOld"
                     ELSE IF Expiration[c] = "Sliding" THEN "slide" ELSE "reply"
  <2>1. CreateSecurityToken(r, requests[r].subject, now, next)
    BY <1>3 DEF RefreshAccessToken
  <2>2. /\ next \in Steps /\ now \in Nat /\ next \notin {"dropAccess", "removeAccess"}
        /\ next = "removeOld" => Usage[c] = "OneTimeOnly"
        /\ next \in {"slide", "write", "store"} => Usage[c] # "OneTimeOnly"
    BY DEF Steps, RefreshSteps, TypeInv, TypeOK
  <2>3. /\ requests[r].client \in Clients /\ requests[r].subject \in Subjects
        /\ requests[r].at \in RefreshSteps /\ requests[r].at = "token"
    BY <1>1, <1>3 DEF RefreshAccessToken, At, Known, RefreshSteps
  <2>4. UNCHANGED <<now, grants, refreshTokens, delivered, raced>>
    BY <1>3 DEF RefreshAccessToken, history
  <2> HIDE DEF next
  <2> QED
    BY <2>1, <2>2, <2>3, <2>4, QuietSecurityToken
<1>4. CASE RevokeAccessDone(r) \/ Abort(r)
  BY <1>4, QuietFinish DEF RevokeAccessDone, Abort, stores, history
<1>5. CASE Reply(r)
  <2>1. requests'[r] = Idle /\ \A o \in Requests : o # r => requests'[o] = requests[o]
    BY <1>5, FinishStep, BecomeOne DEF Reply, TypeInv
  <2>2. /\ Idle.at = "idle" /\ Idle.handle = None /\ Idle.newHandle = None
        /\ Idle.accessHandle = None
    BY DEF Idle
  <2>3. TokenFound(Idle) /\ Idle.at \notin RefreshSteps
    BY <2>2 DEF TokenFound, RefreshSteps
  <2>4. /\ UNCHANGED <<now, grants, refreshTokens, tokenHandles, minted, raced>>
        /\ requests[r].at = "reply"
        /\ delivered' = delivered \cup ({requests[r].newHandle, requests[r].accessHandle} \ {None})
    BY <1>5 DEF Reply, At, stores, history
  <2> QED
    BY <2>1, <2>2, <2>3, <2>4 DEF Quiet
<1>6. CASE RemoveExpired(r)
  <2>1. \A h \in Handles : refreshTokens'[h] \in {refreshTokens[h], None}
    BY <1>6 DEF RemoveExpired, TypeInv, TypeOK
  <2> QED
    BY <1>6, <2>1, QuietFinish DEF RemoveExpired, history
<1>7. CASE RemoveAccess(r) \/ DropExpiredAccess(r)
  <2>1. \A h \in Handles : tokenHandles'[h] \in {tokenHandles[h], None}
    BY <1>7 DEF RemoveAccess, DropExpiredAccess, TypeInv, TypeOK
  <2> QED
    BY <1>7, <2>1, QuietFinish DEF RemoveAccess, DropExpiredAccess, history
<1>8. ASSUME NEW step \in {"active", "token"},
             requests[r].at \in {"check", "active"}, Goto(r, step), Untouched
      PROVE  Quiet(r)
  <2>1. PICK q : q = [requests[r] EXCEPT !.at = step]
    OBVIOUS
  <2>2. q \in Request /\ Become(r, q)
    BY <1>1, <1>8, <2>1 DEF Request, Steps, RefreshSteps, Goto
  <2>3. /\ q.client = requests[r].client /\ q.grant = requests[r].grant
        /\ q.handle = requests[r].handle /\ q.newHandle = requests[r].newHandle
        /\ q.accessHandle = requests[r].accessHandle /\ q.at = step
    BY <1>1, <2>1 DEF Request
  <2>4. ~Owes(q) /\ ~Owes(requests[r]) /\ requests[r].at \in RefreshSteps
    BY <1>8, <2>3 DEF Owes, RefreshSteps
  <2> QED
    BY <1>8, <2>2, <2>3, <2>4, QuietOn
<1>9. CASE RefreshCheck(r) \/ CheckActive(r)
  <2>1. Untouched /\ requests[r].at \in {"check", "active"}
    BY <1>9 DEF RefreshCheck, CheckActive, At, Untouched, stores, history
  <2>2. \/ Finish(r) \/ (\E step \in {"active", "token"} : Goto(r, step))
        \/ requests[r].at = "check" /\ FoundExpired(r, grants[requests[r].grant])
    BY <1>9 DEF RefreshCheck, CheckActive, At
  <2>3. ASSUME Finish(r) PROVE Quiet(r)
    BY <2>1, <2>3, QuietFinish DEF Untouched
  <2>4. ASSUME requests[r].at = "check", FoundExpired(r, grants[requests[r].grant])
        PROVE  Quiet(r)
    <3>1. PICK q \in Request :
              /\ Become(r, q) /\ q.at = "removeExpired"
              /\ q.client = requests[r].client /\ q.grant = requests[r].grant
              /\ q.handle = requests[r].handle /\ q.newHandle = requests[r].newHandle
              /\ q.accessHandle = requests[r].accessHandle
      BY <2>4, FoundExpiredForm
    <3>2. q.at \notin RefreshSteps
      BY <3>1 DEF RefreshSteps
    <3> QED
      BY <2>1, <3>1, <3>2, QuietOn
  <2> QED
    BY <1>8, <2>1, <2>2, <2>3, <2>4
<1>10. CASE Slide(r)
  <2>1. PICK l : l = NewLifetime(requests[r].client, grants[requests[r].grant].created, now)
    OBVIOUS
  <2>2. /\ requests[r].at = "slide" /\ requests[r].client \in Clients
        /\ grants[requests[r].grant] \in Grant
    BY <1>1, <1>10 DEF Slide, At, Known, RefreshSteps, TypeInv, TypeOK
  <2>3. l \in Int
    BY <2>1, <2>2, NewLifetimeCapped DEF Grant, TypeInv, TypeOK
  <2>4. PICK q : q = [requests[r] EXCEPT !.at = "write", !.lifeTime = l]
    OBVIOUS
  <2>5. Become(r, q) /\ Untouched
    BY <1>10, <2>1, <2>4 DEF Slide, Untouched, stores, history
  <2>6. q \in Request
    BY <1>1, <2>3, <2>4 DEF Request, Steps, RefreshSteps
  <2>7. /\ q.client = requests[r].client /\ q.grant = requests[r].grant
        /\ q.handle = requests[r].handle /\ q.newHandle = requests[r].newHandle
        /\ q.accessHandle = requests[r].accessHandle /\ q.at = "write"
    BY <1>1, <2>4 DEF Request
  <2>8. (Owes(q) <=> Owes(requests[r])) /\ requests[r].at \in RefreshSteps
    BY <2>2, <2>7 DEF Owes, RefreshSteps
  <2> QED
    BY <2>5, <2>6, <2>7, <2>8, QuietOn
<1>11. CASE WriteLifetime(r)
  <2> DEFINE g == requests[r].grant
  <2>1. PICK q : q = [requests[r] EXCEPT !.at = "store"]
    OBVIOUS
  <2>2. requests[r].at = "write" /\ g \in Grants /\ grants[g] \in Grant /\ grants[g] # None
    BY <1>1, <1>11 DEF WriteLifetime, At, Known, RefreshSteps, TypeInv, TypeOK
  <2>3. q \in Request /\ Become(r, q)
    BY <1>1, <1>11, <2>1 DEF Request, Steps, RefreshSteps, WriteLifetime, Goto
  <2>4. /\ q.client = requests[r].client /\ q.grant = requests[r].grant
        /\ q.handle = requests[r].handle /\ q.newHandle = requests[r].newHandle
        /\ q.accessHandle = requests[r].accessHandle /\ q.at = "store"
    BY <1>1, <2>1 DEF Request
  <2>5. (Owes(q) <=> Owes(requests[r])) /\ requests[r].at \in RefreshSteps /\ TokenFound(q)
    BY <2>2, <2>4 DEF Owes, RefreshSteps, TokenFound
  <2>6. requests'[r] = q /\ \A o \in Requests : o # r => requests'[o] = requests[o]
    BY <2>3, BecomeOne DEF TypeInv
  <2>7. \A k \in Grants : grants[k] # None
           => grants'[k] # None /\ grants'[k].client = grants[k].client
    <3>1. PICK new : new = [grants[g] EXCEPT !.lifeTime = requests[r].lifeTime]
      OBVIOUS
    <3>2. new \in Grant /\ new.client = grants[g].client
      BY <1>1, <2>2, <3>1 DEF Grant, Request
    <3>3. grants' = [grants EXCEPT ![g] = new]
      BY <1>11, <2>2, <3>1 DEF WriteLifetime, TypeInv, TypeOK
    <3> QED
      BY <2>2, <3>2, <3>3, RecordAssumption DEF TypeInv, TypeOK
  <2>8. \A k \in Grants : grants[k] = None => grants'[k] = None
    BY <1>11, <2>2 DEF WriteLifetime, TypeInv, TypeOK
  <2>9. UNCHANGED <<now, refreshTokens, tokenHandles, minted, delivered, raced>>
    BY <1>11 DEF WriteLifetime, history
  <2> QED
    BY <2>4, <2>5, <2>6, <2>7, <2>8, <2>9 DEF Quiet
<1> DEFINE Same(q) == /\ q.client = requests[r].client /\ q.grant = requests[r].grant
                      /\ q.handle = requests[r].handle /\ q.newHandle = requests[r].newHandle
                      /\ q.accessHandle = requests[r].accessHandle
<1>12. CASE RevokeRefreshGet(r)
  <2>1. Untouched
    BY <1>12 DEF RevokeRefreshGet, Untouched, stores, history
  <2>2. CASE Finish(r)
    BY <2>1, <2>2, QuietFinish DEF Untouched
  <2>3. CASE ~Finish(r)
    <3> DEFINE k == refreshTokens[requests[r].handle]
    <3>1. /\ k # None
          /\ Become(r, [requests[r] EXCEPT !.at = "revokeStart", !.subject = grants[k].subject])
      BY <1>12, <2>3 DEF RevokeRefreshGet
    <3>2. requests[r].handle \in Handles
      BY <1>1, <1>12 DEF RevokeRefreshGet, At, Known, Removing
    <3>3. grants[k].subject \in Subjects
      BY <3>1, <3>2 DEF TypeInv, TypeOK, Grant
    <3>4. PICK q : q = [requests[r] EXCEPT !.at = "revokeStart", !.subject = grants[k].subject]
      OBVIOUS
    <3>5. q \in Request /\ q.at = "revokeStart" /\ Same(q)
      BY <1>1, <3>3, <3>4 DEF Request, Steps
    <3>6. Become(r, q) /\ q.at \notin RefreshSteps
      BY <3>1, <3>4, <3>5 DEF RefreshSteps
    <3> QED
      BY <2>1, <3>5, <3>6, QuietOn
  <2> QED
    BY <2>2, <2>3
<1>13. ASSUME NEW step \in Revoking, NEW P \in SUBSET Handles, NEW G \in SUBSET Grants,
              UNCHANGED <<now, grants, minted, delivered, raced>>,
              \A h \in Handles : refreshTokens'[h] \in {refreshTokens[h], None},
              \A h \in Handles : tokenHandles'[h] \in {tokenHandles[h], None},
              Become(r, [requests[r] EXCEPT !.at = step, !.pending = P, !.covered = G])
       PROVE  Quiet(r)
  <2>1. PICK q : q = [requests[r] EXCEPT !.at = step, !.pending = P, !.covered = G]
    OBVIOUS
  <2>2. q \in Request /\ q.at = step /\ Same(q)
    BY <1>1, <2>1 DEF Request, Steps, Revoking
  <2>3. Become(r, q) /\ q.at \notin RefreshSteps /\ q.at \notin {"dropAccess", "removeAccess"}
    BY <1>13, <2>1, <2>2 DEF RefreshSteps, Revoking
  <2>4. requests'[r] = q /\ \A o \in Requests : o # r => requests'[o] = requests[o]
    BY <2>2, <2>3, BecomeOne DEF TypeInv
  <2>5. TokenFound(q)
    BY <2>3 DEF TokenFound
  <2> QED
    BY <1>13, <2>2, <2>3, <2>4, <2>5 DEF Quiet, RefreshSteps
<1>14. CASE RevokeStart(r)
  <2> DEFINE s == requests[r].subject
             c == requests[r].client
             P == RefreshHandlesOf(s, c)
             G == {g \in Grants : grants[g] # None /\ grants[g].subject = s /\ grants[g].client = c}
  <2>1. P \in SUBSET Handles /\ G \in SUBSET Grants /\ "revokeRefresh" \in Revoking
    BY DEF RefreshHandlesOf, Revoking
  <2>2. /\ Become(r, [requests[r] EXCEPT !.at = "revokeRefresh", !.pending = P, !.covered = G])
        /\ UNCHANGED <<now, grants, minted, delivered, raced, refreshTokens, tokenHandles>>
    BY <1>14 DEF RevokeStart, stores
  <2> HIDE DEF P, G
  <2> QED
    BY <1>13, <2>1, <2>2
<1>15. CASE RevokeRefreshDone(r)
  <2>1. /\ Become(r, [requests[r] EXCEPT !.at = "accessStart", !.pending = {}, !.covered = {}])
        /\ UNCHANGED <<now, grants, minted, delivered, raced, refreshTokens, tokenHandles>>
        /\ "accessStart" \in Revoking
    BY <1>15 DEF RevokeRefreshDone, stores, Revoking
  <2> QED
    BY <1>13, <2>1
<1>16. CASE RevokeAccessStart(r)
  <2> DEFINE P == AccessHandlesOf(requests[r].subject, requests[r].client)
  <2>1. /\ P \in SUBSET Handles /\ "revokeAccess" \in Revoking
        /\ requests[r].covered \in SUBSET Grants
    BY <1>1 DEF AccessHandlesOf, Revoking, Request
  <2>2. /\ Become(r, [requests[r] EXCEPT !.at = "revokeAccess", !.pending = P])
        /\ UNCHANGED <<now, grants, minted, delivered, raced, refreshTokens, tokenHandles>>
    BY <1>16 DEF RevokeAccessStart, stores, history
  <2> HIDE DEF P
  <2>3. Become(r, [requests[r] EXCEPT !.at = "revokeAccess", !.pending = P,
                                      !.covered = requests[r].covered])
    BY <1>1, <2>2, RequestForms
  <2> QED
    BY <1>13, <2>1, <2>2, <2>3
<1>17. ASSUME NEW h \in Handles, RevokeOneRefresh(r, h) \/ RevokeOneAccess(r, h)
       PROVE  Quiet(r)
  <2> DEFINE P == requests[r].pending \ {h}
  <2>1. /\ requests[r].at \in Revoking /\ P \in SUBSET Handles
        /\ requests[r].covered \in SUBSET Grants
    BY <1>1, <1>17 DEF RevokeOneRefresh, RevokeOneAccess, At, Revoking, Request
  <2>2. /\ Become(r, [requests[r] EXCEPT !.pending = P])
        /\ UNCHANGED <<now, grants, minted, delivered, raced>>
    BY <1>17 DEF RevokeOneRefresh, RevokeOneAccess, history
  <2>3. /\ \A k \in Handles : refreshTokens'[k] \in {refreshTokens[k], None}
        /\ \A k \in Handles : tokenHandles'[k] \in {tokenHandles[k], None}
    BY <1>17 DEF RevokeOneRefresh, RevokeOneAccess, TypeInv, TypeOK
  <2> HIDE DEF P
  <2>4. Become(r, [requests[r] EXCEPT !.at = requests[r].at, !.pending = P,
                                      !.covered = requests[r].covered])
    BY <1>1, <2>2, RequestForms
  <2> QED
    BY <1>13, <2>1, <2>2, <2>3, <2>4
<1> QED
  BY <1>2, <1>3, <1>4, <1>5, <1>6, <1>7, <1>9, <1>10, <1>11, <1>12, <1>14, <1>15, <1>16, <1>17

\* Every step of a request, by what it does to the handles.
LEMMA StepKinds ==
    ASSUME TypeInv, NEW r \in Requests, Arrive(r) \/ Serve(r) \/ Abort(r)
    PROVE  \/ Quiet(r)
           \/ \E g \in Grants, h \in Handles : CreateRefreshToken(r, g, h)
           \/ \E h \in delivered, c \in Clients : RefreshGet(r, c, h)
           \/ \E h \in Handles : RemoveOld(r, h)
           \/ StoreUpdated(r)
<1>1. CASE Arrive(r)
  BY <1>1, QuietArrive
<1>2. CASE Abort(r)
  BY <1>2, QuietServe
<1>3. CASE Serve(r)
  BY <1>3, QuietServe DEF Serve
<1> QED
  BY <1>1, <1>2, <1>3

\* The four other steps, field by field.
LEMMA CreateForm ==
    ASSUME TypeInv, NEW r \in Requests, NEW g \in Grants, NEW h \in Handles,
           CreateRefreshToken(r, g, h)
    PROVE  /\ h \notin minted /\ minted' = minted \cup {h} /\ delivered' = delivered
           /\ grants[g] = None /\ grants'[g] # None
           /\ \A k \in Grants : k # g => grants'[k] = grants[k]
           /\ refreshTokens'[h] = g
           /\ \A j \in Handles : j # h => refreshTokens'[j] = refreshTokens[j]
           /\ tokenHandles' = tokenHandles /\ now' = now /\ raced' = raced
           /\ \A o \in Requests : o # r => requests'[o] = requests[o]
           /\ requests'[r].at = "issue" /\ requests'[r].newHandle = h
           /\ requests'[r].handle = requests[r].handle
           /\ requests'[r].accessHandle = requests[r].accessHandle
<1>1. requests[r] \in Request
  BY DEF TypeInv, TypeOK
<1>2. /\ requests'[r] = [requests[r] EXCEPT !.at = "issue", !.newHandle = h]
      /\ \A o \in Requests : o # r => requests'[o] = requests[o]
  BY DEF CreateRefreshToken, Become, TypeInv, TypeOK
<1>3. grants'[g] # None
  <2>1. TypeInv'
    BY TypeCreateRefreshToken
  <2>2. refreshTokens'[h] = g
    BY DEF CreateRefreshToken, TypeInv, TypeOK
  <2> QED
    BY <2>1, <2>2, NoneAssumption DEF TypeInv
<1>4. /\ requests'[r].at = "issue" /\ requests'[r].newHandle = h
      /\ requests'[r].handle = requests[r].handle
      /\ requests'[r].accessHandle = requests[r].accessHandle
  BY <1>1, <1>2 DEF Request
<1>5. \A k \in Grants : k # g => grants'[k] = grants[k]
  BY DEF CreateRefreshToken, TypeInv, TypeOK
<1> QED
  BY <1>2, <1>3, <1>4, <1>5 DEF CreateRefreshToken, TypeInv, TypeOK, history

LEMMA GetForm ==
    ASSUME TypeInv, NEW r \in Requests, NEW h \in delivered, NEW c \in Clients,
           RefreshGet(r, c, h)
    PROVE  /\ h \in Handles /\ refreshTokens[h] \in Grants
           /\ UNCHANGED <<now, grants, refreshTokens, tokenHandles, minted, delivered, raced>>
           /\ \A o \in Requests : o # r => requests'[o] = requests[o]
           /\ requests'[r].at = "check" /\ requests'[r].grant = refreshTokens[h]
           /\ requests'[r].handle = h /\ requests'[r].newHandle = h
           /\ requests'[r].accessHandle = None
<1>1. h \in Handles /\ refreshTokens[h] \in Grants
  BY DEF RefreshGet, TypeInv, TypeOK
<1>2. /\ \A o \in Requests : o # r => requests'[o] = requests[o]
      /\ requests'[r].at = "check" /\ requests'[r].grant = refreshTokens[h]
      /\ requests'[r].handle = h /\ requests'[r].newHandle = h
      /\ requests'[r].accessHandle = None
  BY DEF RefreshGet, Become, TypeInv, TypeOK, Idle
<1> QED
  BY <1>1, <1>2 DEF RefreshGet, stores

LEMMA RemoveOldForm ==
    ASSUME TypeInv, NEW r \in Requests, NEW h \in Handles, RemoveOld(r, h)
    PROVE  /\ requests[r].at = "removeOld"
           /\ requests[r].handle \in Handles /\ requests[r].grant \in Grants
           /\ requests[r].client \in Clients
           /\ h \notin minted /\ minted' = minted \cup {h} /\ delivered' = delivered
           /\ refreshTokens'[requests[r].handle] = None
           /\ \A j \in Handles : j # requests[r].handle => refreshTokens'[j] = refreshTokens[j]
           /\ UNCHANGED <<now, grants, tokenHandles>>
           /\ raced \subseteq raced'
           /\ refreshTokens[requests[r].handle] = None => requests[r].grant \in raced'
           /\ \A o \in Requests : o # r => requests'[o] = requests[o]
           /\ requests'[r].at \in {"slide", "store"} /\ requests'[r].newHandle = h
           /\ requests'[r].handle = requests[r].handle
           /\ requests'[r].accessHandle = requests[r].accessHandle
           /\ requests'[r].grant = requests[r].grant
           /\ requests'[r].client = requests[r].client
<1>1. /\ requests[r] \in Request /\ requests[r].at = "removeOld"
      /\ requests[r].handle \in Handles /\ requests[r].grant \in Grants
      /\ requests[r].client \in Clients
  BY DEF RemoveOld, At, TypeInv, TypeOK, Known, RefreshSteps
<1> DEFINE next == IF Expiration[requests[r].client] = "Sliding" THEN "slide" ELSE "store"
<1>2. next \in {"slide", "store"}
  OBVIOUS
<1>3. Become(r, [requests[r] EXCEPT !.at = next, !.newHandle = h])
  BY DEF RemoveOld
<1> HIDE DEF next
<1>4. /\ requests'[r].at \in {"slide", "store"} /\ requests'[r].newHandle = h
      /\ requests'[r].handle = requests[r].handle
      /\ requests'[r].accessHandle = requests[r].accessHandle
      /\ requests'[r].grant = requests[r].grant
      /\ requests'[r].client = requests[r].client
      /\ \A o \in Requests : o # r => requests'[o] = requests[o]
  BY <1>1, <1>2, <1>3 DEF Become, TypeInv, TypeOK, Request
<1>5. /\ refreshTokens'[requests[r].handle] = None
      /\ \A j \in Handles : j # requests[r].handle => refreshTokens'[j] = refreshTokens[j]
  BY <1>1 DEF RemoveOld, TypeInv, TypeOK
<1>6. /\ raced \subseteq raced'
      /\ refreshTokens[requests[r].handle] = None => requests[r].grant \in raced'
  BY DEF RemoveOld
<1> QED
  BY <1>1, <1>4, <1>5, <1>6 DEF RemoveOld

LEMMA StoreForm ==
    ASSUME TypeInv, NEW r \in Requests, StoreUpdated(r)
    PROVE  /\ requests[r].at = "store"
           /\ requests[r].newHandle \in Handles /\ requests[r].grant \in Grants
           /\ refreshTokens'[requests[r].newHandle] = requests[r].grant
           /\ \A j \in Handles : j # requests[r].newHandle => refreshTokens'[j] = refreshTokens[j]
           /\ UNCHANGED <<now, grants, tokenHandles, minted, delivered, raced>>
           /\ \A o \in Requests : o # r => requests'[o] = requests[o]
           /\ requests'[r].at = "reply" /\ requests'[r].newHandle = requests[r].newHandle
           /\ requests'[r].handle = requests[r].handle
           /\ requests'[r].accessHandle = requests[r].accessHandle
<1>1. /\ requests[r] \in Request /\ requests[r].at = "store"
      /\ requests[r].newHandle \in Handles /\ requests[r].grant \in Grants
  BY DEF StoreUpdated, At, TypeInv, TypeOK, Known, RefreshSteps
<1>2. /\ requests'[r].at = "reply" /\ requests'[r].newHandle = requests[r].newHandle
      /\ requests'[r].handle = requests[r].handle
      /\ requests'[r].accessHandle = requests[r].accessHandle
      /\ \A o \in Requests : o # r => requests'[o] = requests[o]
  BY <1>1 DEF StoreUpdated, Goto, Become, TypeInv, TypeOK, Request
<1>3. /\ refreshTokens'[requests[r].newHandle] = requests[r].grant
      /\ \A j \in Handles : j # requests[r].newHandle => refreshTokens'[j] = refreshTokens[j]
  BY <1>1 DEF StoreUpdated, TypeInv, TypeOK
<1> QED
  BY <1>1, <1>2, <1>3 DEF StoreUpdated, history

LEMMA MintedInit == Init => MintedInv
BY DEF Init, MintedInv, TokenFound, Idle

LEMMA MintedStep == TypeInv /\ MintedInv /\ [Next]_vars => MintedInv'
<1> SUFFICES ASSUME TypeInv, MintedInv, [Next]_vars PROVE MintedInv'
  OBVIOUS
<1> DEFINE HandlesOf(q) == /\ q.handle \in delivered \cup {None}
                           /\ q.newHandle \in minted \cup {None}
                           /\ q.accessHandle \in minted \cup {None}
<1>1. \A o \in Requests : HandlesOf(requests[o]) /\ TokenFound(requests[o])
  BY DEF MintedInv
\* What is to be shown of a step of r.
<1>2. ASSUME NEW r \in Requests, minted \subseteq minted', delivered \subseteq delivered',
             delivered' \subseteq minted', now' = now,
             \A h \in Handles : refreshTokens'[h] # None => refreshTokens[h] # None \/ h \in minted',
             \A h \in Handles : tokenHandles'[h] \in {tokenHandles[h], None} \/ h \in minted' \ minted,
             \A o \in Requests : o # r => requests'[o] = requests[o],
             requests'[r].handle \in delivered \cup {None},
             requests'[r].newHandle \in minted' \cup {None},
             requests'[r].accessHandle \in minted' \cup {None},
             TokenFound(requests'[r])
      PROVE  MintedInv'
  <2>1. \A h \in Handles : refreshTokens'[h] # None \/ tokenHandles'[h] # None => h \in minted'
    BY <1>2 DEF MintedInv
  <2>2. \A o \in Requests : /\ requests'[o].handle \in delivered' \cup {None}
                            /\ requests'[o].newHandle \in minted' \cup {None}
                            /\ requests'[o].accessHandle \in minted' \cup {None}
    BY <1>1, <1>2
  <2>3. ASSUME NEW o \in Requests PROVE TokenFound(requests[o])'
    <3> DEFINE q == requests'[o]
    <3>1. TokenFound(q) /\ q.handle \in delivered \cup {None}
      BY <1>1, <1>2
    <3>2. CASE q.handle \in delivered
      <4>1. q.handle \in Handles /\ q.handle \in minted
        BY <3>2 DEF TypeInv, TypeOK, MintedInv
      <4>2. tokenHandles'[q.handle] # None => tokenHandles'[q.handle] = tokenHandles[q.handle]
        BY <1>2, <4>1
      <4> QED
        BY <1>2, <3>1, <4>2 DEF TokenFound
    <3>3. CASE q.handle = None
      <4>1. q.at \notin {"dropAccess", "removeAccess"}
        <5>1. TypeInv'
          BY TypeStep
        <5> QED
          BY <3>3, <5>1, NoneAssumption DEF TypeInv, Known, Removing
      <4> QED
        BY <4>1 DEF TokenFound
    <3> QED
      BY <3>1, <3>2, <3>3
  <2> QED
    BY <1>2, <2>1, <2>2, <2>3 DEF MintedInv
<1>3. CASE UNCHANGED vars
  BY <1>3 DEF vars, MintedInv, TokenFound
<1>4. CASE Tick
  <2>1. now' = now + 1
    BY <1>4 DEF Tick
  <2>2. \A o \in Requests : TokenFound(requests[o])'
    <3> SUFFICES ASSUME NEW o \in Requests PROVE TokenFound(requests[o])'
      OBVIOUS
    <3>1. requests' = requests /\ tokenHandles' = tokenHandles /\ now \in Nat
      BY <1>4 DEF Tick, stores, TypeInv, TypeOK
    <3>2. CASE requests[o].at = "dropAccess" /\ tokenHandles[requests[o].handle] # None
      <4>1. tokenHandles[requests[o].handle] \in AccessToken
        BY <3>2 DEF TypeInv, TypeOK, Known, Removing
      <4> QED
        BY <1>1, <2>1, <3>1, <3>2, <4>1 DEF TokenFound, AccessToken
    <3>3. CASE ~(requests[o].at = "dropAccess" /\ tokenHandles[requests[o].handle] # None)
      BY <1>1, <3>1, <3>3 DEF TokenFound
    <3> QED
      BY <3>2, <3>3
  <2> QED
    BY <1>1, <1>4, <2>2 DEF Tick, stores, MintedInv
<1>5. ASSUME NEW r \in Requests, Arrive(r) \/ Serve(r) \/ Abort(r) PROVE MintedInv'
  <2>1. CASE Quiet(r)
    <3>1. delivered' \subseteq minted'
      BY <1>1, <2>1 DEF Quiet, MintedInv
    <3>2. /\ requests'[r].handle \in delivered \cup {None}
          /\ requests'[r].newHandle \in minted' \cup {None}
          /\ requests'[r].accessHandle \in minted' \cup {None}
      BY <1>1, <2>1 DEF Quiet
    <3> QED
      BY <1>2, <2>1, <3>1, <3>2 DEF Quiet
  <2>2. ASSUME NEW g \in Grants, NEW h \in Handles, CreateRefreshToken(r, g, h) PROVE MintedInv'
    <3>1. TokenFound(requests'[r])
      BY <2>2, CreateForm DEF TokenFound
    <3>2. /\ requests'[r].handle \in delivered \cup {None}
          /\ requests'[r].newHandle \in minted' \cup {None}
          /\ requests'[r].accessHandle \in minted' \cup {None}
      BY <1>1, <2>2, CreateForm
    <3> QED
      BY <1>2, <2>2, <3>1, <3>2, CreateForm DEF MintedInv
  <2>3. ASSUME NEW h \in delivered, NEW c \in Clients, RefreshGet(r, c, h) PROVE MintedInv'
    <3>1. TokenFound(requests'[r])
      BY <2>3, GetForm DEF TokenFound
    <3> QED
      BY <1>2, <2>3, <3>1, GetForm DEF MintedInv
  <2>4. ASSUME NEW h \in Handles, RemoveOld(r, h) PROVE MintedInv'
    <3>1. TokenFound(requests'[r])
      BY <2>4, RemoveOldForm DEF TokenFound
    <3>2. /\ requests'[r].handle \in delivered \cup {None}
          /\ requests'[r].newHandle \in minted' \cup {None}
          /\ requests'[r].accessHandle \in minted' \cup {None}
      BY <1>1, <2>4, RemoveOldForm
    <3> QED
      BY <1>2, <2>4, <3>1, <3>2, RemoveOldForm DEF MintedInv
  <2>5. CASE StoreUpdated(r)
    <3>1. TokenFound(requests'[r])
      BY <2>5, StoreForm DEF TokenFound
    <3>2. /\ requests'[r].handle \in delivered \cup {None}
          /\ requests'[r].newHandle \in minted' \cup {None}
          /\ requests'[r].accessHandle \in minted' \cup {None}
          /\ requests[r].newHandle \in minted
      BY <1>1, <2>5, StoreForm, NoneAssumption
    <3> QED
      BY <1>2, <2>5, <3>1, <3>2, StoreForm DEF MintedInv
  <2> QED
    BY <1>5, <2>1, <2>2, <2>3, <2>4, <2>5, StepKinds
<1> QED
  BY <1>3, <1>4, <1>5 DEF Next

\* The grant a handle names: in the store, or for a request that has read it.
Uses(q, h, g) == q.at \in RefreshSteps /\ q.grant = g /\ h \in {q.handle, q.newHandle}

Names(h, g) == refreshTokens[h] = g \/ \E r \in Requests : Uses(requests[r], h, g)

NamesInv ==
    \A h \in Handles, g1, g2 \in Grants : Names(h, g1) /\ Names(h, g2) => g1 = g2

\* Only handles that were generated name a grant, and only grants that exist.
LEMMA NamedExist ==
    ASSUME TypeInv, MintedInv, NEW h \in Handles, NEW g \in Grants, Names(h, g)
    PROVE  h \in minted /\ grants[g] # None
<1>1. CASE refreshTokens[h] = g
  BY <1>1, NoneAssumption DEF TypeInv, MintedInv
<1>2. CASE \E r \in Requests : Uses(requests[r], h, g)
  <2>1. PICK r \in Requests : Uses(requests[r], h, g)
    BY <1>2
  <2>2. grants[g] # None
    BY <2>1 DEF Uses, TypeInv, Known
  <2>3. h \in minted
    BY <2>1, NoneAssumption DEF Uses, MintedInv
  <2> QED
    BY <2>2, <2>3
<1> QED
  BY <1>1, <1>2 DEF Names

\* What each kind of step adds to what the handles name: nothing, or a handle that
\* is new.
LEMMA QuietNames ==
    ASSUME NEW r \in Requests, Quiet(r), NEW h \in Handles, NEW g \in Grants, Names(h, g)'
    PROVE  Names(h, g)
<1>1. CASE refreshTokens'[h] = g
  BY <1>1, NoneAssumption DEF Quiet, Names
<1>2. CASE \E o \in Requests : Uses(requests'[o], h, g)
  <2>1. PICK o \in Requests : Uses(requests'[o], h, g)
    BY <1>2
  <2>2. Uses(requests[o], h, g)
    BY <2>1 DEF Quiet, Uses
  <2> QED
    BY <2>2 DEF Names
<1> QED
  BY <1>1, <1>2 DEF Names

LEMMA CreateNames ==
    ASSUME TypeInv, NEW r \in Requests, NEW g \in Grants, NEW h \in Handles,
           CreateRefreshToken(r, g, h), NEW k \in Handles, NEW j \in Grants, Names(k, j)'
    PROVE  Names(k, j) \/ (k = h /\ j = g)
<1>1. CASE refreshTokens'[k] = j
  BY <1>1, CreateForm DEF Names
<1>2. CASE \E o \in Requests : Uses(requests'[o], k, j)
  <2>1. PICK o \in Requests : Uses(requests'[o], k, j)
    BY <1>2
  <2>2. "issue" \notin RefreshSteps
    BY DEF RefreshSteps
  <2>3. Uses(requests[o], k, j)
    BY <2>1, <2>2, CreateForm DEF Uses
  <2> QED
    BY <2>3 DEF Names
<1> QED
  BY <1>1, <1>2 DEF Names

LEMMA GetNames ==
    ASSUME TypeInv, NEW r \in Requests, NEW h \in delivered, NEW c \in Clients,
           RefreshGet(r, c, h), NEW k \in Handles, NEW j \in Grants, Names(k, j)'
    PROVE  Names(k, j)
<1>1. CASE refreshTokens'[k] = j
  BY <1>1, GetForm DEF Names
<1>2. CASE \E o \in Requests : Uses(requests'[o], k, j)
  <2>1. PICK o \in Requests : Uses(requests'[o], k, j)
    BY <1>2
  <2>2. CASE o = r
    BY <2>1, <2>2, GetForm DEF Uses, Names
  <2>3. CASE o # r
    BY <2>1, <2>3, GetForm DEF Names
  <2> QED
    BY <2>2, <2>3
<1> QED
  BY <1>1, <1>2 DEF Names

LEMMA RemoveOldNames ==
    ASSUME TypeInv, NEW r \in Requests, NEW h \in Handles, RemoveOld(r, h),
           NEW k \in Handles, NEW j \in Grants, Names(k, j)'
    PROVE  Names(k, j) \/ (k = h /\ j = requests[r].grant)
<1>1. CASE refreshTokens'[k] = j
  BY <1>1, RemoveOldForm, NoneAssumption DEF Names
<1>2. CASE \E o \in Requests : Uses(requests'[o], k, j)
  <2>1. PICK o \in Requests : Uses(requests'[o], k, j)
    BY <1>2
  <2>2. CASE o = r
    <3>1. "removeOld" \in RefreshSteps
      BY DEF RefreshSteps
    <3> QED
      BY <2>1, <2>2, <3>1, RemoveOldForm DEF Uses, Names
  <2>3. CASE o # r
    BY <2>1, <2>3, RemoveOldForm DEF Names
  <2> QED
    BY <2>2, <2>3
<1> QED
  BY <1>1, <1>2 DEF Names

LEMMA StoreNames ==
    ASSUME TypeInv, NEW r \in Requests, StoreUpdated(r),
           NEW k \in Handles, NEW j \in Grants, Names(k, j)'
    PROVE  Names(k, j)
<1>1. "store" \in RefreshSteps /\ "reply" \notin RefreshSteps
  BY DEF RefreshSteps
<1>2. CASE refreshTokens'[k] = j
  <2>1. CASE k = requests[r].newHandle
    BY <1>1, <1>2, <2>1, StoreForm DEF Names, Uses
  <2>2. CASE k # requests[r].newHandle
    BY <1>2, <2>2, StoreForm DEF Names
  <2> QED
    BY <2>1, <2>2
<1>3. CASE \E o \in Requests : Uses(requests'[o], k, j)
  <2>1. PICK o \in Requests : Uses(requests'[o], k, j)
    BY <1>3
  <2>2. o # r
    BY <1>1, <2>1, StoreForm DEF Uses
  <2> QED
    BY <2>1, <2>2, StoreForm DEF Names
<1> QED
  BY <1>2, <1>3 DEF Names

LEMMA NamesInit == Init => NamesInv
BY NoneAssumption DEF Init, NamesInv, Names, Uses, Idle, RefreshSteps

LEMMA NamesStep == TypeInv /\ MintedInv /\ NamesInv /\ [Next]_vars => NamesInv'
<1> SUFFICES ASSUME TypeInv, MintedInv, NamesInv, [Next]_vars PROVE NamesInv'
  OBVIOUS
<1>1. CASE UNCHANGED vars \/ Tick
  <2>1. UNCHANGED <<refreshTokens, requests>>
    BY <1>1 DEF vars, Tick, stores
  <2> QED
    BY <2>1 DEF NamesInv, Names
<1>2. ASSUME NEW h \in Handles, NEW g \in Grants, h \notin minted,
             \A k \in Handles, j \in Grants : Names(k, j)' => Names(k, j) \/ (k = h /\ j = g)
      PROVE  NamesInv'
  <2>1. \A j \in Grants : ~Names(h, j)
    BY <1>2, NamedExist
  <2> QED
    BY <1>2, <2>1 DEF NamesInv
<1>3. ASSUME NEW r \in Requests, Arrive(r) \/ Serve(r) \/ Abort(r) PROVE NamesInv'
  <2>1. CASE Quiet(r)
    BY <2>1, QuietNames DEF NamesInv
  <2>2. ASSUME NEW g \in Grants, NEW h \in Handles, CreateRefreshToken(r, g, h) PROVE NamesInv'
    <3>1. h \notin minted
      BY <2>2 DEF CreateRefreshToken
    <3> QED
      BY <1>2, <2>2, <3>1, CreateNames
  <2>3. ASSUME NEW h \in delivered, NEW c \in Clients, RefreshGet(r, c, h) PROVE NamesInv'
    BY <2>3, GetNames DEF NamesInv
  <2>4. ASSUME NEW h \in Handles, RemoveOld(r, h) PROVE NamesInv'
    <3>1. h \notin minted /\ requests[r].grant \in Grants
      BY <2>4, RemoveOldForm
    <3> QED
      BY <1>2, <2>4, <3>1, RemoveOldNames
  <2>5. CASE StoreUpdated(r)
    BY <2>5, StoreNames DEF NamesInv
  <2> QED
    BY <1>3, <2>1, <2>2, <2>3, <2>4, <2>5, StepKinds
<1> QED
  BY <1>1, <1>3 DEF Next

\* What a refresh stores: the handle it was given or, for one-time handles, a new
\* one, which nobody else has, no client has seen, and nothing is stored under yet.
Rotates(q) ==
    /\ q.at = "removeOld" => Usage[q.client] = "OneTimeOnly"
    /\ q.at \in RefreshSteps /\ ~Owes(q) => q.newHandle = q.handle

OwnNew(r) ==
    LET h == requests[r].newHandle IN
    /\ h \notin delivered
    /\ refreshTokens[h] = None
    /\ \A o \in Requests : o # r => h \notin {requests[o].newHandle, requests[o].accessHandle}

OwesInv ==
    \A r \in Requests : Rotates(requests[r]) /\ (Owes(requests[r]) => OwnNew(r))

\* Who owes a handle has one, which was generated.
LEMMA OwedMinted ==
    ASSUME TypeInv, MintedInv, NEW r \in Requests, Owes(requests[r])
    PROVE  /\ requests[r].at \in RefreshSteps
           /\ requests[r].newHandle \in Handles /\ requests[r].newHandle \in minted
           /\ requests[r].newHandle # None
<1>1. requests[r].at \in RefreshSteps
  BY DEF Owes, RefreshSteps
<1>2. requests[r].newHandle \in Handles
  BY <1>1 DEF TypeInv, Known
<1> QED
  BY <1>1, <1>2, NoneAssumption DEF MintedInv

LEMMA OwesInit == Init => OwesInv
BY DEF Init, OwesInv, Rotates, Owes, Idle, RefreshSteps

LEMMA QuietOwes ==
    ASSUME TypeInv, MintedInv, OwesInv, NEW r \in Requests, Quiet(r)
    PROVE  OwesInv'
<1>1. ASSUME NEW o \in Requests PROVE Rotates(requests'[o])
  <2>1. Rotates(requests[o])
    BY DEF OwesInv
  <2>2. CASE o = r
    BY <2>1, <2>2 DEF Quiet, Rotates
  <2>3. CASE o # r
    BY <2>1, <2>3 DEF Quiet
  <2> QED
    BY <2>2, <2>3
<1>2. ASSUME NEW o \in Requests, Owes(requests'[o]) PROVE OwnNew(o)'
  <2> DEFINE h == requests[o].newHandle
  <2>1. Owes(requests[o]) /\ requests'[o].newHandle = h /\ requests'[o].at # "idle"
    BY <1>2 DEF Quiet, Owes, RefreshSteps
  <2>2. OwnNew(o)
    BY <2>1 DEF OwesInv
  <2>3. h \in Handles /\ h \in minted /\ h # None
    BY <2>1, OwedMinted
  <2>4. h \notin delivered'
    BY <2>1, <2>2 DEF Quiet, OwnNew
  <2>5. refreshTokens'[h] = None
    BY <2>2, <2>3 DEF Quiet, OwnNew
  <2>6. ASSUME NEW p \in Requests, p # o
        PROVE  h \notin {requests'[p].newHandle, requests'[p].accessHandle}
    <3>1. h \notin {requests[p].newHandle, requests[p].accessHandle}
      BY <2>2, <2>6 DEF OwnNew
    <3> QED
      BY <2>3, <3>1 DEF Quiet
  <2> QED
    BY <2>1, <2>4, <2>5, <2>6 DEF OwnNew
<1> QED
  BY <1>1, <1>2 DEF OwesInv

\* It is enough to look at the request that takes the step, and at what it takes
\* from the others.
LEMMA OwesOne ==
    ASSUME TypeInv, MintedInv, OwesInv, NEW r \in Requests, delivered' = delivered,
           \A o \in Requests : o # r => requests'[o] = requests[o],
           Rotates(requests'[r]), Owes(requests'[r]) => OwnNew(r)',
           \A o \in Requests : o # r /\ Owes(requests[o])
               => /\ refreshTokens'[requests[o].newHandle] = None
                  /\ requests[o].newHandle
                        \notin {requests'[r].newHandle, requests'[r].accessHandle}
    PROVE  OwesInv'
<1>1. ASSUME NEW o \in Requests, o # r, Owes(requests'[o]) PROVE OwnNew(o)'
  <2>1. Owes(requests[o]) /\ requests'[o] = requests[o] /\ OwnNew(o)
    BY <1>1 DEF OwesInv
  <2>2. \A p \in Requests : p # o
           => requests[o].newHandle \notin {requests'[p].newHandle, requests'[p].accessHandle}
    BY <1>1, <2>1 DEF OwnNew
  <2> QED
    BY <1>1, <2>1, <2>2 DEF OwnNew
<1> QED
  BY <1>1 DEF OwesInv

LEMMA CreateOwes ==
    ASSUME TypeInv, MintedInv, OwesInv, NEW r \in Requests, NEW g \in Grants, NEW h \in Handles,
           CreateRefreshToken(r, g, h)
    PROVE  OwesInv'
<1>1. Rotates(requests'[r]) /\ ~Owes(requests'[r])
  BY CreateForm DEF Rotates, Owes, RefreshSteps
<1>2. ASSUME NEW o \in Requests, o # r, Owes(requests[o])
      PROVE  /\ refreshTokens'[requests[o].newHandle] = None
             /\ requests[o].newHandle \notin {requests'[r].newHandle, requests'[r].accessHandle}
  <2>1. OwnNew(o)
    BY <1>2 DEF OwesInv
  <2>2. requests[o].newHandle \in Handles /\ requests[o].newHandle \in minted
    BY <1>2, OwedMinted
  <2> QED
    BY <1>2, <2>1, <2>2, CreateForm DEF OwnNew
<1> QED
  BY <1>1, <1>2, OwesOne, CreateForm

LEMMA GetOwes ==
    ASSUME TypeInv, MintedInv, OwesInv, NEW r \in Requests, NEW h \in delivered, NEW c \in Clients,
           RefreshGet(r, c, h)
    PROVE  OwesInv'
<1>1. Rotates(requests'[r]) /\ ~Owes(requests'[r])
  BY GetForm DEF Rotates, Owes
<1>2. ASSUME NEW o \in Requests, o # r, Owes(requests[o])
      PROVE  /\ refreshTokens'[requests[o].newHandle] = None
             /\ requests[o].newHandle \notin {requests'[r].newHandle, requests'[r].accessHandle}
  <2>1. OwnNew(o)
    BY <1>2 DEF OwesInv
  <2>2. requests[o].newHandle # None
    BY <1>2, OwedMinted
  <2> QED
    BY <1>2, <2>1, <2>2, GetForm DEF OwnNew
<1> QED
  BY <1>1, <1>2, OwesOne, GetForm

LEMMA RemoveOldOwes ==
    ASSUME TypeInv, MintedInv, OwesInv, NEW r \in Requests, NEW h \in Handles, RemoveOld(r, h)
    PROVE  OwesInv'
<1>1. Usage[requests[r].client] = "OneTimeOnly"
  BY RemoveOldForm DEF OwesInv, Rotates
<1>2. Rotates(requests'[r])
  BY <1>1, RemoveOldForm DEF Rotates, Owes
<1>3. OwnNew(r)'
  <2>1. h \notin delivered' /\ h # requests[r].handle
    BY RemoveOldForm, NoneAssumption DEF MintedInv
  <2>2. refreshTokens'[h] = None
    BY <2>1, RemoveOldForm DEF MintedInv
  <2>3. \A o \in Requests : o # r => h \notin {requests'[o].newHandle, requests'[o].accessHandle}
    BY RemoveOldForm, NoneAssumption DEF MintedInv
  <2> QED
    BY <2>1, <2>2, <2>3, RemoveOldForm DEF OwnNew
<1>4. ASSUME NEW o \in Requests, o # r, Owes(requests[o])
      PROVE  /\ refreshTokens'[requests[o].newHandle] = None
             /\ requests[o].newHandle \notin {requests'[r].newHandle, requests'[r].accessHandle}
  <2>1. OwnNew(o)
    BY <1>4 DEF OwesInv
  <2>2. requests[o].newHandle \in Handles /\ requests[o].newHandle \in minted
    BY <1>4, OwedMinted
  <2> QED
    BY <1>4, <2>1, <2>2, RemoveOldForm DEF OwnNew
<1> QED
  BY <1>2, <1>3, <1>4, OwesOne, RemoveOldForm

LEMMA StoreOwes ==
    ASSUME TypeInv, MintedInv, OwesInv, NEW r \in Requests, StoreUpdated(r)
    PROVE  OwesInv'
<1>1. Rotates(requests'[r]) /\ ~Owes(requests'[r])
  BY StoreForm DEF Rotates, Owes, RefreshSteps
<1>2. ASSUME NEW o \in Requests, o # r, Owes(requests[o])
      PROVE  /\ refreshTokens'[requests[o].newHandle] = None
             /\ requests[o].newHandle \notin {requests'[r].newHandle, requests'[r].accessHandle}
  <2>1. OwnNew(o)
    BY <1>2 DEF OwesInv
  <2>2. requests[o].newHandle \in Handles
    BY <1>2, OwedMinted
  <2> QED
    BY <1>2, <2>1, <2>2, StoreForm DEF OwnNew
<1> QED
  BY <1>1, <1>2, OwesOne, StoreForm

LEMMA OwesStep == TypeInv /\ MintedInv /\ OwesInv /\ [Next]_vars => OwesInv'
<1> SUFFICES ASSUME TypeInv, MintedInv, OwesInv, [Next]_vars PROVE OwesInv'
  OBVIOUS
<1>1. CASE UNCHANGED vars \/ Tick
  <2>1. UNCHANGED <<refreshTokens, requests, delivered>>
    BY <1>1 DEF vars, Tick, stores
  <2> QED
    BY <2>1 DEF OwesInv, OwnNew
<1>2. ASSUME NEW r \in Requests, Arrive(r) \/ Serve(r) \/ Abort(r) PROVE OwesInv'
  BY <1>2, StepKinds, QuietOwes, CreateOwes, GetOwes, RemoveOldOwes, StoreOwes
<1> QED
  BY <1>1, <1>2 DEF Next

\* The handles under which a grant is stored, or is going to be by a refresh that
\* has removed the old one.
Carries(h, g) ==
    \/ refreshTokens[h] = g
    \/ \E r \in Requests :
          Owes(requests[r]) /\ requests[r].grant = g /\ requests[r].newHandle = h

\* A grant with handles to be used again has had one only; a grant with one-time
\* handles has one, unless two refreshes raced for it.
OnceInv ==
    \A g \in Grants : grants[g] # None =>
        /\ Usage[grants[g].client] = "ReUse"
              => \A h1, h2 \in Handles : Names(h1, g) /\ Names(h2, g) => h1 = h2
        /\ Usage[grants[g].client] = "OneTimeOnly" /\ g \notin raced
              => \A h1, h2 \in Handles : Carries(h1, g) /\ Carries(h2, g) => h1 = h2

\* What is carried is named.
LEMMA CarriedNamed ==
    ASSUME NEW h \in Handles, NEW g \in Grants, Carries(h, g)
    PROVE  Names(h, g)
BY DEF Carries, Names, Uses, Owes, RefreshSteps

LEMMA QuietCarries ==
    ASSUME NEW r \in Requests, Quiet(r), NEW h \in Handles, NEW g \in Grants, Carries(h, g)'
    PROVE  Carries(h, g)
<1>1. CASE refreshTokens'[h] = g
  BY <1>1, NoneAssumption DEF Quiet, Carries
<1>2. CASE \E o \in Requests :
              Owes(requests'[o]) /\ requests'[o].grant = g /\ requests'[o].newHandle = h
  <2>1. PICK o \in Requests :
            Owes(requests'[o]) /\ requests'[o].grant = g /\ requests'[o].newHandle = h
    BY <1>2
  <2>2. requests'[o].at \in RefreshSteps
    BY <2>1 DEF Owes, RefreshSteps
  <2>3. Owes(requests[o]) /\ requests[o].grant = g /\ requests[o].newHandle = h
    BY <2>1, <2>2 DEF Quiet
  <2> QED
    BY <2>3 DEF Carries
<1> QED
  BY <1>1, <1>2 DEF Carries

\* It is enough that a step takes no grant away, changes the client of none, and
\* carries no grant under a handle it was not carried under before.
LEMMA OnceLess ==
    ASSUME TypeInv, OnceInv, raced' = raced,
           \A g \in Grants : grants'[g] # None
               => grants[g] # None /\ grants'[g].client = grants[g].client,
           \A h \in Handles, g \in Grants : Names(h, g)' => Names(h, g),
           \A h \in Handles, g \in Grants :
               grants[g] # None /\ Usage[grants[g].client] = "OneTimeOnly" /\ Carries(h, g)'
                  => Carries(h, g)
    PROVE  OnceInv'
<1> SUFFICES ASSUME NEW g \in Grants, grants'[g] # None
             PROVE  /\ Usage[grants'[g].client] = "ReUse"
                          => \A h1, h2 \in Handles : Names(h1, g)' /\ Names(h2, g)' => h1 = h2
                    /\ Usage[grants'[g].client] = "OneTimeOnly" /\ g \notin raced
                          => \A h1, h2 \in Handles : Carries(h1, g)' /\ Carries(h2, g)' => h1 = h2
  BY DEF OnceInv
<1>1. grants[g] # None /\ grants'[g].client = grants[g].client
  OBVIOUS
<1>2. Usage[grants[g].client] = "ReUse"
          => \A h1, h2 \in Handles : Names(h1, g) /\ Names(h2, g) => h1 = h2
  BY <1>1 DEF OnceInv
<1>3. Usage[grants[g].client] = "OneTimeOnly" /\ g \notin raced
          => \A h1, h2 \in Handles : Carries(h1, g) /\ Carries(h2, g) => h1 = h2
  BY <1>1 DEF OnceInv
<1> QED
  BY <1>1, <1>2, <1>3

LEMMA QuietOnce ==
    ASSUME TypeInv, OnceInv, NEW r \in Requests, Quiet(r)
    PROVE  OnceInv'
<1>1. \A h \in Handles, g \in Grants : (Names(h, g)' => Names(h, g)) /\ (Carries(h, g)' => Carries(h, g))
  BY QuietNames, QuietCarries
<1>2. \A g \in Grants : grants'[g] # None
          => grants[g] # None /\ grants'[g].client = grants[g].client
  BY DEF Quiet
<1>3. raced' = raced
  BY DEF Quiet
<1> QED
  BY <1>1, <1>2, <1>3, OnceLess

LEMMA GetOnce ==
    ASSUME TypeInv, OnceInv, NEW r \in Requests, NEW h \in delivered, NEW c \in Clients,
           RefreshGet(r, c, h)
    PROVE  OnceInv'
<1>1. \A k \in Handles, g \in Grants : Names(k, g)' => Names(k, g)
  BY GetNames
<1>2. ASSUME NEW k \in Handles, NEW g \in Grants, Carries(k, g)' PROVE Carries(k, g)
  <2>1. refreshTokens'[k] = g \/ \E o \in Requests :
            Owes(requests'[o]) /\ requests'[o].grant = g /\ requests'[o].newHandle = k
    BY <1>2 DEF Carries
  <2>2. ~Owes(requests'[r])
    BY GetForm DEF Owes
  <2> QED
    BY <2>1, <2>2, GetForm DEF Carries
<1>3. UNCHANGED <<grants, raced>>
  BY GetForm
<1> QED
  BY <1>1, <1>2, <1>3, OnceLess

LEMMA CreateOnce ==
    ASSUME TypeInv, MintedInv, OnceInv, NEW r \in Requests, NEW g \in Grants, NEW h \in Handles,
           CreateRefreshToken(r, g, h)
    PROVE  OnceInv'
<1>1. \A k \in Handles, j \in Grants : Names(k, j)' => Names(k, j) \/ (k = h /\ j = g)
  BY CreateNames
<1>2. \A k \in Handles : ~Names(k, g) /\ ~Carries(k, g)
  BY NamedExist, CarriedNamed, CreateForm
<1>3. ASSUME NEW k \in Handles, NEW j \in Grants, Carries(k, j)'
      PROVE  Carries(k, j) \/ (k = h /\ j = g)
  <2>1. refreshTokens'[k] = j \/ \E o \in Requests :
            Owes(requests'[o]) /\ requests'[o].grant = j /\ requests'[o].newHandle = k
    BY <1>3 DEF Carries
  <2>2. ~Owes(requests'[r])
    BY CreateForm DEF Owes
  <2> QED
    BY <2>1, <2>2, CreateForm DEF Carries
<1> SUFFICES ASSUME NEW j \in Grants, grants'[j] # None
             PROVE  /\ Usage[grants'[j].client] = "ReUse"
                          => \A h1, h2 \in Handles : Names(h1, j)' /\ Names(h2, j)' => h1 = h2
                    /\ Usage[grants'[j].client] = "OneTimeOnly" /\ j \notin raced'
                          => \A h1, h2 \in Handles : Carries(h1, j)' /\ Carries(h2, j)' => h1 = h2
  BY DEF OnceInv
<1>4. CASE j = g
  BY <1>1, <1>2, <1>3, <1>4
<1>5. CASE j # g
  <2>1. grants'[j] = grants[j] /\ raced' = raced
    BY <1>5, CreateForm
  <2>2. /\ Usage[grants[j].client] = "ReUse"
              => \A h1, h2 \in Handles : Names(h1, j) /\ Names(h2, j) => h1 = h2
        /\ Usage[grants[j].client] = "OneTimeOnly" /\ j \notin raced
              => \A h1, h2 \in Handles : Carries(h1, j) /\ Carries(h2, j) => h1 = h2
    BY <2>1 DEF OnceInv
  <2> QED
    BY <1>1, <1>3, <1>5, <2>1, <2>2
<1> QED
  BY <1>4, <1>5

\* The old handle was the only one, and the new one takes its place; if the old one
\* was not there any more, two refreshes raced.
LEMMA RemoveOldOnce ==
    ASSUME TypeInv, LifeInv, MintedInv, NamesInv, OwesInv, OnceInv,
           NEW r \in Requests, NEW h \in Handles, RemoveOld(r, h)
    PROVE  OnceInv'
<1>0. requests[r].handle \in Handles /\ requests[r].grant \in Grants
  BY RemoveOldForm
<1> PICK old \in Handles, g \in Grants : old = requests[r].handle /\ g = requests[r].grant
  BY <1>0
<1>1. /\ requests[r].at = "removeOld"
      /\ "removeOld" \in RefreshSteps /\ "removeOld" \in Accepted
  BY RemoveOldForm DEF RefreshSteps, Accepted
<1>2. grants[g] # None /\ Usage[grants[g].client] = "OneTimeOnly"
  <2>1. grants[g] # None /\ requests[r].client = grants[g].client
    BY <1>1 DEF TypeInv, Known, LifeInv, Bound
  <2> QED
    BY <1>1, <2>1 DEF OwesInv, Rotates
<1>3. Names(old, g)
  BY <1>1 DEF Names, Uses
<1>4. grants' = grants /\ raced \subseteq raced'
  BY RemoveOldForm
<1>5. ASSUME NEW k \in Handles, NEW j \in Grants, Carries(k, j)'
      PROVE  \/ k = h /\ j = g
             \/ k # old /\ refreshTokens[k] = j
             \/ k # h /\ \E o \in Requests : o # r /\ Owes(requests[o]) /\ requests[o].grant = j
                                             /\ requests[o].newHandle = k
  <2>1. CASE refreshTokens'[k] = j
    BY <1>1, <2>1, RemoveOldForm, NoneAssumption
  <2>2. CASE \E o \in Requests :
                Owes(requests'[o]) /\ requests'[o].grant = j /\ requests'[o].newHandle = k
    <3>1. PICK o \in Requests :
              Owes(requests'[o]) /\ requests'[o].grant = j /\ requests'[o].newHandle = k
      BY <2>2
    <3>2. CASE o = r
      BY <3>1, <3>2, RemoveOldForm
    <3>3. CASE o # r
      <4>1. Owes(requests[o]) /\ requests[o].grant = j /\ requests[o].newHandle = k
        BY <3>1, <3>3, RemoveOldForm
      <4>2. k \in minted
        BY <4>1, OwedMinted
      <4>3. k # h
        BY <4>2, RemoveOldForm
      <4> QED
        BY <3>3, <4>1, <4>3
    <3> QED
      BY <3>2, <3>3
  <2> QED
    BY <1>5, <2>1, <2>2 DEF Carries
<1>6. ASSUME NEW k \in Handles, NEW j \in Grants, Carries(k, j)', ~(k = h /\ j = g)
      PROVE  Carries(k, j)
  BY <1>5, <1>6 DEF Carries
<1>7. ASSUME NEW k \in Handles, Carries(k, g)', g \notin raced' PROVE k = h
  <2> SUFFICES ASSUME k # h PROVE FALSE
    OBVIOUS
  <2>1. refreshTokens[old] # None
    BY <1>7, RemoveOldForm
  <2>2. refreshTokens[old] = g
    <3>1. refreshTokens[old] \in Grants /\ Names(old, refreshTokens[old])
      BY <1>1, <2>1 DEF TypeInv, TypeOK, Names
    <3> QED
      BY <1>1, <1>3, <3>1 DEF NamesInv
  <2>3. Carries(old, g)
    BY <2>2 DEF Carries
  <2>4. Carries(k, g) /\ g \notin raced
    BY <1>1, <1>4, <1>6, <1>7
  <2>5. k = old
    BY <1>1, <1>2, <2>3, <2>4 DEF OnceInv
  <2>6. PICK o \in Requests : Owes(requests[o]) /\ requests[o].newHandle = old
    BY <1>1, <1>5, <1>7, <2>5
  <2>7. OwnNew(o)
    BY <2>6 DEF OwesInv
  <2> QED
    BY <2>1, <2>6, <2>7 DEF OwnNew
<1>8. ASSUME NEW k \in Handles, NEW j \in Grants, Names(k, j)', j # g PROVE Names(k, j)
  BY <1>8, RemoveOldNames
<1> SUFFICES ASSUME NEW j \in Grants, grants[j] # None
             PROVE  /\ Usage[grants[j].client] = "ReUse"
                          => \A h1, h2 \in Handles : Names(h1, j)' /\ Names(h2, j)' => h1 = h2
                    /\ Usage[grants[j].client] = "OneTimeOnly" /\ j \notin raced'
                          => \A h1, h2 \in Handles : Carries(h1, j)' /\ Carries(h2, j)' => h1 = h2
  BY <1>4 DEF OnceInv
<1>9. CASE j = g
  BY <1>2, <1>7, <1>9
<1>10. CASE j # g
  <2>1. /\ Usage[grants[j].client] = "ReUse"
              => \A h1, h2 \in Handles : Names(h1, j) /\ Names(h2, j) => h1 = h2
        /\ Usage[grants[j].client] = "OneTimeOnly" /\ j \notin raced
              => \A h1, h2 \in Handles : Carries(h1, j) /\ Carries(h2, j) => h1 = h2
    BY DEF OnceInv
  <2> QED
    BY <1>4, <1>6, <1>8, <1>10, <2>1
<1> QED
  BY <1>9, <1>10

\* Who owed a handle stores the grant under it; who did not stores the grant of a
\* client that uses its handles again.
LEMMA StoreOnce ==
    ASSUME TypeInv, LifeInv, MintedInv, OnceInv, NEW r \in Requests, StoreUpdated(r)
    PROVE  OnceInv'
<1>1. \A k \in Handles, g \in Grants : Names(k, g)' => Names(k, g)
  BY StoreNames
<1>2. ASSUME NEW k \in Handles, NEW g \in Grants, grants[g] # None,
             Usage[grants[g].client] = "OneTimeOnly", Carries(k, g)'
      PROVE  Carries(k, g)
  <2>1. CASE refreshTokens'[k] = g
    <3>1. CASE k = requests[r].newHandle
      <4>1. requests[r].grant = g /\ requests[r].at = "store"
        BY <2>1, <3>1, StoreForm
      <4>2. requests[r].client = grants[g].client
        BY <4>1 DEF LifeInv, Bound, Accepted
      <4>3. Owes(requests[r])
        BY <1>2, <4>1, <4>2 DEF Owes
      <4> QED
        BY <3>1, <4>1, <4>3 DEF Carries
    <3>2. CASE k # requests[r].newHandle
      BY <2>1, <3>2, StoreForm DEF Carries
    <3> QED
      BY <3>1, <3>2
  <2>2. CASE \E o \in Requests :
                Owes(requests'[o]) /\ requests'[o].grant = g /\ requests'[o].newHandle = k
    <3>1. PICK o \in Requests :
              Owes(requests'[o]) /\ requests'[o].grant = g /\ requests'[o].newHandle = k
      BY <2>2
    <3>2. o # r
      BY <3>1, StoreForm DEF Owes
    <3> QED
      BY <3>1, <3>2, StoreForm DEF Carries
  <2> QED
    BY <1>2, <2>1, <2>2 DEF Carries
<1>3. UNCHANGED <<grants, raced>>
  BY StoreForm
<1> QED
  BY <1>1, <1>2, <1>3, OnceLess

LEMMA OnceInit == Init => OnceInv
BY DEF Init, OnceInv

LEMMA OnceStep ==
    TypeInv /\ LifeInv /\ MintedInv /\ NamesInv /\ OwesInv /\ OnceInv /\ [Next]_vars => OnceInv'
<1> SUFFICES ASSUME TypeInv, LifeInv, MintedInv, NamesInv, OwesInv, OnceInv, [Next]_vars
             PROVE  OnceInv'
  OBVIOUS
<1>1. CASE UNCHANGED vars \/ Tick
  <2>1. UNCHANGED <<grants, refreshTokens, requests, raced>>
    BY <1>1 DEF vars, Tick, stores, history
  <2> QED
    BY <2>1 DEF OnceInv, Names, Carries
<1>2. ASSUME NEW r \in Requests, Arrive(r) \/ Serve(r) \/ Abort(r) PROVE OnceInv'
  BY <1>2, StepKinds, QuietOnce, CreateOnce, GetOnce, RemoveOldOnce, StoreOnce
<1> QED
  BY <1>1, <1>2 DEF Next

\* What a request knows that has still to remove a handle it found expired: the handle
\* names the grant it read, if any, and the lifetime it found over is over for good,
\* whatever lifetime the grant has by then.
Expired(q) ==
    /\ q.handle \in Handles \cap minted
    /\ q.grant \in Grants /\ grants[q.grant] # None
    /\ HasExceeded(grants[q.grant].created, q.lifeTime)
    /\ \A g \in Grants : Names(q.handle, g) => g = q.grant

ExpiredInv == \A r \in Requests : At(r, "removeExpired") => Expired(requests[r])

\* A grant is created once.
LEMMA CreatedOnce ==
    ASSUME TypeInv, [Next]_vars, NEW g \in Grants, grants[g] # None
    PROVE  grants'[g] # None /\ grants'[g].created = grants[g].created
<1>1. CASE UNCHANGED grants
  BY <1>1
<1>2. CASE ~UNCHANGED grants
  <2>1. PICK r \in Requests : Arrive(r) \/ Serve(r) \/ Abort(r)
    BY <1>2 DEF Next, vars, Tick, stores
  <2>2. ~Other(r)
    BY <1>2, OtherStep
  <2>3. \/ \E j \in Grants, h \in Handles : CreateRefreshToken(r, j, h)
        \/ WriteLifetime(r)
    BY <1>2, <2>1, <2>2 DEF Other, Serve, RefreshCheck, CheckActive, RefreshAccessToken,
                            RemoveOld, Slide, stores
  <2>4. CASE \E j \in Grants, h \in Handles : CreateRefreshToken(r, j, h)
    BY <2>4, CreateForm
  <2>5. CASE WriteLifetime(r)
    <3>1. PICK l \in Int : l = requests[r].lifeTime
      BY DEF TypeInv, TypeOK, Request
    <3>2. requests[r].grant \in Grants /\ grants[requests[r].grant] \in Grant
      BY <2>5 DEF WriteLifetime, At, TypeInv, TypeOK, Known, RefreshSteps
    <3>3. PICK new : new = [grants[requests[r].grant] EXCEPT !.lifeTime = l]
      OBVIOUS
    <3>4. new \in Grant /\ new.created = grants[requests[r].grant].created
      BY <3>1, <3>2, <3>3 DEF Grant
    <3>5. grants' = [grants EXCEPT ![requests[r].grant] = new]
      BY <2>5, <3>1, <3>3 DEF WriteLifetime
    <3> QED
      BY <3>2, <3>4, <3>5, RecordAssumption DEF TypeInv, TypeOK
  <2> QED
    BY <2>3, <2>4, <2>5
<1> QED
  BY <1>1, <1>2

\* A handle that was generated is given no other grant, and time goes on.
LEMMA NamesKept ==
    ASSUME TypeInv, MintedInv, [Next]_vars
    PROVE  /\ minted \subseteq minted' /\ now' \in Nat /\ now' >= now
           /\ \A h \in Handles \cap minted, g \in Grants : Names(h, g)' => Names(h, g)
<1>1. now \in Nat
  BY DEF TypeInv, TypeOK
<1>2. CASE UNCHANGED vars \/ Tick
  <2>1. UNCHANGED <<refreshTokens, requests, minted>> /\ (now' = now \/ now' = now + 1)
    BY <1>2 DEF vars, Tick, stores
  <2>2. now' \in Nat /\ now' >= now
    BY <1>1, <2>1
  <2> QED
    BY <2>1, <2>2 DEF Names
<1>3. ASSUME NEW r \in Requests, Arrive(r) \/ Serve(r) \/ Abort(r)
      PROVE  /\ minted \subseteq minted' /\ now' = now
             /\ \A h \in Handles \cap minted, g \in Grants : Names(h, g)' => Names(h, g)
  <2>1. CASE Quiet(r)
    <3>1. minted \subseteq minted' /\ now' = now
      BY <2>1 DEF Quiet
    <3> QED
      BY <2>1, <3>1, QuietNames
  <2>2. CASE \E g \in Grants, h \in Handles : CreateRefreshToken(r, g, h)
    BY <2>2, CreateForm, CreateNames
  <2>3. CASE \E h \in delivered, c \in Clients : RefreshGet(r, c, h)
    BY <2>3, GetForm, GetNames
  <2>4. CASE \E h \in Handles : RemoveOld(r, h)
    BY <2>4, RemoveOldForm, RemoveOldNames
  <2>5. CASE StoreUpdated(r)
    BY <2>5, StoreForm, StoreNames
  <2> QED
    BY <1>3, <2>1, <2>2, <2>3, <2>4, <2>5, StepKinds
<1> QED
  BY <1>1, <1>2, <1>3 DEF Next

\* Only the check of the grant finds it expired.
LEMMA ExpiredByCheck ==
    ASSUME TypeInv, NEW r \in Requests, Arrive(r) \/ Serve(r) \/ Abort(r),
           requests'[r].at = "removeExpired"
    PROVE  At(r, "check") /\ FoundExpired(r, grants[requests[r].grant])
<1>1. requests \in [Requests -> Request] /\ requests[r] \in Request /\ Known(requests[r], grants)
  BY DEF TypeInv, TypeOK
<1>2. ~Other(r)
  BY OtherStep DEF Elsewhere
<1>3. ASSUME NEW g \in Grants, NEW h \in Handles, CreateRefreshToken(r, g, h) PROVE FALSE
  BY <1>3, CreateForm
<1>4. ~CheckActive(r) /\ ~WriteLifetime(r)
  BY <1>1 DEF CheckActive, WriteLifetime, Goto, Finish, Become, Request, Idle
<1>5. ~RefreshAccessToken(r)
  <2> SUFFICES ASSUME RefreshAccessToken(r) PROVE FALSE
    OBVIOUS
  <2> DEFINE c == requests[r].client
             next == IF Usage[c] = "OneTimeOnly" THEN "removeOld"
                     ELSE IF Expiration[c] = "Sliding" THEN "slide" ELSE "reply"
  <2>1. CreateSecurityToken(r, requests[r].subject, now, next)
    BY DEF RefreshAccessToken
  <2>2. next \in Steps /\ next # "removeExpired" /\ now \in Nat
    BY DEF Steps, RefreshSteps, TypeInv, TypeOK
  <2>3. requests[r].client \in Clients /\ requests[r].subject \in Subjects
    BY <1>1 DEF RefreshAccessToken, At, Known, RefreshSteps
  <2> HIDE DEF next
  <2>4. PICK a \in Handles \cup {None} :
           Become(r, [requests[r] EXCEPT !.at = next, !.accessHandle = a])
    BY <2>1, <2>2, <2>3, SecurityTokenStep
  <2> QED
    BY <1>1, <2>2, <2>4 DEF Become, Request
<1>6. ASSUME NEW h \in Handles, RemoveOld(r, h) PROVE FALSE
  BY <1>6, RemoveOldForm
<1>7. ~Slide(r)
  <2> SUFFICES ASSUME Slide(r) PROVE FALSE
    OBVIOUS
  <2>1. PICK l : Become(r, [requests[r] EXCEPT !.at = "write", !.lifeTime = l])
    BY DEF Slide
  <2> QED
    BY <1>1, <2>1 DEF Become, Request
<1>8. RefreshCheck(r)
  BY <1>2, <1>3, <1>4, <1>5, <1>6, <1>7 DEF Serve, Other
<1> QED
  BY <1>1, <1>8 DEF RefreshCheck, Goto, Finish, Become, Request, Idle

LEMMA ExpiredInit == Init => ExpiredInv
BY DEF Init, ExpiredInv, At, Idle

LEMMA ExpiredStep == TypeInv /\ MintedInv /\ NamesInv /\ ExpiredInv /\ [Next]_vars => ExpiredInv'
<1> SUFFICES ASSUME TypeInv, MintedInv, NamesInv, ExpiredInv, [Next]_vars,
                    NEW r \in Requests, requests'[r].at = "removeExpired"
             PROVE  Expired(requests[r])'
  BY DEF ExpiredInv, At
<1>1. CASE requests'[r] = requests[r]
  <2>1. PICK q : q = requests[r]
    OBVIOUS
  <2>2. Expired(q)
    BY <1>1, <2>1 DEF ExpiredInv, At
  <2>3. /\ grants'[q.grant] # None /\ grants'[q.grant].created = grants[q.grant].created
        /\ grants[q.grant] \in Grant /\ q.lifeTime \in Int /\ now \in Nat
    BY <2>1, <2>2, CreatedOnce DEF Expired, TypeInv, TypeOK, Request
  <2>4. now' \in Nat /\ now' >= now /\ minted \subseteq minted'
        /\ \A h \in Handles \cap minted, g \in Grants : Names(h, g)' => Names(h, g)
    BY NamesKept
  <2>5. HasExceeded(grants[q.grant].created, q.lifeTime)'
    BY <2>2, <2>3, <2>4 DEF Expired, HasExceeded, Grant
  <2> QED
    BY <1>1, <2>1, <2>2, <2>3, <2>4, <2>5 DEF Expired
<1>2. CASE requests'[r] # requests[r]
  <2>1. PICK o \in Requests : Arrive(o) \/ Serve(o) \/ Abort(o)
    BY <1>2 DEF Next, vars, Tick
  <2>2. o = r
    BY <1>2, <2>1, StepBecomes DEF Become, TypeInv, TypeOK
  <2>3. At(r, "check") /\ FoundExpired(r, grants[requests[r].grant])
    BY <2>1, <2>2, ExpiredByCheck
  <2>4. PICK q \in Request :
           /\ Become(r, q) /\ q.at = "removeExpired" /\ q.grant = requests[r].grant
           /\ q.handle = requests[r].handle
           /\ HasExceeded(grants[requests[r].grant].created, q.lifeTime)
    BY <2>3, FoundExpiredForm DEF At
  <2>5. /\ q.handle \in Handles /\ q.grant \in Grants /\ grants[q.grant] # None
        /\ requests[r].at \in RefreshSteps
    BY <2>3, <2>4 DEF At, TypeInv, Known, RefreshSteps
  <2>6. q.handle \in minted
    BY <2>4, <2>5, NoneAssumption DEF MintedInv
  <2>7. \A g \in Grants : Names(q.handle, g) => g = q.grant
    <3>1. Names(q.handle, q.grant)
      BY <2>4, <2>5 DEF Names, Uses
    <3> QED
      BY <2>5, <3>1 DEF NamesInv
  <2>8. /\ grants'[q.grant] # None /\ grants'[q.grant].created = grants[q.grant].created
        /\ grants[q.grant] \in Grant /\ q.lifeTime \in Int /\ now \in Nat
    BY <2>5, CreatedOnce DEF TypeInv, TypeOK, Request
  <2>9. now' \in Nat /\ now' >= now /\ minted \subseteq minted'
        /\ \A h \in Handles \cap minted, g \in Grants : Names(h, g)' => Names(h, g)
    BY NamesKept
  <2>10. HasExceeded(grants[q.grant].created, q.lifeTime)'
    BY <2>4, <2>8, <2>9 DEF HasExceeded, Grant
  <2>11. requests'[r] = q
    BY <2>4, BecomeOne DEF TypeInv
  <2> QED
    BY <2>5, <2>6, <2>7, <2>8, <2>9, <2>10, <2>11 DEF Expired
<1> QED
  BY <1>1, <1>2

\* All of them hold.
LEMMA HandlesCorrect ==
    Spec => []TypeInv /\ []LifeInv /\ []MintedInv /\ []NamesInv /\ []OwesInv /\ []OnceInv
            /\ []ExpiredInv
BY TypeInit, TypeStep, LifeInit, LifeStep, MintedInit, MintedStep, NamesInit, NamesStep,
   OwesInit, OwesStep, OnceInit, OnceStep, ExpiredInit, ExpiredStep, PTL DEF Spec

\* A handle stands for the consent of one user to one client for good: in the store
\* and in the requests that have read it, it names the same grant.
THEOREM HandlesNameOneGrant == Spec => []NamesInv
BY HandlesCorrect, PTL

\* A grant that no two refreshes raced for has one live handle, however many
\* requests there are, and whatever is revoked, expires or fails in between.
THEOREM OneHandleHolds == Spec => []OneHandle
<1>1. TypeInv /\ OnceInv => OneHandle
  <2> SUFFICES ASSUME TypeInv, OnceInv, NEW g \in Grants \ raced, NEW h1 \in Handles, NEW h2 \in Handles,
                      refreshTokens[h1] = g, refreshTokens[h2] = g
               PROVE  h1 = h2
    BY DEF OneHandle
  <2>1. grants[g] # None /\ grants[g] \in Grant
    BY NoneAssumption DEF TypeInv, TypeOK
  <2>2. Usage[grants[g].client] \in {"ReUse", "OneTimeOnly"}
    BY <2>1, ConfigAssumption DEF Grant
  <2>3. Names(h1, g) /\ Names(h2, g) /\ Carries(h1, g) /\ Carries(h2, g)
    BY DEF Names, Carries
  <2> QED
    BY <2>1, <2>2, <2>3 DEF OnceInv
<1> QED
  BY <1>1, HandlesCorrect, PTL

\* A one-time handle that a client has seen and that has left the store never
\* becomes valid again: a refresh that stores a handle a client has seen is one of
\* a client that uses its handles again.
THEOREM ConsumedStaysConsumedHolds == Spec => ConsumedStaysConsumed
<1> DEFINE Step(h) == refreshTokens[h] = None /\ refreshTokens'[h] # None
                         => Usage[grants[refreshTokens'[h]].client] = "ReUse"
<1>1. ASSUME TypeInv, LifeInv, MintedInv, OwesInv, [Next]_vars, NEW h \in delivered PROVE Step(h)
  <2> SUFFICES ASSUME refreshTokens[h] = None, refreshTokens'[h] # None
               PROVE  Usage[grants[refreshTokens'[h]].client] = "ReUse"
    OBVIOUS
  <2>1. h \in Handles /\ h \in minted
    BY <1>1 DEF TypeInv, TypeOK, MintedInv
  <2>2. PICK r \in Requests : Arrive(r) \/ Serve(r) \/ Abort(r)
    BY <1>1 DEF Next, vars, Tick, stores
  <2>3. ~Quiet(r)
    BY <2>1 DEF Quiet
  <2>4. ASSUME NEW g \in Grants, NEW k \in Handles, CreateRefreshToken(r, g, k) PROVE FALSE
    BY <1>1, <2>1, <2>4, CreateForm
  <2>5. ASSUME NEW k \in delivered, NEW c \in Clients, RefreshGet(r, c, k) PROVE FALSE
    BY <1>1, <2>5, GetForm
  <2>6. ASSUME NEW k \in Handles, RemoveOld(r, k) PROVE FALSE
    BY <1>1, <2>1, <2>6, RemoveOldForm
  <2>7. StoreUpdated(r)
    BY <1>1, <2>2, <2>3, <2>4, <2>5, <2>6, StepKinds
  <2>8. h = requests[r].newHandle /\ refreshTokens'[h] = requests[r].grant /\ requests[r].at = "store"
    BY <1>1, <2>1, <2>7, StoreForm
  <2>9. ~Owes(requests[r])
    BY <1>1, <2>8 DEF OwesInv, OwnNew
  <2>10. requests[r].client \in Clients /\ requests[r].client = grants[requests[r].grant].client
    BY <1>1, <2>8 DEF TypeInv, Known, RefreshSteps, LifeInv, Bound, Accepted
  <2> QED
    BY <2>8, <2>9, <2>10, ConfigAssumption DEF Owes
<1>2. TypeInv /\ LifeInv /\ MintedInv /\ OwesInv /\ [Next]_vars => [\A h \in delivered : Step(h)]_vars
  BY <1>1
<1>3. Spec => [][\A h \in delivered : Step(h)]_vars
  BY <1>2, HandlesCorrect, PTL DEF Spec
<1> QED
  BY <1>3 DEF ConsumedStaysConsumed

\* Which steps take a handle out of its store.
LEMMA RefreshRemovals ==
    ASSUME TypeInv, [Next]_vars, NEW h \in Handles,
           refreshTokens[h] # None, refreshTokens'[h] = None
    PROVE  \E r \in Requests :
              \/ RemoveExpired(r) /\ requests[r].handle = h
              \/ requests[r].handle = h /\ \E k \in Handles : RemoveOld(r, k)
              \/ RevokeOneRefresh(r, h)
<1>1. PICK r \in Requests : Arrive(r) \/ Serve(r) \/ Abort(r)
  BY DEF Next, vars, Tick, stores
<1>2. ~UNCHANGED refreshTokens
  OBVIOUS
<1>3. ~Arrive(r) /\ ~Abort(r)
  BY <1>2 DEF Arrive, BeginIssue, RefreshGet, RevokeAccessGet, BeginRevokeRefresh,
              BeginRevokePermissions, ValidateGet, Abort, stores
<1>4. ASSUME NEW g \in Grants, NEW k \in Handles, CreateRefreshToken(r, g, k) PROVE FALSE
  BY <1>4, CreateForm, NoneAssumption
<1>5. ~StoreUpdated(r)
  BY StoreForm, NoneAssumption
<1>6. \/ RemoveExpired(r) \/ (\E k \in Handles : RemoveOld(r, k))
      \/ \E k \in Handles : RevokeOneRefresh(r, k)
  BY <1>1, <1>2, <1>3, <1>4, <1>5 DEF Serve, IssueAccessToken, Reply, RefreshCheck, CheckActive,
     RefreshAccessToken, Slide, WriteLifetime, RemoveAccess, RevokeRefreshGet, RevokeStart,
     RevokeRefreshDone, RevokeAccessStart, RevokeOneAccess, RevokeAccessDone, DropExpiredAccess,
     stores
<1>7. CASE RemoveExpired(r)
  BY <1>7 DEF RemoveExpired, TypeInv, TypeOK
<1>8. ASSUME NEW k \in Handles, RemoveOld(r, k) PROVE requests[r].handle = h
  BY <1>8, RemoveOldForm
<1>9. ASSUME NEW k \in Handles, RevokeOneRefresh(r, k) PROVE k = h
  BY <1>9 DEF RevokeOneRefresh, TypeInv, TypeOK
<1> QED
  BY <1>6, <1>7, <1>8, <1>9

LEMMA AccessRemovals ==
    ASSUME TypeInv, [Next]_vars, NEW h \in Handles,
           tokenHandles[h] # None, tokenHandles'[h] = None
    PROVE  \E r \in Requests :
              \/ (RemoveAccess(r) \/ DropExpiredAccess(r)) /\ requests[r].handle = h
              \/ RevokeOneAccess(r, h)
<1>1. PICK r \in Requests : Arrive(r) \/ Serve(r) \/ Abort(r)
  BY DEF Next, vars, Tick, stores
<1>2. ~UNCHANGED tokenHandles
  OBVIOUS
<1>3. ~Arrive(r) /\ ~Abort(r)
  BY <1>2 DEF Arrive, BeginIssue, RefreshGet, RevokeAccessGet, BeginRevokeRefresh,
              BeginRevokePermissions, ValidateGet, Abort, stores
<1>4. ASSUME NEW s, NEW t \in Nat, NEW next, s \in Subjects, requests[r].client \in Clients,
             CreateSecurityToken(r, s, t, next)
      PROVE  FALSE
  <2>1. AccessTokenType[requests[r].client] = "Reference"
    BY <1>2, <1>4 DEF CreateSecurityToken
  <2>2. PICK k \in Handles \ minted :
           tokenHandles' = [tokenHandles EXCEPT ![k] =
               [client |-> requests[r].client, subject |-> s,
                expires |-> t + AccessTokenLifetime[requests[r].client]]]
    BY <1>4, <2>1 DEF CreateSecurityToken
  <2>3. PICK token : token = [client |-> requests[r].client, subject |-> s,
                              expires |-> t + AccessTokenLifetime[requests[r].client]]
    OBVIOUS
  <2>4. token \in AccessToken
    BY <1>4, <2>3, LifetimeAssumption DEF AccessToken
  <2>5. tokenHandles' = [tokenHandles EXCEPT ![k] = token] /\ token # None
    BY <2>2, <2>3, <2>4, RecordAssumption
  <2> QED
    BY <2>5 DEF TypeInv, TypeOK
<1>5. requests[r] \in Request /\ Known(requests[r], grants) /\ now \in Nat
  BY DEF TypeInv, TypeOK
<1>6. ~IssueAccessToken(r)
  <2> SUFFICES ASSUME IssueAccessToken(r) PROVE FALSE
    OBVIOUS
  <2>1. requests[r].client \in Clients /\ requests[r].subject \in Subjects /\ requests[r].created \in Nat
    BY <1>5 DEF IssueAccessToken, At, Known, Issuing, Request
  <2> QED
    BY <1>4, <2>1 DEF IssueAccessToken
<1>7. ~RefreshAccessToken(r)
  <2> SUFFICES ASSUME RefreshAccessToken(r) PROVE FALSE
    OBVIOUS
  <2>1. requests[r].client \in Clients /\ requests[r].subject \in Subjects
    BY <1>5 DEF RefreshAccessToken, At, Known, RefreshSteps
  <2>2. \E next : CreateSecurityToken(r, requests[r].subject, now, next)
    BY DEF RefreshAccessToken
  <2> QED
    BY <1>4, <1>5, <2>1, <2>2
<1>8. RemoveAccess(r) \/ DropExpiredAccess(r) \/ \E k \in Handles : RevokeOneAccess(r, k)
  BY <1>1, <1>2, <1>3, <1>6, <1>7 DEF Serve, CreateRefreshToken, Reply, RefreshCheck,
     RemoveExpired, CheckActive, RemoveOld, Slide, WriteLifetime, StoreUpdated, RevokeRefreshGet,
     RevokeStart, RevokeOneRefresh, RevokeRefreshDone, RevokeAccessStart, RevokeAccessDone, stores
<1>9. ASSUME RemoveAccess(r) \/ DropExpiredAccess(r) PROVE requests[r].handle = h
  BY <1>9 DEF RemoveAccess, DropExpiredAccess, TypeInv, TypeOK
<1>10. ASSUME NEW k \in Handles, RevokeOneAccess(r, k) PROVE k = h
  BY <1>10 DEF RevokeOneAccess, TypeInv, TypeOK
<1> QED
  BY <1>8, <1>9, <1>10

\* No client can take a token away from another: for a refresh, because the handle
\* it was given still names the grant it read (NamesInv), whose client is its own
\* (LifeInv), and a token that was found expired is the one whose handle is removed
\* (ExpiredInv); for a reference token, because what it read of the handle is true of
\* whatever is still there (MintedInv).
THEOREM OwnerOnlyHolds == Spec => OwnerOnly
<1> DEFINE Step == \A h \in Handles :
               /\ refreshTokens[h] # None /\ refreshTokens'[h] = None
                     => \E r \in Requests : RefreshOwnersRequest(r, h)
               /\ tokenHandles[h] # None /\ tokenHandles'[h] = None
                     => \E r \in Requests : AccessOwnersRequest(r, h)
<1>1. ASSUME TypeInv, LifeInv, NamesInv, ExpiredInv, [Next]_vars, NEW h \in Handles,
             refreshTokens[h] # None, refreshTokens'[h] = None
      PROVE  \E r \in Requests : RefreshOwnersRequest(r, h)
  <2>1. PICK r \in Requests :
              \/ RemoveExpired(r) /\ requests[r].handle = h
              \/ requests[r].handle = h /\ \E k \in Handles : RemoveOld(r, k)
              \/ RevokeOneRefresh(r, h)
    BY <1>1, RefreshRemovals
  <2>2. CASE RemoveExpired(r) /\ requests[r].handle = h
    <3>1. At(r, "removeExpired") /\ Expired(requests[r])
      BY <1>1, <2>2 DEF RemoveExpired, ExpiredInv
    <3>2. refreshTokens[h] \in Grants /\ Names(h, refreshTokens[h])
      BY <1>1 DEF TypeInv, TypeOK, Names
    <3> QED
      BY <2>2, <3>1, <3>2 DEF RefreshOwnersRequest, Expired
  <2>3. CASE requests[r].handle = h /\ \E k \in Handles : RemoveOld(r, k)
    <3>1. requests[r].at = "removeOld" /\ requests[r].grant \in Grants
      BY <1>1, <2>3, RemoveOldForm
    <3>2. refreshTokens[h] \in Grants
      BY <1>1 DEF TypeInv, TypeOK
    <3>3. Names(h, requests[r].grant) /\ Names(h, refreshTokens[h])
      BY <2>3, <3>1 DEF Names, Uses, RefreshSteps
    <3>4. refreshTokens[h] = requests[r].grant
      BY <1>1, <3>1, <3>2, <3>3 DEF NamesInv
    <3>5. requests[r].client = grants[refreshTokens[h]].client
      BY <1>1, <3>1, <3>4 DEF LifeInv, Bound, Accepted
    <3> QED
      BY <2>3, <3>1, <3>5 DEF RefreshOwnersRequest, At
  <2>4. CASE RevokeOneRefresh(r, h)
    BY <2>4 DEF RevokeOneRefresh, RefreshHandlesOf, RefreshOwnersRequest
  <2> QED
    BY <2>1, <2>2, <2>3, <2>4
<1>2. ASSUME TypeInv, MintedInv, [Next]_vars, NEW h \in Handles,
             tokenHandles[h] # None, tokenHandles'[h] = None
      PROVE  \E r \in Requests : AccessOwnersRequest(r, h)
  <2>1. PICK r \in Requests :
              \/ (RemoveAccess(r) \/ DropExpiredAccess(r)) /\ requests[r].handle = h
              \/ RevokeOneAccess(r, h)
    BY <1>2, AccessRemovals
  <2>2. TokenFound(requests[r])
    BY <1>2 DEF MintedInv
  <2>3. CASE RevokeOneAccess(r, h)
    BY <2>3 DEF RevokeOneAccess, AccessHandlesOf, AccessOwnersRequest
  <2>4. CASE (RemoveAccess(r) \/ DropExpiredAccess(r)) /\ requests[r].handle = h
    BY <1>2, <2>2, <2>4 DEF RemoveAccess, DropExpiredAccess, TokenFound, AccessOwnersRequest, At
  <2> QED
    BY <2>1, <2>3, <2>4
<1>3. TypeInv /\ LifeInv /\ MintedInv /\ NamesInv /\ ExpiredInv /\ [Next]_vars => [Step]_vars
  BY <1>1, <1>2
<1>4. Spec => [][Step]_vars
  BY <1>3, HandlesCorrect, PTL DEF Spec
<1> QED
  BY <1>4 DEF OwnerOnly

\* What becomes of a grant that is stored under a handle, when it is so no more.
LEMMA StoredEnds ==
    ASSUME TypeInv, LifeInv, MintedInv, NamesInv, OwesInv, ExpiredInv, [Next]_vars,
           NEW g \in Grants, NEW h \in Handles, refreshTokens[h] = g, ~Alive(g)'
    PROVE  \E r \in Requests : EndedBy(r, g)
<1>1. refreshTokens[h] # None /\ refreshTokens'[h] # g
  BY NoneAssumption DEF Alive
<1>2. ASSUME NEW r \in Requests, NEW k \in Handles, RemoveOld(r, k), requests[r].handle = h
      PROVE  FALSE
  <2>1. requests[r].grant = g
    <3>1. requests[r].at = "removeOld" /\ requests[r].grant \in Grants /\ "removeOld" \in RefreshSteps
      BY <1>2, RemoveOldForm DEF RefreshSteps
    <3>2. Names(h, requests[r].grant) /\ Names(h, g)
      BY <1>2, <3>1 DEF Names, Uses
    <3> QED
      BY <3>1, <3>2 DEF NamesInv
  <2>2. Usage[requests[r].client] = "OneTimeOnly"
    BY <1>2, RemoveOldForm DEF OwesInv, Rotates
  <2>3. Owes(requests'[r]) /\ requests'[r].grant = g
    BY <1>2, <2>1, <2>2, RemoveOldForm DEF Owes
  <2> QED
    BY <2>3 DEF Alive
<1>3. refreshTokens'[h] = None
  <2> SUFFICES ASSUME refreshTokens'[h] # None PROVE FALSE
    OBVIOUS
  <2>1. PICK r \in Requests : Arrive(r) \/ Serve(r) \/ Abort(r)
    BY <1>1 DEF Next, vars, Tick, stores
  <2>2. ~Quiet(r)
    BY <1>1 DEF Quiet
  <2>3. ASSUME NEW j \in Grants, NEW k \in Handles, CreateRefreshToken(r, j, k) PROVE FALSE
    BY <1>1, <2>3, CreateForm DEF MintedInv
  <2>4. ASSUME NEW k \in delivered, NEW c \in Clients, RefreshGet(r, c, k) PROVE FALSE
    BY <1>1, <2>4, GetForm
  <2>5. ASSUME NEW k \in Handles, RemoveOld(r, k) PROVE FALSE
    BY <1>1, <2>5, RemoveOldForm
  <2>6. StoreUpdated(r)
    BY <2>1, <2>2, <2>3, <2>4, <2>5, StepKinds
  <2>7. /\ requests[r].newHandle = h /\ requests[r].grant \in Grants
        /\ requests[r].at = "store" /\ "store" \in RefreshSteps
        /\ refreshTokens'[h] = requests[r].grant
    BY <1>1, <2>6, StoreForm DEF RefreshSteps
  <2>8. Names(h, requests[r].grant) /\ Names(h, g)
    BY <2>7 DEF Names, Uses
  <2> QED
    BY <1>1, <2>7, <2>8 DEF NamesInv
<1>4. PICK r \in Requests :
            \/ RemoveExpired(r) /\ requests[r].handle = h
            \/ requests[r].handle = h /\ \E k \in Handles : RemoveOld(r, k)
            \/ RevokeOneRefresh(r, h)
  BY <1>1, <1>3, RefreshRemovals
<1>5. CASE RemoveExpired(r) /\ requests[r].handle = h
  <2>1. At(r, "removeExpired") /\ Expired(requests[r])
    BY <1>5 DEF RemoveExpired, ExpiredInv
  <2>2. requests[r].grant = g
    <3>1. Names(h, g)
      BY DEF Names
    <3> QED
      BY <1>5, <2>1, <3>1 DEF Expired
  <2>3. HasExceeded(grants[g].created, requests[r].lifeTime)
    BY <2>1, <2>2 DEF Expired
  <2> QED
    BY <1>5, <2>1, <2>3 DEF EndedBy, RemovesExpired, RemovesExtended
<1>6. CASE RevokeOneRefresh(r, h)
  BY <1>6 DEF RevokeOneRefresh, RefreshHandlesOf, EndedBy
<1> QED
  BY <1>2, <1>4, <1>5, <1>6

\* What becomes of a refresh that owes a handle: it goes on to store it, or it ends.
LEMMA OwedEnds ==
    ASSUME TypeInv, MintedInv, [Next]_vars, NEW g \in Grants, ~Alive(g)',
           NEW r \in Requests, Owes(requests[r]), requests[r].grant = g
    PROVE  EndedBy(r, g)
<1>1. requests[r].at \in {"slide", "write", "store"}
  BY DEF Owes
<1>2. ~(Owes(requests'[r]) /\ requests'[r].grant = g)
  BY DEF Alive
<1>3. requests'[r] # requests[r]
  BY <1>2
<1>4. PICK o \in Requests : Arrive(o) \/ Serve(o) \/ Abort(o)
  BY <1>3 DEF Next, vars, Tick
<1>5. o = r
  BY <1>3, <1>4, StepBecomes DEF Become, TypeInv, TypeOK
<1>6. ~Arrive(r)
  BY <1>1 DEF Arrive, At, BeginIssue, RefreshGet, RevokeAccessGet, BeginRevokeRefresh,
              BeginRevokePermissions, ValidateGet
<1>7. ASSUME Slide(r) \/ WriteLifetime(r) PROVE FALSE
  <2>1. Quiet(r)
    BY <1>7, QuietServe
  <2>2. requests'[r].at \in {"write", "store"}
    <3>1. CASE Slide(r)
      <4>1. PICK l : Become(r, [requests[r] EXCEPT !.at = "write", !.lifeTime = l])
        BY <3>1 DEF Slide
      <4> QED
        BY <4>1 DEF Become, TypeInv, TypeOK, Request
    <3>2. CASE WriteLifetime(r)
      BY <3>2 DEF WriteLifetime, Goto, Become, TypeInv, TypeOK, Request
    <3> QED
      BY <1>7, <3>1, <3>2
  <2>3. requests'[r].at \in RefreshSteps
    BY <2>2 DEF RefreshSteps
  <2> QED
    BY <1>2, <2>1, <2>3 DEF Quiet
<1>8. ~StoreUpdated(r)
  BY StoreForm DEF Alive
<1>9. Abort(r)
  BY <1>1, <1>4, <1>5, <1>6, <1>7, <1>8 DEF Serve, At, CreateRefreshToken, IssueAccessToken, Reply,
     RefreshCheck, RemoveExpired, CheckActive, RefreshAccessToken, RemoveOld, RemoveAccess,
     RevokeRefreshGet, RevokeStart, RevokeOneRefresh, RevokeRefreshDone, RevokeAccessStart,
     RevokeOneAccess, RevokeAccessDone, DropExpiredAccess
<1>10. requests'[r].at = "idle"
  BY <1>9, FinishStep, BecomeOne DEF Abort, TypeInv, Idle
<1> QED
  BY <1>10 DEF EndedBy, At

\* However requests for a grant, and for others, interleave: it ends only when it is
\* revoked, is expired at the time its handle is removed, or the refresh fails that has
\* its new handle; or in the one race the code loses, when a request that found it
\* expired removes the handle after another refresh has extended it (RemovesExtended).
THEOREM GrantKeptHolds == Spec => GrantKept
<1> DEFINE Step(g) == Alive(g) /\ ~Alive(g)' => \E r \in Requests : EndedBy(r, g)
<1>1. ASSUME TypeInv, LifeInv, MintedInv, NamesInv, OwesInv, ExpiredInv, [Next]_vars,
             NEW g \in Grants, Alive(g), ~Alive(g)'
      PROVE  \E r \in Requests : EndedBy(r, g)
  BY <1>1, StoredEnds, OwedEnds DEF Alive
<1>2. TypeInv /\ LifeInv /\ MintedInv /\ NamesInv /\ OwesInv /\ ExpiredInv /\ [Next]_vars
         => [\A g \in Grants : Step(g)]_vars
  BY <1>1
<1>3. Spec => [][\A g \in Grants : Step(g)]_vars
  BY <1>2, HandlesCorrect, PTL DEF Spec
<1> QED
  BY <1>3 DEF GrantKept

================================================================================

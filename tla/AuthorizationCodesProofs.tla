------------------------ MODULE AuthorizationCodesProofs ------------------------
(***************************************************************************)
(* What holds of the authorization codes for every number of clients,      *)
(* users, requests and codes, every setting of the clients and every       *)
(* digest.                                                                 *)
(***************************************************************************)
EXTENDS AuthorizationCodes, TLAPS

\* An idle request is a request, and one request changes at a time.
LEMMA IdleType == Idle \in Request
BY NoneAssumption DEF Idle, Request

LEMMA BecomeOne ==
    ASSUME TypeOK, NEW r \in Requests, NEW q \in Request, Become(r, q)
    PROVE  /\ requests' \in [Requests -> Request]
           /\ requests'[r] = q
           /\ \A p \in Requests : p # r => requests'[p] = requests[p]
BY DEF TypeOK, Become

------------------------------------------------------------------------------
\* Type correctness.  TypeOK is not inductive: the code a request redeems has to
\* be one that was issued, and so have the codes in the store, the codes that
\* were tried and those that refresh tokens come from.

Issued == {k \in Codes : codes[k] # None}

Known(q, heap) ==
    q.at \in RedeemSteps => q.client \in Clients /\ q.code \in Codes /\ heap[q.code] # None

TypeInv ==
    /\ TypeOK
    /\ \A r \in Requests : Known(requests[r], codes)
    /\ stored \subseteq Issued
    /\ tried \subseteq Issued \X Requests
    /\ refreshTokens \subseteq Issued \X Requests

LEMMA TypeInit == Init => TypeInv
<1> SUFFICES ASSUME Init PROVE TypeInv
  OBVIOUS
<1>1. \A r \in Requests : requests[r] = Idle
  BY DEF Init
<1>2. requests \in [Requests -> Request]
  BY IdleType DEF Init
<1>3. \A r \in Requests : Known(requests[r], codes)
  BY <1>1 DEF Known, Idle, RedeemSteps
<1> QED
  BY <1>2, <1>3 DEF Init, TypeInv, TypeOK

\* A step of one request that issues no code.
LEMMA LocalStep ==
    ASSUME TypeInv, NEW r \in Requests, NEW q \in Request, Become(r, q), Known(q, codes),
           UNCHANGED <<now, codes>>, stored' \subseteq stored,
           tried' \subseteq Issued \X Requests, refreshTokens' \subseteq Issued \X Requests,
           raced' \subseteq Codes, withdrawn' \subseteq Codes,
           held' \subseteq Codes, taken' \subseteq Codes
    PROVE  TypeInv'
<1>1. requests' \in [Requests -> Request]
  BY BecomeOne DEF TypeInv
<1>2. Issued' = Issued
  BY DEF Issued
<1>3. \A p \in Requests : Known(requests'[p], codes)
  BY BecomeOne DEF TypeInv
<1>4. \A p \in Requests : Known(requests'[p], codes')
  BY <1>3
<1>5. Issued \subseteq Codes
  BY DEF Issued
<1>6. TypeOK'
  BY <1>1, <1>5 DEF TypeInv, TypeOK
<1> QED
  BY <1>2, <1>4, <1>6 DEF TypeInv

LEMMA GotoStep ==
    ASSUME TypeInv, NEW r \in Requests,
           NEW step \in RedeemSteps \cup WithdrawSteps, Goto(r, step),
           step \in RedeemSteps => requests[r].at \in RedeemSteps,
           UNCHANGED <<now, codes, withdrawn, held, taken>>, stored' \subseteq stored,
           tried' \subseteq Issued \X Requests, refreshTokens' \subseteq Issued \X Requests,
           raced' \subseteq Codes
    PROVE  TypeInv'
<1> DEFINE q == [requests[r] EXCEPT !.at = step]
<1>1. requests[r] \in Request /\ Known(requests[r], codes)
  BY DEF TypeInv, TypeOK
<1>2. q \in Request
  BY <1>1 DEF Request
<1>3. Known(q, codes)
  BY <1>1 DEF Known, Request
<1>4. Become(r, q)
  BY DEF Goto
<1> HIDE DEF q
<1> QED
  BY <1>2, <1>3, <1>4, LocalStep DEF TypeInv, TypeOK

LEMMA EndStep ==
    ASSUME TypeInv, NEW r \in Requests, Finish(r),
           UNCHANGED <<now, stores, raced, held, taken>>,
           tried' \subseteq Issued \X Requests, withdrawn' \subseteq Codes
    PROVE  TypeInv'
<1>1. Known(Idle, codes) /\ Become(r, Idle)
  BY DEF Known, Idle, RedeemSteps, Finish
<1> QED
  BY <1>1, IdleType, LocalStep DEF stores, TypeInv, TypeOK

LEMMA TypeAuthorizeWith ==
    ASSUME TypeInv, NEW k \in Codes, NEW s \in Subjects, NEW c \in Clients, NEW uri \in Uris,
           NEW challenge \in Texts \cup {None}, NEW method \in Methods \cup {None},
           NEW offline \in BOOLEAN,
           (Flow[c] \in ProofKeyFlows) <=> (challenge # None),
           (Flow[c] \in ProofKeyFlows) <=> (method # None),
           AuthorizeWith(k, s, c, uri, challenge, method, offline)
    PROVE  TypeInv'
<1> DEFINE new == [client |-> c, subject |-> s, uri |-> uri, challenge |-> challenge,
                   method |-> method, offline |-> offline, created |-> now]
<1>1. new \in Code /\ HasProofKey(new)
  BY DEF Code, HasProofKey, TypeInv, TypeOK
<1>2. codes' = [codes EXCEPT ![k] = new]
  BY DEF AuthorizeWith
<1> HIDE DEF new
<1>3. /\ codes' \in [Codes -> Code \cup {None}]
      /\ codes'[k] = new /\ \A j \in Codes : j # k => codes'[j] = codes[j]
  BY <1>1, <1>2 DEF TypeInv, TypeOK
<1>4. Issued \subseteq Issued' /\ k \in Issued'
  BY <1>1, <1>3, RecordAssumption DEF Issued
<1>5. \A j \in Codes : codes'[j] # None => HasProofKey(codes'[j])
  BY <1>1, <1>3 DEF TypeInv, TypeOK
<1>6. stored' \subseteq Issued'
  BY <1>4 DEF AuthorizeWith, TypeInv
<1>7. UNCHANGED <<now, requests, refreshTokens, history>>
  BY DEF AuthorizeWith
<1>8. \A r \in Requests : Known(requests'[r], codes')
  <2> SUFFICES ASSUME NEW r \in Requests, requests[r].at \in RedeemSteps
               PROVE  requests[r].client \in Clients /\ requests[r].code \in Codes
                      /\ codes'[requests[r].code] # None
    BY <1>7 DEF Known
  <2>1. requests[r].client \in Clients /\ requests[r].code \in Issued
    BY DEF TypeInv, Known, Issued
  <2> QED
    BY <1>4, <2>1 DEF Issued
<1>9. Issued' \subseteq Codes
  BY DEF Issued
<1>10. tried' \subseteq Issued' \X Requests /\ refreshTokens' \subseteq Issued' \X Requests
  BY <1>4, <1>7 DEF history, TypeInv
<1>11. TypeOK'
  BY <1>3, <1>5, <1>6, <1>7, <1>9 DEF TypeInv, TypeOK, history
<1> QED
  BY <1>6, <1>8, <1>10, <1>11 DEF TypeInv

LEMMA TypeAuthorize ==
    ASSUME TypeInv, NEW k \in Codes, NEW s \in Subjects, NEW c \in Clients,
           NEW type \in ResponseTypes, NEW uri \in Uris, NEW challenge \in Texts \cup {None},
           NEW method \in Methods \cup {None}, NEW offline \in BOOLEAN,
           Authorize(k, s, c, type, uri, challenge, method, offline)
    PROVE  TypeInv'
<1>1. CASE Flow[c] \in ProofKeyFlows
  <2> DEFINE kept == IF method = None THEN "plain" ELSE method
  <2>1. kept \in Methods /\ kept # None
    BY NoneAssumption DEF Methods
  <2>2. AuthorizeWith(k, s, c, uri, challenge, kept, offline) /\ challenge # None
    BY <1>1 DEF Authorize
  <2> HIDE DEF kept
  <2> QED
    BY <1>1, <2>1, <2>2, TypeAuthorizeWith
<1>2. CASE Flow[c] \notin ProofKeyFlows
  <2>1. AuthorizeWith(k, s, c, uri, None, None, offline)
    BY <1>2 DEF Authorize
  <2> QED
    BY <1>2, <2>1, TypeAuthorizeWith
<1> QED
  BY <1>1, <1>2

LEMMA TypeRedeemGet ==
    ASSUME TypeInv, NEW r \in Requests, NEW c \in Clients, NEW k \in stored, NEW uri \in Uris,
           NEW verifier \in Texts \cup {None}, RedeemGet(r, c, k, uri, verifier)
    PROVE  TypeInv'
<1> DEFINE q == [Idle EXCEPT !.at = "remove", !.client = c, !.code = k, !.uri = uri,
                             !.verifier = verifier]
<1>1. k \in Codes /\ codes[k] # None
  BY DEF TypeInv, Issued
<1>2. q \in Request
  BY <1>1, IdleType DEF Request, RedeemSteps
<1>3. Known(q, codes)
  BY <1>1 DEF Known, Idle
<1>4. Become(r, q)
  BY DEF RedeemGet
<1> HIDE DEF q
<1>5. taken' \subseteq Codes
  BY <1>1 DEF RedeemGet, TypeInv, TypeOK
<1> QED
  BY <1>2, <1>3, <1>4, <1>5, LocalStep DEF RedeemGet, stores, TypeInv, TypeOK

LEMMA TypeRedeem ==
    ASSUME TypeInv, NEW r \in Requests,
           RemoveCode(r) \/ CheckRequest(r) \/ CheckActive(r) \/ IssueTokens(r) \/ Reply(r)
    PROVE  TypeInv'
<1>1. requests[r].at \in RedeemSteps
  BY DEF RemoveCode, CheckRequest, CheckActive, IssueTokens, Reply, At, RedeemSteps
<1>2. requests[r].code \in Issued /\ requests[r].code \in Codes
  BY <1>1 DEF TypeInv, Known, Issued
<1>3. {"check", "active", "issue", "reply"} \subseteq RedeemSteps
  BY DEF RedeemSteps
<1>4. CASE RemoveCode(r)
  <2>1. raced' \subseteq Codes
    BY <1>2, <1>4 DEF RemoveCode, TypeInv, TypeOK
  <2> QED
    BY <1>1, <1>3, <1>4, <2>1, GotoStep DEF RemoveCode, TypeInv
<1>5. CASE CheckRequest(r)
  <2>1. tried' \subseteq Issued \X Requests
    BY <1>2, <1>5 DEF CheckRequest, TypeInv
  <2> QED
    BY <1>1, <1>3, <1>5, <2>1, GotoStep, EndStep DEF CheckRequest, stores, TypeInv, TypeOK
<1>6. CASE CheckActive(r)
  BY <1>1, <1>3, <1>6, GotoStep, EndStep DEF CheckActive, stores, history, TypeInv, TypeOK
<1>7. CASE IssueTokens(r)
  <2>1. refreshTokens' \subseteq Issued \X Requests
    BY <1>2, <1>7 DEF IssueTokens, TypeInv
  <2> QED
    BY <1>1, <1>3, <1>7, <2>1, GotoStep DEF IssueTokens, history, TypeInv, TypeOK
<1>8. CASE Reply(r)
  BY <1>8, EndStep DEF Reply, history, TypeInv, TypeOK
<1> QED
  BY <1>4, <1>5, <1>6, <1>7, <1>8

\* A step of a withdrawal that leaves the request a withdrawal.
LEMMA WithdrawStep ==
    ASSUME TypeInv, NEW r \in Requests, NEW q \in Request, Become(r, q), q.at \notin RedeemSteps,
           UNCHANGED <<now, codes, tried, raced, withdrawn, taken>>, held' \subseteq Codes,
           stored' \subseteq stored, refreshTokens' \subseteq refreshTokens
    PROVE  TypeInv'
<1>1. Known(q, codes)
  BY DEF Known
<1> QED
  BY <1>1, LocalStep DEF TypeInv, TypeOK

LEMMA TypeBeginWithdraw ==
    ASSUME TypeInv, NEW r \in Requests, NEW s \in Subjects, NEW c \in Clients,
           BeginWithdraw(r, s, c)
    PROVE  TypeInv'
<1> DEFINE q == [Idle EXCEPT !.at = "tokensStart", !.client = c, !.subject = s]
<1>1. q \in Request /\ q.at \notin RedeemSteps
  BY IdleType DEF Request, Idle, RedeemSteps
<1>2. Become(r, q)
  BY DEF BeginWithdraw
<1> HIDE DEF q
<1> QED
  BY <1>1, <1>2, WithdrawStep DEF BeginWithdraw, stores, history, TypeInv, TypeOK

LEMMA TypeWithdrawTokensStart ==
    ASSUME TypeInv, NEW r \in Requests, WithdrawTokensStart(r)
    PROVE  TypeInv'
<1> DEFINE tokens == TokensOf(requests[r].subject, requests[r].client)
           owned == CodesOf(requests[r].subject, requests[r].client)
           q == [requests[r] EXCEPT !.at = "tokens", !.pendingTokens = tokens, !.covered = owned]
<1>1. tokens \in SUBSET (Codes \X Requests) /\ owned \in SUBSET Codes
  BY DEF TokensOf, CodesOf, TypeInv, TypeOK
<1>2. Become(r, q) /\ held' \subseteq Codes
  BY <1>1 DEF WithdrawTokensStart, TypeInv, TypeOK
<1> HIDE DEF tokens, owned
<1>3. requests[r] \in Request
  BY DEF TypeInv, TypeOK
<1>4. q \in Request /\ q.at \notin RedeemSteps
  BY <1>1, <1>3 DEF Request, WithdrawSteps, RedeemSteps
<1> HIDE DEF q
<1> QED
  BY <1>2, <1>4, WithdrawStep DEF WithdrawTokensStart, stores

LEMMA TypeWithdrawToken ==
    ASSUME TypeInv, NEW r \in Requests, NEW t \in refreshTokens, WithdrawToken(r, t)
    PROVE  TypeInv'
<1> DEFINE q == [requests[r] EXCEPT !.pendingTokens = requests[r].pendingTokens \ {t}]
<1>1. requests[r] \in Request /\ requests[r].at = "tokens"
  BY DEF WithdrawToken, At, TypeInv, TypeOK
<1>2. requests[r].pendingTokens \ {t} \in SUBSET (Codes \X Requests)
  BY <1>1 DEF Request
<1>3. q \in Request /\ q.at \notin RedeemSteps
  BY <1>1, <1>2 DEF Request, RedeemSteps
<1>4. Become(r, q)
  BY DEF WithdrawToken
<1> HIDE DEF q
<1> QED
  BY <1>3, <1>4, WithdrawStep DEF WithdrawToken, history, TypeInv, TypeOK

LEMMA TypeWithdrawTokensDone ==
    ASSUME TypeInv, NEW r \in Requests, WithdrawTokensDone(r)
    PROVE  TypeInv'
<1> DEFINE q == [requests[r] EXCEPT !.at = "codesStart", !.pendingTokens = {}]
<1>1. requests[r] \in Request /\ {} \in SUBSET (Codes \X Requests)
  BY DEF TypeInv, TypeOK
<1>2. q \in Request /\ q.at \notin RedeemSteps
  BY <1>1 DEF Request, WithdrawSteps, RedeemSteps
<1>3. Become(r, q)
  BY DEF WithdrawTokensDone
<1> HIDE DEF q
<1> QED
  BY <1>2, <1>3, WithdrawStep DEF WithdrawTokensDone, stores, history, TypeInv, TypeOK

LEMMA TypeWithdrawCodesStart ==
    ASSUME TypeInv, NEW r \in Requests, WithdrawCodesStart(r)
    PROVE  TypeInv'
<1> DEFINE left == stored \cap CodesOf(requests[r].subject, requests[r].client)
           q == [requests[r] EXCEPT !.at = "codes", !.pendingCodes = left]
<1>1. requests[r] \in Request /\ left \in SUBSET Codes
  BY DEF CodesOf, TypeInv, TypeOK
<1>2. Become(r, q)
  BY DEF WithdrawCodesStart
<1> HIDE DEF left
<1>3. q \in Request /\ q.at \notin RedeemSteps
  BY <1>1 DEF Request, WithdrawSteps, RedeemSteps
<1> HIDE DEF q
<1> QED
  BY <1>2, <1>3, WithdrawStep DEF WithdrawCodesStart, stores, history, TypeInv, TypeOK

LEMMA TypeWithdrawCode ==
    ASSUME TypeInv, NEW r \in Requests, NEW k \in Codes, WithdrawCode(r, k)
    PROVE  TypeInv'
<1> DEFINE q == [requests[r] EXCEPT !.pendingCodes = requests[r].pendingCodes \ {k}]
<1>1. requests[r] \in Request /\ requests[r].at = "codes"
  BY DEF WithdrawCode, At, TypeInv, TypeOK
<1>2. requests[r].pendingCodes \ {k} \in SUBSET Codes
  BY <1>1 DEF Request
<1>3. q \in Request /\ q.at \notin RedeemSteps
  BY <1>1, <1>2 DEF Request, RedeemSteps
<1>4. Become(r, q)
  BY DEF WithdrawCode
<1> HIDE DEF q
<1> QED
  BY <1>3, <1>4, WithdrawStep DEF WithdrawCode, history, TypeInv, TypeOK

LEMMA TypeWithdrawCodesDone ==
    ASSUME TypeInv, NEW r \in Requests, WithdrawCodesDone(r)
    PROVE  TypeInv'
<1>1. requests[r].covered \subseteq Codes
  BY DEF TypeInv, TypeOK, Request
<1> QED
  BY <1>1, EndStep DEF WithdrawCodesDone, stores, TypeInv, TypeOK

LEMMA TypeArrive ==
    ASSUME TypeInv, NEW r \in Requests, Arrive(r)
    PROVE  TypeInv'
BY TypeRedeemGet, TypeBeginWithdraw DEF Arrive

LEMMA TypeServe ==
    ASSUME TypeInv, NEW r \in Requests, Serve(r)
    PROVE  TypeInv'
BY TypeRedeem, TypeWithdrawTokensStart, TypeWithdrawToken, TypeWithdrawTokensDone,
   TypeWithdrawCodesStart, TypeWithdrawCode, TypeWithdrawCodesDone DEF Serve

LEMMA TypeStep == TypeInv /\ [Next]_vars => TypeInv'
<1> SUFFICES ASSUME TypeInv, [Next]_vars PROVE TypeInv'
  OBVIOUS
<1>1. CASE UNCHANGED vars
  BY <1>1 DEF vars, TypeInv, TypeOK, Known, Issued
<1>2. CASE Tick
  BY <1>2 DEF Tick, stores, history, TypeInv, TypeOK, Known, Issued
<1>3. ASSUME NEW k \in UnusedCodes, NEW s \in Subjects, NEW c \in Clients,
             NEW type \in ResponseTypes, NEW uri \in Uris, NEW challenge \in Texts \cup {None},
             NEW method \in Methods \cup {None}, NEW offline \in BOOLEAN,
             Authorize(k, s, c, type, uri, challenge, method, offline)
      PROVE  TypeInv'
  BY <1>3, TypeAuthorize DEF UnusedCodes
<1>4. ASSUME NEW t \in refreshTokens, LoseToken(t) PROVE TypeInv'
  BY <1>4 DEF LoseToken, history, TypeInv, TypeOK, Known, Issued
<1>5. ASSUME NEW r \in Requests, Abort(r) PROVE TypeInv'
  BY <1>5, EndStep DEF Abort, stores, history, TypeInv, TypeOK
<1> QED
  BY <1>1, <1>2, <1>3, <1>4, <1>5, TypeArrive, TypeServe DEF Next

\* Every variable has its type in every behaviour, and a code has a challenge and
\* a method exactly when the flow of its client uses proof keys.
THEOREM TypeCorrect == Spec => []TypeOK
<1>1. TypeInv => TypeOK
  BY DEF TypeInv
<1> QED
  BY <1>1, TypeInit, TypeStep, PTL DEF Spec

------------------------------------------------------------------------------
\* One attempt.  A request has attempted a code once it is past the removal; the
\* history keeps that after the request has ended.  While a code that nobody has
\* found gone is in the store it was not attempted, and then by one request only.

PastSteps == {"check", "active", "issue", "reply"}

Attempted(r, k) ==
    \/ requests[r].code = k /\ requests[r].at \in PastSteps
    \/ <<k, r>> \in tried

AttemptInv ==
    \A k \in Codes \ raced :
        /\ k \in stored => \A r \in Requests : ~Attempted(r, k)
        /\ \A r1, r2 \in Requests : Attempted(r1, k) /\ Attempted(r2, k) => r1 = r2

LEMMA AttemptInit == Init => AttemptInv
BY DEF Init, AttemptInv, Attempted, Idle, PastSteps

\* A step that removes no code for a request, and stores none.
LEMMA AttemptQuiet ==
    ASSUME AttemptInv, raced' = raced, stored' \subseteq stored,
           \A r \in Requests, k \in Codes : Attempted(r, k)' => Attempted(r, k)
    PROVE  AttemptInv'
BY DEF AttemptInv

\* It is enough to look at the request that takes the step.
LEMMA AttemptLocal ==
    ASSUME TypeInv, AttemptInv, NEW r \in Requests, raced' = raced, stored' \subseteq stored,
           \A p \in Requests : p # r => requests'[p] = requests[p],
           requests'[r].at \in PastSteps
              => requests[r].at \in PastSteps /\ requests'[r].code = requests[r].code,
           tried' = tried \/ (/\ requests[r].at \in PastSteps
                              /\ tried' = tried \cup {<<requests[r].code, r>>})
    PROVE  AttemptInv'
<1>1. \A p \in Requests, k \in Codes : Attempted(p, k)' => Attempted(p, k)
  BY DEF Attempted
<1> QED
  BY <1>1, AttemptQuiet

LEMMA AttemptAuthorize ==
    ASSUME TypeInv, AttemptInv, NEW k \in Codes, NEW s, NEW c, NEW uri, NEW challenge,
           NEW method, NEW offline, AuthorizeWith(k, s, c, uri, challenge, method, offline)
    PROVE  AttemptInv'
<1>1. \A r \in Requests : ~Attempted(r, k)
  BY DEF AuthorizeWith, Attempted, TypeInv, Known, Issued, PastSteps, RedeemSteps
<1>2. /\ stored' = stored \cup {k} /\ raced' = raced
      /\ \A r \in Requests, j \in Codes : Attempted(r, j)' <=> Attempted(r, j)
  BY DEF AuthorizeWith, history, Attempted
<1> QED
  BY <1>1, <1>2 DEF AttemptInv

LEMMA AttemptRemove ==
    ASSUME TypeInv, AttemptInv, NEW r \in Requests, RemoveCode(r)
    PROVE  AttemptInv'
<1> DEFINE k == requests[r].code
<1>1. k \in Codes
  BY DEF RemoveCode, At, TypeInv, Known, RedeemSteps
<1>2. /\ requests'[r].code = k
      /\ \A p \in Requests : p # r => requests'[p] = requests[p]
  BY DEF RemoveCode, Goto, Become, TypeInv, TypeOK, Request
<1>3. /\ stored' = stored \ {k} /\ tried' = tried
      /\ raced' = IF k \in stored THEN raced ELSE raced \cup {k}
  BY DEF RemoveCode
<1> HIDE DEF k
<1>4. \A p \in Requests, j \in Codes : Attempted(p, j)' => Attempted(p, j) \/ (p = r /\ j = k)
  BY <1>2, <1>3 DEF Attempted
<1> SUFFICES ASSUME NEW j \in Codes \ raced'
             PROVE  /\ j \in stored' => \A p \in Requests : ~Attempted(p, j)'
                    /\ \A p1, p2 \in Requests : Attempted(p1, j)' /\ Attempted(p2, j)' => p1 = p2
  BY DEF AttemptInv
<1>5. CASE j = k
  <2>1. k \in stored /\ k \in Codes \ raced /\ k \notin stored'
    BY <1>3, <1>5
  <2>2. \A p \in Requests : Attempted(p, j)' => p = r
    BY <1>4, <1>5, <2>1 DEF AttemptInv
  <2> QED
    BY <1>5, <2>1, <2>2
<1>6. CASE j # k
  <2>1. \A p \in Requests : Attempted(p, j)' => Attempted(p, j)
    BY <1>4, <1>6
  <2>2. j \in Codes \ raced
    BY <1>3
  <2> QED
    BY <1>3, <2>1, <2>2 DEF AttemptInv
<1> QED
  BY <1>5, <1>6

\* What the other steps do to the request that takes them.
LEMMA Finishes ==
    ASSUME TypeInv, NEW r \in Requests, Finish(r)
    PROVE  requests'[r] = Idle /\ \A p \in Requests : p # r => requests'[p] = requests[p]
BY DEF Finish, Become, TypeInv, TypeOK

LEMMA Goes ==
    ASSUME TypeInv, NEW r \in Requests, NEW step, Goto(r, step)
    PROVE  /\ requests'[r] = [requests[r] EXCEPT !.at = step]
           /\ requests'[r].at = step /\ requests'[r].code = requests[r].code
           /\ \A p \in Requests : p # r => requests'[p] = requests[p]
BY DEF Goto, Become, TypeInv, TypeOK, Request

LEMMA AttemptRedeem ==
    ASSUME TypeInv, AttemptInv, NEW r \in Requests,
           CheckRequest(r) \/ CheckActive(r) \/ IssueTokens(r) \/ Reply(r) \/ Abort(r)
    PROVE  AttemptInv'
<1>1. /\ raced' = raced /\ stored' = stored
      /\ tried' = tried \/ (/\ requests[r].at \in PastSteps
                            /\ tried' = tried \cup {<<requests[r].code, r>>})
  BY DEF CheckRequest, CheckActive, IssueTokens, Reply, Abort, At, PastSteps, stores, history
<1>2. \/ Finish(r)
      \/ requests[r].at \in PastSteps /\ \E step \in PastSteps : Goto(r, step)
  BY DEF CheckRequest, CheckActive, IssueTokens, Reply, Abort, At, PastSteps
<1>3. CASE Finish(r)
  BY <1>1, <1>3, Finishes, AttemptLocal DEF Idle, PastSteps
<1>4. CASE requests[r].at \in PastSteps /\ \E step \in PastSteps : Goto(r, step)
  BY <1>1, <1>4, Goes, AttemptLocal
<1> QED
  BY <1>2, <1>3, <1>4

LEMMA AttemptArrive ==
    ASSUME TypeInv, AttemptInv, NEW r \in Requests, Arrive(r)
    PROVE  AttemptInv'
<1>1. UNCHANGED <<stored, tried, raced>>
  BY DEF Arrive, RedeemGet, BeginWithdraw, stores, history
<1>2. CASE \E s \in Subjects, c \in Clients : BeginWithdraw(r, s, c)
  <2>1. requests'[r].at = "tokensStart" /\ \A p \in Requests : p # r => requests'[p] = requests[p]
    BY <1>2 DEF BeginWithdraw, Become, Idle, TypeInv, TypeOK
  <2> QED
    BY <1>1, <2>1, AttemptLocal DEF PastSteps
<1>3. CASE \E k \in stored, c \in Clients, uri \in Uris, verifier \in Texts \cup {None} :
              RedeemGet(r, c, k, uri, verifier)
  <2>1. requests'[r].at = "remove" /\ \A p \in Requests : p # r => requests'[p] = requests[p]
    BY <1>3 DEF RedeemGet, Become, Idle, TypeInv, TypeOK
  <2> QED
    BY <1>1, <2>1, AttemptLocal DEF PastSteps
<1> QED
  BY <1>2, <1>3 DEF Arrive

\* The steps a withdrawal takes: it stays one, or it ends.
WithdrawalOf(r) ==
    \/ WithdrawTokensStart(r) \/ WithdrawTokensDone(r)
    \/ \E t \in refreshTokens : WithdrawToken(r, t)
    \/ WithdrawCodesStart(r) \/ WithdrawCodesDone(r)
    \/ \E k \in Codes : WithdrawCode(r, k)

LEMMA WithdrawalGoes ==
    ASSUME TypeInv, NEW r \in Requests, WithdrawalOf(r)
    PROVE  /\ requests'[r].at \in WithdrawSteps \cup {"idle"}
           /\ \A p \in Requests : p # r => requests'[p] = requests[p]
<1>1. requests[r] \in Request /\ requests \in [Requests -> Request]
  BY DEF TypeInv, TypeOK
<1>2. CASE WithdrawTokensStart(r)
  BY <1>1, <1>2 DEF WithdrawTokensStart, Become, WithdrawSteps, Request
<1>3. CASE WithdrawTokensDone(r)
  BY <1>1, <1>3 DEF WithdrawTokensDone, Become, WithdrawSteps, Request
<1>4. CASE \E t \in refreshTokens : WithdrawToken(r, t)
  BY <1>1, <1>4 DEF WithdrawToken, Become, At, WithdrawSteps, Request
<1>5. CASE WithdrawCodesStart(r)
  BY <1>1, <1>5 DEF WithdrawCodesStart, Become, WithdrawSteps, Request
<1>6. CASE WithdrawCodesDone(r)
  BY <1>6, Finishes DEF WithdrawCodesDone, Idle
<1>7. CASE \E k \in Codes : WithdrawCode(r, k)
  BY <1>1, <1>7 DEF WithdrawCode, Become, At, WithdrawSteps, Request
<1> QED
  BY <1>2, <1>3, <1>4, <1>5, <1>6, <1>7 DEF WithdrawalOf

LEMMA AttemptWithdraw ==
    ASSUME TypeInv, AttemptInv, NEW r \in Requests, WithdrawalOf(r)
    PROVE  AttemptInv'
<1>1. UNCHANGED <<tried, raced>> /\ stored' \subseteq stored
  BY DEF WithdrawalOf, WithdrawTokensStart, WithdrawTokensDone, WithdrawToken,
         WithdrawCodesStart, WithdrawCodesDone, WithdrawCode, stores, history
<1> QED
  BY <1>1, WithdrawalGoes, AttemptLocal DEF WithdrawSteps, PastSteps

LEMMA AttemptStep == TypeInv /\ AttemptInv /\ [Next]_vars => AttemptInv'
<1> SUFFICES ASSUME TypeInv, AttemptInv, [Next]_vars PROVE AttemptInv'
  OBVIOUS
<1>1. CASE UNCHANGED vars \/ Tick \/ \E t \in refreshTokens : LoseToken(t)
  BY <1>1, AttemptQuiet DEF vars, Tick, LoseToken, stores, history, Attempted
<1>2. ASSUME NEW k \in UnusedCodes, NEW s \in Subjects, NEW c \in Clients,
             NEW type \in ResponseTypes, NEW uri \in Uris, NEW challenge \in Texts \cup {None},
             NEW method \in Methods \cup {None}, NEW offline \in BOOLEAN,
             Authorize(k, s, c, type, uri, challenge, method, offline)
      PROVE  AttemptInv'
  BY <1>2, AttemptAuthorize DEF Authorize, UnusedCodes
<1>3. ASSUME NEW r \in Requests, Serve(r) PROVE AttemptInv'
  BY <1>3, AttemptRemove, AttemptRedeem, AttemptWithdraw DEF Serve, WithdrawalOf
<1> QED
  BY <1>1, <1>2, <1>3, AttemptArrive, AttemptRedeem DEF Next

\* A code nobody has found gone is compared with the parameters of one request.
THEOREM OneAttemptHolds == Spec => []OneAttempt
<1>1. TypeInv /\ AttemptInv => OneAttempt
  BY DEF AttemptInv, OneAttempt, Attempted
<1> QED
  BY <1>1, TypeInit, TypeStep, AttemptInit, AttemptStep, PTL DEF Spec

------------------------------------------------------------------------------
\* A withdrawal is final.  While it runs, nobody redeems a code it covers other
\* than those the history lists, what is left of their refresh tokens is what it
\* has still to remove, and so is, in the store of the codes, what is left of them.

Escaped == held \cup taken

Unread(k) == \A p \in Requests : ~Redeems(p, k)

CoversOwn(r) ==
    requests[r].at \in WithdrawSteps => \A k \in requests[r].covered :
        k \in Issued /\ OwnedBy(k, requests[r].subject, requests[r].client)

WithdrawInv ==
    /\ withdrawn \subseteq Issued \ stored
    /\ \A r \in Requests : CoversOwn(r)
    /\ \A k \in withdrawn \ Escaped :
          Unread(k) /\ \A t \in refreshTokens : t[1] # k
    /\ \A r \in Requests, k \in Codes \ Escaped : Withdraws(r, k) =>
          /\ Unread(k)
          /\ \A t \in refreshTokens : t[1] = k => At(r, "tokens") /\ t \in requests[r].pendingTokens
    /\ \A r \in Requests, k \in stored : At(r, "codes") /\ k \in requests[r].covered
          => k \in requests[r].pendingCodes

LEMMA WithdrawInit == Init => WithdrawInv
BY DEF Init, WithdrawInv, CoversOwn, Idle, WithdrawSteps, Withdraws, At

\* A step that takes no withdrawal further and begins no redemption.
LEMMA WithdrawQuiet ==
    ASSUME TypeInv, WithdrawInv,
           \A k \in Issued : codes'[k] = codes[k],
           stored' \cap Issued \subseteq stored,
           \A t \in refreshTokens' : t \in refreshTokens \/ \E p \in Requests : Redeems(p, t[1]),
           withdrawn' = withdrawn, held' = held, taken' = taken,
           \A p \in Requests, k \in Codes : Redeems(p, k)' => Redeems(p, k),
           \A p \in Requests : requests'[p].at \in WithdrawSteps => requests'[p] = requests[p]
    PROVE  WithdrawInv'
<1>1. Escaped' = Escaped /\ withdrawn \subseteq Codes
  BY DEF Escaped, TypeInv, TypeOK
<1>2. \A k \in Codes : Unread(k) => Unread(k)' /\ \A t \in refreshTokens' : t[1] = k => t \in refreshTokens
  BY DEF Unread
<1>3. \A p \in Requests, k \in Codes : Withdraws(p, k)' => Withdraws(p, k) /\ requests'[p] = requests[p]
  BY DEF Withdraws
<1>4. Issued \subseteq Issued'
  BY DEF Issued
<1>5. \A p \in Requests : CoversOwn(p) /\ requests'[p] = requests[p] => CoversOwn(p)'
  BY <1>4 DEF CoversOwn, OwnedBy
<1> USE DEF WithdrawInv
<1>6. withdrawn' \subseteq Issued' \ stored'
  BY <1>4
<1>7. \A r \in Requests : CoversOwn(r)'
  <2>1. \A r \in Requests : requests'[r].at \notin WithdrawSteps => CoversOwn(r)'
    BY DEF CoversOwn
  <2> QED
    BY <1>5, <2>1
<1>8. \A k \in withdrawn' \ Escaped' : Unread(k)' /\ \A t \in refreshTokens' : t[1] # k
  BY <1>1, <1>2
<1>9. \A r \in Requests, k \in Codes \ Escaped' : Withdraws(r, k)' =>
          /\ Unread(k)'
          /\ \A t \in refreshTokens' : t[1] = k => At(r, "tokens")' /\ t \in requests'[r].pendingTokens
  <2> SUFFICES ASSUME NEW r \in Requests, NEW k \in Codes \ Escaped', Withdraws(r, k)'
               PROVE  /\ Unread(k)'
                      /\ \A t \in refreshTokens' :
                            t[1] = k => At(r, "tokens")' /\ t \in requests'[r].pendingTokens
    OBVIOUS
  <2>1. Withdraws(r, k) /\ requests'[r] = requests[r] /\ k \in Codes \ Escaped
    BY <1>1, <1>3
  <2>2. Unread(k) /\ \A t \in refreshTokens : t[1] = k => At(r, "tokens") /\ t \in requests[r].pendingTokens
    BY <2>1
  <2> QED
    BY <1>2, <2>1, <2>2 DEF At
<1>10. \A r \in Requests, k \in stored' : At(r, "codes")' /\ k \in requests'[r].covered
          => k \in requests'[r].pendingCodes
  <2> SUFFICES ASSUME NEW r \in Requests, NEW k \in stored', requests'[r].at = "codes",
                      k \in requests'[r].covered
               PROVE  k \in requests'[r].pendingCodes
    BY DEF At
  <2>1. requests'[r] = requests[r] /\ k \in Issued
    BY DEF WithdrawSteps, CoversOwn
  <2> QED
    BY <2>1 DEF At
<1> QED
  BY <1>6, <1>7, <1>8, <1>9, <1>10

LEMMA WithdrawRedeemGet ==
    ASSUME TypeInv, WithdrawInv, NEW r \in Requests, NEW c \in Clients, NEW k \in stored,
           NEW uri \in Uris, NEW verifier \in Texts \cup {None}, RedeemGet(r, c, k, uri, verifier)
    PROVE  WithdrawInv'
<1>1. /\ requests'[r].at = "remove" /\ requests'[r].code = k
      /\ \A p \in Requests : p # r => requests'[p] = requests[p]
  BY DEF RedeemGet, Become, Idle, TypeInv, TypeOK
<1>2. UNCHANGED <<codes, stored, refreshTokens, withdrawn, held>>
  BY DEF RedeemGet, stores
<1>3. k \in Codes /\ k \notin withdrawn
  BY DEF TypeInv, Issued, WithdrawInv
<1>4. taken \subseteq taken' /\ (k \in Escaped' \/ \A q \in Requests : ~Withdraws(q, k))
  BY DEF RedeemGet, Escaped
<1>5. Escaped \subseteq Escaped'
  BY <1>2, <1>4 DEF Escaped
<1>6. \A p \in Requests : requests'[p].at \in WithdrawSteps => requests'[p] = requests[p]
  BY <1>1 DEF WithdrawSteps
<1>7. \A p \in Requests, j \in Codes : Withdraws(p, j)' => Withdraws(p, j) /\ requests'[p] = requests[p]
  BY <1>6 DEF Withdraws
<1>8. \A j \in Codes : j # k /\ Unread(j) => Unread(j)'
  BY <1>1 DEF Unread, Redeems
<1>9. \A p \in Requests : requests'[p] = requests[p] => CoversOwn(p)'
  BY <1>2 DEF WithdrawInv, CoversOwn, OwnedBy, Issued
<1>10. Issued' = Issued /\ withdrawn \subseteq Codes
  BY <1>2 DEF Issued, TypeInv, TypeOK
<1> USE DEF WithdrawInv
<1>11. withdrawn' \subseteq Issued' \ stored'
  BY <1>2, <1>10
<1>12. \A p \in Requests : CoversOwn(p)'
  <2>1. \A p \in Requests : requests'[p].at \notin WithdrawSteps => CoversOwn(p)'
    BY DEF CoversOwn
  <2> QED
    BY <1>6, <1>9, <2>1
<1>13. \A j \in withdrawn' \ Escaped' : Unread(j)' /\ \A t \in refreshTokens' : t[1] # j
  BY <1>2, <1>3, <1>5, <1>8, <1>10
<1>14. \A p \in Requests, j \in Codes \ Escaped' : Withdraws(p, j)' =>
          /\ Unread(j)'
          /\ \A t \in refreshTokens' : t[1] = j => At(p, "tokens")' /\ t \in requests'[p].pendingTokens
  <2> SUFFICES ASSUME NEW p \in Requests, NEW j \in Codes \ Escaped', Withdraws(p, j)'
               PROVE  /\ Unread(j)'
                      /\ \A t \in refreshTokens' :
                            t[1] = j => At(p, "tokens")' /\ t \in requests'[p].pendingTokens
    OBVIOUS
  <2>1. Withdraws(p, j) /\ requests'[p] = requests[p] /\ j \in Codes \ Escaped /\ j # k
    BY <1>4, <1>5, <1>7
  <2>2. Unread(j) /\ \A t \in refreshTokens : t[1] = j => At(p, "tokens") /\ t \in requests[p].pendingTokens
    BY <2>1
  <2> QED
    BY <1>2, <1>8, <2>1, <2>2 DEF At
<1>15. \A p \in Requests, j \in stored' : At(p, "codes")' /\ j \in requests'[p].covered
          => j \in requests'[p].pendingCodes
  BY <1>2, <1>6 DEF At, WithdrawSteps
<1> QED
  BY <1>11, <1>12, <1>13, <1>14, <1>15

\* A step of a withdrawal that starts no redemption and issues nothing: what the
\* invariant says of the other requests stays, what it says of r is to be shown.
LEMMA WithdrawOwn ==
    ASSUME TypeInv, WithdrawInv, NEW r \in Requests, WithdrawalOf(r), codes' = codes,
           stored' \subseteq stored, refreshTokens' \subseteq refreshTokens,
           held \subseteq held', taken' = taken,
           withdrawn' \subseteq Issued \ stored',
           \A k \in withdrawn' \ (withdrawn \cup Escaped') :
              Unread(k) /\ \A t \in refreshTokens' : t[1] # k,
           CoversOwn(r)',
           \A k \in Codes \ Escaped' : Withdraws(r, k)' =>
              /\ Unread(k)
              /\ \A t \in refreshTokens' :
                    t[1] = k => At(r, "tokens")' /\ t \in requests'[r].pendingTokens,
           \A k \in stored' : At(r, "codes")' /\ k \in requests'[r].covered
              => k \in requests'[r].pendingCodes
    PROVE  WithdrawInv'
<1>1. /\ requests'[r].at \in WithdrawSteps \cup {"idle"}
      /\ \A p \in Requests : p # r => requests'[p] = requests[p]
  BY WithdrawalGoes
<1>2. \A k \in Codes : Unread(k) => Unread(k)'
  BY <1>1 DEF Unread, Redeems, RedeemSteps, WithdrawSteps
<1>3. Escaped \subseteq Escaped' /\ Issued' = Issued /\ Issued \subseteq Codes
  BY DEF Escaped, Issued
<1>4. \A p \in Requests : requests'[p] = requests[p] => CoversOwn(p)'
  BY DEF WithdrawInv, CoversOwn, OwnedBy, Issued
<1> USE DEF WithdrawInv
<1>5. withdrawn' \subseteq Issued' \ stored'
  BY <1>3
<1>7. \A p \in Requests : CoversOwn(p)'
  BY <1>1, <1>4
<1>8. \A k \in withdrawn' \ Escaped' : Unread(k)' /\ \A t \in refreshTokens' : t[1] # k
  <2> SUFFICES ASSUME NEW k \in withdrawn' \ Escaped'
               PROVE  Unread(k)' /\ \A t \in refreshTokens' : t[1] # k
    OBVIOUS
  <2>1. k \in Codes /\ k \notin Escaped
    BY <1>3
  <2>2. Unread(k) /\ \A t \in refreshTokens' : t[1] # k
    BY <2>1
  <2> QED
    BY <1>2, <2>1, <2>2
<1>9. \A p \in Requests, k \in Codes \ Escaped' : Withdraws(p, k)' =>
          /\ Unread(k)'
          /\ \A t \in refreshTokens' : t[1] = k => At(p, "tokens")' /\ t \in requests'[p].pendingTokens
  <2> SUFFICES ASSUME NEW p \in Requests, NEW k \in Codes \ Escaped', Withdraws(p, k)'
               PROVE  /\ Unread(k)'
                      /\ \A t \in refreshTokens' :
                            t[1] = k => At(p, "tokens")' /\ t \in requests'[p].pendingTokens
    OBVIOUS
  <2>1. CASE p = r
    BY <1>2, <2>1
  <2>2. CASE p # r
    <3>1. Withdraws(p, k) /\ requests'[p] = requests[p] /\ k \in Codes \ Escaped
      BY <1>1, <1>3, <2>2 DEF Withdraws
    <3>2. Unread(k) /\ \A t \in refreshTokens : t[1] = k => At(p, "tokens") /\ t \in requests[p].pendingTokens
      BY <3>1
    <3> QED
      BY <1>2, <3>1, <3>2 DEF At
  <2> QED
    BY <2>1, <2>2
<1>10. \A p \in Requests, k \in stored' : At(p, "codes")' /\ k \in requests'[p].covered
          => k \in requests'[p].pendingCodes
  BY <1>1 DEF At
<1> QED
  BY <1>5, <1>7, <1>8, <1>9, <1>10

LEMMA WithdrawStarts ==
    ASSUME TypeInv, WithdrawInv, NEW r \in Requests, WithdrawTokensStart(r)
    PROVE  WithdrawInv'
<1> DEFINE s == requests[r].subject
           c == requests[r].client
           tokens == TokensOf(s, c)
           owned == CodesOf(s, c)
<1>1. /\ requests'[r].at = "tokens" /\ requests'[r].subject = s /\ requests'[r].client = c
      /\ requests'[r].covered = owned /\ requests'[r].pendingTokens = tokens
  BY DEF WithdrawTokensStart, Become, TypeInv, TypeOK, Request
<1>2. UNCHANGED <<codes, stored, refreshTokens, withdrawn, taken>>
  BY DEF WithdrawTokensStart, stores
<1>3. held' = held \cup {k \in owned : \E q \in Requests : Redeems(q, k)}
  BY DEF WithdrawTokensStart
<1>4. \A k \in owned \ Escaped' : Unread(k)
  BY <1>3 DEF Unread, Escaped
<1>5. \A t \in refreshTokens : t[1] \in owned => t \in tokens
  BY DEF TokensOf, CodesOf
<1> HIDE DEF tokens, owned, s, c
<1>6. \A k \in Codes \ Escaped' : Withdraws(r, k)' =>
         /\ Unread(k)
         /\ \A t \in refreshTokens' :
               t[1] = k => At(r, "tokens")' /\ t \in requests'[r].pendingTokens
  BY <1>1, <1>2, <1>4, <1>5 DEF Withdraws, At
<1>7. CoversOwn(r)'
  BY <1>1, <1>2 DEF CoversOwn, OwnedBy, CodesOf, Issued, owned
<1>8. withdrawn' \subseteq Issued \ stored'
  BY <1>2 DEF WithdrawInv
<1>9. ~At(r, "codes")'
  BY <1>1 DEF At
<1> QED
  BY <1>1, <1>2, <1>3, <1>6, <1>7, <1>8, <1>9, WithdrawOwn DEF WithdrawalOf

LEMMA WithdrawTokenGone ==
    ASSUME TypeInv, WithdrawInv, NEW r \in Requests, NEW t \in refreshTokens, WithdrawToken(r, t)
    PROVE  WithdrawInv'
<1>1. /\ requests[r].at = "tokens" /\ requests'[r].at = "tokens"
      /\ requests'[r].subject = requests[r].subject /\ requests'[r].client = requests[r].client
      /\ requests'[r].covered = requests[r].covered
      /\ requests'[r].pendingTokens = requests[r].pendingTokens \ {t}
  BY DEF WithdrawToken, At, Become, TypeInv, TypeOK, Request
<1>2. UNCHANGED <<codes, stored, withdrawn, held, taken>> /\ refreshTokens' = refreshTokens \ {t}
  BY DEF WithdrawToken, history
<1>3. \A k \in Codes : Withdraws(r, k)' => Withdraws(r, k)
  BY <1>1 DEF Withdraws
<1>4. Escaped' = Escaped
  BY <1>2 DEF Escaped
<1>5. \A k \in Codes \ Escaped' : Withdraws(r, k)' =>
         /\ Unread(k)
         /\ \A u \in refreshTokens' :
               u[1] = k => At(r, "tokens")' /\ u \in requests'[r].pendingTokens
  BY <1>1, <1>2, <1>3, <1>4 DEF WithdrawInv, At
<1>6. withdrawn' \subseteq Issued \ stored'
  BY <1>2 DEF WithdrawInv
<1>7. CoversOwn(r)'
  BY <1>1, <1>2 DEF WithdrawInv, CoversOwn, OwnedBy, Issued, WithdrawSteps
<1>8. ~At(r, "codes")'
  BY <1>1 DEF At
<1> QED
  BY <1>2, <1>5, <1>6, <1>7, <1>8, WithdrawOwn DEF WithdrawalOf

LEMMA WithdrawTokensGone ==
    ASSUME TypeInv, WithdrawInv, NEW r \in Requests, WithdrawTokensDone(r)
    PROVE  WithdrawInv'
<1>1. /\ requests[r].at = "tokens" /\ requests'[r].at = "codesStart"
      /\ requests'[r].subject = requests[r].subject /\ requests'[r].client = requests[r].client
      /\ requests'[r].covered = requests[r].covered
      /\ requests[r].pendingTokens \cap refreshTokens = {}
  BY DEF WithdrawTokensDone, At, Become, TypeInv, TypeOK, Request
<1>2. UNCHANGED <<codes, stored, refreshTokens, withdrawn, held, taken>>
  BY DEF WithdrawTokensDone, stores, history
<1>3. \A k \in Codes : Withdraws(r, k)' => Withdraws(r, k)
  BY <1>1 DEF Withdraws, WithdrawSteps
<1>4. Escaped' = Escaped
  BY <1>2 DEF Escaped
<1>5. \A k \in Codes \ Escaped' : Withdraws(r, k)' =>
         Unread(k) /\ \A u \in refreshTokens' : u[1] # k
  BY <1>1, <1>2, <1>3, <1>4 DEF WithdrawInv
<1>6. withdrawn' \subseteq Issued \ stored'
  BY <1>2 DEF WithdrawInv
<1>7. CoversOwn(r)'
  BY <1>1, <1>2 DEF WithdrawInv, CoversOwn, OwnedBy, Issued, WithdrawSteps
<1>8. ~At(r, "codes")'
  BY <1>1 DEF At
<1> QED
  BY <1>2, <1>5, <1>6, <1>7, <1>8, WithdrawOwn DEF WithdrawalOf

LEMMA WithdrawCodesStarts ==
    ASSUME TypeInv, WithdrawInv, NEW r \in Requests, WithdrawCodesStart(r)
    PROVE  WithdrawInv'
<1> DEFINE left == stored \cap CodesOf(requests[r].subject, requests[r].client)
<1>1. /\ requests[r].at = "codesStart" /\ requests'[r].at = "codes"
      /\ requests'[r].subject = requests[r].subject /\ requests'[r].client = requests[r].client
      /\ requests'[r].covered = requests[r].covered
      /\ requests'[r].pendingCodes = left
  BY DEF WithdrawCodesStart, At, Become, TypeInv, TypeOK, Request
<1>2. UNCHANGED <<codes, stored, refreshTokens, withdrawn, held, taken>>
  BY DEF WithdrawCodesStart, stores, history
<1>3. \A k \in Codes : Withdraws(r, k)' => Withdraws(r, k)
  BY <1>1 DEF Withdraws, WithdrawSteps
<1>4. Escaped' = Escaped
  BY <1>2 DEF Escaped
<1>5. \A k \in Codes \ Escaped' : Withdraws(r, k)' =>
         Unread(k) /\ \A u \in refreshTokens' : u[1] # k
  BY <1>1, <1>2, <1>3, <1>4 DEF WithdrawInv, At
<1>6. withdrawn' \subseteq Issued \ stored'
  BY <1>2 DEF WithdrawInv
<1>7. CoversOwn(r)'
  BY <1>1, <1>2 DEF WithdrawInv, CoversOwn, OwnedBy, Issued, WithdrawSteps
<1>8. \A k \in stored' : k \in requests'[r].covered => k \in requests'[r].pendingCodes
  BY <1>1, <1>2 DEF WithdrawInv, CoversOwn, CodesOf, Issued, WithdrawSteps
<1> QED
  BY <1>2, <1>5, <1>6, <1>7, <1>8, WithdrawOwn DEF WithdrawalOf

LEMMA WithdrawCodeGone ==
    ASSUME TypeInv, WithdrawInv, NEW r \in Requests, NEW k \in Codes, WithdrawCode(r, k)
    PROVE  WithdrawInv'
<1>1. /\ requests[r].at = "codes" /\ requests'[r].at = "codes"
      /\ requests'[r].subject = requests[r].subject /\ requests'[r].client = requests[r].client
      /\ requests'[r].covered = requests[r].covered
      /\ requests'[r].pendingCodes = requests[r].pendingCodes \ {k}
  BY DEF WithdrawCode, At, Become, TypeInv, TypeOK, Request
<1>2. UNCHANGED <<codes, refreshTokens, withdrawn, held, taken>> /\ stored' = stored \ {k}
  BY DEF WithdrawCode, history
<1>3. \A j \in Codes : Withdraws(r, j)' => Withdraws(r, j)
  BY <1>1 DEF Withdraws, WithdrawSteps
<1>4. Escaped' = Escaped
  BY <1>2 DEF Escaped
<1>5. \A j \in Codes \ Escaped' : Withdraws(r, j)' =>
         Unread(j) /\ \A u \in refreshTokens' : u[1] # j
  BY <1>1, <1>2, <1>3, <1>4 DEF WithdrawInv, At
<1>6. withdrawn' \subseteq Issued \ stored'
  BY <1>2 DEF WithdrawInv
<1>7. CoversOwn(r)'
  BY <1>1, <1>2 DEF WithdrawInv, CoversOwn, OwnedBy, Issued, WithdrawSteps
<1>8. \A j \in stored' : j \in requests'[r].covered => j \in requests'[r].pendingCodes
  BY <1>1, <1>2 DEF WithdrawInv, At
<1> QED
  BY <1>2, <1>5, <1>6, <1>7, <1>8, WithdrawOwn DEF WithdrawalOf

LEMMA WithdrawCodesGone ==
    ASSUME TypeInv, WithdrawInv, NEW r \in Requests, WithdrawCodesDone(r)
    PROVE  WithdrawInv'
<1> DEFINE covered == requests[r].covered
<1>1. At(r, "codes") /\ requests'[r].at = "idle" /\ requests[r].pendingCodes \cap stored = {}
  BY Finishes DEF WithdrawCodesDone, Idle
<1>2. UNCHANGED <<codes, stored, refreshTokens, held, taken>> /\ withdrawn' = withdrawn \cup covered
  BY DEF WithdrawCodesDone, stores
<1>3. Escaped' = Escaped
  BY <1>2 DEF Escaped
<1>4. covered \subseteq Issued \ stored /\ covered \subseteq Codes
  BY <1>1 DEF WithdrawInv, CoversOwn, At, WithdrawSteps, Issued
<1>5. \A k \in covered : Withdraws(r, k)
  BY <1>1 DEF Withdraws, At, WithdrawSteps
<1>6. \A k \in covered \ Escaped' : Unread(k) /\ \A t \in refreshTokens' : t[1] # k
  BY <1>1, <1>2, <1>3, <1>4, <1>5 DEF WithdrawInv, At
<1> HIDE DEF covered
<1>7. withdrawn' \subseteq Issued \ stored'
  BY <1>2, <1>4 DEF WithdrawInv
<1>8. requests'[r].at \notin WithdrawSteps
  BY <1>1 DEF WithdrawSteps
<1>9. CoversOwn(r)' /\ \A k \in Codes : ~Withdraws(r, k)'
  BY <1>8 DEF Withdraws, CoversOwn
<1>10. ~At(r, "codes")'
  BY <1>1 DEF At
<1> QED
  BY <1>2, <1>6, <1>7, <1>9, <1>10, WithdrawOwn DEF WithdrawalOf

LEMMA WithdrawRedeem ==
    ASSUME TypeInv, WithdrawInv, NEW r \in Requests,
           \/ RemoveCode(r) \/ CheckRequest(r) \/ CheckActive(r) \/ IssueTokens(r) \/ Reply(r)
           \/ Abort(r)
    PROVE  WithdrawInv'
<1>1. UNCHANGED <<codes, withdrawn, held, taken>> /\ stored' \subseteq stored
  BY DEF RemoveCode, CheckRequest, CheckActive, IssueTokens, Reply, Abort, stores, history
<1>2. \A t \in refreshTokens' : t \in refreshTokens \/ \E p \in Requests : Redeems(p, t[1])
  <2>1. CASE IssueTokens(r)
    <3>1. Redeems(r, requests[r].code)
      BY <2>1 DEF IssueTokens, At, Redeems, RedeemSteps
    <3>2. \A t \in refreshTokens' : t \in refreshTokens \/ t = <<requests[r].code, r>>
      BY <2>1 DEF IssueTokens
    <3> QED
      BY <3>1, <3>2
  <2>2. CASE refreshTokens' = refreshTokens
    BY <2>2
  <2> QED
    BY <2>1, <2>2 DEF RemoveCode, CheckRequest, CheckActive, Reply, Abort, stores
<1>3. \/ Finish(r)
      \/ requests[r].at \in RedeemSteps /\ \E step \in RedeemSteps : Goto(r, step)
  BY DEF RemoveCode, CheckRequest, CheckActive, IssueTokens, Reply, Abort, At, RedeemSteps
<1>4. /\ \A p \in Requests : p # r => requests'[p] = requests[p]
      /\ requests'[r].at \notin WithdrawSteps
      /\ \A k \in Codes : Redeems(r, k)' => Redeems(r, k)
  <2>1. CASE Finish(r)
    BY <2>1, Finishes DEF Idle, WithdrawSteps, RedeemSteps, Redeems
  <2>2. CASE requests[r].at \in RedeemSteps /\ \E step \in RedeemSteps : Goto(r, step)
    BY <2>2, Goes DEF WithdrawSteps, RedeemSteps, Redeems
  <2> QED
    BY <1>3, <2>1, <2>2
<1>5. \A p \in Requests, k \in Codes : Redeems(p, k)' => Redeems(p, k)
  BY <1>4 DEF Redeems
<1> QED
  BY <1>1, <1>2, <1>4, <1>5, WithdrawQuiet

LEMMA WithdrawElsewhere ==
    ASSUME TypeInv, WithdrawInv,
           \/ UNCHANGED vars \/ Tick \/ \E t \in refreshTokens : LoseToken(t)
           \/ \E k \in UnusedCodes : \E s, c, uri, challenge, method, offline :
                 AuthorizeWith(k, s, c, uri, challenge, method, offline)
    PROVE  WithdrawInv'
<1>1. UNCHANGED <<requests, withdrawn, held, taken>> /\ refreshTokens' \subseteq refreshTokens
  BY DEF vars, Tick, LoseToken, AuthorizeWith, stores, history
<1>2. (\A k \in Issued : codes'[k] = codes[k]) /\ stored' \cap Issued \subseteq stored
  BY DEF vars, Tick, LoseToken, AuthorizeWith, stores, UnusedCodes, Issued, TypeInv, TypeOK
<1>3. \A p \in Requests, k \in Codes : Redeems(p, k)' => Redeems(p, k)
  BY <1>1 DEF Redeems
<1> QED
  BY <1>1, <1>2, <1>3, WithdrawQuiet

LEMMA WithdrawBegin ==
    ASSUME TypeInv, WithdrawInv, NEW r \in Requests, NEW s \in Subjects, NEW c \in Clients,
           BeginWithdraw(r, s, c)
    PROVE  WithdrawInv'
<1>1. /\ requests'[r].at = "tokensStart"
      /\ \A p \in Requests : p # r => requests'[p] = requests[p]
  BY DEF BeginWithdraw, Become, Idle, TypeInv, TypeOK
<1>2. UNCHANGED <<codes, stored, refreshTokens, withdrawn, held, taken>>
  BY DEF BeginWithdraw, stores, history
<1>3. \A p \in Requests, k \in Codes : Redeems(p, k)' => Redeems(p, k)
  BY <1>1 DEF Redeems, RedeemSteps
<1>4. \A p \in Requests : requests'[p].at \in WithdrawSteps => requests'[p] = requests[p]
  BY <1>1 DEF WithdrawSteps
<1> QED
  BY <1>2, <1>3, <1>4, WithdrawQuiet

LEMMA WithdrawStepInv == TypeInv /\ WithdrawInv /\ [Next]_vars => WithdrawInv'
<1> SUFFICES ASSUME TypeInv, WithdrawInv, [Next]_vars PROVE WithdrawInv'
  OBVIOUS
<1>1. CASE UNCHANGED vars \/ Tick \/ \E t \in refreshTokens : LoseToken(t)
  BY <1>1, WithdrawElsewhere
<1>2. ASSUME NEW k \in UnusedCodes, NEW s \in Subjects, NEW c \in Clients,
             NEW type \in ResponseTypes, NEW uri \in Uris, NEW challenge \in Texts \cup {None},
             NEW method \in Methods \cup {None}, NEW offline \in BOOLEAN,
             Authorize(k, s, c, type, uri, challenge, method, offline)
      PROVE  WithdrawInv'
  BY <1>2, WithdrawElsewhere DEF Authorize
<1>3. ASSUME NEW r \in Requests, Arrive(r) PROVE WithdrawInv'
  BY <1>3, WithdrawRedeemGet, WithdrawBegin DEF Arrive
<1>4. ASSUME NEW r \in Requests, Serve(r) PROVE WithdrawInv'
  BY <1>4, WithdrawRedeem, WithdrawStarts, WithdrawTokenGone, WithdrawTokensGone,
     WithdrawCodesStarts, WithdrawCodeGone, WithdrawCodesGone DEF Serve
<1> QED
  BY <1>1, <1>2, <1>3, <1>4, WithdrawRedeem DEF Next

\* A withdrawal that has gone through stays in force for every code it covered:
\* the code cannot be redeemed, and only a redemption that was under way or began
\* while it ran can have left a refresh token.
THEOREM WithdrawalFinal == Spec => []WithdrawalIsFinal
<1>1. TypeInv /\ WithdrawInv => WithdrawalIsFinal
  <2> SUFFICES ASSUME TypeInv, WithdrawInv PROVE WithdrawalIsFinal
    OBVIOUS
  <2>1. withdrawn \cap stored = {}
    BY DEF WithdrawInv
  <2>2. \A t \in refreshTokens : t[1] \notin withdrawn \ Escaped
    BY DEF WithdrawInv
  <2> QED
    BY <2>1, <2>2 DEF WithdrawalIsFinal, Escaped
<1> QED
  BY <1>1, TypeInit, TypeStep, WithdrawInit, WithdrawStepInv, PTL DEF Spec

------------------------------------------------------------------------------
\* Tokens need proof.  The URI of a code is one its client registered, and a
\* request past the check presented what the code was issued for.

AcceptedSteps == {"active", "issue", "reply"}

Presented(q, code) ==
    /\ q.client = code.client
    /\ q.uri = code.uri
    /\ Flow[code.client] \in ProofKeyFlows => Matches(q.verifier, code)

ProofInv ==
    /\ \A k \in Issued : codes[k].uri \in RedirectUris[codes[k].client]
    /\ \A r \in Requests :
          requests[r].at \in AcceptedSteps => Presented(requests[r], codes[requests[r].code])

LEMMA ProofInit == Init => ProofInv
BY DEF Init, ProofInv, Issued, Idle, AcceptedSteps

\* A step that issues no code: it is enough to look at the request that takes it.
LEMMA ProofLocal ==
    ASSUME TypeInv, ProofInv, NEW r \in Requests, codes' = codes,
           \A p \in Requests : p # r => requests'[p] = requests[p],
           requests'[r].at \in AcceptedSteps
              => Presented(requests'[r], codes[requests'[r].code])
    PROVE  ProofInv'
<1>1. \A k \in Issued' : codes'[k].uri \in RedirectUris[codes'[k].client]
  BY DEF ProofInv, Issued
<1>2. \A p \in Requests :
         requests'[p].at \in AcceptedSteps => Presented(requests'[p], codes[requests'[p].code])
  BY DEF ProofInv
<1>3. \A p \in Requests :
         requests'[p].at \in AcceptedSteps => Presented(requests'[p], codes'[requests'[p].code])
  BY <1>2
<1> QED
  BY <1>1, <1>3 DEF ProofInv

LEMMA ProofAuthorize ==
    ASSUME TypeInv, ProofInv, NEW k \in Codes, NEW s, NEW c \in Clients, NEW uri \in RedirectUris[c],
           NEW challenge, NEW method, NEW offline,
           AuthorizeWith(k, s, c, uri, challenge, method, offline)
    PROVE  ProofInv'
<1>1. /\ codes[k] = None /\ requests' = requests
      /\ \A j \in Codes : j # k => codes'[j] = codes[j]
      /\ codes'[k].uri = uri /\ codes'[k].client = c
  BY DEF AuthorizeWith, TypeInv, TypeOK
<1>2. \A j \in Issued' : codes'[j].uri \in RedirectUris[codes'[j].client]
  BY <1>1 DEF ProofInv, Issued
<1>3. \A r \in Requests : requests[r].at \in AcceptedSteps =>
         codes'[requests[r].code] = codes[requests[r].code]
  BY <1>1 DEF TypeInv, Known, AcceptedSteps, RedeemSteps
<1>4. \A r \in Requests : requests'[r].at \in AcceptedSteps =>
         Presented(requests'[r], codes'[requests'[r].code])
  BY <1>1, <1>3 DEF ProofInv
<1> QED
  BY <1>2, <1>4 DEF ProofInv

LEMMA ProofServe ==
    ASSUME TypeInv, ProofInv, NEW r \in Requests, Serve(r) \/ Abort(r)
    PROVE  ProofInv'
<1>1. CASE Finish(r) /\ codes' = codes
  BY <1>1, Finishes, ProofLocal DEF Idle, AcceptedSteps
<1>2. CASE RemoveCode(r)
  BY <1>2, Goes, ProofLocal DEF RemoveCode, AcceptedSteps
<1>3. CASE CheckRequest(r)
  <2>1. CASE Accepts(r, codes[requests[r].code])
    <3>1. /\ requests'[r] = [requests[r] EXCEPT !.at = "active"] /\ codes' = codes
          /\ \A p \in Requests : p # r => requests'[p] = requests[p]
      BY <1>3, <2>1, Goes DEF CheckRequest, stores
    <3>2. /\ requests'[r].code = requests[r].code /\ requests'[r].client = requests[r].client
          /\ requests'[r].uri = requests[r].uri /\ requests'[r].verifier = requests[r].verifier
      BY <3>1 DEF TypeInv, TypeOK, Request
    <3> QED
      BY <2>1, <3>1, <3>2, ProofLocal DEF Accepts, Presented
  <2>2. CASE ~Accepts(r, codes[requests[r].code])
    BY <1>1, <1>3, <2>2 DEF CheckRequest, stores
  <2> QED
    BY <2>1, <2>2
<1>4. CASE \/ requests[r].at \in AcceptedSteps /\ codes' = codes
             /\ \E step \in AcceptedSteps : Goto(r, step)
  <2>1. PICK step \in AcceptedSteps : requests'[r] = [requests[r] EXCEPT !.at = step]
    BY <1>4, Goes
  <2>2. /\ requests'[r].code = requests[r].code /\ requests'[r].client = requests[r].client
        /\ requests'[r].uri = requests[r].uri /\ requests'[r].verifier = requests[r].verifier
    BY <2>1 DEF TypeInv, TypeOK, Request
  <2>3. Presented(requests[r], codes[requests[r].code])
    BY <1>4 DEF ProofInv
  <2> QED
    BY <1>4, <2>2, <2>3, Goes, ProofLocal DEF Presented
<1>5. CASE WithdrawalOf(r)
  <2>1. codes' = codes
    BY <1>5 DEF WithdrawalOf, WithdrawTokensStart, WithdrawTokensDone, WithdrawToken,
                WithdrawCodesStart, WithdrawCodesDone, WithdrawCode, stores
  <2> QED
    BY <1>5, <2>1, WithdrawalGoes, ProofLocal DEF WithdrawSteps, AcceptedSteps
<1>6. CASE CheckActive(r) \/ IssueTokens(r) \/ Reply(r) \/ Abort(r)
  BY <1>1, <1>4, <1>6 DEF CheckActive, IssueTokens, Reply, Abort, At, AcceptedSteps, stores
<1> QED
  BY <1>2, <1>3, <1>5, <1>6 DEF Serve, WithdrawalOf

LEMMA ProofArrive ==
    ASSUME TypeInv, ProofInv, NEW r \in Requests, Arrive(r)
    PROVE  ProofInv'
<1>1. CASE \E s \in Subjects, c \in Clients : BeginWithdraw(r, s, c)
  <2>1. /\ requests'[r].at = "tokensStart" /\ codes' = codes
        /\ \A p \in Requests : p # r => requests'[p] = requests[p]
    BY <1>1 DEF BeginWithdraw, Become, Idle, TypeInv, TypeOK, stores
  <2> QED
    BY <2>1, ProofLocal DEF AcceptedSteps
<1>2. CASE \E k \in stored, c \in Clients, uri \in Uris, verifier \in Texts \cup {None} :
              RedeemGet(r, c, k, uri, verifier)
  <2>1. /\ requests'[r].at = "remove" /\ codes' = codes
        /\ \A p \in Requests : p # r => requests'[p] = requests[p]
    BY <1>2 DEF RedeemGet, Become, Idle, TypeInv, TypeOK, stores
  <2> QED
    BY <2>1, ProofLocal DEF AcceptedSteps
<1> QED
  BY <1>1, <1>2 DEF Arrive

LEMMA ProofStep == TypeInv /\ ProofInv /\ [Next]_vars => ProofInv'
<1> SUFFICES ASSUME TypeInv, ProofInv, [Next]_vars PROVE ProofInv'
  OBVIOUS
<1>1. CASE UNCHANGED vars \/ Tick \/ \E t \in refreshTokens : LoseToken(t)
  BY <1>1 DEF vars, Tick, LoseToken, stores, ProofInv, Issued, Presented
<1>2. ASSUME NEW k \in UnusedCodes, NEW s \in Subjects, NEW c \in Clients,
             NEW type \in ResponseTypes, NEW uri \in Uris, NEW challenge \in Texts \cup {None},
             NEW method \in Methods \cup {None}, NEW offline \in BOOLEAN,
             Authorize(k, s, c, type, uri, challenge, method, offline)
      PROVE  ProofInv'
  BY <1>2, ProofAuthorize DEF Authorize, UnusedCodes
<1> QED
  BY <1>1, <1>2, ProofServe, ProofArrive DEF Next

\* Tokens go to the client of the authorize request, for a URI it registered, and
\* in the proof key flows to who presents the one text the challenge was made from:
\* the only one, because the digest has no collisions.
THEOREM ProofNeeded == Spec => []TokensNeedProof
<1>1. TypeInv /\ ProofInv => TokensNeedProof
  <2> SUFFICES ASSUME TypeInv, ProofInv, NEW r \in Requests, requests[r].at \in {"issue", "reply"}
               PROVE  LET code == codes[requests[r].code] IN
                      /\ requests[r].client = code.client
                      /\ requests[r].uri \in RedirectUris[code.client]
                      /\ Flow[code.client] \in ProofKeyFlows
                            => Origins(code) = {requests[r].verifier}
    BY DEF TokensNeedProof
  <2>1. Presented(requests[r], codes[requests[r].code])
    BY DEF ProofInv, AcceptedSteps
  <2>2. requests[r].code \in Issued
    BY DEF TypeInv, Known, Issued, RedeemSteps
  <2>3. ASSUME Flow[codes[requests[r].code].client] \in ProofKeyFlows
        PROVE  Origins(codes[requests[r].code]) = {requests[r].verifier}
    <3>1. Matches(requests[r].verifier, codes[requests[r].code]) /\ requests[r].verifier \in Texts
      BY <2>1, <2>3 DEF Presented, Matches, TypeInv, TypeOK, Request
    <3> QED
      BY <3>1, DigestAssumption DEF Matches, Origins
  <2> QED
    BY <2>1, <2>2, <2>3 DEF ProofInv, Presented
<1> QED
  BY <1>1, TypeInit, TypeStep, ProofInit, ProofStep, PTL DEF Spec
================================================================================

--------------------------- MODULE PermissionsProofs ---------------------------
(***************************************************************************)
(* Proofs about Permissions, for any number of requests, of withdrawals    *)
(* and revocations at a time, and of codes and handles: type correctness,  *)
(* and that what survives a withdrawal was in flight meanwhile.            *)
(***************************************************************************)
EXTENDS Permissions, TLAPS

------------------------------------------------------------------------------
\* The inductive invariant

\* A withdrawal or a revocation is in progress; one is at the access tokens.
Active == \E w \in Clearings : clearings[w].at # "idle"
Taking == \E w \in Clearings : clearings[w].at = "access"

Unique(items) == \A x, y \in items : x.id = y.id => x = y
Disjoint(items, others) == \A x \in items, y \in others : x.id # y.id

GoodStores ==
    /\ consent \in {None} \cup Origin
    /\ codes \subseteq Item /\ refresh \subseteq Item /\ access \subseteq Item
    /\ Unique(codes) /\ Unique(refresh) /\ Unique(access)
    /\ Disjoint(codes, refresh) /\ Disjoint(codes, access) /\ Disjoint(refresh, access)

\* What a request in flight has is marked as soon as there is a withdrawal; a refresh
\* token that is going to be stored again has its handle for itself.
GoodRequest(q) ==
    /\ q \in Request
    /\ q.at # "idle" =>
          /\ Active => q.origin.raced
          /\ Taking => q.late
          /\ q.origin.old => q.origin.raced /\ (q.follows \/ q.late)
          /\ q.at \in {"refreshAccess", "storeSame"} =>
                q.id \in Ids /\ \A x \in codes \cup access : x.id # q.id

\* What a withdrawal has left behind was in flight, and what it has found it still has
\* to remove: first the consent, the refresh tokens, the codes, then the access tokens.
GoodClearing(c) ==
    /\ c \in Clearing
    /\ c.page /\ c.at \in {"refresh", "codes", "access"} /\ consent # None => consent.raced
    /\ c.at = "refresh" => \A x \in refresh : x.id \in c.todo \/ x.origin.raced
    /\ c.at \in {"codes", "access"} => \A x \in refresh : x.origin.raced
    /\ c.at = "codes" => \A x \in codes : x.id \in c.todo \/ x.origin.raced
    /\ c.page /\ c.at = "access" => \A x \in codes : x.origin.raced
    /\ c.at = "access" => \A x \in access : x.id \in c.todo \/ x.origin.raced

Inv ==
    /\ GoodStores
    /\ GrantsAreWithdrawn
    /\ RefreshTokensAreCleared
    /\ AccessTokensGoLast
    /\ DOMAIN requests = Requests /\ requests = [r \in Requests |-> requests[r]]
    /\ \A r \in Requests : GoodRequest(requests[r])
    /\ DOMAIN clearings = Clearings /\ clearings = [w \in Clearings |-> clearings[w]]
    /\ \A w \in Clearings : GoodClearing(clearings[w])

------------------------------------------------------------------------------
\* Requests

Moved(r, q) == requests' = [s \in Requests |-> IF s = r THEN q ELSE requests[s]]

LEMMA FinishMoves ==
    ASSUME Inv, NEW r \in Requests, Finish(r)
    PROVE  Moved(r, Idle)
BY DEF Inv, Finish, Moved

LEMMA GotoMoves ==
    ASSUME Inv, NEW r \in Requests, NEW step, Goto(r, step)
    PROVE  Moved(r, [at |-> step, id |-> requests[r].id, origin |-> requests[r].origin,
                     follows |-> requests[r].follows, late |-> requests[r].late])
<1> DEFINE old == requests[r]
<1>1. PICK q : q = [old EXCEPT !.at = step] OBVIOUS
<1>2. old \in Request BY DEF Inv, GoodRequest
<1>3. q = [at |-> step, id |-> old.id, origin |-> old.origin, follows |-> old.follows,
           late |-> old.late]
  <2> HIDE DEF old
  <2> QED BY <1>1, <1>2 DEF Request
<1>4. Moved(r, q) BY <1>1 DEF Inv, Goto, Moved
<1> QED BY <1>3, <1>4

LEMMA BeginMoves ==
    ASSUME Inv, NEW r \in Requests, NEW step, NEW id, NEW origin \in Origin,
           Begin(r, step, id, origin)
    PROVE  Moved(r, [at |-> step, id |-> id, follows |-> origin.raced, late |-> Taking,
                     origin |-> [old |-> origin.old, raced |-> origin.raced \/ Active]])
<1> DEFINE active == origin.raced \/ Active
<1>1. PICK new : new = [origin EXCEPT !.raced = active] OBVIOUS
<1>2. new = [old |-> origin.old, raced |-> active]
  <2> HIDE DEF active
  <2> QED BY <1>1 DEF Origin
<1>3. requests' = [requests EXCEPT ![r] = [at |-> step, id |-> id, follows |-> origin.raced,
                                           origin |-> new, late |-> Taking]]
  BY <1>1 DEF Begin, Active, Taking
<1>4. Moved(r, [at |-> step, id |-> id, follows |-> origin.raced, origin |-> new, late |-> Taking])
  BY <1>3 DEF Inv, Moved
<1> QED BY <1>2, <1>4

\* What a step of a request has to respect.
GoodNext(q) ==
    /\ q \in Request
    /\ q.at # "idle" =>
          /\ Active => q.origin.raced
          /\ Taking => q.late
          /\ q.origin.old => q.origin.raced /\ (q.follows \/ q.late)
          /\ q.at \in {"refreshAccess", "storeSame"} =>
                q.id \in Ids /\ \A x \in codes' \cup access' : x.id # q.id

GoodStep ==
    /\ consent' # None => consent' = consent \/ (Active => consent'.raced)
    /\ \A x \in codes' : x \in codes \/ (x.id \in Unused /\ (Active => x.origin.raced))
    /\ \A x \in refresh' : x \in refresh \/ (Active => x.origin.raced)
    /\ \A x \in access' : x \in access \/ (x.id \in Unused /\ (Taking => x.origin.raced))

LEMMA RequestStep ==
    ASSUME Inv, NEW r \in Requests, NEW q, Moved(r, q), UNCHANGED clearings,
           GoodNext(q), GoodStep
    PROVE  /\ DOMAIN requests' = Requests /\ requests' = [s \in Requests |-> requests'[s]]
           /\ \A s \in Requests : GoodRequest(requests[s])'
           /\ DOMAIN clearings' = Clearings /\ clearings' = [w \in Clearings |-> clearings'[w]]
           /\ \A w \in Clearings : GoodClearing(clearings[w])'
<1>1. requests' = [s \in Requests |-> IF s = r THEN q ELSE requests[s]] BY DEF Moved
<1>2. Active' = Active /\ Taking' = Taking BY DEF Active, Taking
<1>3. GoodRequest(requests[r])'
  <2>1. requests'[r] = q BY <1>1
  <2> QED BY <1>2, <2>1 DEF GoodNext, GoodRequest
<1>4. ASSUME NEW s \in Requests \ {r} PROVE GoodRequest(requests[s])'
  <2>1. requests'[s] = requests[s] /\ GoodRequest(requests[s]) BY <1>1 DEF Inv
  <2>2. requests[s].id \notin Unused BY DEF Unused
  <2>3. \A x \in codes' \cup access' : x \in codes \cup access \/ x.id # requests[s].id
    BY <2>2 DEF GoodStep
  <2> QED BY <1>2, <2>1, <2>3 DEF GoodRequest
<1>5. ASSUME NEW w \in Clearings PROVE GoodClearing(clearings[w])'
  <2> DEFINE c == clearings[w]
  <2>1. GoodClearing(c) BY DEF Inv
  <2>2. c' = c OBVIOUS
  <2>3. c.at # "idle" => Active BY DEF Active
  <2>4. c.at = "access" => Taking BY DEF Taking
  <2> HIDE DEF c
  <2>5. c.page /\ c.at \in {"refresh", "codes", "access"} /\ consent' # None => consent'.raced
    BY <2>1, <2>3 DEF GoodClearing, GoodStep
  <2>6. /\ c.at = "refresh" => \A x \in refresh' : x.id \in c.todo \/ x.origin.raced
        /\ c.at \in {"codes", "access"} => \A x \in refresh' : x.origin.raced
    BY <2>1, <2>3 DEF GoodClearing, GoodStep
  <2>7. /\ c.at = "codes" => \A x \in codes' : x.id \in c.todo \/ x.origin.raced
        /\ c.page /\ c.at = "access" => \A x \in codes' : x.origin.raced
    BY <2>1, <2>3 DEF GoodClearing, GoodStep
  <2>8. c.at = "access" => \A x \in access' : x.id \in c.todo \/ x.origin.raced
    BY <2>1, <2>4 DEF GoodClearing, GoodStep
  <2>9. GoodClearing(c)' BY <2>1, <2>2, <2>5, <2>6, <2>7, <2>8 DEF GoodClearing
  <2> QED BY <2>9 DEF c
<1>6. \A s \in Requests : GoodRequest(requests[s])' BY <1>3, <1>4
<1> QED BY <1>1, <1>5, <1>6 DEF Inv

------------------------------------------------------------------------------
\* The stores

LEMMA UnusedIds ==
    ASSUME NEW id \in Unused
    PROVE  id \in Ids /\ \A x \in codes \cup refresh \cup access : x.id # id
BY DEF Unused, IdsOf

LEMMA NewItem ==
    ASSUME NEW id \in Ids, NEW origin \in Origin
    PROVE  /\ New(id, origin) \in Item
           /\ New(id, origin).id = id /\ New(id, origin).origin = origin
BY DEF New, Item

LEMMA NewAccessItem ==
    ASSUME Inv, NEW r \in Requests, NEW id \in Ids
    PROVE  /\ NewAccess(r, id) \in Item
           /\ NewAccess(r, id).id = id
           /\ NewAccess(r, id).origin.old = requests[r].origin.old
           /\ NewAccess(r, id).origin.raced = (requests[r].follows \/ requests[r].late)
<1> DEFINE origin == requests[r].origin
           raced == requests[r].follows \/ requests[r].late
<1>1. requests[r] \in Request BY DEF Inv, GoodRequest
<1>2. origin \in Origin BY <1>1 DEF Request
<1>3. PICK new : new = [origin EXCEPT !.raced = raced] OBVIOUS
<1>4. raced \in BOOLEAN OBVIOUS
<1>5. new = [old |-> origin.old, raced |-> raced]
  <2> HIDE DEF origin, raced
  <2> QED BY <1>2, <1>3 DEF Origin
<1>6. new \in Origin /\ new.old = origin.old /\ new.raced = raced
  <2> HIDE DEF origin, raced
  <2> QED BY <1>2, <1>4, <1>5 DEF Origin
<1>7. NewAccess(r, id) = New(id, new) BY <1>3 DEF NewAccess
<1> QED BY <1>6, <1>7, NewItem

\* What a request takes with it is good to be stored.
LEMMA Carried ==
    ASSUME Inv, NEW r \in Requests, ~At(r, "idle")
    PROVE  /\ requests[r] \in Request /\ requests[r].origin \in Origin
           /\ Active => requests[r].origin.raced
           /\ Taking => requests[r].late
           /\ requests[r].origin.old => requests[r].origin.raced /\ (requests[r].follows \/ requests[r].late)
<1>1. GoodRequest(requests[r]) BY DEF Inv
<1>2. requests[r] \in Request BY <1>1 DEF GoodRequest
<1>3. requests[r].origin \in Origin BY <1>2 DEF Request
<1> QED BY <1>1, <1>3 DEF At, GoodRequest

\* The request goes on with the origin it has; a handle that it is going to store under
\* is one that the codes and the access tokens do not use.
LEMMA GoesOn ==
    ASSUME Inv, NEW r \in Requests, ~At(r, "idle"), NEW step \in Steps,
           step \in {"refreshAccess", "storeSame"} =>
              requests[r].id \in Ids /\ \A x \in codes' \cup access' : x.id # requests[r].id
    PROVE  GoodNext([at |-> step, id |-> requests[r].id, origin |-> requests[r].origin,
                     follows |-> requests[r].follows, late |-> requests[r].late])
<1> DEFINE old == requests[r]
<1>1. PICK q : q = [at |-> step, id |-> old.id, origin |-> old.origin, follows |-> old.follows,
                    late |-> old.late]
  OBVIOUS
<1>2. old \in Request BY Carried
<1>3. /\ Active => old.origin.raced
      /\ Taking => old.late
      /\ old.origin.old => old.origin.raced /\ (old.follows \/ old.late)
  BY Carried
<1>4. step \in {"refreshAccess", "storeSame"} =>
         old.id \in Ids /\ \A x \in codes' \cup access' : x.id # old.id
  OBVIOUS
<1> HIDE DEF old
<1>5. q \in Request BY <1>1, <1>2 DEF Request
<1>6. /\ q.at = step /\ q.id = old.id /\ q.origin = old.origin
      /\ q.follows = old.follows /\ q.late = old.late
  BY <1>1
<1>7. GoodNext(q) BY <1>3, <1>4, <1>5, <1>6 DEF GoodNext
<1> QED BY <1>1, <1>7 DEF old

LEMMA IdleIsGood == GoodNext(Idle)
<1>1. Idle \in Request BY DEF Idle, Fresh, Request, Origin
<1> QED BY <1>1 DEF GoodNext, Idle

\* A request that begins with something of the stores, or with a new agreement.
LEMMA Begins ==
    ASSUME Inv, NEW step \in Steps, NEW id \in Ids \cup {None}, NEW origin \in Origin,
           origin.old => origin.raced,
           step \in {"refreshAccess", "storeSame"} =>
              id \in Ids /\ \A x \in codes' \cup access' : x.id # id
    PROVE  GoodNext([at |-> step, id |-> id, follows |-> origin.raced, late |-> Taking,
                     origin |-> [old |-> origin.old, raced |-> origin.raced \/ Active]])
<1> DEFINE raced == origin.raced \/ Active
           taking == Taking
<1>1. PICK from : from = [old |-> origin.old, raced |-> raced] OBVIOUS
<1>2. PICK q : q = [at |-> step, id |-> id, follows |-> origin.raced, late |-> taking,
                    origin |-> from]
  OBVIOUS
<1>3. raced \in BOOLEAN /\ taking \in BOOLEAN BY DEF Taking
<1>4. from \in Origin /\ from.old = origin.old /\ from.raced = raced
  <2> HIDE DEF raced
  <2> QED BY <1>1, <1>3 DEF Origin
<1>5. q \in Request
  <2> HIDE DEF raced, taking
  <2> QED BY <1>2, <1>3, <1>4 DEF Request, Origin
<1>6. q.at = step /\ q.id = id /\ q.follows = origin.raced /\ q.late = taking /\ q.origin = from
  <2> HIDE DEF raced, taking
  <2> QED BY <1>2
<1>7. GoodNext(q) BY <1>4, <1>5, <1>6 DEF GoodNext
<1> QED BY <1>1, <1>2, <1>7

------------------------------------------------------------------------------
\* The steps of requests

LEMMA SameStores ==
    ASSUME Inv, UNCHANGED <<consent, codes, refresh, access>>
    PROVE  (GoodStores /\ GrantsAreWithdrawn /\ RefreshTokensAreCleared /\ AccessTokensGoLast)'
           /\ GoodStep
BY DEF Inv, GoodStores, GrantsAreWithdrawn, RefreshTokensAreCleared, AccessTokensGoLast, GoodStep

\* A request that begins leaves the stores alone.
LEMMA BeginStep ==
    ASSUME Inv, NEW r \in Requests, NEW step \in Steps, NEW id \in Ids \cup {None},
           NEW origin \in Origin, Begin(r, step, id, origin),
           origin.old => origin.raced,
           step \in {"refreshAccess", "storeSame"} =>
              id \in Ids /\ \A x \in codes \cup access : x.id # id,
           UNCHANGED <<consent, codes, refresh, access, clearings>>
    PROVE  Inv'
<1> DEFINE q == [at |-> step, id |-> id, follows |-> origin.raced, late |-> Taking,
                 origin |-> [old |-> origin.old, raced |-> origin.raced \/ Active]]
<1>1. Moved(r, q) BY BeginMoves
<1>2. GoodNext(q) BY Begins
<1> HIDE DEF q
<1> QED BY <1>1, <1>2, SameStores, RequestStep DEF Inv

LEMMA AuthorizeAgainStep ==
    ASSUME Inv, NEW r \in Requests, AuthorizeAgain(r)
    PROVE  Inv'
<1>1. consent \in Origin /\ (consent.old => consent.raced)
  BY DEF AuthorizeAgain, Inv, GoodStores, GrantsAreWithdrawn
<1>2. "storeCode" \in Steps BY DEF Steps
<1> QED BY <1>1, <1>2, BeginStep DEF AuthorizeAgain

LEMMA AgreeStep ==
    ASSUME Inv, NEW r \in Requests, Agree(r)
    PROVE  Inv'
<1>1. Fresh \in Origin /\ ~Fresh.old BY DEF Fresh, Origin
<1>2. "remember" \in Steps BY DEF Steps
<1> QED BY <1>1, <1>2, BeginStep DEF Agree

LEMMA GetCodeStep ==
    ASSUME Inv, NEW r \in Requests, GetCode(r)
    PROVE  Inv'
<1>1. PICK code \in codes : Begin(r, "removeCode", code.id, code.origin) BY DEF GetCode
<1>2. code \in Item /\ (code.origin.old => code.origin.raced)
  BY DEF Inv, GoodStores, GrantsAreWithdrawn
<1>3. code.id \in Ids /\ code.origin \in Origin BY <1>2 DEF Item
<1>4. "removeCode" \in Steps BY DEF Steps
<1> QED BY <1>1, <1>2, <1>3, <1>4, BeginStep DEF GetCode

LEMMA GetRefreshStep ==
    ASSUME Inv, NEW r \in Requests, GetRefresh(r)
    PROVE  Inv'
<1>1. PICK token \in refresh : Begin(r, "refreshAccess", token.id, token.origin)
  BY DEF GetRefresh
<1>2. token \in Item /\ (token.origin.old => token.origin.raced)
  BY DEF Inv, GoodStores, RefreshTokensAreCleared
<1>3. token.id \in Ids /\ token.origin \in Origin BY <1>2 DEF Item
<1>4. \A x \in codes \cup access : x.id # token.id BY DEF Inv, GoodStores, Disjoint
<1>5. "refreshAccess" \in Steps BY DEF Steps
<1> QED BY <1>1, <1>2, <1>3, <1>4, <1>5, BeginStep DEF GetRefresh

\* A request that goes on or finishes.
LEMMA MoveOn ==
    ASSUME Inv, NEW r \in Requests, ~At(r, "idle"), NEW step \in Steps,
           Finish(r) \/ Goto(r, step), UNCHANGED clearings, GoodStep,
           step \in {"refreshAccess", "storeSame"} =>
              requests[r].id \in Ids /\ \A x \in codes' \cup access' : x.id # requests[r].id,
           (GoodStores /\ GrantsAreWithdrawn /\ RefreshTokensAreCleared /\ AccessTokensGoLast)'
    PROVE  Inv'
<1>1. CASE Finish(r)
  BY <1>1, FinishMoves, IdleIsGood, RequestStep DEF Inv
<1>2. CASE Goto(r, step)
  <2> DEFINE q == [at |-> step, id |-> requests[r].id, origin |-> requests[r].origin,
                   follows |-> requests[r].follows, late |-> requests[r].late]
  <2>1. Moved(r, q) BY <1>2, GotoMoves
  <2>2. GoodNext(q) BY GoesOn
  <2> HIDE DEF q
  <2> QED BY <2>1, <2>2, RequestStep DEF Inv
<1> QED BY <1>1, <1>2

\* What a store holds when a new entry has been added, or some removed.
LEMMA AddedTo ==
    ASSUME NEW items \in SUBSET Item, NEW item \in Item, \A x \in items : x.id # item.id,
           Unique(items)
    PROVE  items \cup {item} \subseteq Item /\ Unique(items \cup {item})
BY DEF Unique

LEMMA RememberStep ==
    ASSUME Inv, NEW r \in Requests, Remember(r)
    PROVE  Inv'
<1>1. ~At(r, "idle") /\ Goto(r, "storeCode") /\ "storeCode" \in Steps
  BY DEF Remember, At, Steps
<1>2. /\ requests[r].origin \in Origin
      /\ Active => requests[r].origin.raced
      /\ requests[r].origin.old => requests[r].origin.raced
  BY <1>1, Carried
<1>3. consent' \in {requests[r].origin, None} /\ UNCHANGED <<codes, refresh, access, clearings>>
  BY DEF Remember
<1>4. GoodStep BY <1>2, <1>3 DEF GoodStep
<1>5. (GoodStores /\ GrantsAreWithdrawn /\ RefreshTokensAreCleared /\ AccessTokensGoLast)'
  BY <1>2, <1>3 DEF Inv, GoodStores, GrantsAreWithdrawn, RefreshTokensAreCleared, AccessTokensGoLast
<1> QED BY <1>1, <1>3, <1>4, <1>5, MoveOn

LEMMA StoreCodeStep ==
    ASSUME Inv, NEW r \in Requests, StoreCode(r)
    PROVE  Inv'
<1>1. ~At(r, "idle") /\ Finish(r) /\ UNCHANGED <<consent, refresh, access, clearings>>
  BY DEF StoreCode, At
<1>2. PICK id \in Unused : codes' = codes \cup {New(id, requests[r].origin)} BY DEF StoreCode
<1>3. PICK item : item = New(id, requests[r].origin) OBVIOUS
<1>4. /\ requests[r].origin \in Origin
      /\ Active => requests[r].origin.raced
      /\ requests[r].origin.old => requests[r].origin.raced
  BY <1>1, Carried
<1>5. id \in Ids /\ \A x \in codes \cup refresh \cup access : x.id # id BY UnusedIds
<1>6. /\ item \in Item /\ item.id = id
      /\ Active => item.origin.raced
      /\ item.origin.old => item.origin.raced
  BY <1>3, <1>4, <1>5, NewItem
<1>7. GoodStep BY <1>1, <1>2, <1>3, <1>6 DEF GoodStep
<1>8. GoodStores' BY <1>1, <1>2, <1>3, <1>5, <1>6, AddedTo DEF Inv, GoodStores, Disjoint, Unique
<1>9. (GrantsAreWithdrawn /\ RefreshTokensAreCleared /\ AccessTokensGoLast)'
  BY <1>1, <1>2, <1>3, <1>6 DEF Inv, GrantsAreWithdrawn, RefreshTokensAreCleared, AccessTokensGoLast
<1>10. "storeCode" \in Steps BY DEF Steps
<1> QED BY <1>1, <1>7, <1>8, <1>9, <1>10, MoveOn

LEMMA RemoveCodeStep ==
    ASSUME Inv, NEW r \in Requests, RemoveCode(r)
    PROVE  Inv'
<1>1. ~At(r, "idle") /\ UNCHANGED <<consent, refresh, access, clearings>>
      /\ codes' \subseteq codes
  BY DEF RemoveCode, At, Without
<1>2. PICK step \in {"createRefresh", "createAccess"} : Finish(r) \/ Goto(r, step)
  BY DEF RemoveCode
<1>3. GoodStep BY <1>1 DEF GoodStep
<1>4. (GoodStores /\ GrantsAreWithdrawn /\ RefreshTokensAreCleared /\ AccessTokensGoLast)'
  BY <1>1 DEF Inv, GoodStores, Unique, Disjoint, GrantsAreWithdrawn, RefreshTokensAreCleared,
              AccessTokensGoLast
<1>5. step \in Steps BY DEF Steps
<1> QED BY <1>1, <1>2, <1>3, <1>4, <1>5, MoveOn

\* A refresh token that a request stores under an id of its own.
LEMMA RefreshStored ==
    ASSUME Inv, NEW r \in Requests, ~At(r, "idle"), NEW id \in Ids,
           \A x \in codes \cup access : x.id # id,
           refresh' = Without(refresh, id) \cup {New(id, requests[r].origin)},
           UNCHANGED <<consent, codes, access>>
    PROVE  (GoodStores /\ GrantsAreWithdrawn /\ RefreshTokensAreCleared /\ AccessTokensGoLast)'
           /\ GoodStep
<1>1. PICK item : item = New(id, requests[r].origin) OBVIOUS
<1>2. PICK rest : rest = Without(refresh, id) OBVIOUS
<1>3. /\ item \in Item /\ item.id = id
      /\ Active => item.origin.raced
      /\ item.origin.old => item.origin.raced
  BY <1>1, Carried, NewItem
<1>4. /\ rest \subseteq refresh /\ rest \in SUBSET Item /\ Unique(rest)
      /\ \A x \in rest : x.id # item.id
  BY <1>2, <1>3 DEF Inv, GoodStores, Unique, Without
<1>5. refresh' = rest \cup {item} BY <1>1, <1>2
<1>6. refresh' \subseteq Item /\ Unique(refresh)' BY <1>3, <1>4, <1>5, AddedTo DEF Unique
<1>7. GoodStores' BY <1>3, <1>4, <1>5, <1>6 DEF Inv, GoodStores, Disjoint, Unique
<1>8. (GrantsAreWithdrawn /\ RefreshTokensAreCleared /\ AccessTokensGoLast)'
  BY <1>3, <1>4, <1>5
  DEF Inv, GrantsAreWithdrawn, RefreshTokensAreCleared, AccessTokensGoLast
<1>9. GoodStep BY <1>3, <1>4, <1>5 DEF GoodStep
<1> QED BY <1>7, <1>8, <1>9

\* ... and under a new one.
LEMMA NewRefreshStored ==
    ASSUME Inv, NEW r \in Requests, ~At(r, "idle"), NEW id \in Unused,
           refresh' = refresh \cup {New(id, requests[r].origin)},
           UNCHANGED <<consent, codes, access>>
    PROVE  (GoodStores /\ GrantsAreWithdrawn /\ RefreshTokensAreCleared /\ AccessTokensGoLast)'
           /\ GoodStep
<1>1. id \in Ids /\ \A x \in codes \cup refresh \cup access : x.id # id BY UnusedIds
<1>2. Without(refresh, id) = refresh BY <1>1 DEF Without
<1> QED BY <1>1, <1>2, RefreshStored

LEMMA CreateRefreshStep ==
    ASSUME Inv, NEW r \in Requests, CreateRefresh(r)
    PROVE  Inv'
<1>1. ~At(r, "idle") /\ Goto(r, "createAccess") /\ UNCHANGED <<consent, codes, access, clearings>>
  BY DEF CreateRefresh, At
<1>2. PICK id \in Unused : refresh' = refresh \cup {New(id, requests[r].origin)}
  BY DEF CreateRefresh
<1>3. "createAccess" \in Steps BY DEF Steps
<1> QED BY <1>1, <1>2, <1>3, NewRefreshStored, MoveOn

LEMMA StoreNewStep ==
    ASSUME Inv, NEW r \in Requests, StoreNew(r)
    PROVE  Inv'
<1>1. ~At(r, "idle") /\ Finish(r) /\ UNCHANGED <<consent, codes, access, clearings>>
  BY DEF StoreNew, At
<1>2. PICK id \in Unused : refresh' = refresh \cup {New(id, requests[r].origin)}
  BY DEF StoreNew
<1>3. "storeNew" \in Steps BY DEF Steps
<1> QED BY <1>1, <1>2, <1>3, NewRefreshStored, MoveOn

\* The handle of the request is that of the refresh token it came with, or was.
LEMMA HasHandle ==
    ASSUME Inv, NEW r \in Requests, At(r, "refreshAccess") \/ At(r, "storeSame")
    PROVE  requests[r].id \in Ids /\ \A x \in codes \cup access : x.id # requests[r].id
BY DEF Inv, GoodRequest, At

LEMMA StoreSameStep ==
    ASSUME Inv, NEW r \in Requests, StoreSame(r)
    PROVE  Inv'
<1>1. ~At(r, "idle") /\ Finish(r) /\ UNCHANGED <<consent, codes, access, clearings>>
  BY DEF StoreSame, At
<1>2. refresh' = Without(refresh, requests[r].id) \cup {New(requests[r].id, requests[r].origin)}
  BY DEF StoreSame
<1>3. requests[r].id \in Ids /\ \A x \in codes \cup access : x.id # requests[r].id
  BY HasHandle DEF StoreSame
<1>4. (GoodStores /\ GrantsAreWithdrawn /\ RefreshTokensAreCleared /\ AccessTokensGoLast)'
      /\ GoodStep
  BY <1>1, <1>2, <1>3, RefreshStored
<1>5. "storeSame" \in Steps BY DEF Steps
<1> QED BY <1>1, <1>3, <1>4, <1>5, MoveOn

\* Refresh tokens that are removed.
LEMMA RefreshRemoved ==
    ASSUME Inv, refresh' \subseteq refresh, UNCHANGED <<consent, codes, access>>
    PROVE  (GoodStores /\ GrantsAreWithdrawn /\ RefreshTokensAreCleared /\ AccessTokensGoLast)'
           /\ GoodStep
BY DEF Inv, GoodStores, Unique, Disjoint, GrantsAreWithdrawn, RefreshTokensAreCleared,
       AccessTokensGoLast, GoodStep

LEMMA RemoveOldStep ==
    ASSUME Inv, NEW r \in Requests, RemoveOld(r)
    PROVE  Inv'
<1>1. ~At(r, "idle") /\ Goto(r, "storeNew") /\ UNCHANGED <<consent, codes, access, clearings>>
      /\ refresh' \subseteq refresh
  BY DEF RemoveOld, At, Without
<1>2. "storeNew" \in Steps BY DEF Steps
<1> QED BY <1>1, <1>2, RefreshRemoved, MoveOn

LEMMA RefuseStep ==
    ASSUME Inv, NEW r \in Requests, Refuse(r)
    PROVE  Inv'
<1>1. ~At(r, "idle") /\ Finish(r) /\ UNCHANGED <<consent, codes, access, clearings>>
      /\ refresh' \subseteq refresh
  BY DEF Refuse, At, Without
<1>2. "storeNew" \in Steps BY DEF Steps
<1> QED BY <1>1, <1>2, RefreshRemoved, MoveOn

\* A new access token.
LEMMA AccessStored ==
    ASSUME Inv, NEW r \in Requests, ~At(r, "idle"), NEW id \in Unused,
           access' = access \cup {NewAccess(r, id)},
           UNCHANGED <<consent, codes, refresh>>
    PROVE  (GoodStores /\ GrantsAreWithdrawn /\ RefreshTokensAreCleared /\ AccessTokensGoLast)'
           /\ GoodStep
<1>1. id \in Ids /\ \A x \in codes \cup refresh \cup access : x.id # id BY UnusedIds
<1>2. PICK item : item = NewAccess(r, id) OBVIOUS
<1>3. /\ item \in Item /\ item.id = id
      /\ Taking => item.origin.raced
      /\ item.origin.old => item.origin.raced
  BY <1>1, <1>2, Carried, NewAccessItem
<1>4. access' \subseteq Item /\ Unique(access)'
  BY <1>1, <1>2, <1>3, AddedTo DEF Inv, GoodStores, Unique
<1>5. GoodStores' BY <1>1, <1>2, <1>3, <1>4 DEF Inv, GoodStores, Disjoint, Unique
<1>6. (GrantsAreWithdrawn /\ RefreshTokensAreCleared /\ AccessTokensGoLast)'
  BY <1>2, <1>3 DEF Inv, GrantsAreWithdrawn, RefreshTokensAreCleared, AccessTokensGoLast
<1>7. GoodStep BY <1>2, <1>3 DEF GoodStep
<1> QED BY <1>5, <1>6, <1>7

LEMMA CreateAccessStep ==
    ASSUME Inv, NEW r \in Requests, CreateAccess(r)
    PROVE  Inv'
<1>1. ~At(r, "idle") /\ Finish(r) /\ UNCHANGED <<consent, codes, refresh, clearings>>
  BY DEF CreateAccess, At
<1>2. PICK id \in Unused : access' = access \cup {NewAccess(r, id)} BY DEF CreateAccess
<1>3. "createAccess" \in Steps BY DEF Steps
<1> QED BY <1>1, <1>2, <1>3, AccessStored, MoveOn

LEMMA RefreshAccessStep ==
    ASSUME Inv, NEW r \in Requests, RefreshAccess(r)
    PROVE  Inv'
<1>1. ~At(r, "idle") /\ UNCHANGED <<consent, codes, refresh, clearings>>
  BY DEF RefreshAccess, At
<1>2. PICK step \in {"removeOld", "storeSame"} : Finish(r) \/ Goto(r, step)
  BY DEF RefreshAccess
<1>3. PICK id \in Unused : access' = access \cup {NewAccess(r, id)} BY DEF RefreshAccess
<1>4. requests[r].id \in Ids /\ \A x \in codes \cup access : x.id # requests[r].id
  BY HasHandle DEF RefreshAccess
<1>5. id # requests[r].id /\ id \in Ids BY DEF Unused
<1>6. NewAccess(r, id).id = id BY <1>5, NewAccessItem
<1>7. \A x \in codes' \cup access' : x.id # requests[r].id BY <1>1, <1>3, <1>4, <1>5, <1>6
<1>8. step \in Steps BY DEF Steps
<1> QED BY <1>1, <1>2, <1>3, <1>4, <1>7, <1>8, AccessStored, MoveOn

------------------------------------------------------------------------------
\* Withdrawals and revocations

Replaced(w, c) == clearings' = [v \in Clearings |-> IF v = w THEN c ELSE clearings[v]]

\* The stores lose entries, or have them marked as old.
Loses(items, left) ==
    \A x \in left : \E y \in items : x.id = y.id /\ x.origin.raced = y.origin.raced

Cleared ==
    /\ consent' # None => consent # None /\ consent'.raced = consent.raced
    /\ Loses(codes, codes') /\ Loses(refresh, refresh') /\ Loses(access, access')

\* What a step of a withdrawal or a revocation has to leave.
GoodAfter(c) ==
    /\ c \in Clearing
    /\ c.page /\ c.at \in {"refresh", "codes", "access"} /\ consent' # None => consent'.raced
    /\ c.at = "refresh" => \A x \in refresh' : x.id \in c.todo \/ x.origin.raced
    /\ c.at \in {"codes", "access"} => \A x \in refresh' : x.origin.raced
    /\ c.at = "codes" => \A x \in codes' : x.id \in c.todo \/ x.origin.raced
    /\ c.page /\ c.at = "access" => \A x \in codes' : x.origin.raced
    /\ c.at = "access" => \A x \in access' : x.id \in c.todo \/ x.origin.raced

LEMMA ClearingStep ==
    ASSUME Inv, NEW w \in Clearings, NEW c, Replaced(w, c), Cleared, GoodAfter(c)
    PROVE  /\ DOMAIN clearings' = Clearings /\ clearings' = [v \in Clearings |-> clearings'[v]]
           /\ \A v \in Clearings : GoodClearing(clearings[v])'
           /\ Active' => Active \/ c.at # "idle"
           /\ Taking' => Taking \/ c.at = "access"
<1>1. clearings' = [v \in Clearings |-> IF v = w THEN c ELSE clearings[v]] BY DEF Replaced
<1>2. GoodClearing(clearings[w])'
  <2>1. clearings'[w] = c BY <1>1
  <2> QED BY <2>1 DEF GoodAfter, GoodClearing
<1>3. ASSUME NEW v \in Clearings \ {w} PROVE GoodClearing(clearings[v])'
  <2>1. PICK d : d = clearings[v] OBVIOUS
  <2>2. clearings'[v] = d BY <1>1, <2>1
  <2>3. GoodClearing(d) BY <2>1 DEF Inv
  <2>4. GoodAfter(d)
    <3>1. /\ d.at = "refresh" => \A x \in refresh' : x.id \in d.todo \/ x.origin.raced
          /\ d.at \in {"codes", "access"} => \A x \in refresh' : x.origin.raced
      BY <2>3 DEF GoodClearing, Cleared, Loses
    <3>2. /\ d.at = "codes" => \A x \in codes' : x.id \in d.todo \/ x.origin.raced
          /\ d.page /\ d.at = "access" => \A x \in codes' : x.origin.raced
      BY <2>3 DEF GoodClearing, Cleared, Loses
    <3>3. d.at = "access" => \A x \in access' : x.id \in d.todo \/ x.origin.raced
      BY <2>3 DEF GoodClearing, Cleared, Loses
    <3>4. d.page /\ d.at \in {"refresh", "codes", "access"} /\ consent' # None => consent'.raced
      BY <2>3 DEF GoodClearing, Cleared
    <3> QED BY <2>3, <3>1, <3>2, <3>3, <3>4 DEF GoodAfter, GoodClearing
  <2> QED BY <2>2, <2>4 DEF GoodAfter, GoodClearing
<1>4. \A v \in Clearings : GoodClearing(clearings[v])' BY <1>2, <1>3
<1>5. (Active' => Active \/ c.at # "idle") /\ (Taking' => Taking \/ c.at = "access")
  BY <1>1 DEF Active, Taking
<1> QED BY <1>1, <1>4, <1>5

\* The requests are not concerned, but for the entries that are gone.
LEMMA RequestsStay ==
    ASSUME Inv, UNCHANGED requests, Active' => Active, Taking' => Taking, Cleared
    PROVE  /\ DOMAIN requests' = Requests /\ requests' = [s \in Requests |-> requests'[s]]
           /\ \A s \in Requests : GoodRequest(requests[s])'
<1>1. ASSUME NEW s \in Requests PROVE GoodRequest(requests[s])'
  <2>1. GoodRequest(requests[s]) /\ requests'[s] = requests[s] BY DEF Inv
  <2>2. \A id : (\A x \in codes \cup access : x.id # id) => \A x \in codes' \cup access' : x.id # id
    BY DEF Cleared, Loses
  <2> QED BY <2>1, <2>2 DEF GoodRequest
<1> QED BY <1>1 DEF Inv

LEMMA ArriveIs ==
    ASSUME Inv, NEW w \in Clearings, NEW page \in BOOLEAN, NEW todo \in SUBSET Ids,
           NEW step \in {"consents", "refresh", "codes", "access"},
           todo = CASE step = "refresh" -> IdsOf(refresh) [] step = "codes" -> IdsOf(codes)
                    [] step = "access" -> IdsOf(access) [] OTHER -> {},
           Arrive(w, page, step)
    PROVE  Replaced(w, [at |-> step, page |-> page, todo |-> todo])
BY DEF Arrive, Inv, Replaced

LEMMA RestingIsGood == GoodAfter(Resting)
<1>1. Resting \in Clearing BY DEF Resting, Clearing
<1> QED BY <1>1 DEF GoodAfter, Resting

LEMMA FailStep ==
    ASSUME Inv, NEW w \in Clearings, Fail(w)
    PROVE  Inv'
<1>1. UNCHANGED <<consent, codes, refresh, access, requests>> /\ Replaced(w, Resting)
  BY DEF Fail, Replaced, Inv
<1>2. Cleared BY <1>1 DEF Cleared, Loses
<1>3. Resting.at = "idle" BY DEF Resting
<1>4. (Active' => Active) /\ (Taking' => Taking)
      /\ DOMAIN clearings' = Clearings /\ clearings' = [v \in Clearings |-> clearings'[v]]
      /\ \A v \in Clearings : GoodClearing(clearings[v])'
  BY <1>1, <1>2, <1>3, RestingIsGood, ClearingStep
<1> QED BY <1>1, <1>2, <1>4, SameStores, RequestsStay DEF Inv

LEMMA ClearConsentStep ==
    ASSUME Inv, NEW w \in Clearings, ClearConsent(w)
    PROVE  Inv'
<1>1. /\ clearings[w].at = "consents" /\ consent' = None
      /\ UNCHANGED <<codes, refresh, access, requests>>
  BY DEF ClearConsent
<1>2. PICK todo : todo = IdsOf(refresh) OBVIOUS
<1>3. todo \in SUBSET Ids /\ \A x \in refresh : x.id \in todo
  BY <1>2 DEF Inv, GoodStores, Item, IdsOf
<1>4. PICK c : c = [at |-> "refresh", page |-> TRUE, todo |-> todo] OBVIOUS
<1>5. Replaced(w, c) BY <1>2, <1>3, <1>4, ArriveIs DEF ClearConsent
<1>6. c \in Clearing BY <1>3, <1>4 DEF Clearing
<1>7. GoodAfter(c) BY <1>1, <1>3, <1>4, <1>6 DEF GoodAfter
<1>8. Cleared BY <1>1 DEF Cleared, Loses
<1>9. Active BY <1>1 DEF Active
<1>10. (Active' => Active) /\ (Taking' => Taking)
       /\ DOMAIN clearings' = Clearings /\ clearings' = [v \in Clearings |-> clearings'[v]]
       /\ \A v \in Clearings : GoodClearing(clearings[v])'
  BY <1>4, <1>5, <1>7, <1>8, <1>9, ClearingStep
<1>11. (GoodStores /\ GrantsAreWithdrawn /\ RefreshTokensAreCleared /\ AccessTokensGoLast)'
  BY <1>1 DEF Inv, GoodStores, GrantsAreWithdrawn, RefreshTokensAreCleared, AccessTokensGoLast
<1> QED BY <1>1, <1>8, <1>10, <1>11, RequestsStay DEF Inv

\* One entry goes, from the store and from what is still to be removed.
LEMMA ClearItemStep ==
    ASSUME Inv, NEW w \in Clearings, ClearItem(w)
    PROVE  Inv'
<1> DEFINE old == clearings[w]
<1>1. PICK id \in Ids :
        /\ \/ /\ old.at = "refresh" /\ refresh' = Without(refresh, id)
              /\ UNCHANGED <<codes, access>>
           \/ /\ old.at = "codes" /\ codes' = Without(codes, id)
              /\ UNCHANGED <<refresh, access>>
           \/ /\ old.at = "access" /\ access' = Without(access, id)
              /\ UNCHANGED <<codes, refresh>>
        /\ clearings' = [clearings EXCEPT ![w].todo = @ \ {id}]
        /\ UNCHANGED <<consent, requests>>
  BY DEF ClearItem
<1>2. GoodClearing(old) /\ old \in Clearing BY DEF Inv, GoodClearing
<1>3. PICK c : c = [old EXCEPT !.todo = @ \ {id}] OBVIOUS
<1>4. Replaced(w, c) BY <1>1, <1>3 DEF Inv, Replaced
<1>5. c = [at |-> old.at, page |-> old.page, todo |-> old.todo \ {id}]
  <2> HIDE DEF old
  <2> QED BY <1>2, <1>3 DEF Clearing
<1>6. /\ refresh' \subseteq refresh /\ codes' \subseteq codes /\ access' \subseteq access
      /\ old.at = "refresh" => \A x \in refresh' : x.id # id
      /\ old.at = "codes" => \A x \in codes' : x.id # id
      /\ old.at = "access" => \A x \in access' : x.id # id
  <2> HIDE DEF old
  <2> QED BY <1>1 DEF Without
<1>7. Cleared BY <1>1, <1>6 DEF Cleared, Loses
<1>8. old.at # "idle" /\ Active
  <2>1. old.at # "idle" BY <1>1
  <2> QED BY <2>1 DEF Active
<1>9. old.at = "access" => Taking BY DEF Taking
<1>10. GoodAfter(c)
  <2> HIDE DEF old
  <2>1. c.at = old.at /\ c.page = old.page /\ c.todo = old.todo \ {id} BY <1>5
  <2>2. c \in Clearing BY <1>2, <1>5 DEF Clearing
  <2>3. /\ c.at = "refresh" => \A x \in refresh' : x.id \in c.todo \/ x.origin.raced
        /\ c.at \in {"codes", "access"} => \A x \in refresh' : x.origin.raced
    BY <1>2, <1>6, <2>1 DEF GoodClearing
  <2>4. /\ c.at = "codes" => \A x \in codes' : x.id \in c.todo \/ x.origin.raced
        /\ c.page /\ c.at = "access" => \A x \in codes' : x.origin.raced
    BY <1>2, <1>6, <2>1 DEF GoodClearing
  <2>5. c.at = "access" => \A x \in access' : x.id \in c.todo \/ x.origin.raced
    BY <1>2, <1>6, <2>1 DEF GoodClearing
  <2>6. c.page /\ c.at \in {"refresh", "codes", "access"} /\ consent' # None => consent'.raced
    BY <1>1, <1>2, <2>1 DEF GoodClearing
  <2> QED BY <2>2, <2>3, <2>4, <2>5, <2>6 DEF GoodAfter
<1>11. c.at = old.at
  <2> HIDE DEF old
  <2> QED BY <1>5
<1>12. (Active' => Active) /\ (Taking' => Taking)
       /\ DOMAIN clearings' = Clearings /\ clearings' = [v \in Clearings |-> clearings'[v]]
       /\ \A v \in Clearings : GoodClearing(clearings[v])'
  <2> HIDE DEF old
  <2> QED BY <1>4, <1>7, <1>8, <1>9, <1>10, <1>11, ClearingStep
<1>13. (GoodStores /\ GrantsAreWithdrawn /\ RefreshTokensAreCleared /\ AccessTokensGoLast)'
  <2>1. UNCHANGED consent BY <1>1
  <2> QED BY <1>6, <2>1 DEF Inv, GoodStores, Unique, Disjoint, GrantsAreWithdrawn,
                            RefreshTokensAreCleared, AccessTokensGoLast
<1>14. UNCHANGED requests BY <1>1
<1> QED BY <1>7, <1>12, <1>13, <1>14, RequestsStay DEF Inv

\* A withdrawal or a revocation begins.
LEMMA RaceStep ==
    ASSUME Inv, NEW w \in Clearings, NEW c, Replaced(w, c), GoodAfter(c), c.at # "access",
           Race, UNCHANGED <<consent, codes, refresh, access>>
    PROVE  Inv'
<1>1. Cleared BY DEF Cleared, Loses
<1>2. (Taking' => Taking)
      /\ DOMAIN clearings' = Clearings /\ clearings' = [v \in Clearings |-> clearings'[v]]
      /\ \A v \in Clearings : GoodClearing(clearings[v])'
  BY <1>1, ClearingStep
<1>3. ASSUME NEW r \in Requests PROVE GoodRequest(requests[r])'
  <2> DEFINE old == requests[r]
  <2>1. GoodRequest(old) /\ old \in Request BY DEF Inv, GoodRequest
  <2>2. CASE ~InFlight(r)
    <3>1. requests'[r] = Idle /\ Idle.at = "idle" BY <2>2 DEF Race, Idle
    <3>2. Idle \in Request BY IdleIsGood DEF GoodNext
    <3> QED BY <3>1, <3>2 DEF GoodRequest
  <2>3. CASE InFlight(r)
    <3>1. PICK q : q = [old EXCEPT !.origin.raced = TRUE] OBVIOUS
    <3>2. requests'[r] = q BY <2>3, <3>1 DEF Race
    <3>3. q = [at |-> old.at, id |-> old.id, follows |-> old.follows, late |-> old.late,
               origin |-> [old |-> old.origin.old, raced |-> TRUE]]
      <4> HIDE DEF old
      <4> QED BY <2>1, <3>1 DEF Request, Origin
    <3>4. q \in Request
      <4> HIDE DEF old
      <4> QED BY <2>1, <3>3 DEF Request, Origin
    <3>5. /\ q.at = old.at /\ q.id = old.id /\ q.follows = old.follows /\ q.late = old.late
          /\ q.origin.old = old.origin.old /\ q.origin.raced
      <4> HIDE DEF old
      <4> QED BY <3>3
    <3> QED BY <1>2, <2>1, <3>2, <3>4, <3>5 DEF GoodRequest
  <2> QED BY <2>2, <2>3
<1>4. DOMAIN requests' = Requests /\ requests' = [r \in Requests |-> requests'[r]]
  BY DEF Race
<1> QED BY <1>2, <1>3, <1>4, SameStores DEF Inv

LEMMA WithdrawStep ==
    ASSUME Inv, NEW w \in Clearings, Withdraw(w)
    PROVE  Inv'
<1>1. PICK todo : todo = {} OBVIOUS
<1>2. PICK c : c = [at |-> "consents", page |-> TRUE, todo |-> todo] OBVIOUS
<1>3. Replaced(w, c) BY <1>1, <1>2, ArriveIs DEF Withdraw
<1>4. c \in Clearing /\ c.at = "consents" BY <1>1, <1>2 DEF Clearing
<1>5. GoodAfter(c) BY <1>4 DEF GoodAfter
<1> QED BY <1>3, <1>4, <1>5, RaceStep DEF Withdraw

LEMMA RevokeStep ==
    ASSUME Inv, NEW w \in Clearings, Revoke(w)
    PROVE  Inv'
<1>1. PICK todo : todo = IdsOf(refresh) OBVIOUS
<1>2. todo \in SUBSET Ids /\ \A x \in refresh : x.id \in todo
  BY <1>1 DEF Inv, GoodStores, Item, IdsOf
<1>3. PICK c : c = [at |-> "refresh", page |-> FALSE, todo |-> todo] OBVIOUS
<1>4. Replaced(w, c) BY <1>1, <1>2, <1>3, ArriveIs DEF Revoke
<1>5. c \in Clearing /\ c.at = "refresh" /\ ~c.page /\ c.todo = todo BY <1>2, <1>3 DEF Clearing
<1>6. GoodAfter(c) BY <1>2, <1>5 DEF GoodAfter, Revoke
<1> QED BY <1>4, <1>5, <1>6, RaceStep DEF Revoke

\* A step of a store is done when all it has found is removed: what is left was in flight.
LEMMA WhatIsLeft ==
    ASSUME Inv, NEW w \in Clearings, Done(w)
    PROVE  /\ clearings[w].at \in {"refresh", "codes", "access"} => \A x \in refresh : x.origin.raced
           /\ clearings[w].at = "codes" => \A x \in codes : x.origin.raced
           /\ clearings[w].page /\ clearings[w].at = "access" => \A x \in codes : x.origin.raced
           /\ clearings[w].at = "access" => \A x \in access : x.origin.raced
<1>1. GoodClearing(clearings[w]) /\ clearings[w].todo = {} BY DEF Inv, Done
<1> QED BY <1>1 DEF GoodClearing

LEMMA ProceedStep ==
    ASSUME Inv, NEW w \in Clearings, Proceed(w)
    PROVE  Inv'
<1> DEFINE old == clearings[w]
<1>1. PICK next : next = StepAfter(old) OBVIOUS
<1>2. /\ old.at \in {"refresh", "codes", "access"} /\ Done(w) /\ next # "idle"
      /\ Arrive(w, old.page, next)
      /\ requests' = [r \in Requests |->
            IF next = "access" /\ InFlight(r) THEN [requests[r] EXCEPT !.late = TRUE]
            ELSE requests[r]]
      /\ UNCHANGED <<consent, codes, refresh, access>>
  BY <1>1 DEF Proceed
<1>3. GoodClearing(old) /\ old \in Clearing BY DEF Inv, GoodClearing
<1>4. /\ next \in {"codes", "access"}
      /\ old.at = "refresh" /\ next = "access" => ~old.page
      /\ old.at = "refresh" \/ old.at = "codes"
  <2> HIDE DEF old
  <2> QED BY <1>1, <1>2 DEF StepAfter
<1>5. PICK todo : todo = IF next = "codes" THEN IdsOf(codes) ELSE IdsOf(access) OBVIOUS
<1>6. /\ todo \in SUBSET Ids
      /\ next = "codes" => \A x \in codes : x.id \in todo
      /\ next = "access" => \A x \in access : x.id \in todo
  BY <1>5 DEF Inv, GoodStores, Item, IdsOf
<1>7. PICK c : c = [at |-> next, page |-> old.page, todo |-> todo] OBVIOUS
<1>8. old.page \in BOOLEAN BY <1>3 DEF Clearing
<1>9. Replaced(w, c) BY <1>2, <1>4, <1>5, <1>6, <1>7, <1>8, ArriveIs
<1>10. c \in Clearing /\ c.at = next /\ c.page = old.page /\ c.todo = todo
  <2> HIDE DEF old
  <2> QED BY <1>4, <1>6, <1>7, <1>8 DEF Clearing
<1>11. GoodAfter(c)
  <2>1. /\ \A x \in refresh : x.origin.raced
        /\ old.at = "codes" => \A x \in codes : x.origin.raced
    BY <1>2, WhatIsLeft
  <2>2. old.page /\ consent # None => consent.raced BY <1>2, <1>3 DEF GoodClearing
  <2> HIDE DEF old
  <2>3. c.page /\ c.at = "access" => \A x \in codes : x.origin.raced
    BY <1>4, <1>10, <2>1
  <2> QED BY <1>2, <1>4, <1>6, <1>10, <2>1, <2>2, <2>3 DEF GoodAfter
<1>12. Cleared BY <1>2 DEF Cleared, Loses
<1>13. Active BY <1>2 DEF Active
<1>14. (Active' => Active) /\ (Taking' => Taking \/ next = "access")
       /\ DOMAIN clearings' = Clearings /\ clearings' = [v \in Clearings |-> clearings'[v]]
       /\ \A v \in Clearings : GoodClearing(clearings[v])'
  BY <1>9, <1>10, <1>11, <1>12, <1>13, ClearingStep
<1>15. ASSUME NEW r \in Requests PROVE GoodRequest(requests[r])'
  <2> DEFINE req == requests[r]
  <2>1. GoodRequest(req) /\ req \in Request BY DEF Inv, GoodRequest
  <2>2. CASE ~(next = "access" /\ InFlight(r))
    <3>1. requests'[r] = req BY <1>2, <2>2
    <3> QED BY <1>2, <1>14, <2>1, <2>2, <3>1 DEF GoodRequest, InFlight
  <2>3. CASE next = "access" /\ InFlight(r)
    <3>1. PICK q : q = [req EXCEPT !.late = TRUE] OBVIOUS
    <3>2. requests'[r] = q BY <1>2, <2>3, <3>1
    <3>3. q = [at |-> req.at, id |-> req.id, origin |-> req.origin, follows |-> req.follows,
               late |-> TRUE]
      <4> HIDE DEF req
      <4> QED BY <2>1, <3>1 DEF Request
    <3>4. q \in Request
      <4> HIDE DEF req
      <4> QED BY <2>1, <3>3 DEF Request
    <3>5. q.at = req.at /\ q.id = req.id /\ q.follows = req.follows /\ q.late /\ q.origin = req.origin
      <4> HIDE DEF req
      <4> QED BY <3>3
    <3> QED BY <1>2, <1>14, <2>1, <3>2, <3>4, <3>5 DEF GoodRequest
  <2> QED BY <2>2, <2>3
<1>16. DOMAIN requests' = Requests /\ requests' = [r \in Requests |-> requests'[r]]
  BY <1>2
<1> QED BY <1>2, <1>14, <1>15, <1>16, SameStores DEF Inv

\* Marking the entries of a store as old changes nothing else.
LEMMA AgedItems ==
    ASSUME NEW items, items \subseteq Item
    PROVE  /\ Aged(items) \subseteq Item
           /\ \A x \in Aged(items) : \E y \in items : x.id = y.id /\ x.origin.raced = y.origin.raced
           /\ Unique(items) => Unique(Aged(items))
<1>1. ASSUME NEW y \in items
      PROVE  [y EXCEPT !.origin.old = TRUE]
               = [id |-> y.id, origin |-> [old |-> TRUE, raced |-> y.origin.raced]]
  <2>1. PICK x : x = [y EXCEPT !.origin.old = TRUE] OBVIOUS
  <2>2. y \in Item OBVIOUS
  <2>3. x = [id |-> y.id, origin |-> [old |-> TRUE, raced |-> y.origin.raced]]
    BY <2>1, <2>2 DEF Item, Origin
  <2> QED BY <2>1, <2>3
<1>2. \A x \in Aged(items) : \E y \in items :
         x = [id |-> y.id, origin |-> [old |-> TRUE, raced |-> y.origin.raced]]
  BY <1>1 DEF Aged
<1>3. ASSUME NEW x \in Aged(items)
      PROVE  x \in Item /\ \E y \in items : x.id = y.id /\ x.origin.raced = y.origin.raced
  <2>1. PICK y \in items : x = [id |-> y.id, origin |-> [old |-> TRUE, raced |-> y.origin.raced]]
    BY <1>2
  <2>2. y \in Item OBVIOUS
  <2> QED BY <2>1, <2>2 DEF Item, Origin
<1>4. ASSUME Unique(items), NEW a \in Aged(items), NEW b \in Aged(items), a.id = b.id
      PROVE  a = b
  <2>1. PICK y \in items : a = [id |-> y.id, origin |-> [old |-> TRUE, raced |-> y.origin.raced]]
    BY <1>2
  <2>2. PICK z \in items : b = [id |-> z.id, origin |-> [old |-> TRUE, raced |-> z.origin.raced]]
    BY <1>2
  <2>3. y.id = z.id BY <1>4, <2>1, <2>2
  <2>4. y = z BY <1>4, <2>3 DEF Unique
  <2> QED BY <2>1, <2>2, <2>4
<1>5. Unique(items) => Unique(Aged(items)) BY <1>4 DEF Unique
<1> QED BY <1>3, <1>5

\* A withdrawal or a revocation has gone through its stores.
LEMMA CompleteStep ==
    ASSUME Inv, NEW w \in Clearings, Complete(w)
    PROVE  Inv'
<1> DEFINE done == clearings[w]
<1>1. /\ done.at \in {"refresh", "codes", "access"} /\ Done(w) /\ StepAfter(done) = "idle"
      /\ clearings' = [clearings EXCEPT ![w] = Resting]
      /\ refresh' = Aged(refresh) /\ access' = Aged(access)
      /\ codes' = IF done.page THEN Aged(codes) ELSE codes
      /\ consent' = IF done.page /\ consent # None THEN [consent EXCEPT !.old = TRUE]
                    ELSE consent
  BY DEF Complete
<1>2. GoodClearing(done) /\ done \in Clearing BY DEF Inv, GoodClearing
<1>3. done.at = "access"
  <2> HIDE DEF done
  <2> QED BY <1>1 DEF StepAfter
<1>4. /\ \A x \in refresh : x.origin.raced
      /\ \A x \in access : x.origin.raced
      /\ done.page => \A x \in codes : x.origin.raced
  BY <1>1, <1>3, WhatIsLeft
<1>5. done.page /\ consent # None => consent.raced BY <1>1, <1>2 DEF GoodClearing
<1>6. PICK page \in BOOLEAN : page = done.page BY <1>2 DEF Clearing
<1> HIDE DEF done
<1>7. codes \subseteq Item /\ refresh \subseteq Item /\ access \subseteq Item
      /\ consent \in {None} \cup Origin
  BY DEF Inv, GoodStores
<1>8. /\ codes' \subseteq Item /\ refresh' \subseteq Item /\ access' \subseteq Item
      /\ Unique(codes)' /\ Unique(refresh)' /\ Unique(access)'
  <2>1. Unique(codes) /\ Unique(refresh) /\ Unique(access) BY DEF Inv, GoodStores
  <2>2. Unique(Aged(codes)) /\ Unique(Aged(refresh)) /\ Unique(Aged(access))
    BY <1>7, <2>1, AgedItems
  <2>3. Aged(codes) \subseteq Item /\ Aged(refresh) \subseteq Item /\ Aged(access) \subseteq Item
    BY <1>7, AgedItems
  <2> QED BY <1>1, <1>7, <2>1, <2>2, <2>3 DEF Unique
<1>9. Loses(codes, codes') /\ Loses(refresh, refresh') /\ Loses(access, access')
  <2>1. Loses(codes, Aged(codes)) /\ Loses(refresh, Aged(refresh)) /\ Loses(access, Aged(access))
    BY <1>7, AgedItems DEF Loses
  <2> QED BY <1>1, <2>1 DEF Loses
<1>10. /\ consent' \in {None} \cup Origin
       /\ consent' # None => consent # None /\ consent'.raced = consent.raced
                             /\ (consent'.old => consent'.raced)
  <2>1. CASE ~(page /\ consent # None)
    <3>1. consent' = consent BY <1>1, <1>6, <2>1
    <3>2. consent # None /\ consent.old => consent.raced BY DEF Inv, GrantsAreWithdrawn
    <3> QED BY <1>7, <3>1, <3>2
  <2>2. CASE page /\ consent # None
    <3>1. PICK new : new = [consent EXCEPT !.old = TRUE] OBVIOUS
    <3>2. consent \in Origin BY <1>7, <2>2
    <3>3. new = [old |-> TRUE, raced |-> consent.raced] BY <3>1, <3>2 DEF Origin
    <3>4. new \in Origin /\ new.raced = consent.raced BY <3>2, <3>3 DEF Origin
    <3>5. consent' = new BY <1>1, <1>6, <2>2, <3>1
    <3> QED BY <1>5, <1>6, <2>2, <3>4, <3>5
  <2> QED BY <2>1, <2>2
<1>11. GoodStores'
  <2>1. Disjoint(codes, refresh)' /\ Disjoint(codes, access)' /\ Disjoint(refresh, access)'
    <3>1. Disjoint(codes, refresh) /\ Disjoint(codes, access) /\ Disjoint(refresh, access)
      BY DEF Inv, GoodStores
    <3> QED BY <1>9, <3>1 DEF Loses, Disjoint
  <2> QED BY <1>8, <1>10, <2>1 DEF GoodStores
<1>12. Cleared BY <1>9, <1>10 DEF Cleared
<1>13. (\A x \in refresh' : x.origin.raced) /\ (\A x \in access' : x.origin.raced)
  BY <1>4, <1>9 DEF Loses
<1>14. \A x \in codes' : x.origin.old => x.origin.raced
  <2>1. CASE page BY <1>4, <1>6, <1>9, <2>1 DEF Loses
  <2>2. CASE ~page
    <3>1. codes' = codes BY <1>1, <1>6, <2>2
    <3> QED BY <3>1 DEF Inv, GrantsAreWithdrawn
  <2> QED BY <2>1, <2>2
<1>15. (GrantsAreWithdrawn /\ RefreshTokensAreCleared /\ AccessTokensGoLast)'
  BY <1>10, <1>13, <1>14 DEF GrantsAreWithdrawn, RefreshTokensAreCleared, AccessTokensGoLast
<1>16. Active /\ Taking
  <2>1. clearings[w].at = "access" BY <1>3 DEF done
  <2> QED BY <2>1 DEF Active, Taking
<1>17. Replaced(w, Resting) BY <1>1 DEF Inv, Replaced
<1>18. DOMAIN clearings' = Clearings /\ clearings' = [v \in Clearings |-> clearings'[v]]
       /\ \A v \in Clearings : GoodClearing(clearings[v])'
  BY <1>12, <1>17, RestingIsGood, ClearingStep
<1>19. requests' = [r \in Requests |->
          IF InFlight(r) /\ (page \/ ~requests[r].at \in {"remember", "storeCode"})
          THEN [requests[r] EXCEPT !.origin.old = TRUE] ELSE requests[r]]
  BY <1>6 DEF Complete, done
<1>20. \A id : (\A x \in codes \cup access : x.id # id) => \A x \in codes' \cup access' : x.id # id
  BY <1>9 DEF Loses
<1>21. ASSUME NEW r \in Requests PROVE GoodRequest(requests[r])'
  <2> DEFINE req == requests[r]
             ages == InFlight(r) /\ (page \/ ~requests[r].at \in {"remember", "storeCode"})
  <2>1. GoodRequest(req) /\ req \in Request BY DEF Inv, GoodRequest
  <2>2. CASE ~ages
    <3>1. requests'[r] = req BY <1>19, <2>2
    <3> HIDE DEF ages
    <3> QED BY <1>16, <1>20, <2>1, <3>1 DEF GoodRequest
  <2>3. CASE ages
    <3>1. PICK q : q = [req EXCEPT !.origin.old = TRUE] OBVIOUS
    <3>2. requests'[r] = q BY <1>19, <2>3, <3>1
    <3>3. req.at # "idle" BY <2>3 DEF InFlight
    <3>4. q = [at |-> req.at, id |-> req.id, follows |-> req.follows, late |-> req.late,
               origin |-> [old |-> TRUE, raced |-> req.origin.raced]]
      <4> HIDE DEF req
      <4> QED BY <2>1, <3>1 DEF Request, Origin
    <3>5. q \in Request
      <4> HIDE DEF req
      <4> QED BY <2>1, <3>4 DEF Request, Origin
    <3>6. /\ q.at = req.at /\ q.id = req.id /\ q.follows = req.follows /\ q.late = req.late
          /\ q.origin.raced = req.origin.raced
      <4> HIDE DEF req
      <4> QED BY <3>4
    <3>7. req.origin.raced /\ req.late BY <1>16, <2>1, <3>3 DEF GoodRequest
    <3> HIDE DEF req, ages
    <3> QED BY <1>20, <2>1, <3>2, <3>5, <3>6, <3>7 DEF GoodRequest
  <2> QED BY <2>2, <2>3
<1>22. DOMAIN requests' = Requests /\ requests' = [r \in Requests |-> requests'[r]]
  BY <1>19
<1> QED BY <1>11, <1>15, <1>18, <1>21, <1>22 DEF Inv

------------------------------------------------------------------------------
\* The theorems

LEMMA InitInv == Init => Inv
<1> SUFFICES ASSUME Init PROVE Inv
  OBVIOUS
<1>1. GoodStores /\ GrantsAreWithdrawn /\ RefreshTokensAreCleared /\ AccessTokensGoLast
  BY DEF Init, GoodStores, Unique, Disjoint, GrantsAreWithdrawn, RefreshTokensAreCleared,
         AccessTokensGoLast
<1>2. Idle \in Request /\ Idle.at = "idle" BY DEF Idle, Fresh, Request, Origin
<1>3. Resting \in Clearing /\ Resting.at = "idle" BY DEF Resting, Clearing
<1>4. \A r \in Requests : GoodRequest(requests[r]) BY <1>2 DEF Init, GoodRequest
<1>5. \A w \in Clearings : GoodClearing(clearings[w]) BY <1>3 DEF Init, GoodClearing
<1> QED BY <1>1, <1>4, <1>5 DEF Init, Inv

LEMMA StepInv == Inv /\ [Next]_vars => Inv'
<1> SUFFICES ASSUME Inv, [Next]_vars PROVE Inv'
  OBVIOUS
<1>1. ASSUME NEW r \in Requests,
             \/ AuthorizeAgain(r) \/ Agree(r) \/ Remember(r) \/ StoreCode(r)
             \/ GetCode(r) \/ RemoveCode(r) \/ CreateRefresh(r) \/ CreateAccess(r)
             \/ GetRefresh(r) \/ Refuse(r) \/ RefreshAccess(r) \/ StoreSame(r)
             \/ RemoveOld(r) \/ StoreNew(r)
      PROVE  Inv'
  BY <1>1, AuthorizeAgainStep, AgreeStep, RememberStep, StoreCodeStep, GetCodeStep,
     RemoveCodeStep, CreateRefreshStep, CreateAccessStep, GetRefreshStep, RefuseStep,
     RefreshAccessStep, StoreSameStep, RemoveOldStep, StoreNewStep
<1>2. ASSUME NEW w \in Clearings,
             \/ Withdraw(w) \/ Revoke(w) \/ ClearConsent(w) \/ ClearItem(w)
             \/ Proceed(w) \/ Complete(w) \/ Fail(w)
      PROVE  Inv'
  BY <1>2, WithdrawStep, RevokeStep, ClearConsentStep, ClearItemStep, ProceedStep,
     CompleteStep, FailStep
<1>3. CASE UNCHANGED vars
  <2>1. UNCHANGED <<consent, codes, refresh, access, requests, clearings>> BY <1>3 DEF vars
  <2>2. \A r \in Requests : GoodRequest(requests[r])'
    BY <2>1 DEF Inv, GoodRequest, Active, Taking
  <2>3. \A w \in Clearings : GoodClearing(clearings[w])' BY <2>1 DEF Inv, GoodClearing
  <2> QED BY <2>1, <2>2, <2>3, SameStores DEF Inv
<1> QED BY <1>1, <1>2, <1>3 DEF Next

LEMMA Inductive == Spec => []Inv
BY InitInv, StepInv, PTL DEF Spec

\* Type correctness: no code, refresh token and access token ever share an identifier.
THEOREM TypeCorrect == Spec => []TypeOK
<1>1. Inv => TypeOK
  <2> SUFFICES ASSUME Inv PROVE TypeOK
    OBVIOUS
  <2>1. GoodStores BY DEF Inv
  <2>2. \A a, b \in codes \cup refresh \cup access : a.id = b.id => a = b
    BY <2>1 DEF GoodStores, Unique, Disjoint
  <2>3. requests \in [Requests -> Request]
    <3>1. \A r \in Requests : requests[r] \in Request BY DEF Inv, GoodRequest
    <3> QED BY <3>1 DEF Inv
  <2>4. clearings \in [Clearings -> Clearing]
    <3>1. \A w \in Clearings : clearings[w] \in Clearing BY DEF Inv, GoodClearing
    <3> QED BY <3>1 DEF Inv
  <2> QED BY <2>1, <2>2, <2>3, <2>4 DEF GoodStores, TypeOK
<1> QED BY <1>1, Inductive, PTL

\* However the steps of requests and of withdrawals interleave, what a completed
\* withdrawal has left of the consent and of the codes was in flight during one.
THEOREM GrantsAreWithdrawnHolds == Spec => []GrantsAreWithdrawn
<1>1. Inv => GrantsAreWithdrawn BY DEF Inv
<1> QED BY <1>1, Inductive, PTL

\* The same for refresh tokens, for which revocations count as well.
THEOREM RefreshTokensAreClearedHolds == Spec => []RefreshTokensAreCleared
<1>1. Inv => RefreshTokensAreCleared BY DEF Inv
<1> QED BY <1>1, Inductive, PTL

\* An access token that is left was stored by a request in flight when the access tokens
\* were taken, or comes from a code or a refresh token that had survived before.
THEOREM AccessTokensGoLastHolds == Spec => []AccessTokensGoLast
<1>1. Inv => AccessTokensGoLast BY DEF Inv
<1> QED BY <1>1, Inductive, PTL
================================================================================

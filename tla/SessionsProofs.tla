----------------------------- MODULE SessionsProofs -----------------------------
(***************************************************************************)
(* Proofs about Sessions, for any users, clients, session ids, tabs and    *)
(* options: type correctness, that a session keeps its id, that a client   *)
(* that watches the session notices another user, and that nobody is       *)
(* signed out unasked but for a client of hers.                            *)
(***************************************************************************)
EXTENDS Sessions, TLAPS

------------------------------------------------------------------------------
\* Records

\* The tab t, and no other, has become new.
Became(t, new) == new \in Tab /\ tabs' = [o \in Tabs |-> IF o = t THEN new ELSE tabs[o]]

\* All but what a tab is doing and the cookies it has sent.
Like(new, tab) ==
    /\ new.client = tab.client /\ new.user = tab.user /\ new.message = tab.message
    /\ new.began = tab.began /\ new.sid = tab.sid /\ new.frames = tab.frames

LEMMA NoneIsNobody == None \notin Users /\ None \notin Clients /\ None \notin Sids
BY NoneAssumption

LEMMA EmptyJar ==
    Empty \in Jar /\ Empty.user = None /\ Empty.sid = None /\ Empty.clients = {}
BY DEF Empty, Jar

LEMMA IdleTab ==
    /\ Idle \in Tab /\ Idle.at = "idle" /\ Idle.cookies = Empty /\ Idle.client = None
    /\ Idle.user = None /\ Idle.message = None /\ Idle.began = None /\ Idle.sid = None
    /\ Idle.frames = {} /\ Idle.raced = FALSE
BY EmptyJar DEF Idle, Tab, Exchanges

LEMMA UserSet ==
    ASSUME NEW old \in Jar, NEW u \in Users \cup {None}, NEW new, new = [old EXCEPT !.user = u]
    PROVE  new \in Jar /\ new.user = u /\ new.sid = old.sid /\ new.clients = old.clients
<1>1. new = [user |-> u, sid |-> old.sid, clients |-> old.clients] BY DEF Jar
<1> QED BY <1>1 DEF Jar

\* The cookies a handler looks at.
LEMMA ReadsJar ==
    ASSUME NEW cookies \in Jar, NEW at \in Exchanges
    PROVE  /\ Reads(at, cookies) \in Jar
           /\ Reads(at, cookies).user \in {cookies.user, None}
           /\ at = "authorize" => Reads(at, cookies) = cookies
           /\ at # "endSession" => Reads(at, cookies).sid = cookies.sid
           /\ at = "endSession" => Reads(at, cookies).sid = None
           /\ at \in {"endSession", "logoutPrompt", "logout", "federated"} =>
                 Reads(at, cookies).user = cookies.user
           /\ at = "callback" => Reads(at, cookies).clients = cookies.clients
<1>1. CASE at = "authorize"
  BY <1>1 DEF Reads, Jar
<1>2. CASE at = "callback"
  <2>1. PICK u : u = IF SlidingExpiration THEN cookies.user ELSE None OBVIOUS
  <2>2. PICK new : new = [cookies EXCEPT !.user = u] OBVIOUS
  <2>3. Reads(at, cookies) = new BY <1>2, <2>1, <2>2 DEF Reads
  <2>4. new = [user |-> u, sid |-> cookies.sid, clients |-> cookies.clients]
    BY <2>2 DEF Jar
  <2>5. u \in {cookies.user, None} BY <2>1
  <2> QED BY <1>2, <2>3, <2>4, <2>5 DEF Jar
<1>3. CASE at \in {"logoutPrompt", "logout", "federated"}
  <2>1. PICK new : new = [cookies EXCEPT !.clients = {}] OBVIOUS
  <2>2. Reads(at, cookies) = new BY <1>3, <2>1 DEF Reads
  <2>3. new = [user |-> cookies.user, sid |-> cookies.sid, clients |-> {}]
    BY <2>1 DEF Jar
  <2> QED BY <1>3, <2>2, <2>3 DEF Jar
<1>4. CASE at = "endSession"
  <2>1. PICK new : new = [Empty EXCEPT !.user = cookies.user] OBVIOUS
  <2>2. Reads(at, cookies) = new BY <1>4, <2>1 DEF Reads
  <2>3. new = [user |-> cookies.user, sid |-> None, clients |-> {}]
    BY <2>1 DEF Empty
  <2> QED BY <1>4, <2>2, <2>3 DEF Jar
<1> QED BY <1>1, <1>2, <1>3, <1>4 DEF Exchanges

\* A request takes the cookies of the moment with it.
LEMMA SendIs ==
    ASSUME tabs \in [Tabs -> Tab], jar \in Jar, NEW t \in Tabs, NEW at \in Exchanges,
           NEW tab \in Tab, Send(t, at, tab)
    PROVE  \E new : /\ Became(t, new) /\ Like(new, tab) /\ new.at = at
                    /\ new.raced = tab.raced /\ new.cookies = Reads(at, jar)
<1>1. PICK cookies : cookies = Reads(at, jar) OBVIOUS
<1>2. PICK new : new = [tab EXCEPT !.at = at, !.cookies = cookies] OBVIOUS
<1>3. cookies \in Jar BY <1>1, ReadsJar
<1>4. new = [at |-> at, cookies |-> cookies, client |-> tab.client, user |-> tab.user,
             message |-> tab.message, began |-> tab.began, sid |-> tab.sid,
             frames |-> tab.frames, raced |-> tab.raced]
  BY <1>2 DEF Tab
<1>5. new \in Tab BY <1>3, <1>4 DEF Tab
<1>6. tabs' = [tabs EXCEPT ![t] = new] BY <1>1, <1>2 DEF Send
<1>7. Became(t, new) BY <1>5, <1>6 DEF Became
<1>8. Like(new, tab) /\ new.at = at /\ new.raced = tab.raced /\ new.cookies = cookies
  BY <1>4 DEF Like
<1> QED BY <1>1, <1>7, <1>8

\* A page.
LEMMA ShowIs ==
    ASSUME tabs \in [Tabs -> Tab], NEW t \in Tabs, NEW at \in Pages \cup Exchanges,
           NEW page \in Tab, Show(t, at, page)
    PROVE  \E new : /\ Became(t, new) /\ Like(new, page) /\ new.at = at
                    /\ new.raced = page.raced /\ new.cookies = page.cookies
<1>1. PICK new : new = [page EXCEPT !.at = at] OBVIOUS
<1>2. new = [at |-> at, cookies |-> page.cookies, client |-> page.client, user |-> page.user,
             message |-> page.message, began |-> page.began, sid |-> page.sid,
             frames |-> page.frames, raced |-> page.raced]
  BY <1>1 DEF Tab
<1>3. new \in Tab BY <1>2 DEF Tab
<1>4. tabs' = [tabs EXCEPT ![t] = new] BY <1>1 DEF Show
<1>5. Became(t, new) BY <1>3, <1>4 DEF Became
<1>6. Like(new, page) /\ new.at = at /\ new.raced = page.raced /\ new.cookies = page.cookies
  BY <1>2 DEF Like
<1> QED BY <1>5, <1>6

LEMMA FinishIs ==
    ASSUME tabs \in [Tabs -> Tab], NEW t \in Tabs, Finish(t)
    PROVE  Became(t, Idle)
BY IdleTab DEF Finish, Became

------------------------------------------------------------------------------
\* The inductive invariant

\* Somebody is signed in who did not sign in while a callback was in flight, nor by a
\* ticket that came late, and whose session id has not expired.
Signed == jar.user # None /\ ~late /\ ~revived /\ latest # None

\* Who has this session id has the user of the session.
Agrees(user, sid) == sid # None /\ sid = jar.sid /\ jar.user # None => user = jar.user

\* A sign-out message is one of the user it began with.  A page of a sign-out that has
\* been rendered has another session id than that of somebody who is signed in, so that
\* its callback clears nothing.
GoodTab(q) ==
    /\ q.at = "authorize" => q.client \in Clients /\ q.cookies.user \in Users
    /\ q.message # None => q.began = None \/ q.user = q.began
    /\ q.sid \in issued \cup {None} /\ q.cookies.sid \in issued \cup {None}
    /\ q.at = "loggedOut" /\ Signed => q.sid # jar.sid
    /\ q.at = "callback" /\ Signed => q.cookies.sid # q.sid
    /\ q.at = "authorize" /\ ~revived => Agrees(q.cookies.user, q.cookies.sid)

GoodSession(s) ==
    /\ s.sid \in issued \cup {None}
    /\ ~revived => Agrees(s.user, s.sid)

Inv ==
    /\ TypeOK
    /\ jar.sid \in issued \cup {None}
    /\ Signed => jar.sid # None
    /\ \A t \in Tabs : GoodTab(tabs[t])
    /\ \A s \in sessions : GoodSession(s)

\* The same of what a step leaves.
AgreesAfter(user, sid) == sid # None /\ sid = jar'.sid /\ jar'.user # None => user = jar'.user

GoodAfter(q) ==
    /\ q.at = "authorize" => q.client \in Clients /\ q.cookies.user \in Users
    /\ q.message # None => q.began = None \/ q.user = q.began
    /\ q.sid \in issued' \cup {None} /\ q.cookies.sid \in issued' \cup {None}
    /\ q.at = "loggedOut" /\ Signed' => q.sid # jar'.sid
    /\ q.at = "callback" /\ Signed' => q.cookies.sid # q.sid
    /\ q.at = "authorize" /\ ~revived' => AgreesAfter(q.cookies.user, q.cookies.sid)

\* Nobody signs in, but by a ticket that comes late.
Quiet ==
    /\ jar' \in Jar
    /\ issued' = issued
    /\ revived' \in BOOLEAN /\ (revived => revived')
    /\ jar'.sid \in {jar.sid, None}
    /\ ~revived' => jar'.user \in {jar.user, None}
    /\ Signed' => Signed /\ jar'.sid = jar.sid

\* The tab t goes on as new, and the others may be marked as raced.
Becomes(t, new) ==
    /\ tabs' \in [Tabs -> Tab]
    /\ tabs'[t] = new
    /\ \A o \in Tabs \ {t} :
          /\ Like(tabs'[o], tabs[o]) /\ tabs'[o].at = tabs[o].at
          /\ tabs'[o].cookies = tabs[o].cookies

LEMMA BecameBecomes ==
    ASSUME tabs \in [Tabs -> Tab], NEW t \in Tabs, NEW new, Became(t, new)
    PROVE  Becomes(t, new)
BY DEF Became, Becomes, Like

LEMMA QuietTab ==
    ASSUME Quiet, NEW q, GoodTab(q)
    PROVE  GoodAfter(q)
<1>1. Agrees(q.cookies.user, q.cookies.sid) /\ ~revived'
         => AgreesAfter(q.cookies.user, q.cookies.sid)
  BY DEF Quiet, Agrees, AgreesAfter
<1> QED BY <1>1 DEF Quiet, GoodTab, GoodAfter

LEMMA QuietStep ==
    ASSUME Inv, Quiet, NEW t \in Tabs, NEW new, Becomes(t, new), GoodAfter(new),
           \A s \in sessions' :
              s \in sessions \/ (/\ s \in Session /\ s.sid \in issued \cup {None}
                                 /\ ~revived' => AgreesAfter(s.user, s.sid)),
           latest' \in Sids \cup {None}, late' \in BOOLEAN, excused' \subseteq Clients
    PROVE  Inv'
<1>1. TypeOK' BY DEF Inv, TypeOK, Quiet, Becomes
<1>2. (jar.sid \in issued \cup {None})' BY DEF Inv, Quiet
<1>3. (Signed => jar.sid # None)' BY DEF Inv, Quiet
<1>4. ASSUME NEW o \in Tabs PROVE GoodTab(tabs[o])'
  <2>1. PICK q : q = tabs'[o] OBVIOUS
  <2>2. GoodAfter(q)
    <3>1. CASE o = t BY <2>1, <3>1 DEF Becomes
    <3>2. CASE o # t
      <4>1. PICK old : old = tabs[o] OBVIOUS
      <4>2. GoodAfter(old) BY <4>1, QuietTab DEF Inv
      <4>3. Like(q, old) /\ q.at = old.at /\ q.cookies = old.cookies
        BY <2>1, <3>2, <4>1 DEF Becomes
      <4> QED BY <4>2, <4>3 DEF GoodAfter, Like
    <3> QED BY <3>1, <3>2
  <2> QED BY <2>1, <2>2 DEF GoodAfter, GoodTab, AgreesAfter, Agrees
<1>5. ASSUME NEW s \in sessions' PROVE GoodSession(s)'
  <2>1. s.sid \in issued \cup {None} /\ (~revived' => AgreesAfter(s.user, s.sid))
    BY DEF Inv, GoodSession, Quiet, Agrees, AgreesAfter
  <2> QED BY <2>1 DEF Quiet, GoodSession, Agrees, AgreesAfter
<1> QED BY <1>1, <1>2, <1>3, <1>4, <1>5 DEF Inv

\* A step that leaves the cookies alone is quiet.
LEMMA SameJar ==
    ASSUME Inv, UNCHANGED <<jar, issued, latest, late, revived>>
    PROVE  Quiet
BY DEF Inv, TypeOK, Quiet, Signed

\* So is one that signs the user out, or leaves her as she is, or renews a ticket.
LEMMA UserStays ==
    ASSUME Inv, UNCHANGED <<issued, latest, late>>, jar' \in Jar, jar'.sid = jar.sid,
           \/ revived' = revived /\ jar'.user \in {jar.user, None}
           \/ Renew(jar'.user)
    PROVE  Quiet
BY DEF Inv, TypeOK, Quiet, Signed, Renew

------------------------------------------------------------------------------
\* Requests that are sent

LEMMA SendStep ==
    ASSUME Inv, NEW t \in Tabs, NEW at \in Exchanges \ {"callback"}, NEW tab \in Tab,
           Send(t, at, tab), UNCHANGED <<jar, sessions, issued, latest, late, revived, excused>>,
           at = "authorize" => tab.client \in Clients /\ jar.user \in Users,
           tab.message # None => tab.began = None \/ tab.user = tab.began,
           tab.sid \in issued \cup {None}
    PROVE  Inv'
<1>1. TypeOK BY DEF Inv
<1>2. PICK new : /\ Became(t, new) /\ Like(new, tab) /\ new.at = at
                 /\ new.raced = tab.raced /\ new.cookies = Reads(at, jar)
  BY <1>1, SendIs DEF TypeOK
<1>3. Becomes(t, new) BY <1>1, <1>2, BecameBecomes DEF TypeOK
<1>4. GoodAfter(new)
  <2>1. /\ new.cookies.sid \in {jar.sid, None}
        /\ at = "authorize" => new.cookies = jar
    BY <1>1, <1>2, ReadsJar DEF TypeOK
  <2>2. at # "loggedOut" /\ at # "callback" BY DEF Exchanges
  <2> QED BY <1>2, <2>1, <2>2 DEF Inv, GoodAfter, Like, AgreesAfter
<1> QED BY <1>1, <1>3, <1>4, SameJar, QuietStep DEF TypeOK

LEMMA IdleIsGood == GoodTab(Idle)
BY IdleTab, EmptyJar DEF GoodTab

LEMMA EndSessionStep ==
    ASSUME Inv, NEW t \in Tabs, EndSession(t)
    PROVE  Inv'
<1>1. "endSession" \in Exchanges \ {"callback"} /\ "endSession" # "authorize"
  BY DEF Exchanges
<1>2. CASE Send(t, "endSession", Idle)
  BY <1>1, <1>2, IdleTab, SendStep DEF EndSession
<1>3. ASSUME NEW s \in sessions,
             Send(t, "endSession", [Idle EXCEPT !.client = s.client, !.user = s.user])
      PROVE  Inv'
  <2>1. s \in Session BY DEF Inv, TypeOK
  <2>2. s.client \in Clients /\ s.user \in Users BY <2>1 DEF Session
  <2>3. PICK tab : tab = [Idle EXCEPT !.client = s.client, !.user = s.user] OBVIOUS
  <2>4. tab = [at |-> "idle", cookies |-> Empty, client |-> s.client, user |-> s.user,
               message |-> None, began |-> None, sid |-> None, frames |-> {}, raced |-> FALSE]
    BY <2>3 DEF Idle
  <2>5. tab \in Tab BY <2>2, <2>4, EmptyJar DEF Tab
  <2>6. tab.message = None /\ tab.sid = None BY <2>4
  <2>7. Send(t, "endSession", tab) BY <1>3, <2>3
  <2> QED BY <1>1, <2>5, <2>6, <2>7, SendStep DEF EndSession
<1> QED BY <1>2, <1>3 DEF EndSession

LEMMA VisitLogoutStep ==
    ASSUME Inv, NEW t \in Tabs, VisitLogout(t)
    PROVE  Inv'
<1>1. "logoutPrompt" \in Exchanges \ {"callback"} /\ "logoutPrompt" # "authorize"
  BY DEF Exchanges
<1> QED BY <1>1, IdleTab, SendStep DEF VisitLogout

LEMMA FederatedSignOutStep ==
    ASSUME Inv, NEW t \in Tabs, FederatedSignOut(t)
    PROVE  Inv'
<1>1. "federated" \in Exchanges \ {"callback"} /\ "federated" # "authorize"
  BY DEF Exchanges
<1> QED BY <1>1, IdleTab, SendStep DEF FederatedSignOut

LEMMA ConfirmStep ==
    ASSUME Inv, NEW t \in Tabs, Confirm(t)
    PROVE  Inv'
<1>1. "logout" \in Exchanges \ {"callback"} /\ "logout" # "authorize"
  BY DEF Exchanges
<1>2. PICK tab : tab = tabs[t] OBVIOUS
<1>3. GoodTab(tab) /\ tab \in Tab BY <1>2 DEF Inv, TypeOK
<1>4. Send(t, "logout", tab) BY <1>2 DEF Confirm
<1> QED BY <1>1, <1>3, <1>4, SendStep DEF Confirm, GoodTab

LEMMA ReturnStep ==
    ASSUME Inv, NEW t \in Tabs, Return(t)
    PROVE  Inv'
<1>1. "logoutPrompt" \in Exchanges \ {"callback"} /\ "logoutPrompt" # "authorize"
  BY DEF Exchanges
<1>2. PICK tab : tab = tabs[t] OBVIOUS
<1>3. GoodTab(tab) /\ tab \in Tab BY <1>2 DEF Inv, TypeOK
<1>4. Send(t, "logoutPrompt", tab) BY <1>2 DEF Return
<1> QED BY <1>1, <1>3, <1>4, SendStep DEF Return, GoodTab

\* The two exchanges that race about the list.
LEMMA SendListedIs ==
    ASSUME tabs \in [Tabs -> Tab], jar \in Jar, NEW t \in Tabs, NEW at \in Exchanges,
           NEW tab \in Tab, SendListed(t, at, tab)
    PROVE  LET rivals == {o \in Tabs \ {t} : Races(tabs[o], at, tab.client)} IN
           \E new : /\ Becomes(t, new) /\ Like(new, tab) /\ new.at = at
                    /\ new.raced = (rivals # {}) /\ new.cookies = Reads(at, jar)
                    /\ \A o \in Tabs \ {t} : tabs'[o].raced = (o \in rivals \/ tabs[o].raced)
<1> DEFINE rivals == {o \in Tabs \ {t} : Races(tabs[o], at, tab.client)}
<1>1. PICK cookies : cookies = Reads(at, jar) OBVIOUS
<1>2. PICK raced \in BOOLEAN : raced = (rivals # {}) OBVIOUS
<1>3. PICK new : new = [tab EXCEPT !.at = at, !.cookies = cookies, !.raced = raced] OBVIOUS
<1>4. cookies \in Jar BY <1>1, ReadsJar
<1>5. new = [at |-> at, cookies |-> cookies, client |-> tab.client, user |-> tab.user,
             message |-> tab.message, began |-> tab.began, sid |-> tab.sid,
             frames |-> tab.frames, raced |-> raced]
  BY <1>3 DEF Tab
<1>6. new \in Tab BY <1>2, <1>4, <1>5 DEF Tab
<1>7. tabs' = [o \in Tabs |->
                 IF o = t THEN new
                 ELSE IF o \in rivals THEN [tabs[o] EXCEPT !.raced = TRUE]
                 ELSE tabs[o]]
  BY <1>1, <1>2, <1>3 DEF SendListed
<1>8. new.at = at /\ new.cookies = cookies /\ new.raced = raced /\ Like(new, tab)
  BY <1>5 DEF Like
<1> HIDE DEF rivals
<1>9. ASSUME NEW o \in Tabs \ {t}
      PROVE  /\ tabs'[o] \in Tab /\ Like(tabs'[o], tabs[o]) /\ tabs'[o].at = tabs[o].at
             /\ tabs'[o].cookies = tabs[o].cookies
             /\ tabs'[o].raced = (o \in rivals \/ tabs[o].raced)
  <2>1. PICK old : old = tabs[o] OBVIOUS
  <2>2. old \in Tab BY <2>1
  <2>3. CASE o \notin rivals
    <3>1. old.raced \in BOOLEAN BY <2>2 DEF Tab
    <3> QED BY <1>7, <2>1, <2>2, <2>3, <3>1 DEF Like
  <2>4. CASE o \in rivals
    <3>1. PICK q : q = [old EXCEPT !.raced = TRUE] OBVIOUS
    <3>2. q = [at |-> old.at, cookies |-> old.cookies, client |-> old.client,
               user |-> old.user, message |-> old.message, began |-> old.began,
               sid |-> old.sid, frames |-> old.frames, raced |-> TRUE]
      BY <2>2, <3>1 DEF Tab
    <3>3. q \in Tab BY <2>2, <3>2 DEF Tab
    <3>4. tabs'[o] = q BY <1>7, <2>1, <2>4, <3>1
    <3>5. q.raced = TRUE BY <3>2
    <3>6. (o \in rivals \/ tabs[o].raced) = TRUE BY <2>4
    <3>7. /\ q.at = old.at /\ q.cookies = old.cookies /\ Like(q, old)
      BY <3>2 DEF Like
    <3> QED BY <2>1, <3>3, <3>4, <3>5, <3>6, <3>7
  <2> QED BY <2>3, <2>4
<1>10. tabs' \in [Tabs -> Tab] /\ tabs'[t] = new
  <2>1. tabs'[t] = new BY <1>7
  <2>2. \A o \in Tabs : tabs'[o] \in Tab BY <1>6, <1>9, <2>1
  <2> QED BY <1>7, <2>1, <2>2
<1>11. Becomes(t, new) BY <1>9, <1>10 DEF Becomes
<1>12. \E n : /\ Becomes(t, n) /\ Like(n, tab) /\ n.at = at
              /\ n.raced = (rivals # {}) /\ n.cookies = Reads(at, jar)
              /\ \A o \in Tabs \ {t} : tabs'[o].raced = (o \in rivals \/ tabs[o].raced)
  BY <1>1, <1>2, <1>8, <1>9, <1>11
<1> QED BY <1>12 DEF rivals

LEMMA AuthorizeIs ==
    ASSUME Inv, NEW t \in Tabs, NEW c \in Clients, Authorize(t, c)
    PROVE  \E tab \in Tab : /\ SendListed(t, "authorize", tab) /\ tab.client = c
                            /\ tab.message = None /\ tab.sid = None /\ tab.frames = {}
<1>1. PICK tab : tab = [Idle EXCEPT !.client = c] OBVIOUS
<1>2. tab = [at |-> "idle", cookies |-> Empty, client |-> c, user |-> None,
             message |-> None, began |-> None, sid |-> None, frames |-> {}, raced |-> FALSE]
  BY <1>1 DEF Idle
<1>3. tab \in Tab BY <1>2, EmptyJar DEF Tab
<1>4. SendListed(t, "authorize", tab) BY <1>1 DEF Authorize
<1>5. tab.client = c /\ tab.message = None /\ tab.sid = None /\ tab.frames = {} BY <1>2
<1> QED BY <1>3, <1>4, <1>5

LEMMA AuthorizeStep ==
    ASSUME Inv, NEW t \in Tabs, NEW c \in Clients, Authorize(t, c)
    PROVE  Inv'
<1>1. TypeOK BY DEF Inv
<1>2. PICK tab \in Tab : /\ SendListed(t, "authorize", tab) /\ tab.client = c
                         /\ tab.message = None /\ tab.sid = None
  BY AuthorizeIs
<1>3. "authorize" \in Exchanges /\ "authorize" # "loggedOut" /\ "authorize" # "callback"
  BY DEF Exchanges
<1>4. PICK new : /\ Becomes(t, new) /\ Like(new, tab) /\ new.at = "authorize"
                 /\ new.cookies = Reads("authorize", jar)
  BY <1>1, <1>2, <1>3, SendListedIs DEF TypeOK
<1>5. new.cookies = jar BY <1>1, <1>3, <1>4, ReadsJar DEF TypeOK
<1>6. jar.user \in Users BY <1>1 DEF Authorize, TypeOK, Jar
<1>7. UNCHANGED <<jar, sessions, issued, latest, late, revived, excused>> BY DEF Authorize
<1>8. GoodAfter(new)
  BY <1>2, <1>3, <1>4, <1>5, <1>6, <1>7 DEF Inv, GoodAfter, Like, AgreesAfter
<1> QED BY <1>1, <1>4, <1>7, <1>8, SameJar, QuietStep DEF TypeOK

LEMMA LoadCallbackStep ==
    ASSUME Inv, NEW t \in Tabs, LoadCallback(t)
    PROVE  Inv'
<1>1. TypeOK BY DEF Inv
<1>2. PICK tab : tab = tabs[t] OBVIOUS
<1>3. tab \in Tab /\ GoodTab(tab) /\ tab.at = "loggedOut"
  BY <1>2 DEF Inv, TypeOK, LoadCallback, At
<1>4. SendListed(t, "callback", tab) BY <1>2 DEF LoadCallback
<1>5. "callback" \in Exchanges /\ "callback" # "loggedOut" /\ "authorize" # "callback"
      /\ "callback" # "endSession"
  BY DEF Exchanges
<1>6. PICK new : /\ Becomes(t, new) /\ Like(new, tab) /\ new.at = "callback"
                 /\ new.cookies = Reads("callback", jar)
  BY <1>1, <1>3, <1>4, <1>5, SendListedIs DEF TypeOK
<1>7. new.cookies.sid = jar.sid BY <1>1, <1>5, <1>6, ReadsJar DEF TypeOK
<1>8. UNCHANGED <<jar, sessions, issued, latest, late, revived, excused>> BY DEF LoadCallback
<1>9. Signed' = Signed BY <1>8 DEF Signed
<1>10. GoodAfter(new)
  BY <1>3, <1>5, <1>6, <1>7, <1>8, <1>9 DEF Inv, GoodTab, GoodAfter, Like
<1> QED BY <1>1, <1>6, <1>8, <1>10, SameJar, QuietStep DEF TypeOK

------------------------------------------------------------------------------
\* Responses that are delivered

LEMMA UsersAfter ==
    ASSUME jar \in Jar, NEW cookies \in Jar, NEW u \in UserAfter(cookies)
    PROVE  u \in Users \cup {None}
BY DEF UserAfter, Jar

LEMMA ListsAfter ==
    ASSUME jar \in Jar, NEW cookies \in Jar, NEW c \in Clients
    PROVE  ListAfter(cookies, c) \subseteq Clients
BY DEF ListAfter, Jar

\* The new session is that of the user whom the response found.
LEMMA DeliverAuthorizeStep ==
    ASSUME Inv, NEW t \in Tabs, DeliverAuthorize(t)
    PROVE  Inv'
<1>1. TypeOK BY DEF Inv
<1>2. PICK tab : tab = tabs[t] OBVIOUS
<1>3. tab \in Tab /\ GoodTab(tab) /\ tab.at = "authorize"
  BY <1>2 DEF Inv, TypeOK, DeliverAuthorize, At
<1>4. tab.cookies \in Jar /\ tab.client \in Clients /\ tab.cookies.user \in Users
  BY <1>3 DEF Tab, GoodTab
<1>5. PICK list : list = ListAfter(tab.cookies, tab.client) OBVIOUS
<1>6. list \subseteq Clients BY <1>1, <1>4, <1>5, ListsAfter DEF TypeOK
<1>7. PICK u \in UserAfter(tab.cookies) :
            jar' = [jar EXCEPT !.user = u, !.clients = list] /\ Renew(u)
  BY <1>2, <1>5 DEF DeliverAuthorize
<1>8. u \in Users \cup {None}
  BY <1>1, <1>4, UsersAfter DEF TypeOK
<1>9. jar' = [user |-> u, sid |-> jar.sid, clients |-> list] BY <1>1, <1>7 DEF TypeOK, Jar
<1>10. jar' \in Jar /\ jar'.sid = jar.sid /\ jar'.user = u
  BY <1>1, <1>6, <1>8, <1>9 DEF TypeOK, Jar
<1>11. /\ UNCHANGED <<issued, latest, late>> /\ Finish(t)
       /\ excused' = IF tab.raced THEN excused \cup {tab.client} ELSE excused \ {tab.client}
       /\ sessions' = {s \in sessions : s.client # tab.client} \cup {SessionOf(tab)}
  BY <1>2 DEF DeliverAuthorize
<1>12. Quiet BY <1>7, <1>10, <1>11, UserStays
<1>13. /\ SessionOf(tab) \in Session
       /\ SessionOf(tab).user = tab.cookies.user /\ SessionOf(tab).sid = tab.cookies.sid
  BY <1>4 DEF SessionOf, Session, Jar
<1>14. GoodAfter(tab) BY <1>3, <1>12, QuietTab
<1>15. /\ SessionOf(tab).sid \in issued \cup {None}
       /\ ~revived' => AgreesAfter(SessionOf(tab).user, SessionOf(tab).sid)
  BY <1>3, <1>11, <1>13, <1>14 DEF GoodAfter
<1>16. \A s \in sessions' :
          s \in sessions \/ (/\ s \in Session /\ s.sid \in issued \cup {None}
                             /\ ~revived' => AgreesAfter(s.user, s.sid))
  BY <1>11, <1>13, <1>15
<1>17. latest' \in Sids \cup {None} /\ late' \in BOOLEAN /\ excused' \subseteq Clients
  BY <1>1, <1>4, <1>11 DEF TypeOK
<1>18. Becomes(t, Idle) BY <1>1, <1>11, FinishIs, BecameBecomes DEF TypeOK
<1>19. GoodAfter(Idle) BY <1>12, IdleIsGood, QuietTab
<1> QED BY <1>12, <1>16, <1>17, <1>18, <1>19, QuietStep

\* Pages that are shown, while the user may be signed out.
LEMMA ShowStep ==
    ASSUME Inv, NEW t \in Tabs, NEW at \in Pages \cup Exchanges, NEW page \in Tab,
           Show(t, at, page), Quiet,
           at # "authorize",
           page.message # None => page.began = None \/ page.user = page.began,
           page.sid \in issued \cup {None} /\ page.cookies.sid \in issued \cup {None},
           at = "loggedOut" => ~Signed',
           at # "callback",
           UNCHANGED <<sessions, latest, late, excused>>
    PROVE  Inv'
<1>1. TypeOK BY DEF Inv
<1>2. PICK new : /\ Became(t, new) /\ Like(new, page) /\ new.at = at
                 /\ new.cookies = page.cookies
  BY <1>1, ShowIs DEF TypeOK
<1>3. Becomes(t, new) BY <1>1, <1>2, BecameBecomes DEF TypeOK
<1>4. GoodAfter(new) BY <1>2 DEF GoodAfter, Like, Quiet
<1> QED BY <1>1, <1>3, <1>4, QuietStep DEF TypeOK

LEMMA FinishStep ==
    ASSUME Inv, NEW t \in Tabs, Finish(t), Quiet, sessions' \subseteq sessions,
           latest' \in Sids \cup {None}, UNCHANGED late, excused' \subseteq Clients
    PROVE  Inv'
<1>1. TypeOK BY DEF Inv
<1>2. Becomes(t, Idle) BY <1>1, FinishIs, BecameBecomes DEF TypeOK
<1>3. GoodAfter(Idle) BY IdleIsGood, QuietTab
<1> QED BY <1>1, <1>2, <1>3, QuietStep DEF TypeOK

\* The request for the logout page carries a message only for the user it is about.
LEMMA LogoutRequestIs ==
    ASSUME NEW tab \in Tab, NEW cookies \in Jar, NEW page, page = LogoutRequest(tab, cookies)
    PROVE  /\ page \in Tab /\ page.cookies = cookies /\ page.sid = None /\ page.frames = {}
           /\ page.message # None => page.began = None \/ page.user = page.began
<1> DEFINE message == MessageFor(tab)
<1>1. tab.client \in Clients \cup {None} /\ tab.user \in Users \cup {None} /\ tab.cookies \in Jar
  BY DEF Tab
<1>2. tab.cookies.user \in Users \cup {None} BY <1>1 DEF Jar
<1>3. /\ message \in Clients \cup {None}
      /\ message # None => tab.cookies.user = None \/ tab.user = tab.cookies.user
  BY <1>1 DEF MessageFor
<1>4. CASE message = None
  <2>1. page = [Idle EXCEPT !.cookies = cookies] BY <1>4 DEF LogoutRequest
  <2>2. page = [at |-> "idle", cookies |-> cookies, client |-> None, user |-> None,
                message |-> None, began |-> None, sid |-> None, frames |-> {}, raced |-> FALSE]
    BY <2>1 DEF Idle
  <2> QED BY <2>2 DEF Tab
<1>5. CASE message # None
  <2>1. page = [Idle EXCEPT !.cookies = cookies, !.message = message,
                            !.user = tab.user, !.began = tab.cookies.user]
    BY <1>5 DEF LogoutRequest
  <2> HIDE DEF message
  <2>2. page = [at |-> "idle", cookies |-> cookies, client |-> None, user |-> tab.user,
                message |-> message, began |-> tab.cookies.user, sid |-> None, frames |-> {},
                raced |-> FALSE]
    BY <2>1 DEF Idle
  <2> QED BY <1>1, <1>2, <1>3, <2>2 DEF Tab
<1> QED BY <1>4, <1>5

LEMMA DeliverEndSessionStep ==
    ASSUME Inv, NEW t \in Tabs, DeliverEndSession(t)
    PROVE  Inv'
<1>1. TypeOK BY DEF Inv
<1>2. PICK tab : tab = tabs[t] OBVIOUS
<1>3. tab \in Tab /\ GoodTab(tab) BY <1>2 DEF Inv, TypeOK
<1>4. tab.cookies \in Jar BY <1>3 DEF Tab
<1>5. PICK u \in UserAfter(tab.cookies) :
        /\ jar' = [jar EXCEPT !.user = u]
        /\ Renew(u)
        /\ Show(t, "logoutPrompt", LogoutRequest(tab, Reads("logoutPrompt", jar')))
  BY <1>2 DEF DeliverEndSession
<1>6. UNCHANGED <<sessions, issued, latest, late, excused>> BY DEF DeliverEndSession
<1>7. PICK next : next = [jar EXCEPT !.user = u] OBVIOUS
<1>8. /\ u \in Users \cup {None}
      /\ next \in Jar /\ next.user = u /\ next.sid = jar.sid
  BY <1>1, <1>4, <1>7, UsersAfter, UserSet DEF TypeOK
<1>9. Quiet BY <1>5, <1>6, <1>7, <1>8, UserStays
<1>10. PICK cookies : cookies = Reads("logoutPrompt", next) OBVIOUS
<1>11. "logoutPrompt" \in Exchanges /\ "logoutPrompt" # "endSession"
  BY DEF Exchanges
<1>12. cookies \in Jar /\ cookies.sid = jar.sid BY <1>8, <1>10, <1>11, ReadsJar
<1>13. PICK page : page = LogoutRequest(tab, cookies) OBVIOUS
<1>14. Show(t, "logoutPrompt", page) BY <1>5, <1>7, <1>10, <1>13
<1>15. /\ page \in Tab /\ page.cookies = cookies /\ page.sid = None
       /\ page.message # None => page.began = None \/ page.user = page.began
  BY <1>3, <1>12, <1>13, LogoutRequestIs
<1>16. page.cookies.sid \in issued \cup {None} BY <1>12, <1>15 DEF Inv
<1> QED BY <1>6, <1>9, <1>11, <1>14, <1>15, <1>16, ShowStep

LEMMA LoggedOutPageIs ==
    ASSUME NEW tab \in Tab, NEW page, page = LoggedOutPage(tab)
    PROVE  /\ page \in Tab /\ page.cookies = Empty /\ page.message = tab.message
           /\ page.began = None /\ page.sid = tab.cookies.sid /\ page.frames = {}
<1>1. tab.message \in Clients \cup {None} /\ tab.cookies \in Jar BY DEF Tab
<1>2. tab.cookies.sid \in Sids \cup {None} BY <1>1 DEF Jar
<1>3. page = [Idle EXCEPT !.message = tab.message, !.sid = tab.cookies.sid] BY DEF LoggedOutPage
<1>4. page = [at |-> "idle", cookies |-> Empty, client |-> None, user |-> None,
              message |-> tab.message, began |-> None, sid |-> tab.cookies.sid,
              frames |-> {}, raced |-> FALSE]
  BY <1>3 DEF Idle
<1> QED BY <1>1, <1>2, <1>4, EmptyJar DEF Tab

\* A tab that has nothing in flight.
LEMMA WithoutCookies ==
    ASSUME NEW tab \in Tab, NEW page, page = [tab EXCEPT !.cookies = Empty]
    PROVE  page \in Tab /\ Like(page, tab) /\ page.at = tab.at /\ page.cookies = Empty
<1>1. page = [at |-> tab.at, cookies |-> Empty, client |-> tab.client, user |-> tab.user,
              message |-> tab.message, began |-> tab.began, sid |-> tab.sid,
              frames |-> tab.frames, raced |-> tab.raced]
  BY DEF Tab
<1> QED BY <1>1, EmptyJar DEF Tab, Like

LEMMA LoggedOutStep ==
    ASSUME Inv, NEW t \in Tabs, LoggedOut(t),
           UNCHANGED <<sessions, issued, latest, late, revived, excused>>
    PROVE  Inv'
<1>1. TypeOK BY DEF Inv
<1>2. PICK tab : tab = tabs[t] OBVIOUS
<1>3. tab \in Tab /\ GoodTab(tab) BY <1>2 DEF Inv, TypeOK
<1>4. jar' = [jar EXCEPT !.user = None] BY DEF LoggedOut
<1>5. jar' \in Jar /\ jar'.user = None /\ jar'.sid = jar.sid
  BY <1>1, <1>4, UserSet DEF TypeOK
<1>6. Quiet BY <1>5, UserStays
<1>7. ~Signed' BY <1>5 DEF Signed
<1>8. CASE Show(t, "provider", [tab EXCEPT !.cookies = Empty])
  <2>1. PICK page : page = [tab EXCEPT !.cookies = Empty] OBVIOUS
  <2>2. page \in Tab /\ Like(page, tab) /\ page.cookies = Empty BY <1>3, <2>1, WithoutCookies
  <2>3. Show(t, "provider", page) BY <1>8, <2>1
  <2>4. /\ page.message # None => page.began = None \/ page.user = page.began
        /\ page.sid \in issued \cup {None} /\ page.cookies.sid \in issued \cup {None}
    BY <1>3, <2>2, EmptyJar DEF GoodTab, Like
  <2>5. "provider" \in Pages \cup Exchanges BY DEF Pages
  <2> QED BY <1>6, <2>2, <2>3, <2>4, <2>5, ShowStep
<1>9. CASE Show(t, "loggedOut", LoggedOutPage(tab))
  <2>1. PICK page : page = LoggedOutPage(tab) OBVIOUS
  <2>2. /\ page \in Tab /\ page.cookies = Empty /\ page.began = None
        /\ page.sid = tab.cookies.sid
    BY <1>3, <2>1, LoggedOutPageIs
  <2>3. Show(t, "loggedOut", page) BY <1>9, <2>1
  <2>4. page.sid \in issued \cup {None} /\ page.cookies.sid \in issued \cup {None}
    BY <1>3, <2>2, EmptyJar DEF GoodTab
  <2>5. "loggedOut" \in Pages \cup Exchanges BY DEF Pages
  <2> QED BY <1>6, <1>7, <2>2, <2>3, <2>4, <2>5, ShowStep
<1> QED BY <1>2, <1>8, <1>9 DEF LoggedOut

LEMMA DeliverLogoutStep ==
    ASSUME Inv, NEW t \in Tabs, DeliverLogout(t)
    PROVE  Inv'
BY LoggedOutStep DEF DeliverLogout

LEMMA DeliverLogoutPromptStep ==
    ASSUME Inv, NEW t \in Tabs, DeliverLogoutPrompt(t)
    PROVE  Inv'
<1>1. TypeOK BY DEF Inv
<1>2. PICK tab : tab = tabs[t] OBVIOUS
<1>3. tab \in Tab /\ GoodTab(tab) BY <1>2 DEF Inv, TypeOK
<1>4. UNCHANGED <<sessions, issued, latest, late, excused>> BY DEF DeliverLogoutPrompt
<1>5. CASE LoggedOut(t) /\ UNCHANGED revived BY <1>4, <1>5, LoggedOutStep
<1>6. CASE \E u \in UserAfter(tab.cookies) :
              /\ jar' = [jar EXCEPT !.user = u]
              /\ Renew(u)
              /\ Show(t, "promptPage", [tab EXCEPT !.cookies = Empty])
  <2>1. PICK u \in UserAfter(tab.cookies) :
          /\ jar' = [jar EXCEPT !.user = u]
          /\ Renew(u)
          /\ Show(t, "promptPage", [tab EXCEPT !.cookies = Empty])
    BY <1>6
  <2>2. tab.cookies \in Jar BY <1>3 DEF Tab
  <2>3. u \in Users \cup {None}
    BY <1>1, <2>2, UsersAfter DEF TypeOK
  <2>4. jar' \in Jar /\ jar'.user = u /\ jar'.sid = jar.sid
    BY <1>1, <2>1, <2>3, UserSet DEF TypeOK
  <2>5. Quiet BY <1>4, <2>1, <2>4, UserStays
  <2>6. PICK page : page = [tab EXCEPT !.cookies = Empty] OBVIOUS
  <2>7. page \in Tab /\ Like(page, tab) /\ page.cookies = Empty BY <1>3, <2>6, WithoutCookies
  <2>8. Show(t, "promptPage", page) BY <2>1, <2>6
  <2>9. /\ page.message # None => page.began = None \/ page.user = page.began
        /\ page.sid \in issued \cup {None} /\ page.cookies.sid \in issued \cup {None}
    BY <1>3, <2>7, EmptyJar DEF GoodTab, Like
  <2>10. "promptPage" \in Pages \cup Exchanges BY DEF Pages
  <2> QED BY <1>4, <2>5, <2>7, <2>8, <2>9, <2>10, ShowStep
<1> QED BY <1>2, <1>5, <1>6 DEF DeliverLogoutPrompt

LEMMA DeliverFederatedSignOutStep ==
    ASSUME Inv, NEW t \in Tabs, DeliverFederatedSignOut(t)
    PROVE  Inv'
<1>1. TypeOK BY DEF Inv
<1>2. PICK tab : tab = tabs[t] OBVIOUS
<1>3. tab \in Tab /\ GoodTab(tab) BY <1>2 DEF Inv, TypeOK
<1>4. /\ UNCHANGED <<sessions, issued, latest, late, revived, excused>>
      /\ jar' = [jar EXCEPT !.user = None]
  BY DEF DeliverFederatedSignOut
<1>5. jar' \in Jar /\ jar'.user = None /\ jar'.sid = jar.sid
  BY <1>1, <1>4, UserSet DEF TypeOK
<1>6. Quiet BY <1>4, <1>5, UserStays
<1>7. ~Signed' BY <1>5 DEF Signed
<1>8. CASE Finish(t)
  BY <1>1, <1>4, <1>6, <1>8, FinishStep DEF TypeOK
<1>9. CASE Show(t, "loggedOut", LoggedOutPage(tab))
  <2>1. PICK page : page = LoggedOutPage(tab) OBVIOUS
  <2>2. /\ page \in Tab /\ page.cookies = Empty /\ page.began = None
        /\ page.sid = tab.cookies.sid
    BY <1>3, <2>1, LoggedOutPageIs
  <2>3. Show(t, "loggedOut", page) BY <1>9, <2>1
  <2>4. page.sid \in issued \cup {None} /\ page.cookies.sid \in issued \cup {None}
    BY <1>3, <2>2, EmptyJar DEF GoodTab
  <2>5. "loggedOut" \in Pages \cup Exchanges BY DEF Pages
  <2> QED BY <1>4, <1>6, <1>7, <2>2, <2>3, <2>4, <2>5, ShowStep
<1> QED BY <1>2, <1>8, <1>9 DEF DeliverFederatedSignOut

------------------------------------------------------------------------------
\* Notification, and the end of a page

LEMMA ClearedJar ==
    ASSUME jar \in Jar, NEW cookies, NEW u \in Users \cup {None}
    PROVE  /\ Cleared(cookies, u) \in Jar /\ Cleared(cookies, u).user = u
           /\ Cleared(cookies, u).sid = None
           /\ Cleared(cookies, u).clients = IF cookies.clients = {} THEN jar.clients ELSE {}
<1>1. PICK list : list = IF cookies.clients = {} THEN jar.clients ELSE {} OBVIOUS
<1>2. PICK new : new = Cleared(cookies, u) OBVIOUS
<1>3. new = [user |-> u, sid |-> None, clients |-> list]
  BY <1>1, <1>2 DEF Cleared, Jar
<1>4. list \subseteq Clients BY <1>1 DEF Jar
<1> QED BY <1>1, <1>2, <1>3, <1>4 DEF Jar

\* Where the callback clears the session id, nobody is signed in, or only who signed in
\* while it was in flight.
LEMMA DeliverCallbackStep ==
    ASSUME Inv, NEW t \in Tabs, DeliverCallback(t)
    PROVE  Inv'
<1>1. TypeOK BY DEF Inv
<1>2. PICK tab : tab = tabs[t] OBVIOUS
<1>3. tab \in Tab /\ GoodTab(tab) /\ tab.at = "callback"
  BY <1>2 DEF Inv, TypeOK, DeliverCallback, At
<1>4. UNCHANGED <<sessions, issued, latest, late, excused>> BY DEF DeliverCallback
<1>5. PICK frames : frames = FramesFor(tab.cookies) OBVIOUS
<1>6. frames \in SUBSET Clients BY <1>5, ClientAssumption DEF FramesFor
<1>7. PICK u \in UserAfter(tab.cookies) :
          /\ jar' = IF ValidSid(tab) THEN Cleared(tab.cookies, u) ELSE [jar EXCEPT !.user = u]
          /\ Renew(u)
  BY <1>2 DEF DeliverCallback
<1>8. u \in Users \cup {None} BY <1>1, <1>3, UsersAfter DEF TypeOK, Tab
<1>9. Quiet
  <2>1. CASE ~ValidSid(tab)
    <3>1. jar' \in Jar /\ jar'.user = u /\ jar'.sid = jar.sid
      BY <1>1, <1>7, <1>8, <2>1, UserSet DEF TypeOK
    <3> QED BY <1>4, <1>7, <3>1, UserStays
  <2>2. CASE ValidSid(tab)
    <3>1. jar' \in Jar /\ jar'.user = u /\ jar'.sid = None
      BY <1>1, <1>7, <1>8, <2>2, ClearedJar DEF TypeOK
    <3>2. ~Signed BY <1>3, <2>2 DEF ValidSid, GoodTab
    <3>3. Signed' => Signed BY <1>4, <1>7, <3>1 DEF Signed, Renew
    <3> QED BY <1>1, <1>4, <1>7, <3>1, <3>2, <3>3 DEF Quiet, Renew, TypeOK
  <2> QED BY <2>1, <2>2
<1>10. CASE Finish(t)
  BY <1>1, <1>4, <1>9, <1>10, FinishStep DEF TypeOK
<1>11. CASE Show(t, "frames", [tab EXCEPT !.cookies = Empty, !.frames = frames, !.raced = FALSE])
  <2>1. PICK page : page = [tab EXCEPT !.cookies = Empty, !.frames = frames, !.raced = FALSE]
    OBVIOUS
  <2>2. /\ page \in Tab /\ page.cookies = Empty /\ page.message = tab.message
        /\ page.user = tab.user /\ page.began = tab.began /\ page.sid = tab.sid
    <3>1. page = [at |-> tab.at, cookies |-> Empty, client |-> tab.client,
                  user |-> tab.user, message |-> tab.message, began |-> tab.began,
                  sid |-> tab.sid, frames |-> frames, raced |-> FALSE]
      BY <1>3, <2>1 DEF Tab
    <3> QED BY <1>3, <1>6, <3>1, EmptyJar DEF Tab
  <2>3. Show(t, "frames", page) BY <1>11, <2>1
  <2>4. /\ page.message # None => page.began = None \/ page.user = page.began
        /\ page.sid \in issued \cup {None} /\ page.cookies.sid \in issued \cup {None}
    BY <1>3, <2>2, EmptyJar DEF GoodTab
  <2>5. "frames" \in Pages \cup Exchanges BY DEF Pages
  <2> QED BY <1>4, <1>9, <2>2, <2>3, <2>4, <2>5, ShowStep
<1> QED BY <1>2, <1>5, <1>10, <1>11 DEF DeliverCallback

LEMMA NotifyStep ==
    ASSUME Inv, NEW t \in Tabs, NEW c \in Clients, Notify(t, c)
    PROVE  Inv'
<1>1. TypeOK BY DEF Inv
<1>2. PICK tab : tab = tabs[t] OBVIOUS
<1>3. tab \in Tab /\ GoodTab(tab) /\ tab.at = "frames"
  BY <1>2 DEF Inv, TypeOK, Notify, At
<1>4. UNCHANGED <<jar, issued, latest, late, revived, excused>> /\ sessions' \subseteq sessions
  BY DEF Notify
<1>5. Quiet BY <1>4, SameJar
<1>6. CASE Finish(t)
  BY <1>1, <1>4, <1>5, <1>6, FinishStep DEF TypeOK
<1>7. CASE tabs' = [tabs EXCEPT ![t].frames = @ \ {c}]
  <2>1. PICK rest : rest = tab.frames \ {c} OBVIOUS
  <2>2. PICK new : new = [tab EXCEPT !.frames = rest] OBVIOUS
  <2>3. tab.frames \subseteq Clients BY <1>3 DEF Tab
  <2>4. new = [at |-> tab.at, cookies |-> tab.cookies, client |-> tab.client,
               user |-> tab.user, message |-> tab.message, began |-> tab.began,
               sid |-> tab.sid, frames |-> rest, raced |-> tab.raced]
    BY <1>3, <2>2 DEF Tab
  <2>5. new \in Tab BY <1>3, <2>1, <2>3, <2>4 DEF Tab
  <2>6. tabs' = [tabs EXCEPT ![t] = new] BY <1>2, <1>7, <2>1, <2>2
  <2>7. Becomes(t, new) BY <1>1, <2>5, <2>6, BecameBecomes DEF TypeOK, Became
  <2>8. GoodAfter(tab) BY <1>3, <1>5, QuietTab
  <2>9. GoodAfter(new) BY <2>4, <2>8 DEF GoodAfter
  <2> QED BY <1>1, <1>4, <1>5, <2>7, <2>9, QuietStep DEF TypeOK
<1> QED BY <1>6, <1>7 DEF Notify

LEMMA RedirectStep ==
    ASSUME Inv, NEW t \in Tabs, Redirect(t)
    PROVE  Inv'
<1>1. TypeOK BY DEF Inv
<1>2. PICK tab : tab = tabs[t] OBVIOUS
<1>3. tab \in Tab BY <1>1, <1>2 DEF TypeOK
<1>4. tab.frames \subseteq Clients BY <1>3 DEF Tab
<1>5. /\ Finish(t) /\ excused' = excused \cup tab.frames
      /\ UNCHANGED <<jar, sessions, issued, latest, late, revived>>
  BY <1>2 DEF Redirect
<1>6. Quiet BY <1>5, SameJar
<1> QED BY <1>1, <1>4, <1>5, <1>6, FinishStep DEF TypeOK

LEMMA LeaveStep ==
    ASSUME Inv, NEW t \in Tabs, Leave(t)
    PROVE  Inv'
<1>1. TypeOK BY DEF Inv
<1>2. Finish(t) /\ UNCHANGED <<jar, sessions, issued, latest, late, revived, excused>> BY DEF Leave
<1>3. Quiet BY <1>2, SameJar
<1> QED BY <1>1, <1>2, <1>3, FinishStep DEF TypeOK

------------------------------------------------------------------------------
\* The browser and the clock

\* The tabs go on as they are.
LEMMA TabsStay ==
    ASSUME Inv, Quiet, UNCHANGED <<tabs, sessions, late, excused>>,
           latest' \in Sids \cup {None}
    PROVE  Inv'
<1>1. TypeOK' BY DEF Inv, TypeOK, Quiet
<1>2. ASSUME NEW o \in Tabs PROVE GoodTab(tabs[o])'
  <2>1. PICK q : q = tabs[o] OBVIOUS
  <2>2. GoodAfter(q) BY <2>1, QuietTab DEF Inv
  <2> QED BY <2>1, <2>2 DEF GoodAfter, GoodTab, AgreesAfter, Agrees
<1>3. ASSUME NEW s \in sessions' PROVE GoodSession(s)'
  BY DEF Inv, GoodSession, Quiet, Agrees
<1> QED BY <1>1, <1>2, <1>3 DEF Inv, Quiet

LEMMA TicketExpiresStep ==
    ASSUME Inv, TicketExpires
    PROVE  Inv'
<1>1. TypeOK BY DEF Inv
<1>2. /\ jar' = [jar EXCEPT !.user = None]
      /\ UNCHANGED <<tabs, sessions, issued, latest, late, revived, excused>>
  BY DEF TicketExpires
<1>3. jar' \in Jar /\ jar'.user = None /\ jar'.sid = jar.sid
  BY <1>1, <1>2, UserSet DEF TypeOK
<1>4. Quiet BY <1>2, <1>3, UserStays
<1> QED BY <1>1, <1>2, <1>4, TabsStay DEF TypeOK

LEMMA SidExpiresStep ==
    ASSUME Inv, SidExpires
    PROVE  Inv'
<1>1. TypeOK BY DEF Inv
<1>2. /\ jar' = [jar EXCEPT !.sid = None] /\ latest' = None
      /\ UNCHANGED <<tabs, sessions, issued, late, revived, excused>>
  BY DEF SidExpires
<1>3. jar' = [user |-> jar.user, sid |-> None, clients |-> jar.clients]
  BY <1>1, <1>2 DEF TypeOK, Jar
<1>4. jar' \in Jar /\ jar'.user = jar.user /\ jar'.sid = None
  BY <1>1, <1>3 DEF TypeOK, Jar
<1>5. ~Signed' BY <1>2 DEF Signed
<1>6. Quiet BY <1>1, <1>2, <1>4, <1>5 DEF Quiet, TypeOK
<1> QED BY <1>2, <1>6, TabsStay

LEMMA RestartBrowserStep ==
    ASSUME Inv, RestartBrowser
    PROVE  Inv'
<1>1. TypeOK BY DEF Inv
<1>2. /\ jar' = IF Persistent THEN [jar EXCEPT !.clients = {}] ELSE Empty
      /\ tabs' = [t \in Tabs |-> Idle]
      /\ excused' = excused \cup {s.client : s \in sessions}
      /\ UNCHANGED <<sessions, issued, latest, late, revived>>
  BY DEF RestartBrowser
<1>3. /\ jar' \in Jar
      /\ \/ jar'.user = jar.user /\ jar'.sid = jar.sid
         \/ jar'.user = None /\ jar'.sid = None
  <2>1. CASE Persistent
    <3>1. jar' = [user |-> jar.user, sid |-> jar.sid, clients |-> {}]
      BY <1>1, <1>2, <2>1 DEF TypeOK, Jar
    <3> QED BY <1>1, <3>1 DEF TypeOK, Jar
  <2>2. CASE ~Persistent BY <1>2, <2>2, EmptyJar
  <2> QED BY <2>1, <2>2
<1>4. Quiet BY <1>1, <1>2, <1>3 DEF TypeOK, Quiet, Signed
<1>5. {s.client : s \in sessions} \subseteq Clients BY <1>1 DEF TypeOK, Session
<1>6. TypeOK' BY <1>1, <1>2, <1>3, <1>5, IdleTab DEF TypeOK
<1>7. GoodAfter(Idle) BY <1>4, IdleIsGood, QuietTab
<1>8. ASSUME NEW o \in Tabs PROVE GoodTab(tabs[o])'
  <2>1. tabs'[o] = Idle BY <1>2
  <2> QED BY <1>7, <2>1 DEF GoodAfter, GoodTab, AgreesAfter, Agrees
<1>9. ASSUME NEW s \in sessions' PROVE GoodSession(s)'
  BY <1>2, <1>4 DEF Inv, GoodSession, Quiet, Agrees
<1> QED BY <1>4, <1>6, <1>8, <1>9 DEF Inv, Quiet

\* The new session id is in no page and in no token.
LEMMA SignInStep ==
    ASSUME Inv, NEW t \in Tabs, NEW u \in Users, SignIn(t, u)
    PROVE  Inv'
<1>1. TypeOK BY DEF Inv
<1>2. PICK sid \in Sids \ issued : /\ jar' = [jar EXCEPT !.user = u, !.sid = sid]
                                   /\ issued' = issued \cup {sid}
                                   /\ latest' = sid
  BY DEF SignIn
<1>3. /\ late' = (\E o \in Tabs : At(o, "callback")) /\ revived' = FALSE
      /\ UNCHANGED <<tabs, sessions, excused>>
  BY DEF SignIn
<1>4. jar' = [user |-> u, sid |-> sid, clients |-> jar.clients]
  BY <1>1, <1>2 DEF TypeOK, Jar
<1>5. jar' \in Jar /\ jar'.user = u /\ jar'.sid = sid BY <1>1, <1>4 DEF TypeOK, Jar
<1>6. TypeOK'
  <2>1. late' \in BOOLEAN /\ revived' \in BOOLEAN BY <1>3
  <2> QED BY <1>1, <1>2, <1>3, <1>5, <2>1 DEF TypeOK
<1>7. sid # None BY NoneIsNobody
<1>8. ASSUME NEW o \in Tabs PROVE GoodTab(tabs[o])'
  <2>1. PICK q : q = tabs[o] OBVIOUS
  <2>2. GoodTab(q) BY <2>1 DEF Inv
  <2>3. q.sid # sid /\ q.cookies.sid # sid BY <1>7, <2>2 DEF GoodTab
  <2>4. q.at = "callback" => ~Signed' BY <1>3, <2>1 DEF At, Signed
  <2>5. GoodAfter(q) BY <1>2, <1>5, <2>2, <2>3, <2>4 DEF GoodTab, GoodAfter, AgreesAfter
  <2> QED BY <1>3, <2>1, <2>5 DEF GoodAfter, GoodTab, AgreesAfter, Agrees
<1>9. ASSUME NEW s \in sessions' PROVE GoodSession(s)'
  <2>1. s.sid \in issued \cup {None} BY <1>3 DEF Inv, GoodSession
  <2>2. s.sid # sid BY <1>7, <2>1
  <2> QED BY <1>2, <1>5, <2>1, <2>2 DEF GoodSession, Agrees
<1> QED BY <1>2, <1>5, <1>6, <1>7, <1>8, <1>9 DEF Inv

LEMMA InitInv == Init => Inv
<1> SUFFICES ASSUME Init PROVE Inv OBVIOUS
<1>1. TypeOK BY EmptyJar, IdleTab DEF Init, TypeOK
<1>2. \A t \in Tabs : tabs[t] = Idle BY DEF Init
<1>3. \A t \in Tabs : GoodTab(tabs[t]) BY <1>2, IdleIsGood
<1> QED BY <1>1, <1>3, EmptyJar DEF Init, Inv, Signed

LEMMA StepInv == Inv /\ [Next]_vars => Inv'
<1> SUFFICES ASSUME Inv, [Next]_vars PROVE Inv' OBVIOUS
<1>1. ASSUME NEW t \in Tabs, Deliver(t) PROVE Inv'
  BY <1>1, DeliverAuthorizeStep, DeliverEndSessionStep, DeliverLogoutPromptStep,
     DeliverLogoutStep, DeliverFederatedSignOutStep, DeliverCallbackStep DEF Deliver
<1>2. ASSUME NEW t \in Tabs, NEW u \in Users, SignIn(t, u) PROVE Inv'
  BY <1>2, SignInStep
<1>3. ASSUME NEW t \in Tabs, NEW c \in Clients, Authorize(t, c) \/ Notify(t, c) PROVE Inv'
  BY <1>3, AuthorizeStep, NotifyStep
<1>4. ASSUME NEW t \in Tabs, EndSession(t) \/ VisitLogout(t) \/ Confirm(t) \/ Return(t)
      PROVE  Inv'
  BY <1>4, EndSessionStep, VisitLogoutStep, ConfirmStep, ReturnStep
<1>5. ASSUME NEW t \in Tabs, FederatedSignOut(t) \/ LoadCallback(t) \/ Redirect(t) \/ Leave(t)
      PROVE  Inv'
  BY <1>5, FederatedSignOutStep, LoadCallbackStep, RedirectStep, LeaveStep
<1>6. CASE TicketExpires \/ SidExpires \/ RestartBrowser
  BY <1>6, TicketExpiresStep, SidExpiresStep, RestartBrowserStep
<1>7. CASE UNCHANGED vars
  <2>1. UNCHANGED <<jar, tabs, sessions, issued, latest, late, revived, excused>> BY <1>7 DEF vars
  <2>2. Quiet BY <2>1, SameJar
  <2> QED BY <2>1, <2>2, TabsStay DEF Inv, TypeOK
<1> QED BY <1>1, <1>2, <1>3, <1>4, <1>5, <1>6, <1>7 DEF Next

LEMMA Inductive == Spec => []Inv
BY InitInv, StepInv, PTL DEF Spec

------------------------------------------------------------------------------
\* Theorems

\* Every cookie, page, session and history has its type, in every reachable state.
THEOREM TypeCorrect == Spec => []TypeOK
<1>1. Inv => TypeOK BY DEF Inv
<1> QED BY <1>1, Inductive, PTL

\* Whoever is signed in has the session id by which her clients are told of the end of
\* the session, unless a callback was in flight when she signed in: no page of an earlier
\* sign-out can clear it, however late it loads its callback.
THEOREM SessionIdKept == Spec => []SessionKeepsItsId
<1>1. Inv => SessionKeepsItsId BY DEF Inv, Signed, SessionKeepsItsId
<1> QED BY <1>1, Inductive, PTL

\* A client that polls the session and hears "unchanged" has a token of the user who is
\* signed in: a session id never passes from one user to another, neither in the cookies
\* nor in a response that is still on its way.
THEOREM CheckSessionTruthHolds == Spec => []CheckSessionTruth
<1>1. Inv => CheckSessionTruth
  BY DEF Inv, GoodSession, Agrees, CheckSessionTruth, Unchanged
<1> QED BY <1>1, Inductive, PTL

\* By default tickets are not renewed: who is signed in has signed in, and her session
\* id has not expired.
NotRenewed == ~revived /\ (jar.user # None => latest # None)

LEMMA NotRenewedDeliver ==
    ASSUME Inv, NotRenewed, ~SlidingExpiration, NEW t \in Tabs, Deliver(t)
    PROVE  NotRenewed'
<1>1. TypeOK BY DEF Inv
<1>2. PICK tab : tab = tabs[t] OBVIOUS
<1>3. PICK cookies : cookies = tab.cookies OBVIOUS
<1>4. \A u \in UserAfter(cookies) : u = jar.user /\ u \in Users \cup {None}
  BY <1>1 DEF UserAfter, TypeOK, Jar
<1>5. UNCHANGED latest
  BY DEF Deliver, DeliverAuthorize, DeliverEndSession, DeliverLogoutPrompt, DeliverLogout,
     DeliverFederatedSignOut, DeliverCallback
<1>6. ASSUME jar' = [jar EXCEPT !.user = None], UNCHANGED revived PROVE NotRenewed'
  <2>1. jar'.user = None BY <1>1, <1>6, UserSet DEF TypeOK
  <2> QED BY <1>6, <2>1 DEF NotRenewed
<1>7. ASSUME NEW u \in UserAfter(cookies), Renew(u), jar'.user = u PROVE NotRenewed'
  BY <1>4, <1>5, <1>7 DEF NotRenewed, Renew
<1>8. ASSUME NEW u \in UserAfter(cookies), jar' = [jar EXCEPT !.user = u] PROVE jar'.user = u
  BY <1>1, <1>4, <1>8, UserSet DEF TypeOK
<1>9. CASE DeliverAuthorize(t)
  <2>1. PICK list : list = ListAfter(cookies, tab.client) OBVIOUS
  <2>2. PICK u \in UserAfter(cookies) : /\ jar' = [jar EXCEPT !.user = u, !.clients = list]
                                        /\ Renew(u)
    BY <1>2, <1>3, <1>9, <2>1 DEF DeliverAuthorize
  <2>3. jar' = [user |-> u, sid |-> jar.sid, clients |-> list] BY <1>1, <2>2 DEF TypeOK, Jar
  <2> QED BY <1>7, <2>2, <2>3
<1>10. CASE DeliverEndSession(t)
  BY <1>2, <1>3, <1>7, <1>8, <1>10 DEF DeliverEndSession
<1>11. CASE DeliverLogoutPrompt(t)
  BY <1>2, <1>3, <1>6, <1>7, <1>8, <1>11 DEF DeliverLogoutPrompt, LoggedOut
<1>12. CASE DeliverLogout(t) \/ DeliverFederatedSignOut(t)
  BY <1>6, <1>12 DEF DeliverLogout, LoggedOut, DeliverFederatedSignOut
<1>13. CASE DeliverCallback(t)
  <2>1. PICK u \in UserAfter(cookies) :
           /\ jar' = IF ValidSid(tab) THEN Cleared(cookies, u) ELSE [jar EXCEPT !.user = u]
           /\ Renew(u)
    BY <1>2, <1>3, <1>13 DEF DeliverCallback
  <2>2. jar'.user = u BY <1>1, <1>4, <1>8, <2>1, ClearedJar DEF TypeOK
  <2> QED BY <1>7, <2>1, <2>2
<1> QED BY <1>9, <1>10, <1>11, <1>12, <1>13 DEF Deliver

LEMMA NotRenewedStep ==
    ASSUME ~SlidingExpiration, Inv, NotRenewed, [Next]_vars
    PROVE  NotRenewed'
<1>1. TypeOK BY DEF Inv
<1>2. ASSUME NEW t \in Tabs, NEW u \in Users, SignIn(t, u) PROVE NotRenewed'
  BY <1>2, NoneIsNobody DEF SignIn, NotRenewed
<1>3. ASSUME UNCHANGED <<jar, latest, revived>> PROVE NotRenewed'
  BY <1>3 DEF NotRenewed
<1>4. ASSUME NEW t \in Tabs, NEW c \in Clients, Authorize(t, c) \/ Notify(t, c)
      PROVE  NotRenewed'
  BY <1>3, <1>4 DEF Authorize, Notify
<1>5. ASSUME NEW t \in Tabs,
             \/ EndSession(t) \/ VisitLogout(t) \/ Confirm(t) \/ Return(t)
             \/ FederatedSignOut(t) \/ LoadCallback(t) \/ Redirect(t) \/ Leave(t)
      PROVE  NotRenewed'
  BY <1>3, <1>5 DEF EndSession, VisitLogout, Confirm, Return, FederatedSignOut, LoadCallback,
     Redirect, Leave
<1>6. CASE TicketExpires
  <2>1. jar'.user = None BY <1>1, <1>6, UserSet DEF TicketExpires, TypeOK
  <2> QED BY <1>6, <2>1 DEF TicketExpires, NotRenewed
<1>7. CASE SidExpires
  <2>1. jar.user = None /\ jar' = [jar EXCEPT !.sid = None] BY <1>7 DEF SidExpires
  <2>2. jar' = [user |-> jar.user, sid |-> None, clients |-> jar.clients]
    BY <1>1, <2>1 DEF TypeOK, Jar
  <2> QED BY <1>7, <2>1, <2>2 DEF SidExpires, NotRenewed
<1>8. CASE RestartBrowser
  <2>1. jar'.user \in {jar.user, None}
    <3>1. CASE Persistent
      <4>1. jar' = [user |-> jar.user, sid |-> jar.sid, clients |-> {}]
        BY <1>1, <1>8, <3>1 DEF RestartBrowser, TypeOK, Jar
      <4> QED BY <4>1
    <3>2. CASE ~Persistent BY <1>8, <3>2, EmptyJar DEF RestartBrowser
    <3> QED BY <3>1, <3>2
  <2> QED BY <1>8, <2>1 DEF RestartBrowser, NotRenewed
<1>9. CASE UNCHANGED vars BY <1>3, <1>9 DEF vars
<1> QED BY <1>2, <1>4, <1>5, <1>6, <1>7, <1>8, <1>9, NotRenewedDeliver DEF Next

\* A session keeps its id but for a callback in flight at the sign-in, and its clients
\* hear of every other user.
Undisturbed ==
    /\ jar.user # None /\ jar.sid = None => late
    /\ \A s \in sessions : Unchanged(s) /\ jar.user # None => s.user = jar.user

\* Without sliding expiration, the default, nothing has to be excepted for renewals from
\* what SessionKeepsItsId and CheckSessionTruth say.
THEOREM WithoutRenewals ==
    ASSUME ~SlidingExpiration
    PROVE  Spec => []Undisturbed
<1>1. Init => NotRenewed BY EmptyJar DEF Init, NotRenewed
<1>2. Inv /\ NotRenewed /\ [Next]_vars => NotRenewed' BY NotRenewedStep
<1>3. Inv /\ NotRenewed => Undisturbed
  BY DEF Inv, NotRenewed, Signed, GoodSession, Agrees, Unchanged, Undisturbed
<1> QED BY <1>1, <1>2, <1>3, Inductive, PTL DEF Spec

\* What a tab is doing changes only by a step of the tab itself, but for the end of the
\* browser.
LEMMA OthersGoOn ==
    ASSUME TypeOK, NEW t \in Tabs, NEW o \in Tabs \ {t}, NEW at, NEW tab,
           Send(o, at, tab) \/ SendListed(o, at, tab) \/ Show(o, at, tab) \/ Finish(o)
    PROVE  tabs'[t].at = tabs[t].at
<1>1. CASE Send(o, at, tab) \/ Show(o, at, tab) \/ Finish(o)
  BY <1>1 DEF Send, Show, Finish, TypeOK
<1>2. CASE SendListed(o, at, tab)
  <2>1. PICK old : old = tabs[t] OBVIOUS
  <2>2. tabs'[t] \in {old, [old EXCEPT !.raced = TRUE]}
    BY <1>2, <2>1 DEF SendListed
  <2>3. old \in Tab BY <2>1 DEF TypeOK
  <2>4. \A new : new = [old EXCEPT !.raced = TRUE] => new.at = old.at BY <2>3 DEF Tab
  <2> QED BY <2>1, <2>2, <2>4
<1> QED BY <1>1, <1>2

\* What a step of a tab does to the tabs.
Moves(o) ==
    \/ \E at, tab : Send(o, at, tab) \/ SendListed(o, at, tab) \/ Show(o, at, tab)
    \/ Finish(o)
    \/ UNCHANGED tabs
    \/ \E rest : tabs' = [tabs EXCEPT ![o].frames = rest]

LEMMA OnlyLogoutPrompt ==
    ASSUME TypeOK, Next, NEW t \in Tabs, SignsOutUnasked(t)
    PROVE  DeliverLogoutPrompt(t)
<1>1. /\ tabs[t].at = "logoutPrompt" /\ tabs'[t].at # "logoutPrompt" /\ tabs'[t].at # "idle"
  BY DEF SignsOutUnasked, At
<1>2. ASSUME NEW o \in Tabs \ {t}, Moves(o) PROVE FALSE
  <2>1. CASE \E rest : tabs' = [tabs EXCEPT ![o].frames = rest]
    BY <1>1, <2>1 DEF TypeOK
  <2>2. CASE UNCHANGED tabs BY <1>1, <2>2
  <2> QED BY <1>1, <1>2, <2>1, <2>2, OthersGoOn DEF Moves
<1>3. ASSUME NEW o \in Tabs, Deliver(o), ~DeliverLogoutPrompt(t) PROVE FALSE
  <2>1. CASE o = t
    BY <1>1, <1>3, <2>1 DEF Deliver, DeliverAuthorize, DeliverEndSession, DeliverLogout,
       DeliverFederatedSignOut, DeliverCallback, At
  <2>2. CASE o # t
    <3>1. Moves(o)
      BY <1>3 DEF Deliver, DeliverAuthorize, DeliverEndSession, DeliverLogout,
         DeliverFederatedSignOut, DeliverCallback, DeliverLogoutPrompt, LoggedOut, Moves
    <3> QED BY <1>2, <2>2, <3>1
  <2> QED BY <2>1, <2>2
<1>4. ASSUME NEW o \in Tabs, NEW u \in Users, SignIn(o, u) PROVE FALSE
  BY <1>1, <1>4 DEF SignIn
<1>5. ASSUME NEW o \in Tabs, NEW c \in Clients, Authorize(o, c) \/ Notify(o, c) PROVE FALSE
  <2>1. CASE o = t BY <1>1, <1>5, <2>1 DEF Authorize, Notify, At
  <2>2. CASE o # t
    <3>1. Moves(o) BY <1>5 DEF Authorize, Notify, Moves
    <3> QED BY <1>2, <2>2, <3>1
  <2> QED BY <2>1, <2>2
<1>6. ASSUME NEW o \in Tabs, EndSession(o) \/ VisitLogout(o) \/ Confirm(o) \/ Return(o)
      PROVE  FALSE
  <2>1. CASE o = t BY <1>1, <1>6, <2>1 DEF EndSession, VisitLogout, Confirm, Return, At
  <2>2. CASE o # t
    <3>1. Moves(o) BY <1>6 DEF EndSession, VisitLogout, Confirm, Return, Moves
    <3> QED BY <1>2, <2>2, <3>1
  <2> QED BY <2>1, <2>2
<1>7. ASSUME NEW o \in Tabs, FederatedSignOut(o) \/ LoadCallback(o) \/ Redirect(o) \/ Leave(o)
      PROVE  FALSE
  <2>1. CASE o = t BY <1>1, <1>7, <2>1 DEF FederatedSignOut, LoadCallback, Redirect, Leave, At
  <2>2. CASE o # t
    <3>1. Moves(o) BY <1>7 DEF FederatedSignOut, LoadCallback, Redirect, Leave, Moves
    <3> QED BY <1>2, <2>2, <3>1
  <2> QED BY <2>1, <2>2
<1>8. CASE TicketExpires \/ SidExpires BY <1>1, <1>8 DEF TicketExpires, SidExpires
<1>9. CASE RestartBrowser BY <1>1, <1>9, IdleTab DEF RestartBrowser
<1> QED BY <1>3, <1>4, <1>5, <1>6, <1>7, <1>8, <1>9 DEF Next

\* A sign-out that asks nobody is one that a client of this user began, with a token of
\* hers and without the wish to have her asked, or the options say that nobody is asked.
THEOREM SignOutForTheUser == Spec => SignOutIsForTheUser
<1> DEFINE Fair == \A t \in Tabs : SignsOutUnasked(t) =>
                      IF tabs[t].message = None THEN ~EnableSignOutPrompt
                      ELSE /\ tabs[t].message \notin ClientPrompts
                           /\ \/ tabs[t].user = tabs[t].cookies.user
                              \/ tabs[t].began # tabs[t].cookies.user
<1>1. Inv /\ [Next]_vars => [Fair]_vars
  <2> SUFFICES ASSUME Inv, [Next]_vars, ~UNCHANGED vars, NEW t \in Tabs, SignsOutUnasked(t)
               PROVE  IF tabs[t].message = None THEN ~EnableSignOutPrompt
                      ELSE /\ tabs[t].message \notin ClientPrompts
                           /\ \/ tabs[t].user = tabs[t].cookies.user
                              \/ tabs[t].began # tabs[t].cookies.user
    OBVIOUS
  <2>1. TypeOK /\ Next BY DEF Inv
  <2>2. DeliverLogoutPrompt(t) BY <2>1, OnlyLogoutPrompt
  <2>3. PICK tab : tab = tabs[t] OBVIOUS
  <2>4. tab \in Tab /\ GoodTab(tab) /\ tab.cookies.user # None
    BY <2>3 DEF Inv, TypeOK, SignsOutUnasked
  <2>5. SignsOutAtOnce(tab)
    <3>1. PICK page : page = [tab EXCEPT !.cookies = Empty] OBVIOUS
    <3>2. page \in Tab BY <2>4, <3>1, WithoutCookies
    <3>3. ASSUME Show(t, "promptPage", page) PROVE FALSE
      <4>1. PICK new : Became(t, new) /\ new.at = "promptPage"
        BY <2>1, <3>2, <3>3, ShowIs DEF TypeOK, Pages
      <4> QED BY <4>1 DEF SignsOutUnasked, Became
    <3> QED BY <2>2, <2>3, <3>1, <3>3 DEF DeliverLogoutPrompt
  <2>6. tab.message = None => ~EnableSignOutPrompt
    BY <2>4, <2>5 DEF SignsOutAtOnce
  <2>7. tab.message # None => tab.message \notin ClientPrompts
    BY <2>4, <2>5 DEF SignsOutAtOnce
  <2>8. tab.message # None => tab.user = tab.cookies.user \/ tab.began # tab.cookies.user
    BY <2>4 DEF GoodTab
  <2> QED BY <2>3, <2>6, <2>7, <2>8
<1> HIDE DEF Fair
<1>2. Spec => [][Fair]_vars BY <1>1, Inductive, PTL DEF Spec
<1> QED BY <1>2 DEF Fair, SignOutIsForTheUser
================================================================================

-------------------------------- MODULE Sessions --------------------------------
(***************************************************************************)
(* The session of one browser, and its end.  The server keeps no session:  *)
(* who is signed in, the session id that clients watch and the list of the *)
(* clients to notify at sign-out are cookies of the browser.               *)
(*                                                                         *)
(* A handler sees the cookies the browser had when it sent the request,    *)
(* and its Set-Cookie headers are applied when the response arrives; the   *)
(* requests of other tabs come and go in between.  So an exchange is two   *)
(* actions: sending takes a copy of the jar, delivering applies what the   *)
(* handler makes of that copy.  Handlers touch no other shared state, so   *)
(* that a response that never arrives is one that is not delivered.        *)
(*                                                                         *)
(* Clients are external: a client has one session per browser, begun by an *)
(* authorize response and ended by a request to its logout URI.            *)
(***************************************************************************)
EXTENDS FiniteSets, Naturals

CONSTANTS
    Users,                  \* subject ids
    Clients,                \* client ids
    Sids,                   \* values of CryptoRandom.CreateUniqueId, for session ids
    Tabs,                   \* what can have one request in flight: tabs, hidden frames
    None,                   \* null, a missing cookie
    HasLogoutUri,           \* the clients with Client.LogoutUri
    SessionRequired,        \* the clients with Client.LogoutSessionRequired
    ClientPrompts,          \* the clients with Client.RequireSignOutPrompt
    External,               \* the users who sign in with an external provider
    RequireSignOutPrompt,   \* AuthenticationOptions
    EnableSignOutPrompt,
    EnableAutoCallback,     \* ...EnableAutoCallbackForFederatedSignout
    AutoRedirect,           \* ...EnablePostSignOutAutoRedirect
    RequireUserForMessage,  \* ...RequireAuthenticatedUserForSignOutMessage
    Persistent,             \* whether sign-ins give persistent cookies
    SlidingExpiration,      \* CookieOptions.SlidingExpiration
    EndSessionEnabled,      \* Endpoints.EnableEndSessionEndpoint
    NullSidsMatch           \* TimeConstantComparer.IsEqual(null, null)

ASSUME NoneAssumption == None \notin Users \cup Clients \cup Sids

ASSUME ClientAssumption ==
    /\ HasLogoutUri \subseteq Clients
    /\ SessionRequired \subseteq Clients
    /\ ClientPrompts \subseteq Clients
    /\ External \subseteq Users

ASSUME OptionAssumption ==
    {RequireSignOutPrompt, EnableSignOutPrompt, EnableAutoCallback, AutoRedirect,
     RequireUserForMessage, Persistent, SlidingExpiration, EndSessionEnabled,
     NullSidsMatch} \subseteq BOOLEAN

VARIABLES
    jar,        \* the cookies of the browser
    tabs,       \* what each tab is doing
    sessions,   \* the sessions the clients have with this browser
    issued,     \* the session ids given out
    latest,     \* history: the last session id given out, if it has not expired
    late,       \* history: the last sign-in arrived while a callback was in flight
    revived,    \* history: a late response has signed in a user since then
    excused     \* history: clients whose entry in the list was raced, or lost with it

vars == <<jar, tabs, sessions, issued, latest, late, revived, excused>>

------------------------------------------------------------------------------
\* Types

Jar == [user: Users \cup {None}, sid: Sids \cup {None}, clients: SUBSET Clients]

\* user and sid are those of the id token the client has.
Session == [client: Clients, user: Users, sid: Sids \cup {None}]

Exchanges == {"authorize", "endSession", "logoutPrompt", "logout",
              "federated", "callback"}
Pages == {"promptPage", "provider", "loggedOut", "frames"}

Tab == [at: {"idle"} \cup Exchanges \cup Pages, cookies: Jar,
        client: Clients \cup {None}, user: Users \cup {None},
        message: Clients \cup {None}, began: Users \cup {None},
        sid: Sids \cup {None}, frames: SUBSET Clients, raced: BOOLEAN]

Empty == [user |-> None, sid |-> None, clients |-> {}]

Idle == [at |-> "idle", cookies |-> Empty, client |-> None, user |-> None,
         message |-> None, began |-> None, sid |-> None, frames |-> {}, raced |-> FALSE]

Init ==
    /\ jar = Empty
    /\ tabs = [t \in Tabs |-> Idle]
    /\ sessions = {}
    /\ issued = {}
    /\ latest = None
    /\ late = FALSE
    /\ revived = FALSE
    /\ excused = {}

------------------------------------------------------------------------------
\* Requests and responses

At(t, at) == tabs[t].at = at

\* The cookies of the moment, as far as the handler of an exchange looks at them, or the
\* cookie middleware does.
Reads(at, cookies) ==
    CASE at = "authorize" -> cookies
      [] at = "callback" -> [cookies EXCEPT !.user = IF SlidingExpiration THEN @ ELSE None]
      [] at \in {"logoutPrompt", "logout", "federated"} -> [cookies EXCEPT !.clients = {}]
      [] at = "endSession" -> [Empty EXCEPT !.user = cookies.user]

\* The tab sends a request.
Send(t, at, tab) ==
    tabs' = [tabs EXCEPT ![t] = [tab EXCEPT !.at = at, !.cookies = Reads(at, jar)]]

\* The tab shows a page, of which the message and a session id are what matters.
Show(t, at, page) == tabs' = [tabs EXCEPT ![t] = [page EXCEPT !.at = at]]

Finish(t) == tabs' = [tabs EXCEPT ![t] = Idle]

\* The cookie middleware may renew the ticket of the request, past half of its life.
\* The user who is signed in after a response that does not say otherwise.
UserAfter(cookies) ==
    {jar.user} \cup IF SlidingExpiration /\ cookies.user # None THEN {cookies.user} ELSE {}

\* A renewal that comes late signs in the user the request was sent for, whoever is
\* signed in by then.
Renew(u) == revived' = (revived \/ u # jar.user)

\* Two exchanges of which each may overwrite or clear what the other did to the list.
Races(tab, at, c) ==
    \/ tab.at = "callback" /\ at = "authorize"
    \/ tab.at = "authorize" /\ (at = "callback" \/ tab.client # c)

SendListed(t, at, tab) ==
    LET rivals == {o \in Tabs \ {t} : Races(tabs[o], at, tab.client)} IN
    tabs' = [o \in Tabs |->
                IF o = t THEN [tab EXCEPT !.at = at, !.cookies = Reads(at, jar),
                                           !.raced = rivals # {}]
                ELSE IF o \in rivals THEN [tabs[o] EXCEPT !.raced = TRUE]
                ELSE tabs[o]]

------------------------------------------------------------------------------
\* Sign-in

\* Mutant: the session id is issued only where there is none.
SignInKeepId(t, u) ==
    /\ At(t, "idle")
    /\ \E sid \in Sids \ issued :
          /\ jar' = [jar EXCEPT !.user = u, !.sid = IF @ = None THEN sid ELSE @]
          /\ issued' = issued \cup {sid}
          /\ latest' = sid
    /\ late' = (\E o \in Tabs : At(o, "callback"))
    /\ revived' = FALSE
    /\ UNCHANGED <<tabs, sessions, excused>>

\* AuthenticationController.SignInAndRedirectAsync, for a login that succeeds on the
\* login page, by an external provider or by a resumed login.  It reads none of the
\* cookies of this module, so that only the moment of its response matters.  The list
\* of clients stays.
SignIn(t, u) ==
    /\ At(t, "idle")
    /\ \E sid \in Sids \ issued :
          /\ jar' = [jar EXCEPT !.user = u, !.sid = sid]
          /\ issued' = issued \cup {sid}
          /\ latest' = sid
    /\ late' = (\E o \in Tabs : At(o, "callback"))
    /\ revived' = FALSE
    /\ UNCHANGED <<tabs, sessions, excused>>

------------------------------------------------------------------------------
\* Authorize responses

\* A request that needs neither a login nor a consent page.
Authorize(t, c) ==
    /\ At(t, "idle")
    /\ jar.user # None
    /\ SendListed(t, "authorize", [Idle EXCEPT !.client = c])
    /\ UNCHANGED <<jar, sessions, issued, latest, late, revived, excused>>

\* Mutant: the client is added only to a list that exists.
ListAfterFirst(cookies, c) ==
    IF EndSessionEnabled /\ cookies.clients = {} THEN {c} ELSE jar.clients

\* ClientListCookie.AddClient: the list of the request with the client added.
ListAfter(cookies, c) ==
    IF EndSessionEnabled /\ c \notin cookies.clients THEN cookies.clients \cup {c}
    ELSE jar.clients

\* The client takes user and session_state from the response.
SessionOf(tab) == [client |-> tab.client, user |-> tab.cookies.user, sid |-> tab.cookies.sid]

DeliverAuthorize(t) ==
    LET c == tabs[t].client IN
    /\ At(t, "authorize")
    /\ \E u \in UserAfter(tabs[t].cookies) :
          /\ jar' = [jar EXCEPT !.user = u, !.clients = ListAfter(tabs[t].cookies, c)]
          /\ Renew(u)
    /\ sessions' = {s \in sessions : s.client # c} \cup {SessionOf(tabs[t])}
    /\ excused' = IF tabs[t].raced THEN excused \cup {c} ELSE excused \ {c}
    /\ Finish(t)
    /\ UNCHANGED <<issued, latest, late>>

------------------------------------------------------------------------------
\* Sign-out

\* The end session endpoint: a client sends the browser, with the id token it has.
EndSession(t) ==
    /\ At(t, "idle")
    /\ \/ \E s \in sessions :
            Send(t, "endSession", [Idle EXCEPT !.client = s.client, !.user = s.user])
       \/ Send(t, "endSession", Idle)
    /\ UNCHANGED <<jar, sessions, issued, latest, late, revived, excused>>

\* Mutant: the subject of the id token is not compared with the user.
MessageForAnyone(tab) ==
    IF tab.cookies.user = None /\ RequireUserForMessage THEN None ELSE tab.client

\* EndSessionRequestValidator and EndSessionResponseGenerator: the client of the
\* sign-out message, None when the message is refused or names no client.
MessageFor(tab) ==
    IF \/ tab.cookies.user = None /\ RequireUserForMessage
       \/ tab.cookies.user # None /\ tab.user # tab.cookies.user
    THEN None ELSE tab.client

\* What the browser asks the logout page for, with the id of the message if there is one.
LogoutRequest(tab, cookies) ==
    LET message == MessageFor(tab) IN
    IF message = None THEN [Idle EXCEPT !.cookies = cookies]
    ELSE [Idle EXCEPT !.cookies = cookies, !.message = message,
                      !.user = tab.user, !.began = tab.cookies.user]

\* LogoutResult: the browser keeps the message and goes on to the logout page.
DeliverEndSession(t) ==
    LET tab == tabs[t] IN
    /\ At(t, "endSession")
    /\ \E u \in UserAfter(tab.cookies) :
          /\ jar' = [jar EXCEPT !.user = u]
          /\ Renew(u)
          /\ Show(t, "logoutPrompt", LogoutRequest(tab, Reads("logoutPrompt", jar')))
    /\ UNCHANGED <<sessions, issued, latest, late, excused>>

\* The logout page, without a sign-out message.
VisitLogout(t) ==
    /\ At(t, "idle")
    /\ Send(t, "logoutPrompt", Idle)
    /\ UNCHANGED <<jar, sessions, issued, latest, late, revived, excused>>

\* Mutant: what the client requires is not asked.
SignsOutAtOnceAlways(tab) ==
    \/ tab.cookies.user = None
    \/ /\ ~RequireSignOutPrompt
       /\ tab.message # None \/ ~EnableSignOutPrompt

\* LogoutPrompt signs out at once when there is nobody to ask, or nothing to ask.
SignsOutAtOnce(tab) ==
    \/ tab.cookies.user = None
    \/ /\ ~RequireSignOutPrompt
       /\ \/ tab.message # None /\ tab.message \notin ClientPrompts
          \/ tab.message = None /\ ~EnableSignOutPrompt

\* RenderLoggedOutPage: the page loads the callback with the session id of its request.
LoggedOutPage(tab) == [Idle EXCEPT !.message = tab.message, !.sid = tab.cookies.sid]

\* Mutant: the list goes with the authentication cookies.
LoggedOutEarly(t) ==
    /\ jar' = [jar EXCEPT !.user = None, !.clients = {}]
    /\ IF tabs[t].cookies.user \in External
       THEN Show(t, "provider", [tabs[t] EXCEPT !.cookies = Empty])
       ELSE Show(t, "loggedOut", LoggedOutPage(tabs[t]))

\* AuthenticationController.Logout.  The session id and the list stay until the callback.
\* A provider is a redirect, no page; the message is kept for the way back.
LoggedOut(t) ==
    /\ jar' = [jar EXCEPT !.user = None]
    /\ IF tabs[t].cookies.user \in External
       THEN Show(t, "provider", [tabs[t] EXCEPT !.cookies = Empty])
       ELSE Show(t, "loggedOut", LoggedOutPage(tabs[t]))

DeliverLogoutPrompt(t) ==
    /\ At(t, "logoutPrompt")
    /\ IF SignsOutAtOnce(tabs[t]) THEN LoggedOut(t) /\ UNCHANGED revived
       ELSE \E u \in UserAfter(tabs[t].cookies) :
               /\ jar' = [jar EXCEPT !.user = u]
               /\ Renew(u)
               /\ Show(t, "promptPage", [tabs[t] EXCEPT !.cookies = Empty])
    /\ UNCHANGED <<sessions, issued, latest, late, excused>>

Confirm(t) ==
    /\ At(t, "promptPage")
    /\ Send(t, "logout", tabs[t])
    /\ UNCHANGED <<jar, sessions, issued, latest, late, revived, excused>>

DeliverLogout(t) ==
    /\ At(t, "logout")
    /\ LoggedOut(t)
    /\ UNCHANGED <<sessions, issued, latest, late, revived, excused>>

\* The provider sends the browser back to the logout page, with the id of the message.
Return(t) ==
    /\ At(t, "provider")
    /\ EnableAutoCallback
    /\ Send(t, "logoutPrompt", tabs[t])
    /\ UNCHANGED <<jar, sessions, issued, latest, late, revived, excused>>

\* An upstream provider signs the user out, in a frame.
FederatedSignOut(t) ==
    /\ At(t, "idle")
    /\ Send(t, "federated", Idle)
    /\ UNCHANGED <<jar, sessions, issued, latest, late, revived, excused>>

\* ProcessFederatedSignoutAsync
DeliverFederatedSignOut(t) ==
    /\ At(t, "federated")
    /\ jar' = [jar EXCEPT !.user = None]
    /\ IF tabs[t].cookies.sid = None THEN Finish(t)
       ELSE Show(t, "loggedOut", LoggedOutPage(tabs[t]))
    /\ UNCHANGED <<sessions, issued, latest, late, revived, excused>>

------------------------------------------------------------------------------
\* Notification of the clients

\* The logged out page loads the callback, with the session id it was rendered with.
LoadCallback(t) ==
    /\ At(t, "loggedOut")
    /\ SendListed(t, "callback", tabs[t])
    /\ UNCHANGED <<jar, sessions, issued, latest, late, revived, excused>>

\* Mutant: the session id of the page is not compared with the cookie.
ValidSidAlways(tab) == TRUE

\* EndSessionController.ValidateSid, where the endpoint is there
ValidSid(tab) ==
    /\ EndSessionEnabled
    /\ tab.cookies.sid = tab.sid
    /\ tab.sid = None => NullSidsMatch

\* Mutant: the list is read after it was cleared.
FramesForNobody(cookies) == {}

\* GetClientEndSessionUrlsAsync
FramesFor(cookies) == cookies.clients \cap HasLogoutUri

\* Mutant: the cookie is overwritten and not expired.
ClearedWithDot(cookies, u) ==
    [jar EXCEPT !.user = u, !.sid = ".", !.clients = IF cookies.clients = {} THEN @ ELSE {}]

\* ClearCookies: the list is cleared only where the request had one.
Cleared(cookies, u) ==
    [jar EXCEPT !.user = u, !.sid = None, !.clients = IF cookies.clients = {} THEN @ ELSE {}]

\* EndSessionController.LogoutCallback
DeliverCallback(t) ==
    LET tab == tabs[t]
        frames == FramesFor(tab.cookies)
    IN
    /\ At(t, "callback")
    /\ \E u \in UserAfter(tab.cookies) :
          /\ jar' = IF ValidSid(tab) THEN Cleared(tab.cookies, u) ELSE [jar EXCEPT !.user = u]
          /\ Renew(u)
    /\ IF ValidSid(tab) /\ frames # {}
       THEN Show(t, "frames", [tab EXCEPT !.cookies = Empty, !.frames = frames,
                                          !.raced = FALSE])
       ELSE Finish(t)
    /\ UNCHANGED <<sessions, issued, latest, late, excused>>

\* The logout URI of a client is requested: with the session id it ends that session,
\* without one whatever session it has with the browser.
Notify(t, c) ==
    /\ At(t, "frames")
    /\ c \in tabs[t].frames
    /\ sessions' = {s \in sessions :
                        s.client = c => c \in SessionRequired /\ s.sid # tabs[t].sid}
    /\ IF tabs[t].frames = {c} THEN Finish(t)
       ELSE tabs' = [tabs EXCEPT ![t].frames = @ \ {c}]
    /\ UNCHANGED <<jar, issued, latest, late, revived, excused>>

\* app.js: the page goes to the post-logout URI of the client when the delay is over,
\* whatever its frames have come to.
Redirect(t) ==
    /\ tabs[t].at \in {"loggedOut", "callback", "frames"}
    /\ AutoRedirect
    /\ tabs[t].message # None
    /\ excused' = excused \cup tabs[t].frames
    /\ Finish(t)
    /\ UNCHANGED <<jar, sessions, issued, latest, late, revived>>

------------------------------------------------------------------------------
\* The browser and the clock

\* The user leaves a page that waits for her.
Leave(t) ==
    /\ tabs[t].at \in {"promptPage", "provider"}
    /\ Finish(t)
    /\ UNCHANGED <<jar, sessions, issued, latest, late, revived, excused>>

\* ExpireTimeSpan after the sign-in, or after the last renewal.
TicketExpires ==
    /\ jar.user # None
    /\ jar' = [jar EXCEPT !.user = None]
    /\ UNCHANGED <<tabs, sessions, issued, latest, late, revived, excused>>

\* The id expires with the first ticket; renewals do not extend it.
SidExpires ==
    /\ Persistent
    /\ jar.sid # None
    /\ jar.user # None => SlidingExpiration
    /\ jar' = [jar EXCEPT !.sid = None]
    /\ latest' = None
    /\ UNCHANGED <<tabs, sessions, issued, late, revived, excused>>

\* The list is a session cookie even where the session survives the browser.
RestartBrowser ==
    /\ jar' = IF Persistent THEN [jar EXCEPT !.clients = {}] ELSE Empty
    /\ tabs' = [t \in Tabs |-> Idle]
    /\ excused' = excused \cup {s.client : s \in sessions}
    /\ UNCHANGED <<sessions, issued, latest, late, revived>>

------------------------------------------------------------------------------
Deliver(t) ==
    \/ DeliverAuthorize(t) \/ DeliverEndSession(t)
    \/ DeliverLogoutPrompt(t) \/ DeliverLogout(t) \/ DeliverFederatedSignOut(t)
    \/ DeliverCallback(t)

Next ==
    \/ \E t \in Tabs :
          \/ Deliver(t)
          \/ \E u \in Users : SignIn(t, u)
          \/ \E c \in Clients : Authorize(t, c) \/ Notify(t, c)
          \/ EndSession(t) \/ VisitLogout(t) \/ Confirm(t) \/ Return(t)
          \/ FederatedSignOut(t) \/ LoadCallback(t) \/ Redirect(t) \/ Leave(t)
    \/ TicketExpires \/ SidExpires \/ RestartBrowser

Spec == Init /\ [][Next]_vars

\* The browser loads the frames of a page it shows, and the server answers.
Fairness ==
    \A t \in Tabs :
        /\ WF_vars(LoadCallback(t))
        /\ WF_vars(DeliverCallback(t))
        /\ \A c \in Clients : WF_vars(Notify(t, c))

FairSpec == Spec /\ Fairness

------------------------------------------------------------------------------
\* Properties

TypeOK ==
    /\ jar \in Jar
    /\ tabs \in [Tabs -> Tab]
    /\ sessions \subseteq Session
    /\ issued \subseteq Sids
    /\ latest \in Sids \cup {None}
    /\ late \in BOOLEAN
    /\ revived \in BOOLEAN
    /\ excused \subseteq Clients

\* What a notification with the session id of this sign-in would end.
Ends(s, sid) == s.client \in SessionRequired => s.sid = sid

\* No client with a logout URI is left with a session that no sign-out would end: it is
\* in the list, or in the frames of a page that notifies it.  Excepted are clients whose
\* authorize response raced with that of another client or with a callback, those the
\* browser forgot, and sessions with the id of an earlier sign-in at clients that look
\* at the id.
ClientsAccounted ==
    \A s \in sessions :
        \/ s.client \in jar.clients
        \/ \E t \in Tabs : s.client \in tabs[t].frames /\ Ends(s, tabs[t].sid)
        \/ s.client \in excused
        \/ s.client \notin HasLogoutUri
        \/ s.client \in SessionRequired /\ (s.sid = None \/ s.sid # latest)
        \/ ~EndSessionEnabled

\* The page a client polls to see whether the session is still the one of its token
\* (checksession.html): the session_state of a response has the session id hashed in it,
\* and a response without one cannot be polled for.
Unchanged(s) == s.sid # None /\ s.sid = jar.sid

\* A client that hears "unchanged" has the user who is signed in, if anyone is: another
\* user does not take over under the session id of the first, unless a late response
\* has brought her ticket back and left the session id.
CheckSessionTruth ==
    \A s \in sessions : Unchanged(s) /\ jar.user # None => s.user = jar.user \/ revived

\* Whoever is signed in has a session id, so that her clients can be told of the end of
\* the session, unless a callback was in flight when she signed in, a late response has
\* signed her in again, or the id has expired while the ticket was renewed.
SessionKeepsItsId == jar.user # None /\ jar.sid = None => late \/ revived \/ latest = None

\* A user who is signed out without being asked was signed out for a client that does
\* not want it and that showed an id token of hers, or the browser has changed hands
\* between the request of the client and the logout page, or the options ask nobody.
SignsOutUnasked(t) ==
    /\ At(t, "logoutPrompt")
    /\ tabs[t].cookies.user # None
    /\ tabs'[t].at \in {"provider", "loggedOut"}

SignOutIsForTheUser ==
    [][\A t \in Tabs : SignsOutUnasked(t) =>
          IF tabs[t].message = None THEN ~EnableSignOutPrompt
          ELSE /\ tabs[t].message \notin ClientPrompts
               /\ \/ tabs[t].user = tabs[t].cookies.user
                  \/ tabs[t].began # tabs[t].cookies.user]_vars

\* The session of a client in the list ends when the logged out page of the sign-in is
\* shown, unless the page redirects, or somebody signs in before the callback is loaded.
PageFor(t, s) ==
    /\ At(t, "loggedOut")
    /\ tabs[t].sid = jar.sid /\ jar.sid # None /\ jar.sid = latest
    /\ AutoRedirect => tabs[t].message = None
    /\ s \in sessions
    /\ s.client \in (jar.clients \cap HasLogoutUri) \ excused
    /\ Ends(s, jar.sid)

SignOutReachesClients ==
    \A t \in Tabs : \A s \in Session :
        (EndSessionEnabled /\ PageFor(t, s)) ~>
            (s \notin sessions \/ s.client \in excused \/ (latest # s.sid))
================================================================================

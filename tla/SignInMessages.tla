----------------------------- MODULE SignInMessages -----------------------------
(***************************************************************************)
(* The login page in the tabs of one browser.  What the authorize endpoint *)
(* asked for travels in a message cookie of its own per login, named in    *)
(* the URL of the page; a login that is interrupted by a page of the user  *)
(* service, or by an external provider, continues from a cookie that the   *)
(* tabs share.                                                             *)
(*                                                                         *)
(* As in Sessions a handler sees the cookies the browser had when it sent  *)
(* the request, and its Set-Cookie headers are applied when the response   *)
(* arrives.  The session that a completed login begins is in Sessions.     *)
(***************************************************************************)
EXTENDS FiniteSets, Integers

CONSTANTS
    Tabs,           \* the tabs of the browser
    Frames,         \* those that are hidden frames, where the login page is not shown
    None,           \* null, a missing cookie
    Threshold,      \* AuthenticationOptions.SignInMessageThreshold
    MaxMessages     \* bound: as many logins are asked for

ASSUME ThresholdAssumption ==
    /\ Threshold \in Nat
    /\ MaxMessages \in Nat
    /\ IsFiniteSet(Tabs)
    /\ Frames \subseteq Tabs

\* Message ids are random; here they are numbers, in the order of Message.Created.
Ids == 1 .. MaxMessages

VARIABLES
    jar,        \* the cookies of the browser
    tabs,       \* what each tab is doing
    created,    \* the number of messages created
    arrived,    \* history: the messages whose cookie has reached the browser
    purged,     \* history: those that were cleared to make room
    completed,  \* history: [message, identity] of the logins that were let in
    disturbed   \* history: tabs whose shared cookie is no longer the one they left

vars == <<jar, tabs, created, arrived, purged, completed, disturbed>>

------------------------------------------------------------------------------
\* Types

\* The partial sign-in cookie: the resume id, a random number that is here the tab and
\* the message of the response, the message in the claim of that name, and the message
\* of the login that the identity is from.
Partial == [resume: Tabs \X Ids, message: Ids, identity: Ids]

\* The external cookie has the message in its properties, and the identity.
External == [message: Ids, identity: Ids]

ASSUME NoneAssumption == None \notin Ids \cup Partial \cup External

Jar == [messages: SUBSET Ids, partial: Partial \cup {None},
        external: External \cup {None}]

Completed == [message: Ids, identity: Ids]

Exchanges == {"authorize", "login", "submit", "callback", "resume"}
Pages == {"loginPage", "provider", "redirect", "partialPage", "lost"}

\* id and resume are what the URL of the tab names.
Tab == [at: {"idle"} \cup Exchanges \cup Pages, cookies: Jar,
        id: Ids \cup {None}, resume: (Tabs \X Ids) \cup {None}]

Empty == [messages |-> {}, partial |-> None, external |-> None]
Idle == [at |-> "idle", cookies |-> Empty, id |-> None, resume |-> None]

Init ==
    /\ jar = Empty
    /\ tabs = [t \in Tabs |-> Idle]
    /\ created = 0
    /\ arrived = {}
    /\ purged = {}
    /\ completed = {}
    /\ disturbed = {}

------------------------------------------------------------------------------
\* Requests and responses

At(t, at) == tabs[t].at = at

\* The cookies of the moment, as far as the handler of an exchange looks at them.
Reads(at, id, cookies) ==
    CASE at = "authorize" -> [Empty EXCEPT !.messages = cookies.messages]
      [] at \in {"login", "submit"} ->
            [Empty EXCEPT !.messages = cookies.messages \cap {id}]
      [] at = "callback" -> [cookies EXCEPT !.partial = None, !.messages = @ \cap
             ({id} \cup IF cookies.external = None THEN {} ELSE {cookies.external.message})]
      [] at = "resume" -> [cookies EXCEPT !.external = None, !.messages = @ \cap
             ({id} \cup IF cookies.partial = None THEN {} ELSE {cookies.partial.message})]

Send(t, at, tab) ==
    tabs' = [tabs EXCEPT ![t] = [tab EXCEPT !.at = at, !.cookies = Reads(at, tab.id, jar)]]

Show(t, at, tab) ==
    tabs' = [tabs EXCEPT ![t] = [tab EXCEPT !.at = at, !.cookies = Empty]]

------------------------------------------------------------------------------
\* The message

\* Mutant: the oldest instead, orderby without descending.
Oldest(messages, k) == {m \in messages : Cardinality({n \in messages : n < m}) < k}

\* The k newest of a set of messages.
Newest(messages, k) == {m \in messages : Cardinality({n \in messages : n > m}) < k}

\* Mutant: cookies are cleared only when there are far too many.
OverflowLate(messages) == IF Cardinality(messages) >= 2 * Threshold THEN messages ELSE {}

\* MessageCookie.ClearOverflow: the cookies it clears among those of the request.
Overflow(messages) ==
    IF Cardinality(messages) >= 2 * Threshold THEN messages
    ELSE IF Cardinality(messages) >= Threshold
         THEN messages \ Newest(messages, IF Threshold > 0 THEN Threshold - 1 ELSE 0)
         ELSE {}

\* The authorize endpoint finds that the user has to sign in, and creates the message.
Ask(t) ==
    /\ tabs[t].at \in {"idle", "loginPage", "lost"}
    /\ created < MaxMessages
    /\ created' = created + 1
    /\ Send(t, "authorize", [Idle EXCEPT !.id = created + 1])
    /\ disturbed' = disturbed \ {t}
    /\ UNCHANGED <<jar, arrived, purged, completed>>

\* MessageCookie.Write, and the browser follows the redirect to the login page; what
\* becomes of it in a frame does not matter, for SecurityHeadersAttribute forbids frames.
DeliverAsk(t) ==
    LET cleared == Overflow(tabs[t].cookies.messages) IN
    /\ At(t, "authorize")
    /\ jar' = [jar EXCEPT !.messages = (@ \ cleared) \cup {tabs[t].id}]
    /\ IF t \in Frames
       THEN Show(t, "idle", Idle)
       ELSE tabs' = [tabs EXCEPT ![t].at = "login",
                                 ![t].cookies = Reads("login", tabs[t].id, jar')]
    /\ arrived' = arrived \cup {tabs[t].id}
    /\ purged' = purged \cup cleared
    /\ UNCHANGED <<created, completed, disturbed>>

------------------------------------------------------------------------------
\* Letting a user in

\* Those who are to come back with a cookie that a response to t replaces or clears.
WithExternal(t) == {o \in Tabs \ {t} : tabs[o].at = "redirect"}
WithPartial(t) == {o \in Tabs \ {t} : tabs[o].at = "partialPage"}

\* SignInAndRedirectAsync with a result that is not partial.  The shared cookies are
\* cleared, whose ever they are.  The tab is back at the client, but from there its user
\* may go back to the login page, so that it counts as being there.
SignedIn(t, id, identity) ==
    /\ jar' = [messages |-> jar.messages \ {id}, partial |-> None, external |-> None]
    /\ completed' = completed \cup {[message |-> id, identity |-> identity]}
    /\ Show(t, "loginPage", [Idle EXCEPT !.id = id])
    /\ disturbed' = (disturbed \cup WithExternal(t) \cup WithPartial(t)) \ {t}

\* Mutant: the claim of the resume id is added without the message.
PartlySignedInNowhere(t, id, identity) ==
    /\ jar' = [jar EXCEPT !.external = None,
                  !.partial = [resume |-> <<t, id>>, message |-> None, identity |-> identity]]
    /\ Show(t, "partialPage", [Idle EXCEPT !.id = id, !.resume = <<t, id>>])
    /\ disturbed' = (disturbed \cup WithExternal(t) \cup WithPartial(t)) \ {t}
    /\ UNCHANGED completed

\* Mutant: the message cookie is cleared by a partial sign-in, too.
PartlySignedInCleared(t, id, identity) ==
    /\ jar' = [messages |-> jar.messages \ {id}, external |-> None,
               partial |-> [resume |-> <<t, id>>, message |-> id, identity |-> identity]]
    /\ Show(t, "partialPage", [Idle EXCEPT !.id = id, !.resume = <<t, id>>])
    /\ disturbed' = (disturbed \cup WithExternal(t) \cup WithPartial(t)) \ {t}
    /\ UNCHANGED completed

\* ... and with a partial one: a page of the user service, and a cookie to resume from.
PartlySignedIn(t, id, identity) ==
    /\ jar' = [jar EXCEPT !.external = None,
                  !.partial = [resume |-> <<t, id>>, message |-> id, identity |-> identity]]
    /\ Show(t, "partialPage", [Idle EXCEPT !.id = id, !.resume = <<t, id>>])
    /\ disturbed' = (disturbed \cup WithExternal(t) \cup WithPartial(t)) \ {t}
    /\ UNCHANGED completed

\* Wrong credentials, a user service that answers with an error, the wrong provider: the
\* login page with a message, or an error page to go back from.
TurnedAway(t, id) ==
    /\ Show(t, "loginPage", [Idle EXCEPT !.id = id])
    /\ disturbed' = disturbed \ {t}
    /\ UNCHANGED <<jar, completed>>

\* What a user service may make of a login, in AuthenticateLocalAsync and the like and
\* in PostAuthenticateAsync.
Authenticated(t, id, identity) ==
    \/ SignedIn(t, id, identity)
    \/ PartlySignedIn(t, id, identity)
    \/ TurnedAway(t, id)

\* The cookie that a request depends on is not there.
Refused(t) ==
    /\ Show(t, "lost", [Idle EXCEPT !.id = tabs[t].id])
    /\ UNCHANGED <<jar, completed, disturbed>>

------------------------------------------------------------------------------
\* The login page and local login

\* ValidateSignin
Finds(tab) == tab.id \in tab.cookies.messages

\* The restart link of a partial sign-in, which names the message.
Restart(t) ==
    /\ At(t, "partialPage")
    /\ Send(t, "login", [tabs[t] EXCEPT !.resume = None])
    /\ disturbed' = disturbed \ {t}
    /\ UNCHANGED <<jar, created, arrived, purged, completed>>

\* LoginExternal, as the login page and both of its handlers call it.
Challenged(t) ==
    /\ Show(t, "provider", tabs[t])
    /\ UNCHANGED <<jar, completed, disturbed>>

\* AuthenticationController.Login: PreAuthenticateAsync may let the user in, and the
\* message may name the provider to go to.
DeliverLogin(t) ==
    /\ At(t, "login")
    /\ IF Finds(tabs[t])
       THEN \/ Challenged(t)
            \/ Authenticated(t, tabs[t].id, tabs[t].id)
       ELSE Refused(t)
    /\ UNCHANGED <<created, arrived, purged>>

\* The user fills in the page or picks a provider, be it the first time or after going back.
Submit(t) ==
    /\ At(t, "loginPage")
    /\ Send(t, "submit", tabs[t])
    /\ UNCHANGED <<jar, created, arrived, purged, completed, disturbed>>

\* AuthenticationController.LoginLocal, LoginExternal
DeliverSubmit(t) ==
    /\ At(t, "submit")
    /\ IF Finds(tabs[t])
       THEN Challenged(t) \/ Authenticated(t, tabs[t].id, tabs[t].id)
       ELSE Refused(t)
    /\ UNCHANGED <<created, arrived, purged>>

------------------------------------------------------------------------------
\* External login

\* The middleware of the provider puts the identity and the id of the message, which
\* went to the provider and back, into the cookie, and redirects to the callback.
ReturnFromProvider(t) ==
    /\ At(t, "provider")
    /\ jar' = [jar EXCEPT !.external = [message |-> tabs[t].id, identity |-> tabs[t].id]]
    /\ Show(t, "redirect", tabs[t])
    /\ disturbed' = (disturbed \cup WithExternal(t)) \ {t}
    /\ UNCHANGED <<created, arrived, purged, completed>>

Callback(t) ==
    /\ At(t, "redirect")
    /\ Send(t, "callback", tabs[t])
    /\ UNCHANGED <<jar, created, arrived, purged, completed, disturbed>>

\* Mutant: the message is that of the tab, as if the return URL named it.
CalledBackByUrl(tab) == IF tab.cookies.external = None THEN None ELSE tab.id

\* GetSignInIdFromExternalProvider
CalledBack(tab) ==
    IF tab.cookies.external = None THEN None ELSE tab.cookies.external.message

\* AuthenticationController.LoginExternalCallback
DeliverCallback(t) ==
    LET id == CalledBack(tabs[t]) IN
    /\ At(t, "callback")
    /\ IF id # None /\ id \in tabs[t].cookies.messages
       THEN Authenticated(t, id, tabs[t].cookies.external.identity)
       ELSE Refused(t)
    /\ UNCHANGED <<created, arrived, purged>>

------------------------------------------------------------------------------
\* Resuming a partial login

Resume(t) ==
    /\ At(t, "partialPage")
    /\ Send(t, "resume", tabs[t])
    /\ UNCHANGED <<jar, created, arrived, purged, completed, disturbed>>

\* The message of the claim that is named after the resume id of the URL.
Resumed(tab) ==
    LET partial == tab.cookies.partial IN
    IF partial # None /\ partial.resume = tab.resume THEN partial.message ELSE None

\* AuthenticationController.ResumeLoginFromRedirect
DeliverResume(t) ==
    LET id == Resumed(tabs[t]) IN
    /\ At(t, "resume")
    /\ IF id # None /\ id \in tabs[t].cookies.messages
       THEN Authenticated(t, id, tabs[t].cookies.partial.identity)
       ELSE Refused(t)
    /\ UNCHANGED <<created, arrived, purged>>

\* The shared cookies expire, after ten minutes and after ExpireTimeSpan.
ExternalExpires ==
    /\ jar.external # None
    /\ jar' = [jar EXCEPT !.external = None]
    /\ disturbed' = disturbed \cup {t \in Tabs : At(t, "redirect")}
    /\ UNCHANGED <<tabs, created, arrived, purged, completed>>

PartialExpires ==
    /\ jar.partial # None
    /\ jar' = [jar EXCEPT !.partial = None]
    /\ disturbed' = disturbed \cup {t \in Tabs : At(t, "partialPage")}
    /\ UNCHANGED <<tabs, created, arrived, purged, completed>>

------------------------------------------------------------------------------
Next ==
    \/ \E t \in Tabs :
          \/ Ask(t) \/ DeliverAsk(t)
          \/ Restart(t) \/ DeliverLogin(t)
          \/ Submit(t) \/ DeliverSubmit(t)
          \/ ReturnFromProvider(t) \/ Callback(t) \/ DeliverCallback(t)
          \/ Resume(t) \/ DeliverResume(t)
    \/ ExternalExpires
    \/ PartialExpires

Spec == Init /\ [][Next]_vars

------------------------------------------------------------------------------
\* Properties

\* The state has the shape the handlers rely on, and the history is that of messages
\* that have reached the browser.
TypeOK ==
    /\ jar \in Jar
    /\ tabs \in [Tabs -> Tab]
    /\ created \in 0 .. MaxMessages
    /\ arrived \subseteq 1 .. created
    /\ jar.messages \cup purged \subseteq arrived
    /\ completed \subseteq Completed
    /\ disturbed \subseteq Tabs

\* The browser never has more message cookies than the threshold, but for those of the
\* requests that were in flight together and did not see one another's: the bound on the
\* size of the Cookie header that ClearOverflow is there for.
JarBounded ==
    Threshold > 0 => Cardinality(jar.messages) <= Threshold + Cardinality(Tabs) - 1

\* Whichever tabs log in at a time and overwrite the cookies they share, an identity is
\* let in for the login it was presented for: the return URL, the client and the options
\* of one login never go with the user of another.
OwnLogin == \A login \in completed : login.message = login.identity

\* A tab is told that its login is unknown for one of four reasons: the message made room
\* for later ones, the login was completed already (in another tab or by a second
\* submission), or the shared cookie has expired or has been taken over by another tab.
RefusedWithReason ==
    \A t \in Tabs : At(t, "lost") =>
        \/ tabs[t].id \in purged
        \/ \E login \in completed : login.message = tabs[t].id
        \/ t \in disturbed

\* The logins of the browser, as PendingLogins has them.
Pending == INSTANCE PendingLogins WITH
    Logins <- Ids,
    pending <- jar.messages,
    completed <- {login.message : login \in completed}

\* The message cookies implement it: no login is given up but for enough later ones,
\* although the one that clears cookies decides from those that its request carried.
KeepsPending == Pending!Spec
================================================================================

---------------------------- MODULE AuthorizeEndpoint ----------------------------
(***************************************************************************)
(* The authorize endpoint: signing in, asking for consent and remembering  *)
(* it.                                                                     *)
(*                                                                         *)
(* One browser, whose tabs share the session cookie, works through the     *)
(* pages of the endpoint: each request is validated anew, may be sent to   *)
(* the sign-in page or to the consent page, and ends with an authorization *)
(* response or an error.  A tab is the request it has in progress, or the  *)
(* page it shows.  The requests of different tabs run concurrently; an     *)
(* action is what a request does up to its next call to the consent store. *)
(* The requests considered pass AuthorizeRequestValidator.                 *)
(***************************************************************************)
EXTENDS Integers, Sequences

CONSTANTS
    Tabs,                   \* tabs of the browser
    Subjects,               \* subject ids
    Clients,                \* client ids
    Idps,                   \* identity providers, LocalIdp included
    LocalIdp,               \* Constants.BuiltInIdentityProvider
    Scopes,                 \* scope names
    OfflineAccess,          \* Constants.StandardScopes.OfflineAccess
    RequiredScopes,         \* Scope.Required
    None,                   \* null
    RequireConsent,         \* the clients with Client.RequireConsent
    AllowRememberConsent,   \* the clients with Client.AllowRememberConsent
    ClientLocalLogin,       \* the clients with Client.EnableLocalLogin
    EnableLocalLogin,       \* AuthenticationOptions.EnableLocalLogin
    IdPRestrictions,        \* Client.IdentityProviderRestrictions
    Accounts,               \* <<subject, idp>>: who can sign in where
    MayBecomeInactive,      \* bound: subjects that may be deactivated
    RawRequests,            \* bound: the authorize requests considered
    MaxTime                 \* bound: the clock stops here

PromptModes == {"none", "login", "consent", "select_account"}

RawRequest == [client: Clients, scopes: SUBSET Scopes, prompt: PromptModes \cup {None},
               idp: Idps \cup {None}, maxAge: Nat \cup {None}]

ASSUME NoneAssumption == None \notin PromptModes \cup Idps \cup Subjects \cup Nat

ASSUME ClientAssumption ==
    /\ RequireConsent \subseteq Clients
    /\ AllowRememberConsent \subseteq Clients
    /\ ClientLocalLogin \subseteq Clients
    /\ EnableLocalLogin \in BOOLEAN
    /\ IdPRestrictions \in [Clients -> SUBSET Idps]

ASSUME ScopeAssumption ==
    /\ OfflineAccess \in Scopes
    /\ RequiredScopes \subseteq Scopes

ASSUME AccountAssumption ==
    /\ LocalIdp \in Idps
    /\ Accounts \subseteq Subjects \X Idps

ASSUME RawAssumption == RawRequests \subseteq RawRequest

ASSUME TimeAssumption == MaxTime \in Nat

VARIABLES
    now,        \* DateTimeOffsetHelper.UtcNow, in seconds
    active,     \* the subjects IUserService.IsActiveAsync calls active
    session,    \* the primary authentication cookie, or None
    consents,   \* InMemoryConsentStore: the entries of a subject for a client
    damaged,    \* a race in List.Add has left a null among the entries
    tabs,       \* the tabs of the browser
    agreed      \* history: what was remembered for a subject and a client

vars == <<now, active, session, consents, damaged, tabs, agreed>>

store == <<consents, damaged, agreed>>

------------------------------------------------------------------------------
\* Types

Pairs == Subjects \X Clients

User == [subject: Subjects, idp: Idps, authTime: Nat]

\* UserConsent: the submitted consent page.
Consent == [granted: BOOLEAN, scopes: SUBSET Scopes, remember: BOOLEAN]

ASSUME RecordAssumption == None \notin User \cup Consent \cup RawRequest

Pages == {"login", "page"}

\* What a request is about to do; "failed" is the error page of an exception.
Steps == {"request", "consent", "update", "add", "revoke", "issue"}

Tab == [at: {"idle", "return", "failed"} \cup Pages \cup Steps,
        raw: RawRequest \cup {None},        \* ValidatedAuthorizeRequest.Raw
        user: User \cup {None},             \* the session the request came with
        consent: Consent \cup {None},       \* the consent it came with
        granted: SUBSET Scopes,             \* ScopeValidator.GrantedScopes
        login: {"optional", "demanded", "done"}]    \* history: of prompt=login

Idle == [at |-> "idle", raw |-> None, user |-> None, consent |-> None,
         granted |-> {}, login |-> "optional"]

\* What a request has when it is about to do something.
Consistent(tab) ==
    /\ tab.at # "idle" => tab.raw # None
    /\ tab.at \in Steps \ {"request"} => tab.user # None
    /\ tab.at \in {"update", "add", "revoke"} => tab.consent # None

TypeOK ==
    /\ now \in Nat
    /\ active \subseteq Subjects
    /\ session \in User \cup {None}
    /\ consents \in [Pairs -> Seq(SUBSET Scopes)]
    /\ damaged \in BOOLEAN
    /\ tabs \in [Tabs -> Tab]
    /\ \A t \in Tabs : Consistent(tabs[t])
    /\ agreed \in [Pairs -> SUBSET Scopes]

------------------------------------------------------------------------------
\* Helpers

At(t, step) == tabs[t].at = step

Become(t, tab) == tabs' = [tabs EXCEPT ![t] = tab]

Goto(t, step) == Become(t, [tabs[t] EXCEPT !.at = step])

Finish(t) == Become(t, Idle)

Fail(t) == Become(t, [Idle EXCEPT !.at = "failed", !.raw = tabs[t].raw])

\* Whom and what the request of a tab is about.
PairOf(t) == <<tabs[t].user.subject, tabs[t].raw.client>>

Send(t, raw, consent, login) ==
    Become(t, [at |-> "request", raw |-> raw, user |-> session, consent |-> consent,
               granted |-> raw.scopes, login |-> login])

\* SingleOrDefault throws when it finds two entries, and the query when it meets a null.
Readable(pair) == ~damaged /\ Len(consents[pair]) <= 1

\* Mutant: RequiresConsentAsync is satisfied when any of the scopes was consented to.
CoversSome(pair, scopes) ==
    Len(consents[pair]) = 1 /\ scopes \cap consents[pair][1] # {}

Covers(pair, scopes) == Len(consents[pair]) = 1 /\ scopes \subseteq consents[pair][1]

\* Mutant: RequiresConsentAsync forgets about offline access.
AsksStoreForOffline(raw) ==
    raw.client \in RequireConsent /\ raw.client \in AllowRememberConsent

\* DefaultConsentService.RequiresConsentAsync asks the store only then.
AsksStore(raw) ==
    /\ raw.client \in RequireConsent
    /\ raw.client \in AllowRememberConsent
    /\ OfflineAccess \notin raw.scopes

RequiresConsent(t) ==
    /\ tabs[t].raw.client \in RequireConsent
    /\ AsksStore(tabs[t].raw) => ~Covers(PairOf(t), tabs[t].raw.scopes)

\* ScopeValidator.SetConsentedScopes
Consented(scopes, consent) == scopes \cap (RequiredScopes \cup consent.scopes)

------------------------------------------------------------------------------
\* The browser

Init ==
    /\ now = 0
    /\ active = Subjects
    /\ session = None
    /\ consents = [p \in Pairs |-> <<>>]
    /\ damaged = FALSE
    /\ tabs = [t \in Tabs |-> Idle]
    /\ agreed = [p \in Pairs |-> {}]

Arrive(t) ==
    /\ At(t, "idle")
    /\ \E raw \in RawRequests :
        Send(t, raw, None, IF raw.prompt = "login" THEN "demanded" ELSE "optional")
    /\ UNCHANGED <<now, active, session, store>>

\* The link to sign in as a different user replaces the prompt of the request.
SwitchUser(t) ==
    /\ At(t, "page")
    /\ tabs[t].raw.idp = None
    /\ Send(t, [tabs[t].raw EXCEPT !.prompt = "login"], None, "demanded")
    /\ UNCHANGED <<now, active, session, store>>

PostConsent(t) ==
    /\ At(t, "page")
    /\ \E scopes \in SUBSET tabs[t].raw.scopes, granted, remember \in BOOLEAN :
        /\ ~granted => scopes = {} /\ ~remember       \* what is read of a refusal
        /\ Send(t, tabs[t].raw,
                [granted |-> granted, scopes |-> scopes, remember |-> remember],
                tabs[t].login)
    /\ UNCHANGED <<now, active, session, store>>

\* Which identity providers the sign-in page offers, or sends the browser to.
Offers(raw, idp) ==
    IF idp = LocalIdp
    THEN EnableLocalLogin /\ raw.client \in ClientLocalLogin /\ raw.idp = None
    ELSE /\ IdPRestrictions[raw.client] = {} \/ idp \in IdPRestrictions[raw.client]
         /\ raw.idp \in {None, idp}

\* Mutant: the cookie is issued without the time of the authentication.
LoginUntimed(t) ==
    /\ At(t, "login")
    /\ \E account \in Accounts :
        session' = [subject |-> account[1], idp |-> account[2], authTime |-> None]
    /\ Become(t, [tabs[t] EXCEPT !.at = "return"])
    /\ UNCHANGED <<now, active, store>>

Login(t) ==
    /\ At(t, "login")
    /\ \E account \in Accounts :
        /\ Offers(tabs[t].raw, account[2])
        /\ session' = [subject |-> account[1], idp |-> account[2], authTime |-> now]
    /\ Become(t, [tabs[t] EXCEPT !.at = "return",
                                 !.login = IF @ = "demanded" THEN "done" ELSE @])
    /\ UNCHANGED <<now, active, store>>

\* The redirect to the return URL of the sign-in message.
Return(t) ==
    /\ At(t, "return")
    /\ Send(t, tabs[t].raw, None, tabs[t].login)
    /\ UNCHANGED <<now, active, session, store>>

Leave(t) ==
    /\ tabs[t].at \in Pages \cup {"return", "failed"}
    /\ Finish(t)
    /\ UNCHANGED <<now, active, session, store>>

Logout ==
    /\ session # None
    /\ session' = None
    /\ UNCHANGED <<now, active, store, tabs>>

------------------------------------------------------------------------------
\* Signing in

Recognised(user) == user # None /\ user.subject \in active

\* ProcessLoginAsync for a user it recognises.
OtherIdp(raw, user) == raw.idp # None /\ raw.idp # user.idp

\* UtcNow carries a fraction of a second that auth_time does not.
TooOld(raw, user, fraction) ==
    /\ raw.maxAge # None
    /\ \/ now > user.authTime + raw.maxAge
       \/ now = user.authTime + raw.maxAge /\ fraction

\* ProcessClientLoginAsync
Refused(raw, user) ==
    \/ IdPRestrictions[raw.client] # {} /\ user.idp \notin IdPRestrictions[raw.client]
    \/ user.idp = LocalIdp /\ ~(EnableLocalLogin /\ raw.client \in ClientLocalLogin)

RedirectToLogin(t, raw) ==
    Become(t, [Idle EXCEPT !.at = "login", !.raw = raw, !.login = tabs[t].login])

\* Mutant: a login prompt is overlooked when there is a session.
ProcessLoginLazily(t) ==
    /\ At(t, "request")
    /\ LET raw == tabs[t].raw
       IN IF Recognised(tabs[t].user)
          THEN Goto(t, "consent")
          ELSE RedirectToLogin(t, [raw EXCEPT !.prompt = None])
    /\ UNCHANGED <<now, active, session, store>>

\* Mutant: the login prompt stays in the parameters of the request.
ProcessLoginAgain(t) ==
    /\ At(t, "request")
    /\ LET raw == tabs[t].raw
       IN IF raw.prompt = "login" \/ ~Recognised(tabs[t].user)
          THEN RedirectToLogin(t, raw)
          ELSE Goto(t, "consent")
    /\ UNCHANGED <<now, active, session, store>>

ProcessLogin(t) ==
    /\ At(t, "request")
    /\ LET raw == tabs[t].raw
           user == tabs[t].user
       IN \/ /\ raw.prompt = "login"
             /\ RedirectToLogin(t, [raw EXCEPT !.prompt = None])
          \/ /\ raw.prompt # "login"
             /\ ~Recognised(user)
             /\ IF raw.prompt = "none" THEN Finish(t) ELSE RedirectToLogin(t, raw)
          \/ /\ raw.prompt # "login"
             /\ Recognised(user)
             /\ \E fraction \in BOOLEAN :
                IF OtherIdp(raw, user) \/ TooOld(raw, user, fraction) \/ Refused(raw, user)
                THEN RedirectToLogin(t, raw)
                ELSE Goto(t, "consent")
    /\ UNCHANGED <<now, active, session, store>>

------------------------------------------------------------------------------
\* Consent

ShowConsent(t) ==
    Become(t, [tabs[t] EXCEPT !.at = "page", !.consent = None])

\* ProcessConsentAsync for a submitted page: refused, nothing selected, or granted.
ApplyConsent(t) ==
    LET tab == tabs[t]
        granted == Consented(tab.granted, tab.consent)
    IN \/ ~tab.consent.granted /\ Finish(t)
       \/ tab.consent.granted /\ granted = {} /\ ShowConsent(t)
       \/ /\ tab.consent.granted /\ granted # {}
          /\ Become(t, [tab EXCEPT !.granted = granted,
                !.at = CASE tab.raw.client \notin AllowRememberConsent -> "issue"
                         [] tab.consent.remember -> "update"
                         [] OTHER -> "revoke"])

\* Mutant: prompt=consent does not matter to who has consented.
MustAskOnce(t) == RequiresConsent(t)

MustAsk(t) == tabs[t].raw.prompt = "consent" \/ RequiresConsent(t)

ProcessConsent(t) ==
    /\ At(t, "consent")
    /\ LET prompt == tabs[t].raw.prompt
       IN \/ prompt = "select_account" /\ Fail(t)
          \/ /\ prompt # "select_account"
             /\ AsksStore(tabs[t].raw) /\ ~Readable(PairOf(t))
             /\ Fail(t)
          \/ /\ prompt # "select_account"
             /\ AsksStore(tabs[t].raw) => Readable(PairOf(t))
             /\ CASE RequiresConsent(t) /\ prompt = "none" -> Finish(t)
                  [] ~MustAsk(t) -> Goto(t, "issue")
                  [] OTHER -> IF tabs[t].consent = None THEN ShowConsent(t) ELSE ApplyConsent(t)
    /\ UNCHANGED <<now, active, session, store>>

\* InMemoryConsentStore.UpdateAsync replaces the entry it finds, or is about to add one.
UpdateConsent(t) ==
    /\ At(t, "update")
    /\ LET pair == PairOf(t)
       IN \/ ~Readable(pair) /\ Fail(t) /\ UNCHANGED store
          \/ /\ Readable(pair) /\ consents[pair] = <<>>
             /\ Goto(t, "add")
             /\ UNCHANGED store
          \/ /\ Readable(pair) /\ consents[pair] # <<>>
             /\ consents' = [consents EXCEPT ![pair] = <<tabs[t].granted>>]
             /\ agreed' = [agreed EXCEPT ![pair] = @ \cup tabs[t].granted]
             /\ Goto(t, "issue")
             /\ UNCHANGED damaged
    /\ UNCHANGED <<now, active, session>>

\* List.Add is not atomic: of two at a time one entry may be lost, or a slot left null.
AddConsent(t) ==
    /\ At(t, "add")
    /\ LET pair == PairOf(t)
           raced == \E u \in Tabs \ {t} : At(u, "add")
       IN /\ \/ /\ consents' = [consents EXCEPT ![pair] = Append(@, tabs[t].granted)]
                /\ damaged' \in {damaged, damaged \/ raced}
             \/ raced /\ UNCHANGED <<consents, damaged>>
          /\ agreed' = [agreed EXCEPT ![pair] = @ \cup tabs[t].granted]
    /\ Goto(t, "issue")
    /\ UNCHANGED <<now, active, session>>

\* A consent that is not to be remembered removes the one that was.  RevokeAsync is a query
\* and a List.Remove, without a lock; here they are one step.  An entry that another tab
\* adds in between stays, and one that it changes goes, as if all of the call came before
\* the first or after the second.  A Remove that runs at the same time as an Add may lose
\* its entry or leave a null, as AddConsent does with two adds: less is remembered, or
\* nothing can be read.
RevokeConsent(t) ==
    /\ At(t, "revoke")
    /\ LET pair == PairOf(t)
       IN \/ ~Readable(pair) /\ Fail(t) /\ UNCHANGED store
          \/ /\ Readable(pair)
             /\ consents' = [consents EXCEPT ![pair] = <<>>]
             /\ agreed' = [agreed EXCEPT ![pair] = {}]
             /\ Goto(t, "issue")
             /\ UNCHANGED damaged
    /\ UNCHANGED <<now, active, session>>

\* CreateAuthorizeResponseAsync; the codes it issues are in AuthorizationCodes.
Issue(t) ==
    /\ At(t, "issue")
    /\ Finish(t)
    /\ UNCHANGED <<now, active, session, store>>

\* Mutant: the permissions page leaves the store of the consents alone.
WithdrawNothing(client) ==
    /\ session # None
    /\ agreed' = [agreed EXCEPT ![<<session.subject, client>>] = {}]
    /\ UNCHANGED <<now, active, session, consents, damaged, tabs>>

\* The user revokes the permissions of a client; unreadable entries make that fail.
Withdraw(client) ==
    /\ session # None
    /\ LET pair == <<session.subject, client>>
       IN /\ Readable(pair)
          /\ consents' = [consents EXCEPT ![pair] = <<>>]
          /\ agreed' = [agreed EXCEPT ![pair] = {}]
    /\ UNCHANGED <<now, active, session, damaged, tabs>>

------------------------------------------------------------------------------
\* The environment

\* An exception of a service the request awaits, or a lost connection.
Abort(t) ==
    /\ tabs[t].at \in Steps
    /\ Finish(t)
    /\ UNCHANGED <<now, active, session, store>>

Deactivate(subject) ==
    /\ subject \in active \cap MayBecomeInactive
    /\ active' = active \ {subject}
    /\ UNCHANGED <<now, session, store, tabs>>

Tick ==
    /\ now < MaxTime
    /\ now' = now + 1
    /\ UNCHANGED <<active, session, store, tabs>>

------------------------------------------------------------------------------

Browse(t) == Arrive(t) \/ SwitchUser(t) \/ PostConsent(t) \/ Leave(t)

Serve(t) ==
    \/ ProcessLogin(t) \/ ProcessConsent(t) \/ UpdateConsent(t) \/ AddConsent(t)
    \/ RevokeConsent(t) \/ Issue(t)

Next ==
    \/ \E t \in Tabs : Browse(t) \/ Login(t) \/ Return(t) \/ Serve(t) \/ Abort(t)
    \/ \E c \in Clients : Withdraw(c)
    \/ \E s \in Subjects : Deactivate(s)
    \/ Logout
    \/ Tick

Spec == Init /\ [][Next]_vars

\* A request the server has accepted is worked off, a redirect is followed, and the user
\* does sign in when asked to.  Nobody has to send requests or to answer the consent page.
FairSpec ==
    /\ Spec
    /\ \A t \in Tabs : WF_vars(Serve(t)) /\ WF_vars(Login(t)) /\ WF_vars(Return(t))

------------------------------------------------------------------------------
\* Properties

Issues(t) == ~At(t, "issue") /\ tabs'[t].at = "issue"

Backed(t) ==
    \/ tabs'[t].granted \subseteq agreed[PairOf(t)]
    \/ /\ tabs[t].consent # None
       /\ tabs[t].consent.granted
       /\ tabs'[t].granted \subseteq RequiredScopes \cup tabs[t].consent.scopes

IssuesAreBacked ==
    \A t \in Tabs : Issues(t) /\ tabs[t].raw.client \in RequireConsent => Backed(t)

\* An authorization response for a client that requires consent gives no scope but those
\* ticked on the page of this very request, or those remembered for the user and the
\* client and not revoked since, whatever other tabs remember and revoke meanwhile.
ConsentBacksIssue == [][IssuesAreBacked]_vars

\* What may not be remembered is asked every time: prompt=consent, offline access, and
\* clients that do not allow to remember consent never profit from the store, and the
\* page decides what is granted.
AskedEveryTime ==
    \A t \in Tabs :
        LET raw == tabs[t].raw
        IN /\ At(t, "issue")
           /\ \/ raw.prompt = "consent"
              \/ /\ raw.client \in RequireConsent
                 /\ raw.client \notin AllowRememberConsent \/ OfflineAccess \in raw.scopes
           => /\ tabs[t].consent # None
              /\ tabs[t].consent.granted
              /\ tabs[t].granted = Consented(raw.scopes, tabs[t].consent)

\* A flow that asked for prompt=login, of its own or through the link to switch users,
\* gets past the sign-in only after a sign-in of its own; one that asked for prompt=none
\* never shows the consent page.
PromptHonoured ==
    \A t \in Tabs :
        /\ tabs[t].at \in Steps \ {"request"} => tabs[t].login # "demanded"
        /\ At(t, "page") => tabs[t].raw.prompt # "none"

\* Whoever has signed in as the sign-in page asked is not sent back to it: the flow goes
\* on, ends, or the user signs out, or is disabled, in between.
LoginSuffices ==
    \A t \in Tabs :
        At(t, "return") ~>
            (tabs[t].at \in {"idle", "consent"} \/ session = None \/ session.subject \notin active)
==================================================================================

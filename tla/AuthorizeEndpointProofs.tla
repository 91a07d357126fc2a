------------------------- MODULE AuthorizeEndpointProofs -------------------------
(***************************************************************************)
(* What holds of the authorize endpoint for every number of tabs, users    *)
(* and clients, every setting of the clients and every set of requests.    *)
(***************************************************************************)
EXTENDS AuthorizeEndpoint, TLAPS

LEMMA IdleType == Idle \in Tab /\ Consistent(Idle)
BY NoneAssumption DEF Idle, Tab, Consistent, Steps, Pages

LEMMA BecomeOne ==
    ASSUME TypeOK, NEW t \in Tabs, NEW tab \in Tab, Become(t, tab)
    PROVE  /\ tabs' \in [Tabs -> Tab]
           /\ tabs'[t] = tab
           /\ \A u \in Tabs : u # t => tabs'[u] = tabs[u]
BY DEF TypeOK, Become

------------------------------------------------------------------------------
\* What holds of a tab in every step.  AskedEveryTime and PromptHonoured look at
\* the steps "issue" and "page" only; before, the scopes of a request are those it
\* asked for, a submitted page that is being recorded granted what it grants, and a
\* login that was demanded is still ahead.

Answered(tab) ==
    /\ tab.consent # None
    /\ tab.consent.granted
    /\ tab.granted = Consented(tab.raw.scopes, tab.consent)

\* A request that the store cannot answer.
Asks(raw) ==
    \/ raw.prompt = "consent"
    \/ /\ raw.client \in RequireConsent
       /\ raw.client \notin AllowRememberConsent \/ OfflineAccess \in raw.scopes

Good(tab) ==
    /\ tab.at \in {"request", "consent"} => tab.granted = tab.raw.scopes
    /\ tab.at \in {"update", "add", "revoke"} => Answered(tab)
    /\ tab.at = "issue" /\ Asks(tab.raw) => Answered(tab)
    /\ tab.at = "page" => tab.raw.prompt # "none"
    /\ tab.login = "demanded" =>
         tab.at = "login" \/ (tab.at = "request" /\ tab.raw.prompt = "login")

TabInv == TypeOK /\ \A t \in Tabs : Good(tabs[t])

LEMMA TabInit == Init => TabInv
<1> SUFFICES ASSUME Init PROVE TabInv
  OBVIOUS
<1>1. \A t \in Tabs : tabs[t] = Idle
  BY DEF Init
<1>2. Good(Idle)
  BY DEF Good, Idle
<1>3. tabs \in [Tabs -> Tab]
  BY IdleType DEF Init
<1>4. consents \in [Pairs -> Seq(SUBSET Scopes)] /\ agreed \in [Pairs -> SUBSET Scopes]
  BY DEF Init
<1> QED
  BY <1>1, <1>2, <1>3, <1>4, IdleType DEF Init, TabInv, TypeOK

\* A step of one tab.
LEMMA TabStep ==
    ASSUME TabInv, NEW t \in Tabs, NEW tab \in Tab, Become(t, tab),
           Consistent(tab), Good(tab), UNCHANGED <<now, active>>, session' \in User \cup {None},
           consents' \in [Pairs -> Seq(SUBSET Scopes)], damaged' \in BOOLEAN,
           agreed' \in [Pairs -> SUBSET Scopes]
    PROVE  TabInv'
<1>1. tabs' \in [Tabs -> Tab]
  BY BecomeOne DEF TabInv
<1>2. \A u \in Tabs : Consistent(tabs'[u]) /\ Good(tabs'[u])
  BY BecomeOne DEF TabInv, TypeOK
<1> QED
  BY <1>1, <1>2 DEF TabInv, TypeOK

LEMMA QuietStep ==
    ASSUME TabInv, NEW t \in Tabs, NEW tab \in Tab, Become(t, tab),
           Consistent(tab), Good(tab), UNCHANGED <<now, active, session, store>>
    PROVE  TabInv'
BY TabStep DEF store, TabInv, TypeOK

LEMMA EndStep ==
    ASSUME TabInv, NEW t \in Tabs, Finish(t), UNCHANGED <<now, active, session, store>>
    PROVE  TabInv'
<1>1. Good(Idle) /\ Become(t, Idle)
  BY DEF Good, Idle, Finish
<1> QED
  BY <1>1, IdleType, QuietStep

\* An HTTP request.
LEMMA SendStep ==
    ASSUME TabInv, NEW t \in Tabs, NEW raw \in RawRequest, NEW consent \in Consent \cup {None},
           NEW login \in {"optional", "demanded", "done"},
           login = "demanded" => raw.prompt = "login", Send(t, raw, consent, login),
           UNCHANGED <<now, active, session, store>>
    PROVE  TabInv'
<1> DEFINE tab == [at |-> "request", raw |-> raw, user |-> session, consent |-> consent,
                   granted |-> raw.scopes, login |-> login]
<1>1. raw.scopes \in SUBSET Scopes /\ raw # None
  BY RecordAssumption DEF RawRequest
<1>2. tab \in Tab
  BY <1>1 DEF Tab, Steps, TabInv, TypeOK
<1>3. Consistent(tab) /\ Good(tab)
  BY <1>1 DEF Consistent, Good
<1>4. Become(t, tab)
  BY DEF Send
<1> HIDE DEF tab
<1> QED
  BY <1>2, <1>3, <1>4, QuietStep

\* A tab that is at work has a request, and what it is made of.
LEMMA TabParts ==
    ASSUME TabInv, NEW t \in Tabs, tabs[t].at # "idle"
    PROVE  /\ tabs[t] \in Tab
           /\ tabs[t].raw \in RawRequest
           /\ tabs[t].raw.scopes \in SUBSET Scopes
           /\ tabs[t].login \in {"optional", "demanded", "done"}
<1>1. tabs[t] \in Tab /\ tabs[t].raw # None
  BY DEF TabInv, TypeOK, Consistent
<1>2. tabs[t].raw \in RawRequest /\ tabs[t].login \in {"optional", "demanded", "done"}
  BY <1>1 DEF Tab
<1>3. tabs[t].raw.scopes \in SUBSET Scopes
  BY <1>2 DEF RawRequest
<1> QED
  BY <1>1, <1>2, <1>3

LEMMA BrowseStep ==
    ASSUME TabInv, NEW t \in Tabs, Browse(t) \/ Return(t)
    PROVE  TabInv'
<1>1. CASE Arrive(t)
  <2>1. PICK raw \in RawRequests :
          Send(t, raw, None, IF raw.prompt = "login" THEN "demanded" ELSE "optional")
    BY <1>1 DEF Arrive
  <2> DEFINE login == IF raw.prompt = "login" THEN "demanded" ELSE "optional"
  <2>2. /\ raw \in RawRequest
        /\ login \in {"optional", "demanded", "done"}
        /\ login = "demanded" => raw.prompt = "login"
        /\ Send(t, raw, None, login)
    BY <2>1, RawAssumption
  <2> HIDE DEF login
  <2> QED
    BY <1>1, <2>2, SendStep DEF Arrive
<1>2. CASE SwitchUser(t)
  <2> DEFINE raw == [tabs[t].raw EXCEPT !.prompt = "login"]
  <2>1. tabs[t].raw \in RawRequest
    BY <1>2, TabParts DEF SwitchUser, At
  <2>2. raw \in RawRequest /\ raw.prompt = "login"
    BY <2>1 DEF RawRequest, PromptModes
  <2>3. Send(t, raw, None, "demanded")
    BY <1>2 DEF SwitchUser
  <2> HIDE DEF raw
  <2> QED
    BY <1>2, <2>2, <2>3, SendStep DEF SwitchUser
<1>3. CASE PostConsent(t)
  <2>1. PICK scopes \in SUBSET tabs[t].raw.scopes, granted \in BOOLEAN, remember \in BOOLEAN :
          Send(t, tabs[t].raw,
               [granted |-> granted, scopes |-> scopes, remember |-> remember],
               tabs[t].login)
    BY <1>3 DEF PostConsent
  <2> DEFINE consent == [granted |-> granted, scopes |-> scopes, remember |-> remember]
  <2>2. /\ tabs[t] \in Tab /\ tabs[t].raw \in RawRequest
        /\ scopes \in SUBSET Scopes
        /\ tabs[t].login \in {"optional", "done"}
    BY <1>3, TabParts DEF PostConsent, At, TabInv, Good
  <2>3. consent \in Consent
    BY <2>2 DEF Consent, Tab
  <2>4. Send(t, tabs[t].raw, consent, tabs[t].login)
    BY <2>1
  <2> HIDE DEF consent
  <2> QED
    BY <1>3, <2>2, <2>3, <2>4, SendStep DEF PostConsent
<1>4. CASE Leave(t)
  BY <1>4, EndStep DEF Leave
<1>5. CASE Return(t)
  <2>1. tabs[t].raw \in RawRequest /\ tabs[t].login \in {"optional", "done"}
    BY <1>5, TabParts DEF Return, At, TabInv, Good
  <2> QED
    BY <1>5, <2>1, SendStep DEF Return
<1> QED
  BY <1>1, <1>2, <1>3, <1>4, <1>5 DEF Browse

LEMMA LoginStep ==
    ASSUME TabInv, NEW t \in Tabs, Login(t)
    PROVE  TabInv'
<1> DEFINE login == IF tabs[t].login = "demanded" THEN "done" ELSE tabs[t].login
           tab == [tabs[t] EXCEPT !.at = "return", !.login = login]
<1>1. tabs[t] \in Tab /\ tabs[t].raw # None /\ tabs[t].at = "login"
  BY TabParts, RecordAssumption DEF Login, At
<1>2. login \in {"optional", "done"}
  BY <1>1 DEF Tab
<1>3. Become(t, tab)
  BY DEF Login
<1> HIDE DEF login
<1>4. tab \in Tab
  BY <1>1, <1>2 DEF Tab
<1>5. tab.at = "return" /\ tab.raw # None /\ tab.login # "demanded"
  BY <1>1, <1>2 DEF Tab
<1> HIDE DEF tab
<1>6. Consistent(tab) /\ Good(tab)
  BY <1>5 DEF Consistent, Good, Steps
<1>7. session' \in User
  BY AccountAssumption DEF Login, User, TabInv, TypeOK
<1> QED
  BY <1>3, <1>4, <1>6, <1>7, TabStep DEF Login, store, TabInv, TypeOK

LEMMA LoginRedirect ==
    ASSUME TabInv, NEW t \in Tabs, At(t, "request"), NEW raw \in RawRequest,
           RedirectToLogin(t, raw), UNCHANGED <<now, active, session, store>>
    PROVE  TabInv'
<1> DEFINE tab == [Idle EXCEPT !.at = "login", !.raw = raw, !.login = tabs[t].login]
<1>1. tabs[t].login \in {"optional", "demanded", "done"} /\ raw # None
  BY TabParts, RecordAssumption DEF At
<1>2. tab \in Tab
  BY <1>1, IdleType DEF Tab, Pages
<1>3. tab.at = "login" /\ tab.raw # None
  BY <1>1 DEF Idle
<1>4. Become(t, tab)
  BY DEF RedirectToLogin
<1> HIDE DEF tab
<1>5. Consistent(tab) /\ Good(tab)
  BY <1>3 DEF Consistent, Good, Steps
<1> QED
  BY <1>2, <1>4, <1>5, QuietStep

LEMMA ProcessLoginStep ==
    ASSUME TabInv, NEW t \in Tabs, ProcessLogin(t)
    PROVE  TabInv'
<1>1. At(t, "request") /\ UNCHANGED <<now, active, session, store>>
  BY DEF ProcessLogin
<1>2. tabs[t] \in Tab /\ tabs[t].raw \in RawRequest /\ tabs[t].raw # None /\ Good(tabs[t])
  BY <1>1, TabParts, RecordAssumption DEF At, TabInv
<1>3. CASE RedirectToLogin(t, [tabs[t].raw EXCEPT !.prompt = None])
  <2> DEFINE raw == [tabs[t].raw EXCEPT !.prompt = None]
  <2>1. raw \in RawRequest
    BY <1>2 DEF RawRequest
  <2>2. RedirectToLogin(t, raw)
    BY <1>3
  <2> HIDE DEF raw
  <2> QED
    BY <1>1, <2>1, <2>2, LoginRedirect
<1>4. CASE Finish(t)
  BY <1>1, <1>4, EndStep
<1>5. CASE RedirectToLogin(t, tabs[t].raw)
  BY <1>1, <1>2, <1>5, LoginRedirect
<1>6. CASE Goto(t, "consent") /\ tabs[t].raw.prompt # "login" /\ Recognised(tabs[t].user)
  <2> DEFINE tab == [tabs[t] EXCEPT !.at = "consent"]
  <2>1. tab \in Tab
    BY <1>2 DEF Tab, Steps
  <2>2. /\ tab.at = "consent" /\ tab.raw = tabs[t].raw /\ tab.user = tabs[t].user
        /\ tab.granted = tabs[t].granted /\ tab.login = tabs[t].login
    BY <1>2 DEF Tab
  <2>3. Become(t, tab)
    BY <1>6 DEF Goto
  <2> HIDE DEF tab
  <2>4. Consistent(tab) /\ Good(tab)
    BY <1>1, <1>2, <1>6, <2>2 DEF Consistent, Good, Recognised, At, Steps
  <2> QED
    BY <1>1, <2>1, <2>3, <2>4, QuietStep
<1> QED
  BY <1>3, <1>4, <1>5, <1>6 DEF ProcessLogin

\* A request goes on to its next step, for a user it has recognised.
LEMMA GoesOn ==
    ASSUME TabInv, NEW t \in Tabs, tabs[t].at \in Steps \ {"request"}, NEW tab \in Tab,
           Become(t, tab), tab.at \in Steps \ {"request", "consent"}, tab.raw = tabs[t].raw,
           tab.user = tabs[t].user, tab.login = tabs[t].login,
           Answered(tab) \/ (tab.at = "issue" /\ ~Asks(tab.raw)),
           UNCHANGED <<now, active, session>>,
           consents' \in [Pairs -> Seq(SUBSET Scopes)], damaged' \in BOOLEAN,
           agreed' \in [Pairs -> SUBSET Scopes]
    PROVE  TabInv'
<1>1. tabs[t].raw # None /\ tabs[t].user # None /\ tabs[t].login # "demanded"
  BY DEF Steps, TabInv, TypeOK, Consistent, Good
<1>2. Good(tab)
  BY <1>1 DEF Good, Steps
<1>3. Consistent(tab)
  BY <1>1 DEF Consistent, Answered, Steps
<1> QED
  BY <1>2, <1>3, TabStep DEF TabInv, TypeOK

LEMMA ShowStep ==
    ASSUME TabInv, NEW t \in Tabs, At(t, "consent"), tabs[t].raw.prompt # "none",
           ShowConsent(t), UNCHANGED <<now, active, session, store>>
    PROVE  TabInv'
<1> DEFINE tab == [tabs[t] EXCEPT !.at = "page", !.consent = None]
<1>1. /\ tabs[t] \in Tab /\ tabs[t].raw # None /\ tabs[t].user # None
      /\ tabs[t].login # "demanded"
  BY TabParts, RecordAssumption DEF At, Steps, TabInv, TypeOK, Consistent, Good
<1>2. tab \in Tab
  BY <1>1 DEF Tab, Pages
<1>3. tab.at = "page" /\ tab.raw = tabs[t].raw /\ tab.login = tabs[t].login
  BY <1>1 DEF Tab
<1>4. Become(t, tab)
  BY DEF ShowConsent
<1> HIDE DEF tab
<1>5. Consistent(tab) /\ Good(tab)
  BY <1>1, <1>3 DEF Consistent, Good, Steps
<1> QED
  BY <1>2, <1>4, <1>5, QuietStep

LEMMA FailStep ==
    ASSUME TabInv, NEW t \in Tabs, tabs[t].at \in Steps, Fail(t),
           UNCHANGED <<now, active, session, store>>
    PROVE  TabInv'
<1> DEFINE tab == [Idle EXCEPT !.at = "failed", !.raw = tabs[t].raw]
<1>1. tabs[t].raw \in RawRequest /\ tabs[t].raw # None
  BY TabParts, RecordAssumption DEF Steps
<1>2. tab \in Tab
  BY <1>1, IdleType DEF Tab
<1>3. tab.at = "failed" /\ tab.raw = tabs[t].raw /\ tab.login = "optional"
  BY DEF Idle
<1>4. Become(t, tab)
  BY DEF Fail
<1> HIDE DEF tab
<1>5. Consistent(tab) /\ Good(tab)
  BY <1>1, <1>3 DEF Consistent, Good, Steps
<1> QED
  BY <1>2, <1>4, <1>5, QuietStep

LEMMA ApplyStep ==
    ASSUME TabInv, NEW t \in Tabs, At(t, "consent"), tabs[t].raw.prompt # "none",
           tabs[t].consent # None, ApplyConsent(t), UNCHANGED <<now, active, session, store>>
    PROVE  TabInv'
<1> DEFINE granted == Consented(tabs[t].granted, tabs[t].consent)
           step == CASE tabs[t].raw.client \notin AllowRememberConsent -> "issue"
                     [] tabs[t].consent.remember -> "update"
                     [] OTHER -> "revoke"
           tab == [tabs[t] EXCEPT !.granted = granted, !.at = step]
<1>1. CASE Finish(t)
  BY <1>1, EndStep
<1>2. CASE ShowConsent(t)
  BY <1>2, ShowStep
<1>3. CASE /\ tabs[t].consent.granted
           /\ Become(t, [tabs[t] EXCEPT !.granted = granted, !.at = step])
  <2>1. /\ tabs[t] \in Tab /\ tabs[t].granted = tabs[t].raw.scopes
        /\ tabs[t].at \in Steps \ {"request"}
    BY DEF At, Steps, TabInv, TypeOK, Good
  <2>2. granted \in SUBSET Scopes
    BY <2>1 DEF Tab, Consented
  <2>3. step \in Steps \ {"request", "consent"}
    BY DEF Steps
  <2>4. tab \in Tab
    BY <2>1, <2>2, <2>3 DEF Tab
  <2>5. /\ tab.at = step /\ tab.raw = tabs[t].raw /\ tab.user = tabs[t].user
        /\ tab.login = tabs[t].login /\ tab.consent = tabs[t].consent
        /\ tab.granted = Consented(tabs[t].raw.scopes, tabs[t].consent)
    BY <2>1 DEF Tab
  <2>6. Become(t, tab)
    BY <1>3
  <2> HIDE DEF tab, granted, step
  <2>7. Answered(tab)
    BY <1>3, <2>5 DEF Answered
  <2> QED
    BY <2>1, <2>3, <2>4, <2>5, <2>6, <2>7, GoesOn DEF store, TabInv, TypeOK
<1> QED
  BY <1>1, <1>2, <1>3 DEF ApplyConsent

\* A request goes on as it is.
LEMMA PlainStep ==
    ASSUME TabInv, NEW t \in Tabs, NEW step \in Steps \ {"request", "consent"},
           tabs[t].at \in Steps \ {"request"}, Goto(t, step),
           Answered(tabs[t]) \/ (step = "issue" /\ ~Asks(tabs[t].raw)),
           UNCHANGED <<now, active, session>>,
           consents' \in [Pairs -> Seq(SUBSET Scopes)], damaged' \in BOOLEAN,
           agreed' \in [Pairs -> SUBSET Scopes]
    PROVE  TabInv'
<1> DEFINE tab == [tabs[t] EXCEPT !.at = step]
<1>1. tabs[t] \in Tab
  BY DEF TabInv, TypeOK
<1>2. tab \in Tab
  BY <1>1 DEF Tab
<1>3. /\ tab.at = step /\ tab.raw = tabs[t].raw /\ tab.user = tabs[t].user
      /\ tab.login = tabs[t].login /\ tab.consent = tabs[t].consent
      /\ tab.granted = tabs[t].granted
  BY <1>1 DEF Tab
<1>4. Become(t, tab)
  BY DEF Goto
<1> HIDE DEF tab
<1>5. Answered(tab) \/ (tab.at = "issue" /\ ~Asks(tab.raw))
  BY <1>3 DEF Answered
<1> QED
  BY <1>2, <1>3, <1>4, <1>5, GoesOn

LEMMA ProcessConsentStep ==
    ASSUME TabInv, NEW t \in Tabs, ProcessConsent(t)
    PROVE  TabInv'
<1>1. At(t, "consent") /\ tabs[t].at \in Steps \ {"request"} /\ UNCHANGED <<now, active, session, store>>
  BY DEF ProcessConsent, At, Steps
<1>2. CASE Fail(t)
  BY <1>1, <1>2, FailStep
<1>3. CASE Finish(t)
  BY <1>1, <1>3, EndStep
<1>4. CASE ~MustAsk(t) /\ Goto(t, "issue")
  <2>1. ~Asks(tabs[t].raw)
    BY <1>4 DEF MustAsk, RequiresConsent, AsksStore, Asks
  <2>2. "issue" \in Steps \ {"request", "consent"}
    BY DEF Steps
  <2> QED
    BY <1>1, <1>4, <2>1, <2>2, PlainStep DEF store, TabInv, TypeOK
<1>5. CASE /\ MustAsk(t) /\ ~(RequiresConsent(t) /\ tabs[t].raw.prompt = "none")
           /\ IF tabs[t].consent = None THEN ShowConsent(t) ELSE ApplyConsent(t)
  <2>1. tabs[t].raw.prompt # "none"
    BY <1>5 DEF MustAsk
  <2> QED
    BY <1>1, <1>5, <2>1, ShowStep, ApplyStep
<1> QED
  BY <1>2, <1>3, <1>4, <1>5 DEF ProcessConsent

\* The user and the client of a request that is past the sign-in.
LEMMA PairType ==
    ASSUME TabInv, NEW t \in Tabs, tabs[t].at \in Steps \ {"request"}
    PROVE  PairOf(t) \in Pairs /\ tabs[t].granted \in SUBSET Scopes
<1>1. tabs[t] \in Tab /\ tabs[t].raw # None /\ tabs[t].user # None
  BY TabParts, RecordAssumption DEF Steps, TabInv, TypeOK, Consistent
<1>2. tabs[t].raw \in RawRequest /\ tabs[t].user \in User /\ tabs[t].granted \in SUBSET Scopes
  BY <1>1 DEF Tab
<1>3. tabs[t].user.subject \in Subjects /\ tabs[t].raw.client \in Clients
  BY <1>2 DEF RawRequest, User
<1> QED
  BY <1>2, <1>3 DEF PairOf, Pairs

\* What a step that records a consent does to the store of the consents.
LEMMA RecordType ==
    ASSUME TabInv, NEW pair \in Pairs, NEW entries \in Seq(SUBSET Scopes),
           NEW scopes \in SUBSET Scopes
    PROVE  /\ [consents EXCEPT ![pair] = entries] \in [Pairs -> Seq(SUBSET Scopes)]
           /\ [agreed EXCEPT ![pair] = scopes] \in [Pairs -> SUBSET Scopes]
           /\ [agreed EXCEPT ![pair] = agreed[pair] \cup scopes] \in [Pairs -> SUBSET Scopes]
BY DEF TabInv, TypeOK

LEMMA RecordStep ==
    ASSUME TabInv, NEW t \in Tabs, UpdateConsent(t) \/ AddConsent(t) \/ RevokeConsent(t)
    PROVE  TabInv'
<1> DEFINE pair == PairOf(t)
<1>1. /\ tabs[t].at \in {"update", "add", "revoke"} /\ tabs[t].at \in Steps \ {"request"}
      /\ UNCHANGED <<now, active, session>>
  BY DEF UpdateConsent, AddConsent, RevokeConsent, At, Steps
<1>2. /\ Answered(tabs[t]) /\ pair \in Pairs /\ tabs[t].granted \in SUBSET Scopes
      /\ "issue" \in Steps \ {"request", "consent"} /\ "add" \in Steps \ {"request", "consent"}
  BY <1>1, PairType DEF TabInv, Good, Steps
<1>3. damaged \in BOOLEAN /\ consents[pair] \in Seq(SUBSET Scopes)
  BY <1>2 DEF TabInv, TypeOK
<1> HIDE DEF pair
<1>4. CASE Fail(t) /\ UNCHANGED store
  BY <1>1, <1>4, FailStep
<1>5. CASE Goto(t, "add") /\ UNCHANGED store
  BY <1>1, <1>2, <1>5, PlainStep DEF store, TabInv, TypeOK
<1>6. CASE /\ consents' = [consents EXCEPT ![pair] = <<tabs[t].granted>>]
           /\ agreed' = [agreed EXCEPT ![pair] = agreed[pair] \cup tabs[t].granted]
           /\ Goto(t, "issue") /\ UNCHANGED damaged
  <2>1. <<tabs[t].granted>> \in Seq(SUBSET Scopes)
    BY <1>2
  <2> QED
    BY <1>1, <1>2, <1>3, <1>6, <2>1, RecordType, PlainStep
<1>7. CASE /\ \/ /\ consents' = [consents EXCEPT ![pair] = Append(consents[pair], tabs[t].granted)]
                 /\ damaged' \in BOOLEAN
              \/ UNCHANGED <<consents, damaged>>
           /\ agreed' = [agreed EXCEPT ![pair] = agreed[pair] \cup tabs[t].granted]
           /\ Goto(t, "issue")
  <2>1. Append(consents[pair], tabs[t].granted) \in Seq(SUBSET Scopes)
    BY <1>2, <1>3
  <2> DEFINE entries == Append(consents[pair], tabs[t].granted)
  <2>2. /\ entries \in Seq(SUBSET Scopes)
        /\ UNCHANGED consents \/ consents' = [consents EXCEPT ![pair] = entries]
    BY <1>7, <2>1
  <2> HIDE DEF entries
  <2>3. consents' \in [Pairs -> Seq(SUBSET Scopes)]
    BY <1>2, <2>2, RecordType DEF TabInv, TypeOK
  <2>4. agreed' \in [Pairs -> SUBSET Scopes]
    BY <1>2, <1>3, <1>7, RecordType
  <2>5. damaged' \in BOOLEAN
    BY <1>3, <1>7
  <2> QED
    BY <1>1, <1>2, <1>7, <2>3, <2>4, <2>5, PlainStep
<1>8. CASE /\ consents' = [consents EXCEPT ![pair] = <<>>]
           /\ agreed' = [agreed EXCEPT ![pair] = {}]
           /\ Goto(t, "issue") /\ UNCHANGED damaged
  <2>1. <<>> \in Seq(SUBSET Scopes) /\ {} \in SUBSET Scopes
    OBVIOUS
  <2> QED
    BY <1>1, <1>2, <1>3, <1>8, <2>1, RecordType, PlainStep
<1>9. CASE UpdateConsent(t)
  BY <1>4, <1>5, <1>6, <1>9 DEF UpdateConsent, pair
<1>10. CASE AddConsent(t)
  BY <1>3, <1>7, <1>10 DEF AddConsent, pair
<1>11. CASE RevokeConsent(t)
  BY <1>4, <1>8, <1>11 DEF RevokeConsent, pair
<1> QED
  BY <1>9, <1>10, <1>11

\* The steps that leave the tabs alone.
LEMMA AroundStep ==
    ASSUME TabInv, \/ \E c \in Clients : Withdraw(c)
                   \/ \E s \in Subjects : Deactivate(s)
                   \/ Logout \/ Tick \/ UNCHANGED vars
    PROVE  TabInv'
<1>1. CASE \E c \in Clients : Withdraw(c)
  <2>1. PICK c \in Clients : Withdraw(c)
    BY <1>1
  <2> DEFINE pair == <<session.subject, c>>
  <2>2. session \in User
    BY <2>1 DEF Withdraw, TabInv, TypeOK
  <2>3. pair \in Pairs
    BY <2>2 DEF User, Pairs
  <2>4. /\ consents' = [consents EXCEPT ![pair] = <<>>]
        /\ agreed' = [agreed EXCEPT ![pair] = {}]
    BY <2>1 DEF Withdraw
  <2> HIDE DEF pair
  <2>5. <<>> \in Seq(SUBSET Scopes) /\ {} \in SUBSET Scopes
    OBVIOUS
  <2>6. consents' \in [Pairs -> Seq(SUBSET Scopes)] /\ agreed' \in [Pairs -> SUBSET Scopes]
    BY <2>3, <2>4, <2>5, RecordType
  <2> QED
    BY <2>1, <2>6 DEF Withdraw, TabInv, TypeOK
<1>2. CASE \E s \in Subjects : Deactivate(s)
  BY <1>2 DEF Deactivate, store, TabInv, TypeOK
<1>3. CASE Logout
  BY <1>3 DEF Logout, store, TabInv, TypeOK
<1>4. CASE Tick
  BY <1>4 DEF Tick, store, TabInv, TypeOK
<1>5. CASE UNCHANGED vars
  BY <1>5 DEF vars, TabInv, TypeOK
<1> QED
  BY <1>1, <1>2, <1>3, <1>4, <1>5

LEMMA TabNext == TabInv /\ [Next]_vars => TabInv'
<1> SUFFICES ASSUME TabInv, [Next]_vars PROVE TabInv'
  OBVIOUS
<1>1. CASE \E t \in Tabs : Browse(t) \/ Return(t)
  BY <1>1, BrowseStep
<1>2. CASE \E t \in Tabs : Login(t)
  BY <1>2, LoginStep
<1>3. CASE \E t \in Tabs : Serve(t)
  <2>1. PICK t \in Tabs : Serve(t)
    BY <1>3
  <2>2. CASE Issue(t)
    BY <2>2, EndStep DEF Issue
  <2> QED
    BY <2>1, <2>2, ProcessLoginStep, ProcessConsentStep, RecordStep DEF Serve
<1>4. CASE \E t \in Tabs : Abort(t)
  BY <1>4, EndStep DEF Abort
<1> QED
  BY <1>1, <1>2, <1>3, <1>4, AroundStep DEF Next

LEMMA Always == Spec => []TabInv
BY TabInit, TabNext, PTL DEF Spec

\* The state is well-typed in every behaviour, and a request that is about to do something
\* has what it needs for it: whose it is, what was asked for and, when it is about to
\* record a consent, the page that gave it.
THEOREM TypeCorrect == Spec => []TypeOK
<1>1. TabInv => TypeOK
  BY DEF TabInv
<1> QED
  BY <1>1, Always, PTL

\* What may not be remembered is asked every time, with any number of tabs.
THEOREM AskedEveryTimeHolds == Spec => []AskedEveryTime
<1>1. TabInv => AskedEveryTime
  BY DEF TabInv, AskedEveryTime, At, Good, Asks, Answered
<1> QED
  BY <1>1, Always, PTL

\* prompt=login is answered by a sign-in and prompt=none never shows the consent page.
THEOREM PromptHonouredHolds == Spec => []PromptHonoured
<1>1. TabInv => PromptHonoured
  BY DEF TabInv, PromptHonoured, At, Good, Steps
<1> QED
  BY <1>1, Always, PTL

------------------------------------------------------------------------------
\* What the store remembers.  Of the entries for a user and a client none goes
\* beyond what was agreed on since the last revocation, however many there are.

Kept(p) == \A i \in 1..Len(consents[p]) : consents[p][i] \subseteq agreed[p]

KeptInv == \A p \in Pairs : Kept(p)

LEMMA KeptInit == Init => KeptInv
BY DEF Init, KeptInv, Kept

\* One pair changes at a time.
LEMMA KeptOne ==
    ASSUME TabInv, KeptInv, NEW pair \in Pairs, NEW entries \in Seq(SUBSET Scopes),
           NEW scopes \in SUBSET Scopes,
           \A i \in 1..Len(entries) : entries[i] \subseteq scopes,
           consents' = [consents EXCEPT ![pair] = entries],
           agreed' = [agreed EXCEPT ![pair] = scopes]
    PROVE  KeptInv'
<1>1. consents \in [Pairs -> Seq(SUBSET Scopes)] /\ agreed \in [Pairs -> SUBSET Scopes]
  BY DEF TabInv, TypeOK
<1>2. consents'[pair] = entries /\ agreed'[pair] = scopes
  BY <1>1
<1> SUFFICES ASSUME NEW p \in Pairs, NEW i \in 1..Len(consents'[p])
             PROVE  consents'[p][i] \subseteq agreed'[p]
  BY DEF KeptInv, Kept
<1>3. CASE p = pair
  BY <1>2, <1>3
<1>4. CASE p # pair
  <2>1. consents'[p] = consents[p] /\ agreed'[p] = agreed[p]
    BY <1>1, <1>4
  <2> QED
    BY <2>1 DEF KeptInv, Kept
<1> QED
  BY <1>3, <1>4

LEMMA KeptEmpty ==
    ASSUME TabInv, KeptInv, NEW pair \in Pairs,
           consents' = [consents EXCEPT ![pair] = <<>>],
           agreed' = [agreed EXCEPT ![pair] = {}]
    PROVE  KeptInv'
<1>1. <<>> \in Seq(SUBSET Scopes) /\ {} \in SUBSET Scopes /\ 1..Len(<<>>) = {}
  OBVIOUS
<1> QED
  BY <1>1, KeptOne

\* A consent that is recorded joins what was agreed on.
LEMMA KeptRecord ==
    ASSUME TabInv, KeptInv, NEW pair \in Pairs, NEW granted \in SUBSET Scopes,
           \/ UNCHANGED consents
           \/ consents' = [consents EXCEPT ![pair] = <<granted>>]
           \/ consents' = [consents EXCEPT ![pair] = Append(consents[pair], granted)],
           agreed' = [agreed EXCEPT ![pair] = agreed[pair] \cup granted]
    PROVE  KeptInv'
<1> DEFINE scopes == agreed[pair] \cup granted
<1>1. /\ consents \in [Pairs -> Seq(SUBSET Scopes)] /\ consents[pair] \in Seq(SUBSET Scopes)
      /\ agreed[pair] \in SUBSET Scopes
  BY DEF TabInv, TypeOK
<1>2. /\ scopes \in SUBSET Scopes /\ granted \subseteq scopes
      /\ \A i \in 1..Len(consents[pair]) : consents[pair][i] \subseteq scopes
      /\ agreed' = [agreed EXCEPT ![pair] = scopes]
  BY <1>1 DEF KeptInv, Kept
<1> HIDE DEF scopes
<1>3. CASE UNCHANGED consents
  <2>1. consents' = [consents EXCEPT ![pair] = consents[pair]]
    BY <1>1, <1>3
  <2> QED
    BY <1>1, <1>2, <2>1, KeptOne
<1>4. CASE consents' = [consents EXCEPT ![pair] = <<granted>>]
  <2> DEFINE entries == <<granted>>
  <2>1. entries \in Seq(SUBSET Scopes) /\ \A i \in 1..Len(entries) : entries[i] \subseteq scopes
    BY <1>2
  <2>2. consents' = [consents EXCEPT ![pair] = entries]
    BY <1>4
  <2> HIDE DEF entries
  <2> QED
    BY <1>2, <2>1, <2>2, KeptOne
<1>5. CASE consents' = [consents EXCEPT ![pair] = Append(consents[pair], granted)]
  <2> DEFINE entries == Append(consents[pair], granted)
  <2>1. entries \in Seq(SUBSET Scopes) /\ \A i \in 1..Len(entries) : entries[i] \subseteq scopes
    BY <1>1, <1>2
  <2>2. consents' = [consents EXCEPT ![pair] = entries]
    BY <1>5
  <2> HIDE DEF entries
  <2> QED
    BY <1>2, <2>1, <2>2, KeptOne
<1> QED
  BY <1>3, <1>4, <1>5

LEMMA KeptQuiet == ASSUME KeptInv, UNCHANGED <<consents, agreed>> PROVE KeptInv'
BY DEF KeptInv, Kept

LEMMA KeptServe ==
    ASSUME TabInv, KeptInv, NEW t \in Tabs, Serve(t)
    PROVE  KeptInv'
<1>1. CASE UNCHANGED store
  BY <1>1, KeptQuiet DEF store
<1>2. CASE UpdateConsent(t) /\ ~UNCHANGED store
  <2>1. PairOf(t) \in Pairs /\ tabs[t].granted \in SUBSET Scopes
    BY <1>2, PairType DEF UpdateConsent, At, Steps
  <2> QED
    BY <1>2, <2>1, KeptRecord DEF UpdateConsent
<1>3. CASE AddConsent(t)
  <2>1. PairOf(t) \in Pairs /\ tabs[t].granted \in SUBSET Scopes
    BY <1>3, PairType DEF AddConsent, At, Steps
  <2> QED
    BY <1>3, <2>1, KeptRecord DEF AddConsent
<1>4. CASE RevokeConsent(t) /\ ~UNCHANGED store
  <2>1. PairOf(t) \in Pairs
    BY <1>4, PairType DEF RevokeConsent, At, Steps
  <2> QED
    BY <1>4, <2>1, KeptEmpty DEF RevokeConsent
<1> QED
  BY <1>1, <1>2, <1>3, <1>4 DEF Serve, ProcessLogin, ProcessConsent, Issue

LEMMA KeptNext == TabInv /\ KeptInv /\ [Next]_vars => KeptInv'
<1> SUFFICES ASSUME TabInv, KeptInv, [Next]_vars PROVE KeptInv'
  OBVIOUS
<1>1. CASE \E t \in Tabs : Serve(t)
  BY <1>1, KeptServe
<1>2. CASE \E c \in Clients : Withdraw(c)
  <2>1. PICK c \in Clients : Withdraw(c)
    BY <1>2
  <2>2. <<session.subject, c>> \in Pairs
    BY <2>1 DEF Withdraw, TabInv, TypeOK, User, Pairs
  <2> QED
    BY <2>1, <2>2, KeptEmpty DEF Withdraw
<1>3. CASE \E t \in Tabs : Browse(t) \/ Return(t) \/ Login(t) \/ Abort(t)
  BY <1>3, KeptQuiet DEF Browse, Arrive, SwitchUser, PostConsent, Leave, Return, Login, Abort, store
<1>4. CASE Logout \/ Tick \/ \E s \in Subjects : Deactivate(s)
  BY <1>4, KeptQuiet DEF Logout, Tick, Deactivate, store
<1>5. CASE UNCHANGED vars
  BY <1>5, KeptQuiet DEF vars
<1> QED
  BY <1>1, <1>2, <1>3, <1>4, <1>5 DEF Next

\* What a step can make of a tab.
LEMMA MovesTo ==
    ASSUME TabInv, NEW t \in Tabs, NEW tab, Become(t, tab)
    PROVE  tabs'[t] = tab /\ \A u \in Tabs : u # t => tabs'[u] = tabs[u]
BY DEF TabInv, TypeOK, Become

\* Only the steps of the consent bring a request to its response.
LEMMA OnlyConsentIssues ==
    ASSUME TabInv, NEW t \in Tabs, Issues(t), [Next]_vars
    PROVE  ProcessConsent(t) \/ UpdateConsent(t) \/ AddConsent(t) \/ RevokeConsent(t)
<1>1. tabs[t] \in Tab
  BY DEF TabInv, TypeOK
<1>2. tabs'[t] # tabs[t]
  BY DEF Issues, At
<1>3. PICK u \in Tabs : Browse(u) \/ Login(u) \/ Return(u) \/ Serve(u) \/ Abort(u)
  BY <1>2 DEF Next, Withdraw, Deactivate, Logout, Tick, vars
<1>4. \E tab : Become(u, tab)
  BY <1>3 DEF Browse, Arrive, SwitchUser, PostConsent, Leave, Login, Return, Serve, ProcessLogin,
              ProcessConsent, UpdateConsent, AddConsent, RevokeConsent, Issue, Abort, Send,
              Finish, Goto, Fail, RedirectToLogin, ShowConsent, ApplyConsent
<1>5. u = t
  BY <1>2, <1>4, MovesTo
<1>6. ~Finish(t)
  <2>1. Finish(t) => tabs'[t] = Idle
    BY MovesTo DEF Finish
  <2> QED
    BY <2>1 DEF Issues, Idle
<1>7. \A raw, consent, login : ~Send(t, raw, consent, login)
  BY MovesTo DEF Send, Issues
<1>8. \A raw : ~RedirectToLogin(t, raw)
  <2> SUFFICES ASSUME NEW raw, RedirectToLogin(t, raw) PROVE FALSE
    OBVIOUS
  <2>1. tabs'[t] = [Idle EXCEPT !.at = "login", !.raw = raw, !.login = tabs[t].login]
    BY MovesTo DEF RedirectToLogin
  <2>2. tabs'[t].at = "login"
    BY <2>1 DEF Idle
  <2> QED
    BY <2>2 DEF Issues
<1>9. ~Goto(t, "consent")
  <2>1. Goto(t, "consent") => tabs'[t] = [tabs[t] EXCEPT !.at = "consent"]
    BY MovesTo DEF Goto
  <2> QED
    BY <1>1, <2>1 DEF Issues, Tab
<1>10. ~Login(t)
  <2>1. Login(t) => \E login : tabs'[t] = [tabs[t] EXCEPT !.at = "return", !.login = login]
    BY MovesTo DEF Login
  <2>2. Login(t) => tabs'[t].at = "return"
    BY <1>1, <2>1 DEF Tab
  <2> QED
    BY <2>2 DEF Issues
<1> QED
  BY <1>3, <1>5, <1>6, <1>7, <1>8, <1>9, <1>10
     DEF Browse, Arrive, SwitchUser, PostConsent, Leave, Return, Serve, ProcessLogin, Issue, Abort

\* The request goes on with the page it came with, which granted what it grants.
LEMMA AnswerBacks ==
    ASSUME TabInv, NEW t \in Tabs, tabs[t].at \in {"update", "add", "revoke"},
           Goto(t, "issue")
    PROVE  Backed(t)
<1>1. tabs[t] \in Tab /\ Answered(tabs[t])
  BY DEF TabInv, TypeOK, Good
<1>2. tabs'[t] = [tabs[t] EXCEPT !.at = "issue"]
  BY MovesTo DEF Goto
<1>3. tabs'[t].granted = tabs[t].granted
  BY <1>1, <1>2 DEF Tab
<1> QED
  BY <1>1, <1>3 DEF Backed, Answered, Consented

LEMMA NotIssued ==
    ASSUME TabInv, NEW t \in Tabs, Issues(t)
    PROVE  ~Finish(t) /\ ~Fail(t) /\ ~ShowConsent(t) /\ ~Goto(t, "add")
<1>1. tabs[t] \in Tab
  BY DEF TabInv, TypeOK
<1>2. Finish(t) => tabs'[t].at = "idle"
  BY MovesTo DEF Finish, Idle
<1>3. Fail(t) => tabs'[t] = [Idle EXCEPT !.at = "failed", !.raw = tabs[t].raw]
  BY MovesTo DEF Fail
<1>4. Fail(t) => tabs'[t].at = "failed"
  BY <1>3 DEF Idle
<1>5. ShowConsent(t) => tabs'[t] = [tabs[t] EXCEPT !.at = "page", !.consent = None]
  BY MovesTo DEF ShowConsent
<1>6. ShowConsent(t) => tabs'[t].at = "page"
  BY <1>1, <1>5 DEF Tab
<1>7. Goto(t, "add") => tabs'[t] = [tabs[t] EXCEPT !.at = "add"]
  BY MovesTo DEF Goto
<1>8. Goto(t, "add") => tabs'[t].at = "add"
  BY <1>1, <1>7 DEF Tab
<1> QED
  BY <1>2, <1>4, <1>6, <1>8 DEF Issues

LEMMA StepBacked ==
    TabInv /\ KeptInv /\ [Next]_vars => [IssuesAreBacked]_vars
<1> SUFFICES ASSUME TabInv, KeptInv, [Next]_vars, NEW t \in Tabs, Issues(t),
                    tabs[t].raw.client \in RequireConsent
             PROVE  Backed(t)
  BY DEF IssuesAreBacked
<1>1. CASE UpdateConsent(t) \/ AddConsent(t) \/ RevokeConsent(t)
  <2>1. tabs[t].at \in {"update", "add", "revoke"} /\ Goto(t, "issue")
    BY <1>1, NotIssued DEF UpdateConsent, AddConsent, RevokeConsent, At
  <2> QED
    BY <2>1, AnswerBacks
<1>2. CASE ProcessConsent(t)
  <2>1. /\ tabs[t] \in Tab /\ At(t, "consent") /\ tabs[t].granted = tabs[t].raw.scopes
        /\ PairOf(t) \in Pairs
    BY <1>2, PairType DEF ProcessConsent, At, Steps, TabInv, TypeOK, Good
  <2>2. CASE ~MustAsk(t) /\ Goto(t, "issue")
    <3>1. tabs'[t] = [tabs[t] EXCEPT !.at = "issue"]
      BY <2>2, MovesTo DEF Goto
    <3>2. tabs'[t].granted = tabs[t].granted
      BY <2>1, <3>1 DEF Tab
    <3>3. Covers(PairOf(t), tabs[t].raw.scopes)
      BY <2>2 DEF MustAsk, RequiresConsent
    <3>4. tabs[t].raw.scopes \subseteq agreed[PairOf(t)]
      BY <2>1, <3>3 DEF Covers, KeptInv, Kept
    <3> QED
      BY <2>1, <3>2, <3>4 DEF Backed
  <2>3. CASE tabs[t].consent # None /\ ApplyConsent(t)
    <3> DEFINE granted == Consented(tabs[t].granted, tabs[t].consent)
               step == CASE tabs[t].raw.client \notin AllowRememberConsent -> "issue"
                         [] tabs[t].consent.remember -> "update"
                         [] OTHER -> "revoke"
               tab == [tabs[t] EXCEPT !.granted = granted, !.at = step]
    <3>1. tabs[t].consent.granted /\ Become(t, tab)
      BY <2>3, NotIssued DEF ApplyConsent
    <3>2. granted \subseteq RequiredScopes \cup tabs[t].consent.scopes
      BY DEF Consented
    <3>3. tab.granted = granted
      BY <2>1 DEF Tab
    <3> HIDE DEF tab
    <3>4. tabs'[t] = tab
      BY <3>1, MovesTo
    <3> QED
      BY <2>3, <3>1, <3>2, <3>3, <3>4 DEF Backed
  <2>4. \/ ~MustAsk(t) /\ Goto(t, "issue")
        \/ tabs[t].consent # None /\ ApplyConsent(t)
    BY <1>2, NotIssued DEF ProcessConsent
  <2> QED
    BY <2>2, <2>3, <2>4
<1> QED
  BY <1>1, <1>2, OnlyConsentIssues

\* What an authorization response grants was ticked on the page of its request, or
\* remembered and not revoked since, with any number of tabs and users.
THEOREM ConsentBacked == Spec => ConsentBacksIssue
<1>1. Spec => [](TabInv /\ KeptInv)
  BY TabInit, TabNext, KeptInit, KeptNext, PTL DEF Spec
<1>2. Spec => [][Next]_vars
  BY PTL DEF Spec
<1>3. Spec => [][IssuesAreBacked]_vars
  BY <1>1, <1>2, StepBacked, PTL
<1> QED
  BY <1>3 DEF ConsentBacksIssue
================================================================================

--------------------------- MODULE SessionListProofs ---------------------------
(***************************************************************************)
(* Proof that the list of the clients of a session does its work, for any  *)
(* users, clients, session ids, tabs and options: ClientsAccounted of      *)
(* Sessions.                                                               *)
(***************************************************************************)
EXTENDS SessionsProofs

------------------------------------------------------------------------------
\* The inductive invariant

InFrames(s) == \E t \in Tabs : s.client \in tabs[t].frames /\ Ends(s, tabs[t].sid)

Stale(s) == s.client \in SessionRequired /\ (s.sid = None \/ s.sid # latest)

\* A session that need not be in the list.
Settled(s) ==
    InFrames(s) \/ s.client \in excused \/ s.client \notin HasLogoutUri \/ Stale(s)

\* A callback with these cookies would end the session, if it has to be ended.
Kept(s, cookies) ==
    \/ Settled(s)
    \/ /\ s.client \in cookies.clients
       /\ s.client \in SessionRequired => s.sid = cookies.sid

\* What a request is sure of while it is in flight.  A callback has all clients in the list
\* it has read: those that come later have raced with it.  So has an authorize request but
\* for its own client, and unless it has raced its client and the session id are in the jar
\* still if they were there.
GoodRequest(q) ==
    /\ q.frames # {} => q.at = "frames"
    /\ q.at = "callback" => \A s \in sessions : Kept(s, q.cookies)
    /\ q.at = "authorize" =>
          /\ \A s \in sessions : s.client \in q.cookies.clients \cup {q.client} \/ Settled(s)
          /\ ~q.raced =>
                /\ q.client \in q.cookies.clients => q.client \in jar.clients
                /\ q.cookies.sid \in {jar.sid, None} \/ q.cookies.sid # latest

\* Who has not raced is alone with the list, or with responses for the same client.
Alone(t) ==
    tabs[t].at = "authorize" /\ ~tabs[t].raced =>
        \A o \in Tabs \ {t} : /\ tabs[o].at # "callback"
                              /\ tabs[o].at = "authorize" => tabs[o].client = tabs[t].client

ListInv ==
    /\ \A t \in Tabs : GoodRequest(tabs[t]) /\ Alone(t)
    /\ \A s \in sessions : Kept(s, jar)

------------------------------------------------------------------------------
\* Steps that leave the list and the session id alone

\* The ids of the sessions of the clients have been given out.
LEMMA SidGivenOut ==
    ASSUME Inv, NEW s \in sessions
    PROVE  s.sid \in issued \cup {None}
BY DEF Inv, GoodSession

\* What need not be in the list stays so: frames last, or the client is excused.
LEMMA SettledStays ==
    ASSUME NEW s, s.sid \in issued \cup {None}, Settled(s),
           InFrames(s) => InFrames(s)' \/ s.client \in excused',
           s.client \in excused => s.client \in excused',
           latest' \in {latest, None} \cup (Sids \ issued)
    PROVE  Settled(s)'
<1>1. Stale(s) => Stale(s)' BY NoneIsNobody DEF Stale
<1> QED BY <1>1 DEF Settled

LEMMA FramesStay ==
    ASSUME NEW t \in Tabs, NEW new, Becomes(t, new), NEW s,
           s.client \in tabs[t].frames /\ Ends(s, tabs[t].sid) =>
              \/ s.client \in new.frames /\ new.sid = tabs[t].sid
              \/ s.client \in excused'
    PROVE  InFrames(s) => InFrames(s)' \/ s.client \in excused'
<1> SUFFICES ASSUME NEW o \in Tabs, s.client \in tabs[o].frames, Ends(s, tabs[o].sid),
                    s.client \notin excused'
             PROVE  InFrames(s)'
  BY DEF InFrames
<1>1. s.client \in tabs'[o].frames /\ tabs'[o].sid = tabs[o].sid
  BY DEF Becomes, Like
<1> QED BY <1>1 DEF InFrames, Ends

\* A request of another tab.
LEMMA OtherTab ==
    ASSUME NEW q, NEW r, GoodRequest(q), Like(r, q), r.at = q.at, r.cookies = q.cookies,
           q.raced => r.raced,
           \A s \in sessions' : \/ s \in sessions /\ (Settled(s) => Settled(s)')
                                \/ Settled(s)'
                                \/ q.at = "authorize" /\ s.client = q.client
                                \/ q.at \notin {"authorize", "callback"},
           q.at = "authorize" /\ ~r.raced =>
              /\ q.client \in jar.clients => q.client \in jar'.clients
              /\ \/ q.cookies.sid \in {jar.sid, None} \/ q.cookies.sid # latest
                 => q.cookies.sid \in {jar'.sid, None} \/ q.cookies.sid # latest'
    PROVE  GoodRequest(r)'
<1>1. r.frames # {} => r.at = "frames" BY DEF GoodRequest, Like
<1>2. ASSUME r.at = "callback", NEW s \in sessions' PROVE Kept(s, r.cookies)'
  BY <1>2 DEF GoodRequest, Kept
<1>3. ASSUME r.at = "authorize", NEW s \in sessions'
      PROVE  s.client \in r.cookies.clients \cup {r.client} \/ Settled(s)'
  BY <1>3 DEF GoodRequest, Like
<1>4. ASSUME r.at = "authorize", ~r.raced
      PROVE  /\ r.client \in r.cookies.clients => r.client \in jar'.clients
             /\ r.cookies.sid \in {jar'.sid, None} \/ r.cookies.sid # latest'
  BY <1>4 DEF GoodRequest, Like
<1> QED BY <1>1, <1>2, <1>3, <1>4 DEF GoodRequest

\* Nobody begins or ends a race.
LEMMA AloneStays ==
    ASSUME ListInv, NEW t \in Tabs, NEW new, Becomes(t, new),
           new.at \notin {"authorize", "callback"},
           \A o \in Tabs \ {t} : tabs[o].raced => tabs'[o].raced
    PROVE  \A o \in Tabs : Alone(o)'
<1> SUFFICES ASSUME NEW o \in Tabs PROVE Alone(o)' OBVIOUS
<1>1. CASE o = t BY <1>1 DEF Becomes, Alone
<1>2. CASE o # t
  <2>1. Alone(o) BY DEF ListInv
  <2> QED BY <1>2, <2>1 DEF Becomes, Like, Alone
<1> QED BY <1>1, <1>2

LEMMA ListStays ==
    ASSUME Inv, ListInv, NEW t \in Tabs, NEW new, Becomes(t, new),
           \A o \in Tabs \ {t} : tabs[o].raced => tabs'[o].raced,
           jar'.clients = jar.clients, jar'.sid = jar.sid, UNCHANGED latest,
           sessions' \subseteq sessions, excused \subseteq excused',
           new.at \notin {"authorize", "callback"}, new.frames # {} => new.at = "frames",
           \A s \in sessions' :
              s.client \in tabs[t].frames /\ Ends(s, tabs[t].sid) =>
                 \/ s.client \in new.frames /\ new.sid = tabs[t].sid
                 \/ s.client \in excused'
    PROVE  ListInv'
<1>1. ASSUME NEW s \in sessions', Settled(s) PROVE Settled(s)'
  <2>1. s.sid \in issued \cup {None} BY SidGivenOut
  <2>2. InFrames(s) => InFrames(s)' \/ s.client \in excused' BY FramesStay
  <2> QED BY <1>1, <2>1, <2>2, SettledStays
<1>2. \A s \in sessions' : Kept(s, jar)' BY <1>1 DEF ListInv, Kept
<1>3. ASSUME NEW o \in Tabs PROVE GoodRequest(tabs[o])'
  <2>1. PICK q : q = tabs[o] OBVIOUS
  <2>2. PICK r : r = tabs'[o] OBVIOUS
  <2>3. CASE o = t
    <3>1. r = new BY <2>2, <2>3 DEF Becomes
    <3> QED BY <2>2, <3>1 DEF GoodRequest
  <2>4. CASE o # t
    <3>1. GoodRequest(q) BY <2>1 DEF ListInv
    <3>2. Like(r, q) /\ r.at = q.at /\ r.cookies = q.cookies /\ (q.raced => r.raced)
      BY <2>1, <2>2, <2>4 DEF Becomes
    <3>3. GoodRequest(r)' BY <1>1, <3>1, <3>2, OtherTab
    <3> QED BY <2>2, <3>3 DEF GoodRequest
  <2> QED BY <2>3, <2>4
<1>4. \A o \in Tabs : Alone(o)' BY AloneStays
<1> QED BY <1>2, <1>3, <1>4 DEF ListInv

\* The tab goes on with what has nothing to do with the list.
Plain(t) ==
    \E new : /\ Became(t, new) /\ new.frames = {}
             /\ new.at \notin {"authorize", "callback"}

LEMMA PlainStep ==
    ASSUME Inv, ListInv, NEW t \in Tabs, Plain(t),
           jar'.clients = jar.clients, jar'.sid = jar.sid, UNCHANGED <<sessions, latest>>,
           excused \subseteq excused',
           tabs[t].at # "frames" \/ tabs[t].frames \subseteq excused'
    PROVE  ListInv'
<1>1. PICK new : /\ Became(t, new) /\ new.frames = {}
                 /\ new.at \notin {"authorize", "callback"}
  BY DEF Plain
<1>2. Becomes(t, new) BY <1>1, BecameBecomes DEF Inv, TypeOK
<1>3. \A o \in Tabs \ {t} : tabs[o].raced => tabs'[o].raced BY <1>1 DEF Became
<1>4. tabs[t].frames \subseteq excused' BY DEF ListInv, GoodRequest
<1> QED BY <1>1, <1>2, <1>3, <1>4, ListStays

LEMMA PlainSend ==
    ASSUME Inv, NEW t \in Tabs, NEW at \in Exchanges \ {"authorize", "callback"},
           NEW tab \in Tab, Send(t, at, tab), tab.frames = {}
    PROVE  Plain(t)
<1>1. PICK new : Became(t, new) /\ Like(new, tab) /\ new.at = at
  BY SendIs DEF Inv, TypeOK
<1> QED BY <1>1 DEF Plain, Like

LEMMA PlainShow ==
    ASSUME Inv, NEW t \in Tabs, NEW at \in (Pages \cup Exchanges) \ {"authorize", "callback"},
           NEW page \in Tab, Show(t, at, page), page.frames = {}
    PROVE  Plain(t)
<1>1. PICK new : Became(t, new) /\ Like(new, page) /\ new.at = at
  BY ShowIs DEF Inv, TypeOK
<1> QED BY <1>1 DEF Plain, Like

LEMMA PlainFinish ==
    ASSUME Inv, NEW t \in Tabs, Finish(t)
    PROVE  Plain(t)
<1>1. Became(t, Idle) BY FinishIs DEF Inv, TypeOK
<1> QED BY <1>1, IdleTab DEF Plain

\* The record of a tab that is not at the frames.
LEMMA NoFrames ==
    ASSUME Inv, ListInv, NEW t \in Tabs, tabs[t].at # "frames"
    PROVE  tabs[t] \in Tab /\ tabs[t].frames = {}
BY DEF Inv, TypeOK, ListInv, GoodRequest

LEMMA EndSessionKeeps ==
    ASSUME Inv, ListInv, NEW t \in Tabs, EndSession(t)
    PROVE  ListInv'
<1>1. "endSession" \in Exchanges \ {"authorize", "callback"} BY DEF Exchanges
<1>2. tabs[t].at # "frames" BY DEF EndSession, At
<1>3. CASE Send(t, "endSession", Idle)
  BY <1>1, <1>2, <1>3, IdleTab, PlainSend, PlainStep DEF EndSession
<1>4. ASSUME NEW s \in sessions,
             Send(t, "endSession", [Idle EXCEPT !.client = s.client, !.user = s.user])
      PROVE  ListInv'
  <2>1. s \in Session BY DEF Inv, TypeOK
  <2>2. s.client \in Clients /\ s.user \in Users BY <2>1 DEF Session
  <2>3. PICK tab : tab = [Idle EXCEPT !.client = s.client, !.user = s.user] OBVIOUS
  <2>4. tab = [at |-> "idle", cookies |-> Empty, client |-> s.client, user |-> s.user,
               message |-> None, began |-> None, sid |-> None, frames |-> {}, raced |-> FALSE]
    BY <2>3 DEF Idle
  <2>5. tab \in Tab /\ tab.frames = {} BY <2>2, <2>4, EmptyJar DEF Tab
  <2>6. Send(t, "endSession", tab) BY <1>4, <2>3
  <2> QED BY <1>1, <1>2, <2>5, <2>6, PlainSend, PlainStep DEF EndSession
<1> QED BY <1>3, <1>4 DEF EndSession

LEMMA VisitLogoutKeeps ==
    ASSUME Inv, ListInv, NEW t \in Tabs, VisitLogout(t)
    PROVE  ListInv'
<1>1. "logoutPrompt" \in Exchanges \ {"authorize", "callback"} BY DEF Exchanges
<1>2. tabs[t].at # "frames" BY DEF VisitLogout, At
<1> QED BY <1>1, <1>2, IdleTab, PlainSend, PlainStep DEF VisitLogout

LEMMA FederatedSignOutKeeps ==
    ASSUME Inv, ListInv, NEW t \in Tabs, FederatedSignOut(t)
    PROVE  ListInv'
<1>1. "federated" \in Exchanges \ {"authorize", "callback"} BY DEF Exchanges
<1>2. tabs[t].at # "frames" BY DEF FederatedSignOut, At
<1> QED BY <1>1, <1>2, IdleTab, PlainSend, PlainStep DEF FederatedSignOut

LEMMA ConfirmKeeps ==
    ASSUME Inv, ListInv, NEW t \in Tabs, Confirm(t)
    PROVE  ListInv'
<1>1. "logout" \in Exchanges \ {"authorize", "callback"} BY DEF Exchanges
<1>2. tabs[t].at # "frames" BY DEF Confirm, At
<1> QED BY <1>1, <1>2, NoFrames, PlainSend, PlainStep DEF Confirm

LEMMA ReturnKeeps ==
    ASSUME Inv, ListInv, NEW t \in Tabs, Return(t)
    PROVE  ListInv'
<1>1. "logoutPrompt" \in Exchanges \ {"authorize", "callback"} BY DEF Exchanges
<1>2. tabs[t].at # "frames" BY DEF Return, At
<1> QED BY <1>1, <1>2, NoFrames, PlainSend, PlainStep DEF Return

LEMMA LeaveKeeps ==
    ASSUME Inv, ListInv, NEW t \in Tabs, Leave(t)
    PROVE  ListInv'
<1>1. tabs[t].at # "frames" BY DEF Leave
<1> QED BY <1>1, PlainFinish, PlainStep DEF Leave

\* Whose frames are left is excused.
LEMMA RedirectKeeps ==
    ASSUME Inv, ListInv, NEW t \in Tabs, Redirect(t)
    PROVE  ListInv'
BY PlainFinish, PlainStep DEF Redirect

LEMMA DeliverEndSessionKeeps ==
    ASSUME Inv, ListInv, NEW t \in Tabs, DeliverEndSession(t)
    PROVE  ListInv'
<1>1. TypeOK BY DEF Inv
<1>2. PICK tab : tab = tabs[t] OBVIOUS
<1>3. tab \in Tab BY <1>1, <1>2 DEF TypeOK
<1>4. tab.cookies \in Jar BY <1>3 DEF Tab
<1>5. PICK u \in UserAfter(tab.cookies) :
        /\ jar' = [jar EXCEPT !.user = u]
        /\ Renew(u)
        /\ Show(t, "logoutPrompt", LogoutRequest(tab, Reads("logoutPrompt", jar')))
  BY <1>2 DEF DeliverEndSession
<1>6. PICK next : next = [jar EXCEPT !.user = u] OBVIOUS
<1>7. u \in Users \cup {None} BY <1>1, <1>4, UsersAfter DEF TypeOK
<1>8. next \in Jar /\ next.sid = jar.sid /\ next.clients = jar.clients
  BY <1>1, <1>6, <1>7, UserSet DEF TypeOK
<1>9. "logoutPrompt" \in Exchanges \ {"authorize", "callback"} BY DEF Exchanges
<1>10. PICK cookies : cookies = Reads("logoutPrompt", next) OBVIOUS
<1>11. cookies \in Jar BY <1>8, <1>9, <1>10, ReadsJar
<1>12. PICK page : page = LogoutRequest(tab, cookies) OBVIOUS
<1>13. page \in Tab /\ page.frames = {} BY <1>3, <1>11, <1>12, LogoutRequestIs
<1>14. Show(t, "logoutPrompt", page) BY <1>5, <1>6, <1>10, <1>12
<1>15. Plain(t) BY <1>9, <1>13, <1>14, PlainShow
<1>16. tabs[t].at # "frames" BY DEF DeliverEndSession, At
<1>17. jar' = next /\ UNCHANGED <<sessions, latest, excused>> BY <1>5, <1>6 DEF DeliverEndSession
<1> QED BY <1>8, <1>15, <1>16, <1>17, PlainStep

LEMMA LoggedOutKeeps ==
    ASSUME Inv, ListInv, NEW t \in Tabs, LoggedOut(t), tabs[t].at # "frames",
           UNCHANGED <<sessions, latest, excused>>
    PROVE  ListInv'
<1>1. TypeOK BY DEF Inv
<1>2. PICK tab : tab = tabs[t] OBVIOUS
<1>3. tab \in Tab /\ tab.frames = {} BY <1>2, NoFrames
<1>4. jar' = [jar EXCEPT !.user = None] BY DEF LoggedOut
<1>5. jar'.sid = jar.sid /\ jar'.clients = jar.clients BY <1>1, <1>4, UserSet DEF TypeOK
<1>6. CASE Show(t, "provider", [tab EXCEPT !.cookies = Empty])
  <2>1. PICK page : page = [tab EXCEPT !.cookies = Empty] OBVIOUS
  <2>2. page \in Tab /\ page.frames = {} BY <1>3, <2>1, WithoutCookies DEF Like
  <2>3. Show(t, "provider", page) BY <1>6, <2>1
  <2>4. "provider" \in (Pages \cup Exchanges) \ {"authorize", "callback"} BY DEF Pages
  <2> QED BY <1>5, <2>2, <2>3, <2>4, PlainShow, PlainStep
<1>7. CASE Show(t, "loggedOut", LoggedOutPage(tab))
  <2>1. PICK page : page = LoggedOutPage(tab) OBVIOUS
  <2>2. page \in Tab /\ page.frames = {} BY <1>3, <2>1, LoggedOutPageIs
  <2>3. Show(t, "loggedOut", page) BY <1>7, <2>1
  <2>4. "loggedOut" \in (Pages \cup Exchanges) \ {"authorize", "callback"} BY DEF Pages
  <2> QED BY <1>5, <2>2, <2>3, <2>4, PlainShow, PlainStep
<1> QED BY <1>2, <1>6, <1>7 DEF LoggedOut

LEMMA DeliverLogoutKeeps ==
    ASSUME Inv, ListInv, NEW t \in Tabs, DeliverLogout(t)
    PROVE  ListInv'
<1>1. tabs[t].at # "frames" BY DEF DeliverLogout, At
<1> QED BY <1>1, LoggedOutKeeps DEF DeliverLogout

LEMMA DeliverLogoutPromptKeeps ==
    ASSUME Inv, ListInv, NEW t \in Tabs, DeliverLogoutPrompt(t)
    PROVE  ListInv'
<1>1. TypeOK /\ tabs[t].at # "frames" BY DEF Inv, DeliverLogoutPrompt, At
<1>2. PICK tab : tab = tabs[t] OBVIOUS
<1>3. tab \in Tab /\ tab.frames = {} BY <1>1, <1>2, NoFrames
<1>4. UNCHANGED <<sessions, latest, excused>> BY DEF DeliverLogoutPrompt
<1>5. CASE LoggedOut(t) BY <1>1, <1>4, <1>5, LoggedOutKeeps
<1>6. CASE \E u \in UserAfter(tab.cookies) :
              /\ jar' = [jar EXCEPT !.user = u]
              /\ Renew(u)
              /\ Show(t, "promptPage", [tab EXCEPT !.cookies = Empty])
  <2>1. PICK u \in UserAfter(tab.cookies) :
          /\ jar' = [jar EXCEPT !.user = u]
          /\ Show(t, "promptPage", [tab EXCEPT !.cookies = Empty])
    BY <1>6
  <2>2. tab.cookies \in Jar BY <1>3 DEF Tab
  <2>3. u \in Users \cup {None} BY <1>1, <2>2, UsersAfter DEF TypeOK
  <2>4. jar'.sid = jar.sid /\ jar'.clients = jar.clients
    BY <1>1, <2>1, <2>3, UserSet DEF TypeOK
  <2>5. PICK page : page = [tab EXCEPT !.cookies = Empty] OBVIOUS
  <2>6. page \in Tab /\ page.frames = {} BY <1>3, <2>5, WithoutCookies DEF Like
  <2>7. Show(t, "promptPage", page) BY <2>1, <2>5
  <2>8. "promptPage" \in (Pages \cup Exchanges) \ {"authorize", "callback"} BY DEF Pages
  <2> QED BY <1>1, <1>4, <2>4, <2>6, <2>7, <2>8, PlainShow, PlainStep
<1> QED BY <1>2, <1>5, <1>6 DEF DeliverLogoutPrompt

LEMMA DeliverFederatedSignOutKeeps ==
    ASSUME Inv, ListInv, NEW t \in Tabs, DeliverFederatedSignOut(t)
    PROVE  ListInv'
<1>1. TypeOK /\ tabs[t].at # "frames" BY DEF Inv, DeliverFederatedSignOut, At
<1>2. PICK tab : tab = tabs[t] OBVIOUS
<1>3. tab \in Tab BY <1>1, <1>2 DEF TypeOK
<1>4. /\ UNCHANGED <<sessions, latest, excused>>
      /\ jar' = [jar EXCEPT !.user = None]
  BY DEF DeliverFederatedSignOut
<1>5. jar'.sid = jar.sid /\ jar'.clients = jar.clients BY <1>1, <1>4, UserSet DEF TypeOK
<1>6. CASE Finish(t)
  BY <1>1, <1>4, <1>5, <1>6, PlainFinish, PlainStep
<1>7. CASE Show(t, "loggedOut", LoggedOutPage(tab))
  <2>1. PICK page : page = LoggedOutPage(tab) OBVIOUS
  <2>2. page \in Tab /\ page.frames = {} BY <1>3, <2>1, LoggedOutPageIs
  <2>3. Show(t, "loggedOut", page) BY <1>7, <2>1
  <2>4. "loggedOut" \in (Pages \cup Exchanges) \ {"authorize", "callback"} BY DEF Pages
  <2> QED BY <1>1, <1>4, <1>5, <2>2, <2>3, <2>4, PlainShow, PlainStep
<1> QED BY <1>2, <1>6, <1>7 DEF DeliverFederatedSignOut

------------------------------------------------------------------------------
\* Frames

\* The frame of c ends the sessions of c that it is about.
LEMMA NotifyKeeps ==
    ASSUME Inv, ListInv, NEW t \in Tabs, NEW c \in Clients, Notify(t, c)
    PROVE  ListInv'
<1>1. TypeOK BY DEF Inv
<1>2. PICK tab : tab = tabs[t] OBVIOUS
<1>3. tab \in Tab /\ tab.at = "frames" /\ tab.frames \subseteq Clients
  BY <1>1, <1>2 DEF TypeOK, Notify, At, Tab
<1>4. /\ UNCHANGED <<jar, latest, excused>> /\ sessions' \subseteq sessions
      /\ \A s \in sessions' : s.client = c => c \in SessionRequired /\ s.sid # tab.sid
  BY <1>2 DEF Notify
<1>5. \A s \in sessions' : Ends(s, tab.sid) => s.client # c BY <1>4 DEF Ends
<1>6. CASE tab.frames = {c} /\ Finish(t)
  <2>1. Became(t, Idle) BY <1>1, <1>6, FinishIs DEF TypeOK
  <2>2. Becomes(t, Idle) BY <1>1, <2>1, BecameBecomes DEF TypeOK
  <2>3. \A o \in Tabs \ {t} : tabs[o].raced => tabs'[o].raced BY <2>1 DEF Became
  <2>4. \A s \in sessions' : ~(s.client \in tabs[t].frames /\ Ends(s, tabs[t].sid))
    BY <1>2, <1>5, <1>6
  <2> QED BY <1>4, <2>2, <2>3, <2>4, IdleTab, ListStays
<1>7. CASE tabs' = [tabs EXCEPT ![t].frames = @ \ {c}]
  <2>1. PICK rest : rest = tab.frames \ {c} OBVIOUS
  <2>2. PICK new : new = [tab EXCEPT !.frames = rest] OBVIOUS
  <2>3. new = [at |-> tab.at, cookies |-> tab.cookies, client |-> tab.client,
               user |-> tab.user, message |-> tab.message, began |-> tab.began,
               sid |-> tab.sid, frames |-> rest, raced |-> tab.raced]
    BY <1>3, <2>2 DEF Tab
  <2>4. new \in Tab BY <1>3, <2>1, <2>3 DEF Tab
  <2>5. tabs' = [tabs EXCEPT ![t] = new] BY <1>2, <1>7, <2>1, <2>2
  <2>6. Became(t, new) BY <1>1, <2>4, <2>5 DEF TypeOK, Became
  <2>7. Becomes(t, new) BY <1>1, <2>6, BecameBecomes DEF TypeOK
  <2>8. \A o \in Tabs \ {t} : tabs[o].raced => tabs'[o].raced BY <2>6 DEF Became
  <2>9. new.at = "frames" /\ new.frames = rest /\ new.sid = tab.sid BY <1>3, <2>3
  <2>10. \A s \in sessions' :
            s.client \in tabs[t].frames /\ Ends(s, tabs[t].sid) =>
               s.client \in new.frames /\ new.sid = tabs[t].sid
    BY <1>2, <1>5, <2>1, <2>9
  <2> QED BY <1>4, <2>7, <2>8, <2>9, <2>10, ListStays
<1> QED BY <1>2, <1>6, <1>7 DEF Notify

------------------------------------------------------------------------------
\* The browser and the clock

\* Either the session id stays or no session has the last one.
LEMMA TabsKeep ==
    ASSUME Inv, ListInv, UNCHANGED <<tabs, sessions, excused>>, jar'.clients = jar.clients,
           \/ jar'.sid = jar.sid /\ latest' = latest
           \/ latest' \in {None} \cup (Sids \ issued)
    PROVE  ListInv'
<1>1. ASSUME NEW s \in sessions', Settled(s) PROVE Settled(s)'
  <2>1. s.sid \in issued \cup {None} BY SidGivenOut
  <2>2. InFrames(s) => InFrames(s)' BY DEF InFrames, Ends
  <2> QED BY <1>1, <2>1, <2>2, SettledStays
<1>2. ASSUME NEW s \in sessions' PROVE Kept(s, jar)'
  <2>1. s.sid \in issued \cup {None} /\ Kept(s, jar) BY SidGivenOut DEF ListInv
  <2>2. latest' \in {None} \cup (Sids \ issued) /\ s.client \in SessionRequired => Settled(s)'
    BY <2>1, NoneIsNobody DEF Settled, Stale
  <2> QED BY <1>1, <2>1, <2>2 DEF Kept
<1>3. ASSUME NEW o \in Tabs PROVE GoodRequest(tabs[o])'
  <2>1. PICK q : q = tabs[o] OBVIOUS
  <2>2. GoodRequest(q) /\ q.cookies.sid \in issued \cup {None}
    BY <2>1 DEF Inv, ListInv, GoodTab
  <2>3. Like(q, q) BY DEF Like
  <2>4. \/ q.cookies.sid \in {jar.sid, None} \/ q.cookies.sid # latest
        => q.cookies.sid \in {jar'.sid, None} \/ q.cookies.sid # latest'
    BY <2>2
  <2>5. GoodRequest(q)' BY <1>1, <2>2, <2>3, <2>4, OtherTab
  <2> QED BY <2>1, <2>5 DEF GoodRequest
<1>4. \A o \in Tabs : Alone(o)' BY DEF ListInv, Alone
<1> QED BY <1>2, <1>3, <1>4 DEF ListInv

LEMMA SignInKeeps ==
    ASSUME Inv, ListInv, NEW t \in Tabs, NEW u \in Users, SignIn(t, u)
    PROVE  ListInv'
<1>1. jar \in Jar BY DEF Inv, TypeOK
<1>2. PICK sid \in Sids \ issued : jar' = [jar EXCEPT !.user = u, !.sid = sid] /\ latest' = sid
  BY DEF SignIn
<1>3. jar' = [user |-> u, sid |-> sid, clients |-> jar.clients] BY <1>1, <1>2 DEF Jar
<1>4. jar'.clients = jar.clients BY <1>3
<1> QED BY <1>2, <1>4, TabsKeep DEF SignIn

LEMMA TicketExpiresKeeps ==
    ASSUME Inv, ListInv, TicketExpires
    PROVE  ListInv'
<1>1. jar' = [jar EXCEPT !.user = None] /\ UNCHANGED <<tabs, sessions, latest, excused>>
  BY DEF TicketExpires
<1>2. jar'.sid = jar.sid /\ jar'.clients = jar.clients BY <1>1, UserSet DEF Inv, TypeOK
<1> QED BY <1>1, <1>2, TabsKeep

LEMMA SidExpiresKeeps ==
    ASSUME Inv, ListInv, SidExpires
    PROVE  ListInv'
<1>1. /\ jar' = [jar EXCEPT !.sid = None] /\ latest' = None
      /\ UNCHANGED <<tabs, sessions, excused>>
  BY DEF SidExpires
<1>2. jar' = [user |-> jar.user, sid |-> None, clients |-> jar.clients]
  BY <1>1 DEF Inv, TypeOK, Jar
<1>3. jar'.clients = jar.clients BY <1>2
<1> QED BY <1>1, <1>3, TabsKeep

\* All clients with a session are excused.
LEMMA RestartBrowserKeeps ==
    ASSUME Inv, ListInv, RestartBrowser
    PROVE  ListInv'
<1>1. /\ tabs' = [t \in Tabs |-> Idle] /\ UNCHANGED sessions
      /\ excused' = excused \cup {s.client : s \in sessions}
  BY DEF RestartBrowser
<1>2. \A s \in sessions' : Kept(s, jar)' BY <1>1 DEF Kept, Settled
<1>3. \A o \in Tabs : tabs'[o] = Idle BY <1>1
<1>4. \A o \in Tabs : GoodRequest(tabs[o])' BY <1>3, IdleTab DEF GoodRequest
<1>5. \A o \in Tabs : Alone(o)' BY <1>3, IdleTab DEF Alone
<1> QED BY <1>2, <1>4, <1>5 DEF ListInv

------------------------------------------------------------------------------
\* The exchanges that read and replace the list

LEMMA AuthorizeKeeps ==
    ASSUME Inv, ListInv, NEW t \in Tabs, NEW c \in Clients, Authorize(t, c)
    PROVE  ListInv'
<1>1. TypeOK BY DEF Inv
<1>2. PICK tab \in Tab : /\ SendListed(t, "authorize", tab) /\ tab.client = c
                         /\ tab.frames = {}
  BY AuthorizeIs
<1>3. "authorize" \in Exchanges BY DEF Exchanges
<1> DEFINE rivals == {o \in Tabs \ {t} : Races(tabs[o], "authorize", tab.client)}
<1>4. PICK new : /\ Becomes(t, new) /\ Like(new, tab) /\ new.at = "authorize"
                 /\ new.raced = (rivals # {}) /\ new.cookies = Reads("authorize", jar)
                 /\ \A o \in Tabs \ {t} : tabs'[o].raced = (o \in rivals \/ tabs[o].raced)
  BY <1>1, <1>2, <1>3, SendListedIs DEF TypeOK
<1>5. new.cookies = jar BY <1>1, <1>3, <1>4, ReadsJar DEF TypeOK
<1>6. UNCHANGED <<jar, sessions, latest, excused>> BY DEF Authorize
<1>7. tabs[t].frames = {} BY NoFrames DEF Authorize, At
<1>8. ASSUME NEW s \in sessions', Settled(s) PROVE Settled(s)'
  <2>1. s.sid \in issued \cup {None} BY <1>6, SidGivenOut
  <2>2. InFrames(s) => InFrames(s)' \/ s.client \in excused' BY <1>4, <1>7, FramesStay
  <2> QED BY <1>6, <1>8, <2>1, <2>2, SettledStays
<1>9. \A s \in sessions' : Kept(s, jar)' BY <1>6, <1>8 DEF ListInv, Kept
<1>10. GoodRequest(new)'
  <2>1. new.frames = {} BY <1>2, <1>4 DEF Like
  <2>2. \A s \in sessions' : s.client \in new.cookies.clients \cup {new.client} \/ Settled(s)'
    BY <1>5, <1>6, <1>9 DEF Kept
  <2> QED BY <1>4, <1>5, <1>6, <2>1, <2>2 DEF GoodRequest
<1>11. ASSUME NEW o \in Tabs PROVE GoodRequest(tabs[o])'
  <2>1. PICK q : q = tabs[o] OBVIOUS
  <2>2. PICK r : r = tabs'[o] OBVIOUS
  <2>3. CASE o = t
    <3>1. r = new BY <1>4, <2>2, <2>3 DEF Becomes
    <3> QED BY <1>10, <2>2, <3>1 DEF GoodRequest
  <2>4. CASE o # t
    <3>1. GoodRequest(q) BY <2>1 DEF ListInv
    <3>2. Like(r, q) /\ r.at = q.at /\ r.cookies = q.cookies /\ (q.raced => r.raced)
      BY <1>4, <2>1, <2>2, <2>4 DEF Becomes
    <3>3. GoodRequest(r)' BY <1>6, <1>8, <3>1, <3>2, OtherTab
    <3> QED BY <2>2, <3>3 DEF GoodRequest
  <2> QED BY <2>3, <2>4
<1>12. ASSUME NEW o \in Tabs PROVE Alone(o)'
  <2>1. CASE o = t
    <3>1. ASSUME ~new.raced, NEW p \in Tabs \ {t}
          PROVE  tabs[p].at # "callback" /\ (tabs[p].at = "authorize" => tabs[p].client = c)
      BY <1>2, <1>4, <3>1 DEF Races
    <3>2. tabs'[t] = new /\ new.client = c BY <1>2, <1>4 DEF Becomes, Like
    <3>3. \A p \in Tabs \ {t} : tabs'[p].at = tabs[p].at /\ tabs'[p].client = tabs[p].client
      BY <1>4 DEF Becomes, Like
    <3> QED BY <2>1, <3>1, <3>2, <3>3 DEF Alone
  <2>2. CASE o # t
    <3> SUFFICES ASSUME tabs'[o].at = "authorize", ~tabs'[o].raced
                 PROVE  \A p \in Tabs \ {o} :
                           /\ tabs'[p].at # "callback"
                           /\ tabs'[p].at = "authorize" => tabs'[p].client = tabs'[o].client
      BY DEF Alone
    <3>1. tabs[o].at = "authorize" /\ ~tabs[o].raced /\ o \notin rivals
          /\ tabs'[o].client = tabs[o].client
      BY <1>4, <2>2 DEF Becomes, Like
    <3>2. tabs[o].client = c BY <1>2, <2>2, <3>1 DEF Races
    <3>3. tabs'[t] = new /\ new.client = c BY <1>2, <1>4 DEF Becomes, Like
    <3>4. ASSUME NEW p \in Tabs \ {o}, p # t
          PROVE  /\ tabs[p].at # "callback"
                 /\ tabs[p].at = "authorize" => tabs[p].client = tabs[o].client
                 /\ tabs'[p].at = tabs[p].at /\ tabs'[p].client = tabs[p].client
      BY <1>4, <3>1, <3>4 DEF ListInv, Alone, Becomes, Like
    <3> QED BY <1>4, <3>1, <3>2, <3>3, <3>4
  <2> QED BY <2>1, <2>2
<1> QED BY <1>9, <1>11, <1>12 DEF ListInv

LEMMA LoadCallbackKeeps ==
    ASSUME Inv, ListInv, NEW t \in Tabs, LoadCallback(t)
    PROVE  ListInv'
<1>1. TypeOK BY DEF Inv
<1>2. PICK tab : tab = tabs[t] OBVIOUS
<1>3. tab \in Tab /\ tab.frames = {} BY <1>2, NoFrames DEF LoadCallback, At
<1>4. SendListed(t, "callback", tab) BY <1>2 DEF LoadCallback
<1>5. "callback" \in Exchanges BY DEF Exchanges
<1> DEFINE rivals == {o \in Tabs \ {t} : Races(tabs[o], "callback", tab.client)}
<1>6. PICK new : /\ Becomes(t, new) /\ Like(new, tab) /\ new.at = "callback"
                 /\ new.cookies = Reads("callback", jar)
                 /\ \A o \in Tabs \ {t} : tabs'[o].raced = (o \in rivals \/ tabs[o].raced)
  BY <1>1, <1>3, <1>4, <1>5, SendListedIs DEF TypeOK
<1>7. new.cookies.clients = jar.clients /\ new.cookies.sid = jar.sid
  BY <1>1, <1>5, <1>6, ReadsJar DEF TypeOK
<1>8. UNCHANGED <<jar, sessions, latest, excused>> BY DEF LoadCallback
<1>9. ASSUME NEW s \in sessions', Settled(s) PROVE Settled(s)'
  <2>1. s.sid \in issued \cup {None} BY <1>8, SidGivenOut
  <2>2. InFrames(s) => InFrames(s)' \/ s.client \in excused' BY <1>2, <1>3, <1>6, FramesStay
  <2> QED BY <1>8, <1>9, <2>1, <2>2, SettledStays
<1>10. \A s \in sessions' : Kept(s, jar)' BY <1>8, <1>9 DEF ListInv, Kept
<1>11. GoodRequest(new)'
  <2>1. new.frames = {} BY <1>3, <1>6 DEF Like
  <2>2. \A s \in sessions' : Kept(s, new.cookies)' BY <1>7, <1>8, <1>10 DEF Kept
  <2> QED BY <1>6, <2>1, <2>2 DEF GoodRequest
<1>12. ASSUME NEW o \in Tabs PROVE GoodRequest(tabs[o])'
  <2>1. PICK q : q = tabs[o] OBVIOUS
  <2>2. PICK r : r = tabs'[o] OBVIOUS
  <2>3. CASE o = t
    <3>1. r = new BY <1>6, <2>2, <2>3 DEF Becomes
    <3> QED BY <1>11, <2>2, <3>1 DEF GoodRequest
  <2>4. CASE o # t
    <3>1. GoodRequest(q) BY <2>1 DEF ListInv
    <3>2. Like(r, q) /\ r.at = q.at /\ r.cookies = q.cookies /\ (q.raced => r.raced)
      BY <1>6, <2>1, <2>2, <2>4 DEF Becomes
    <3>3. GoodRequest(r)' BY <1>8, <1>9, <3>1, <3>2, OtherTab
    <3> QED BY <2>2, <3>3 DEF GoodRequest
  <2> QED BY <2>3, <2>4
<1>13. ASSUME NEW o \in Tabs PROVE Alone(o)'
  <2>1. CASE o = t
    <3>1. tabs'[t] = new BY <1>6 DEF Becomes
    <3> QED BY <1>6, <2>1, <3>1 DEF Alone
  <2>2. CASE o # t
    <3>1. tabs'[o].at = tabs[o].at BY <1>6, <2>2 DEF Becomes
    <3>2. tabs[o].at = "authorize" => tabs'[o].raced BY <1>6, <2>2 DEF Races
    <3> QED BY <3>1, <3>2 DEF Alone
  <2> QED BY <2>1, <2>2
<1> QED BY <1>10, <1>12, <1>13 DEF ListInv

\* The client of the response is in the list now, or was there and has stayed; the others
\* are in the list the response brings, or need not be.
LEMMA DeliverAuthorizeKeeps ==
    ASSUME Inv, ListInv, EndSessionEnabled, NEW t \in Tabs, DeliverAuthorize(t)
    PROVE  ListInv'
<1>1. TypeOK BY DEF Inv
<1>2. PICK tab : tab = tabs[t] OBVIOUS
<1>3. tab \in Tab /\ GoodTab(tab) /\ GoodRequest(tab) /\ tab.at = "authorize"
  BY <1>2 DEF Inv, TypeOK, ListInv, DeliverAuthorize, At
<1>4. tab.cookies \in Jar /\ tab.client \in Clients /\ tab.frames = {}
  BY <1>3 DEF Tab, GoodTab, GoodRequest
<1>5. PICK list : list = ListAfter(tab.cookies, tab.client) OBVIOUS
<1>6. PICK u \in UserAfter(tab.cookies) : jar' = [jar EXCEPT !.user = u, !.clients = list]
  BY <1>2, <1>5 DEF DeliverAuthorize
<1>7. jar' = [user |-> u, sid |-> jar.sid, clients |-> list] BY <1>1, <1>6 DEF TypeOK, Jar
<1>8. jar'.sid = jar.sid /\ jar'.clients = list BY <1>7
<1>9. /\ UNCHANGED latest /\ Finish(t)
      /\ excused' = IF tab.raced THEN excused \cup {tab.client} ELSE excused \ {tab.client}
      /\ sessions' = {s \in sessions : s.client # tab.client} \cup {SessionOf(tab)}
  BY <1>2 DEF DeliverAuthorize
<1>10. Became(t, Idle) BY <1>1, <1>9, FinishIs DEF TypeOK
<1>11. Becomes(t, Idle) BY <1>1, <1>10, BecameBecomes DEF TypeOK
<1>12. SessionOf(tab).client = tab.client /\ SessionOf(tab).sid = tab.cookies.sid
  BY DEF SessionOf
<1>13. ASSUME NEW s \in sessions, s.client # tab.client, Settled(s) PROVE Settled(s)'
  <2>1. s.sid \in issued \cup {None} BY SidGivenOut
  <2>2. InFrames(s) => InFrames(s)' \/ s.client \in excused' BY <1>2, <1>4, <1>11, FramesStay
  <2>3. s.client \in excused => s.client \in excused' BY <1>9, <1>13
  <2> QED BY <1>9, <1>13, <2>1, <2>2, <2>3, SettledStays
<1>14. tab.raced => Settled(SessionOf(tab))' BY <1>9, <1>12 DEF Settled
<1>15. /\ tab.client \notin tab.cookies.clients => tab.client \in list
       /\ tab.client \in tab.cookies.clients => list = jar.clients
       /\ list \in {jar.clients, tab.cookies.clients \cup {tab.client}}
  BY <1>5 DEF ListAfter
<1>16. ASSUME NEW s \in sessions' PROVE Kept(s, jar)'
  <2>1. CASE s \in sessions /\ s.client # tab.client
    <3>1. Kept(s, jar) BY <2>1 DEF ListInv
    <3>2. s.client \in tab.cookies.clients \/ Settled(s) BY <1>3, <2>1 DEF GoodRequest
    <3> QED BY <1>8, <1>13, <1>15, <2>1, <3>1, <3>2 DEF Kept
  <2>2. CASE s = SessionOf(tab)
    <3>1. CASE tab.raced BY <1>14, <2>2, <3>1 DEF Kept
    <3>2. CASE ~tab.raced
      <4>1. s.client \in jar'.clients
        BY <1>3, <1>8, <1>12, <1>15, <2>2, <3>2 DEF GoodRequest
      <4>2. s.sid = jar'.sid \/ s.sid = None \/ s.sid # latest'
        BY <1>3, <1>8, <1>9, <1>12, <2>2, <3>2 DEF GoodRequest
      <4> QED BY <4>1, <4>2 DEF Kept, Settled, Stale
    <3> QED BY <3>1, <3>2
  <2> QED BY <1>9, <2>1, <2>2
<1>17. ASSUME NEW o \in Tabs PROVE GoodRequest(tabs[o])'
  <2>1. PICK q : q = tabs[o] OBVIOUS
  <2>2. PICK r : r = tabs'[o] OBVIOUS
  <2>3. CASE o = t
    <3>1. r = Idle BY <1>11, <2>2, <2>3 DEF Becomes
    <3> QED BY <2>2, <3>1, IdleTab DEF GoodRequest
  <2>4. CASE o # t
    <3>1. GoodRequest(q) /\ r = q BY <1>10, <2>1, <2>2, <2>4 DEF ListInv, Became
    <3>2. Like(r, q) BY <3>1 DEF Like
    <3>3. ~tab.raced => /\ q.at # "callback"
                        /\ q.at = "authorize" => q.client = tab.client
      BY <1>2, <1>3, <2>1, <2>4 DEF ListInv, Alone
    <3>4. \A s \in sessions' : \/ s \in sessions /\ (Settled(s) => Settled(s)')
                               \/ Settled(s)'
                               \/ q.at = "authorize" /\ s.client = q.client
                               \/ q.at \notin {"authorize", "callback"}
      BY <1>9, <1>12, <1>13, <1>14, <3>3
    <3>5. q.at = "authorize" /\ ~r.raced =>
             /\ q.client \in jar.clients => q.client \in jar'.clients
             /\ \/ q.cookies.sid \in {jar.sid, None} \/ q.cookies.sid # latest
                => q.cookies.sid \in {jar'.sid, None} \/ q.cookies.sid # latest'
      <4> SUFFICES ASSUME q.at = "authorize", ~q.raced, q.client \in jar.clients
                   PROVE  q.client \in jar'.clients
        BY <1>8, <1>9, <3>1
      <4>1. q.client = tab.client BY <1>2, <1>3, <2>1, <2>4 DEF ListInv, Alone
      <4> QED BY <1>8, <1>15, <4>1
    <3>6. GoodRequest(r)' BY <3>1, <3>2, <3>4, <3>5, OtherTab
    <3> QED BY <2>2, <3>6 DEF GoodRequest
  <2> QED BY <2>3, <2>4
<1>18. \A o \in Tabs : Alone(o)'
  <2>1. \A o \in Tabs \ {t} : tabs[o].raced => tabs'[o].raced BY <1>10 DEF Became
  <2> QED BY <1>11, <2>1, IdleTab, AloneStays
<1> QED BY <1>16, <1>17, <1>18 DEF ListInv

\* Whoever is not settled goes from the list of the request to the frames of the page.
LEMMA DeliverCallbackKeeps ==
    ASSUME Inv, ListInv, NEW t \in Tabs, DeliverCallback(t)
    PROVE  ListInv'
<1>1. TypeOK BY DEF Inv
<1>2. PICK tab : tab = tabs[t] OBVIOUS
<1>3. tab.at = "callback" /\ tabs[t].at # "frames" BY <1>2 DEF DeliverCallback, At
<1>4. tab \in Tab /\ GoodRequest(tab) /\ tab.frames = {}
  BY <1>2, <1>3, NoFrames DEF ListInv
<1>5. UNCHANGED <<sessions, latest, excused>> BY DEF DeliverCallback
<1>6. PICK frames : frames = FramesFor(tab.cookies) OBVIOUS
<1>7. frames \in SUBSET Clients BY <1>6, ClientAssumption DEF FramesFor
<1>8. CASE ~ValidSid(tab)
  <2>1. Finish(t) BY <1>2, <1>8 DEF DeliverCallback
  <2>2. PICK u \in UserAfter(tab.cookies) : jar' = [jar EXCEPT !.user = u]
    BY <1>2, <1>8 DEF DeliverCallback
  <2>3. u \in Users \cup {None} BY <1>1, <1>4, <2>2, UsersAfter DEF TypeOK, Tab
  <2>4. jar'.sid = jar.sid /\ jar'.clients = jar.clients
    BY <1>1, <2>2, <2>3, UserSet DEF TypeOK
  <2> QED BY <1>3, <1>5, <2>1, <2>4, PlainFinish, PlainStep
<1>9. CASE ValidSid(tab)
  <2>1. tab.cookies.sid = tab.sid BY <1>9 DEF ValidSid
  <2>2. PICK new : /\ Became(t, new) /\ new.at \notin {"authorize", "callback"}
                   /\ new.frames = frames /\ (frames # {} => new.at = "frames")
                   /\ frames # {} => new.sid = tab.sid
    <3>1. CASE frames = {}
      <4>1. Finish(t) BY <1>2, <1>6, <1>9, <3>1 DEF DeliverCallback
      <4> QED BY <1>1, <3>1, <4>1, FinishIs, IdleTab DEF TypeOK
    <3>2. CASE frames # {}
      <4>1. Show(t, "frames", [tab EXCEPT !.cookies = Empty, !.frames = frames, !.raced = FALSE])
        BY <1>2, <1>6, <1>9, <3>2 DEF DeliverCallback
      <4>2. PICK page : page = [tab EXCEPT !.cookies = Empty, !.frames = frames, !.raced = FALSE]
        OBVIOUS
      <4>3. page = [at |-> tab.at, cookies |-> Empty, client |-> tab.client,
                    user |-> tab.user, message |-> tab.message, began |-> tab.began,
                    sid |-> tab.sid, frames |-> frames, raced |-> FALSE]
        BY <1>4, <4>2 DEF Tab
      <4>4. page \in Tab /\ page.frames = frames /\ page.sid = tab.sid
        BY <1>4, <1>7, <4>3, EmptyJar DEF Tab
      <4>5. Show(t, "frames", page) BY <4>1, <4>2
      <4>6. "frames" \in Pages \cup Exchanges BY DEF Pages
      <4>7. PICK q : Became(t, q) /\ Like(q, page) /\ q.at = "frames"
        BY <1>1, <4>4, <4>5, <4>6, ShowIs DEF TypeOK
      <4> QED BY <4>4, <4>7 DEF Like
    <3> QED BY <3>1, <3>2
  <2>3. Becomes(t, new) BY <1>1, <2>2, BecameBecomes DEF TypeOK
  <2>4. ASSUME NEW s \in sessions' PROVE Settled(s)'
    <3>1. s.sid \in issued \cup {None} /\ Kept(s, tab.cookies)
      BY <1>3, <1>4, <1>5, SidGivenOut DEF GoodRequest
    <3>2. CASE Settled(s)
      <4>1. InFrames(s) => InFrames(s)' \/ s.client \in excused'
        BY <1>2, <1>4, <2>3, FramesStay
      <4> QED BY <1>5, <3>1, <3>2, <4>1, SettledStays
    <3>3. CASE ~Settled(s)
      <4>1. s.client \in frames /\ Ends(s, tab.sid)
        BY <1>6, <2>1, <3>1, <3>3 DEF Kept, Settled, FramesFor, Ends
      <4>2. s.client \in tabs'[t].frames /\ Ends(s, tabs'[t].sid)
        BY <2>2, <2>3, <4>1 DEF Becomes
      <4> QED BY <4>2 DEF Settled, InFrames, Ends
    <3> QED BY <3>2, <3>3
  <2>5. \A s \in sessions' : Kept(s, jar)' BY <2>4 DEF Kept
  <2>6. ASSUME NEW o \in Tabs PROVE GoodRequest(tabs[o])'
    <3>1. PICK q : q = tabs[o] OBVIOUS
    <3>2. PICK r : r = tabs'[o] OBVIOUS
    <3>3. CASE o = t
      <4>1. r = new BY <2>3, <3>2, <3>3 DEF Becomes
      <4> QED BY <2>2, <3>2, <4>1 DEF GoodRequest
    <3>4. CASE o # t
      <4>1. GoodRequest(q) /\ r = q BY <2>2, <3>1, <3>2, <3>4 DEF ListInv, Became
      <4>2. Like(r, q) BY <4>1 DEF Like
      <4>3. ~(q.at = "authorize" /\ ~r.raced)
        BY <1>2, <1>3, <3>1, <3>4, <4>1 DEF ListInv, Alone
      <4>4. GoodRequest(r)' BY <2>4, <4>1, <4>2, <4>3, OtherTab
      <4> QED BY <3>2, <4>4 DEF GoodRequest
    <3> QED BY <3>3, <3>4
  <2>7. \A o \in Tabs : Alone(o)'
    <3>1. \A o \in Tabs \ {t} : tabs[o].raced => tabs'[o].raced BY <2>2 DEF Became
    <3> QED BY <2>2, <2>3, <3>1, AloneStays
  <2> QED BY <2>5, <2>6, <2>7 DEF ListInv
<1> QED BY <1>8, <1>9

------------------------------------------------------------------------------
LEMMA InitListInv == Init => ListInv
<1> SUFFICES ASSUME Init PROVE ListInv OBVIOUS
<1>1. \A t \in Tabs : tabs[t] = Idle BY DEF Init
<1> QED BY <1>1, IdleTab DEF Init, ListInv, GoodRequest, Alone

LEMMA StepListInv ==
    ASSUME Inv, ListInv, EndSessionEnabled, [Next]_vars
    PROVE  ListInv'
<1>1. ASSUME NEW t \in Tabs, Deliver(t) PROVE ListInv'
  BY <1>1, DeliverAuthorizeKeeps, DeliverEndSessionKeeps, DeliverLogoutPromptKeeps,
     DeliverLogoutKeeps, DeliverFederatedSignOutKeeps, DeliverCallbackKeeps DEF Deliver
<1>2. ASSUME NEW t \in Tabs, NEW u \in Users, SignIn(t, u) PROVE ListInv'
  BY <1>2, SignInKeeps
<1>3. ASSUME NEW t \in Tabs, NEW c \in Clients, Authorize(t, c) \/ Notify(t, c) PROVE ListInv'
  BY <1>3, AuthorizeKeeps, NotifyKeeps
<1>4. ASSUME NEW t \in Tabs, EndSession(t) \/ VisitLogout(t) \/ Confirm(t) \/ Return(t)
      PROVE  ListInv'
  BY <1>4, EndSessionKeeps, VisitLogoutKeeps, ConfirmKeeps, ReturnKeeps
<1>5. ASSUME NEW t \in Tabs, FederatedSignOut(t) \/ LoadCallback(t) \/ Redirect(t) \/ Leave(t)
      PROVE  ListInv'
  BY <1>5, FederatedSignOutKeeps, LoadCallbackKeeps, RedirectKeeps, LeaveKeeps
<1>6. CASE TicketExpires \/ SidExpires \/ RestartBrowser
  BY <1>6, TicketExpiresKeeps, SidExpiresKeeps, RestartBrowserKeeps
<1>7. CASE UNCHANGED vars
  BY <1>7, TabsKeep DEF vars
<1> QED BY <1>1, <1>2, <1>3, <1>4, <1>5, <1>6, <1>7 DEF Next

------------------------------------------------------------------------------
\* Theorems

\* No client with a logout URI is left with a session of this browser that no sign-out will
\* end: it is in the list or in a frame, unless its response has raced, the browser has
\* forgotten the list, or it looks at the id and has that of an earlier sign-in.
THEOREM ClientsAccountedHolds == Spec => []ClientsAccounted
<1>1. CASE ~EndSessionEnabled
  <2>1. ClientsAccounted BY <1>1 DEF ClientsAccounted
  <2> QED BY <2>1, PTL
<1>2. CASE EndSessionEnabled
  <2>1. Inv /\ ListInv /\ [Next]_vars => ListInv' BY <1>2, StepListInv
  <2>2. ListInv => ClientsAccounted
    BY DEF ListInv, Kept, Settled, InFrames, Stale, ClientsAccounted
  <2> QED BY <2>1, <2>2, InitListInv, Inductive, PTL DEF Spec
<1> QED BY <1>1, <1>2
================================================================================

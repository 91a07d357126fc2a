-------------------------- MODULE SignInMessagesProofs --------------------------
(***************************************************************************)
(* Proofs about SignInMessages, for any number of tabs and frames, any     *)
(* threshold and any number of messages: type correctness, that an         *)
(* identity is let in for its own login, that a login is unknown only for  *)
(* a reason, and that the message cookies implement PendingLogins.         *)
(***************************************************************************)
EXTENDS SignInMessages, FiniteSetTheorems, WellFoundedInduction, TLAPS

------------------------------------------------------------------------------
\* Records

\* The tab t, and no other, has become new.
Moves(t, new) == new \in Tab /\ tabs' = [tabs EXCEPT ![t] = new]

LEMMA EmptyJar ==
    Empty \in Jar /\ Empty.messages = {} /\ Empty.partial = None /\ Empty.external = None
BY DEF Empty, Jar

\* The tab of a login, without cookies.
LEMMA IdTab ==
    ASSUME NEW id \in Ids \cup {None}, NEW tab, tab = [Idle EXCEPT !.id = id]
    PROVE  /\ tab \in Tab /\ tab.id = id /\ tab.resume = None /\ tab.cookies = Empty
           /\ tab.at = "idle"
<1>1. PICK new : new = [at |-> "idle", cookies |-> Empty, id |-> id, resume |-> None]
  OBVIOUS
<1>2. new \in Tab BY <1>1, EmptyJar DEF Tab
<1>3. tab = new BY <1>1 DEF Idle
<1>4. new.id = id /\ new.resume = None /\ new.cookies = Empty /\ new.at = "idle" BY <1>1 DEF Idle
<1> QED BY <1>2, <1>3, <1>4, Zenon

LEMMA IdleTab ==
    /\ Idle \in Tab /\ Idle.id = None /\ Idle.resume = None /\ Idle.cookies = Empty
    /\ Idle.at = "idle"
BY EmptyJar DEF Idle, Tab

LEMMA ResumeTab ==
    ASSUME NEW t \in Tabs, NEW id \in Ids, NEW tab,
           tab = [Idle EXCEPT !.id = id, !.resume = <<t, id>>]
    PROVE  tab \in Tab /\ tab.id = id /\ tab.resume = <<t, id>>
<1>1. PICK r : r = <<t, id>> OBVIOUS
<1>2. tab = [at |-> "idle", cookies |-> Empty, id |-> id, resume |-> r] BY <1>1 DEF Idle
<1> QED BY <1>1, <1>2, EmptyJar DEF Tab

\* What a handler looks at, of the login of its URL and of the shared cookies.
LEMMA ReadsJar ==
    ASSUME NEW cookies \in Jar, NEW id, NEW at \in Exchanges
    PROVE  LET k == Reads(at, id, cookies) IN
           /\ k \in Jar /\ k.messages \subseteq cookies.messages
           /\ at = "authorize" => k.messages = cookies.messages
           /\ k.partial \in {None, cookies.partial}
           /\ k.external \in {None, cookies.external}
           /\ at \in {"login", "submit", "callback", "resume"} /\ id \in cookies.messages =>
                 id \in k.messages
           /\ at = "callback" => k.external = cookies.external
           /\ at = "resume" => k.partial = cookies.partial
<1>1. cookies = [messages |-> cookies.messages, partial |-> cookies.partial,
                 external |-> cookies.external]
  BY DEF Jar
<1>2. CASE at = "authorize"
  <2>1. Reads(at, id, cookies) =
           [messages |-> cookies.messages, partial |-> None, external |-> None]
    BY <1>2 DEF Reads, Empty
  <2> QED BY <1>2, <2>1 DEF Jar
<1>3. CASE at \in {"login", "submit"}
  <2>1. PICK list : list = cookies.messages \cap {id} OBVIOUS
  <2>2. PICK k : k = [Empty EXCEPT !.messages = list] OBVIOUS
  <2>3. k = [messages |-> list, partial |-> None, external |-> None] BY <2>2 DEF Empty
  <2>4. Reads(at, id, cookies) = k BY <1>3, <2>1, <2>2 DEF Reads
  <2> QED BY <1>3, <2>1, <2>3, <2>4 DEF Jar
<1>4. CASE at = "callback"
  <2>1. PICK other : other = IF cookies.external = None THEN {} ELSE {cookies.external.message}
    OBVIOUS
  <2>2. PICK list : list = cookies.messages \cap ({id} \cup other) OBVIOUS
  <2>3. PICK k : k = [cookies EXCEPT !.partial = None, !.messages = list] OBVIOUS
  <2>4. k = [messages |-> list, partial |-> None, external |-> cookies.external]
    BY <2>3 DEF Jar
  <2>5. Reads(at, id, cookies) = k BY <1>4, <2>1, <2>2, <2>3 DEF Reads
  <2> QED BY <1>4, <2>2, <2>4, <2>5 DEF Jar
<1>5. CASE at = "resume"
  <2>1. PICK other : other = IF cookies.partial = None THEN {} ELSE {cookies.partial.message}
    OBVIOUS
  <2>2. PICK list : list = cookies.messages \cap ({id} \cup other) OBVIOUS
  <2>3. PICK k : k = [cookies EXCEPT !.external = None, !.messages = list] OBVIOUS
  <2>4. k = [messages |-> list, partial |-> cookies.partial, external |-> None]
    BY <2>3 DEF Jar
  <2>5. Reads(at, id, cookies) = k BY <1>5, <2>1, <2>2, <2>3 DEF Reads
  <2> QED BY <1>5, <2>2, <2>4, <2>5 DEF Jar
<1> QED BY <1>2, <1>3, <1>4, <1>5 DEF Exchanges

LEMMA SendIs ==
    ASSUME tabs \in [Tabs -> Tab], jar \in Jar, NEW t \in Tabs, NEW at \in Exchanges,
           NEW tab \in Tab, Send(t, at, tab)
    PROVE  \E new : /\ Moves(t, new) /\ new.at = at /\ new.id = tab.id
                    /\ new.resume = tab.resume /\ new.cookies = Reads(at, tab.id, jar)
<1>1. PICK cookies : cookies = Reads(at, tab.id, jar) OBVIOUS
<1>2. PICK new : new = [tab EXCEPT !.at = at, !.cookies = cookies] OBVIOUS
<1>3. cookies \in Jar BY <1>1, ReadsJar
<1>4. new = [at |-> at, cookies |-> cookies, id |-> tab.id, resume |-> tab.resume]
  BY <1>2 DEF Tab
<1>5. new \in Tab BY <1>3, <1>4 DEF Tab
<1>6. tabs' = [tabs EXCEPT ![t] = new] BY <1>1, <1>2 DEF Send
<1>7. Moves(t, new) BY <1>5, <1>6 DEF Moves
<1>8. new.at = at /\ new.id = tab.id /\ new.resume = tab.resume /\ new.cookies = cookies
  BY <1>4
<1> QED BY <1>1, <1>7, <1>8

LEMMA ShowIs ==
    ASSUME tabs \in [Tabs -> Tab], NEW t \in Tabs, NEW at \in Pages \cup {"idle"},
           NEW tab \in Tab, Show(t, at, tab)
    PROVE  \E new : /\ Moves(t, new) /\ new.at = at /\ new.id = tab.id
                    /\ new.resume = tab.resume /\ new.cookies = Empty
<1>1. PICK new : new = [tab EXCEPT !.at = at, !.cookies = Empty] OBVIOUS
<1>2. new = [at |-> at, cookies |-> Empty, id |-> tab.id, resume |-> tab.resume]
  BY <1>1 DEF Tab
<1>3. new \in Tab BY <1>2, EmptyJar DEF Tab
<1>4. tabs' = [tabs EXCEPT ![t] = new] BY <1>1 DEF Show
<1>5. Moves(t, new) BY <1>3, <1>4 DEF Moves
<1>6. new.at = at /\ new.id = tab.id /\ new.resume = tab.resume /\ new.cookies = Empty
  BY <1>2
<1> QED BY <1>5, <1>6

------------------------------------------------------------------------------
\* The invariant

\* The logins that are completed, and the messages no longer kept for one that goes on.
Done == {login.message : login \in completed}
Gone == purged \cup Done

\* Cookies, those of the browser or of a request: of messages that have arrived, and each
\* shared one of a message and the identity that was presented for it.
GoodCookies(k, arr) ==
    /\ k.messages \subseteq arr
    /\ k.external # None =>
          k.external.message = k.external.identity /\ k.external.message \in arr
    /\ k.partial # None =>
          k.partial.message = k.partial.identity /\ k.partial.message \in arr

\* The shared cookie is the one the tab has left, or is to come back with.
GoodExternal(tab, k) == k.external # None /\ k.external.message = tab.id
GoodPartial(tab, k) ==
    /\ k.partial # None
    /\ k.partial.message = tab.id
    /\ k.partial.resume = tab.resume

\* The tab t: its message has arrived unless the tab has just asked for it, it is in the
\* cookies of a request that needs it unless it is gone, and so is the shared cookie
\* unless the tab is disturbed.
GoodTab(t, tab, k, arr, cr, gone, dist) ==
    /\ GoodCookies(tab.cookies, arr)
    /\ tab.at \notin {"idle", "authorize"} => tab.id \in arr
    /\ tab.at = "authorize" => tab.id \in (1 .. cr) \ arr
    /\ tab.at \in {"login", "submit", "callback", "resume"} =>
          tab.id \in tab.cookies.messages \cup gone
    /\ tab.at = "redirect" => GoodExternal(tab, k) \/ t \in dist
    /\ tab.at = "callback" => GoodExternal(tab, tab.cookies) \/ t \in dist
    /\ tab.at = "partialPage" => GoodPartial(tab, k) \/ t \in dist
    /\ tab.at = "resume" => GoodPartial(tab, tab.cookies) \/ t \in dist
    /\ tab.at = "lost" => tab.id \in gone \cup {m \in arr : t \in dist}

GoodTabs ==
    \A t \in Tabs : GoodTab(t, tabs[t], jar, arrived, created, Gone, disturbed)

\* Two tabs that have just asked have asked for different logins.
OwnMessages ==
    \A t, o \in Tabs :
       t # o /\ At(t, "authorize") /\ At(o, "authorize") => tabs[t].id # tabs[o].id

Inv ==
    /\ TypeOK
    /\ GoodCookies(jar, arrived)
    /\ arrived \subseteq jar.messages \cup Gone
    /\ GoodTabs
    /\ OwnMessages
    /\ OwnLogin

\* A tab that does nothing stays good while the history grows, if it keeps the shared
\* cookie it needs or is disturbed, and nobody else's cookie arrives with its message.
LEMMA TabKept ==
    ASSUME NEW t, NEW tab, NEW k, NEW k2, NEW arr, NEW arr2, NEW cr \in Nat, NEW cr2 \in Nat,
           NEW gone, NEW gone2, NEW dist, NEW dist2,
           GoodTab(t, tab, k, arr, cr, gone, dist),
           arr \subseteq arr2, cr <= cr2, gone \subseteq gone2,
           t \in dist => t \in dist2,
           tab.at = "redirect" => k2.external = k.external \/ t \in dist2,
           tab.at = "partialPage" => k2.partial = k.partial \/ t \in dist2,
           tab.at = "authorize" => tab.id \notin arr2
    PROVE  GoodTab(t, tab, k2, arr2, cr2, gone2, dist2)
<1>1. GoodCookies(tab.cookies, arr2) BY DEF GoodTab, GoodCookies
<1>2. tab.at = "authorize" => tab.id \in (1 .. cr2) \ arr2 BY DEF GoodTab
<1>3. tab.at \notin {"idle", "authorize"} => tab.id \in arr2 BY DEF GoodTab
<1>4. tab.at \in {"login", "submit", "callback", "resume"} =>
         tab.id \in tab.cookies.messages \cup gone2
  BY DEF GoodTab
<1>5. tab.at = "redirect" => GoodExternal(tab, k2) \/ t \in dist2
  BY DEF GoodTab, GoodExternal
<1>6. tab.at = "callback" => GoodExternal(tab, tab.cookies) \/ t \in dist2 BY DEF GoodTab
<1>7. tab.at = "partialPage" => GoodPartial(tab, k2) \/ t \in dist2
  BY DEF GoodTab, GoodPartial
<1>8. tab.at = "resume" => GoodPartial(tab, tab.cookies) \/ t \in dist2 BY DEF GoodTab
<1>9. tab.at = "lost" => tab.id \in gone2 \cup {m \in arr2 : t \in dist2} BY DEF GoodTab
<1> QED BY <1>1, <1>2, <1>3, <1>4, <1>5, <1>6, <1>7, <1>8, <1>9 DEF GoodTab

\* The step of one tab, which the others are prepared for.
LEMMA TabsStep ==
    ASSUME Inv, NEW t \in Tabs, NEW new, Moves(t, new),
           GoodTab(t, new, jar', arrived', created', Gone', disturbed'),
           created' \in Nat, arrived \subseteq arrived', created <= created',
           Gone \subseteq Gone',
           \A o \in Tabs \ {t} :
              /\ o \in disturbed => o \in disturbed'
              /\ At(o, "redirect") => jar'.external = jar.external \/ o \in disturbed'
              /\ At(o, "partialPage") => jar'.partial = jar.partial \/ o \in disturbed'
              /\ At(o, "authorize") => tabs[o].id \notin arrived'
    PROVE  /\ tabs' \in [Tabs -> Tab]
           /\ GoodTabs'
<1>1. tabs \in [Tabs -> Tab] /\ created \in Nat BY DEF Inv, TypeOK
<1>2. tabs' \in [Tabs -> Tab] BY <1>1 DEF Moves
<1>3. SUFFICES ASSUME NEW o \in Tabs
               PROVE  GoodTab(o, tabs'[o], jar', arrived', created', Gone', disturbed')
  BY <1>2 DEF GoodTabs
<1>4. CASE o = t
  <2>1. tabs'[o] = new BY <1>1, <1>4 DEF Moves
  <2> QED BY <2>1, <1>4
<1>5. CASE o # t
  <2>1. tabs'[o] = tabs[o] BY <1>1, <1>5 DEF Moves
  <2>2. GoodTab(o, tabs[o], jar, arrived, created, Gone, disturbed) BY DEF Inv, GoodTabs
  <2>3. GoodTab(o, tabs[o], jar', arrived', created', Gone', disturbed')
    BY <2>2, <1>1, <1>5, TabKept DEF At
  <2> QED BY <2>1, <2>3
<1> QED BY <1>4, <1>5

\* A tab that does not ask leaves those that do with messages of their own.
LEMMA OwnMessagesKept ==
    ASSUME Inv, NEW t \in Tabs, NEW new, Moves(t, new), new.at # "authorize"
    PROVE  OwnMessages'
<1>1. tabs \in [Tabs -> Tab] BY DEF Inv, TypeOK
<1>2. tabs'[t] = new BY <1>1 DEF Moves
<1>3. \A o \in Tabs : o # t => tabs'[o] = tabs[o] BY <1>1 DEF Moves
<1>4. OwnMessages BY DEF Inv
<1> QED BY <1>2, <1>3, <1>4 DEF OwnMessages, At

\* A page that has arrived in the tab t is good when what it names is.
LEMMA PageIsGood ==
    ASSUME NEW t, NEW new, NEW k, NEW arr, NEW cr, NEW gone, NEW dist,
           new.at \in {"idle", "loginPage", "provider"}, new.cookies = Empty,
           new.at # "idle" => new.id \in arr
    PROVE  GoodTab(t, new, k, arr, cr, gone, dist)
<1>1. GoodCookies(Empty, arr) BY EmptyJar DEF GoodCookies
<1> QED BY <1>1 DEF GoodTab

LEMMA GoneStep ==
    ASSUME UNCHANGED <<purged, completed>>
    PROVE  Gone' = Gone
BY DEF Gone, Done

LEMMA DoneGrows ==
    ASSUME NEW id, completed' = completed \cup {[message |-> id, identity |-> id]}
    PROVE  Done' = Done \cup {id}
<1>1. PICK new : new = [message |-> id, identity |-> id] OBVIOUS
<1>2. new.message = id BY <1>1
<1>3. completed' = completed \cup {new} BY <1>1
<1> QED BY <1>2, <1>3 DEF Done

LEMMA GoneGrows ==
    ASSUME NEW id, purged' = purged,
           completed' = completed \cup {[message |-> id, identity |-> id]}
    PROVE  Gone' = Gone \cup {id}
BY DoneGrows DEF Gone

LEMMA ArrivedIds ==
    ASSUME Inv
    PROVE  arrived \subseteq Ids /\ created \in Nat
BY ThresholdAssumption DEF Inv, TypeOK, Ids

------------------------------------------------------------------------------
\* The outcomes of a login

\* What all of them leave alone.
Outcome == UNCHANGED <<created, arrived, purged>>

LEMMA SignedInStep ==
    ASSUME Inv, NEW t \in Tabs, NEW id \in arrived, SignedIn(t, id, id), Outcome
    PROVE  Inv'
<1>1. TypeOK /\ jar \in Jar /\ tabs \in [Tabs -> Tab] BY DEF Inv, TypeOK
<1>2. id \in Ids BY ArrivedIds
<1>3. PICK tab : tab = [Idle EXCEPT !.id = id] OBVIOUS
<1>4. tab \in Tab /\ tab.id = id BY <1>2, <1>3, IdTab
<1>5. Show(t, "loginPage", tab) BY <1>3 DEF SignedIn
<1>6. PICK new : /\ Moves(t, new) /\ new.at = "loginPage" /\ new.id = id
                 /\ new.cookies = Empty
  BY <1>1, <1>4, <1>5, ShowIs DEF Pages
<1>7. /\ jar' = [messages |-> jar.messages \ {id}, partial |-> None, external |-> None]
      /\ completed' = completed \cup {[message |-> id, identity |-> id]}
      /\ disturbed' = (disturbed \cup WithExternal(t) \cup WithPartial(t)) \ {t}
      /\ UNCHANGED <<created, arrived, purged>>
  BY DEF SignedIn, Outcome
<1>8. Gone' = Gone \cup {id} BY <1>7, GoneGrows
<1>9. GoodTab(t, new, jar', arrived', created', Gone', disturbed')
  BY <1>6, <1>7, PageIsGood
<1>10. \A o \in Tabs \ {t} :
          /\ o \in disturbed => o \in disturbed'
          /\ At(o, "redirect") => o \in disturbed'
          /\ At(o, "partialPage") => o \in disturbed'
  BY <1>7 DEF At, WithExternal, WithPartial
<1>11. \A o \in Tabs : At(o, "authorize") => tabs[o].id \notin arrived'
  BY <1>7 DEF Inv, GoodTabs, GoodTab, At
<1>12. created' \in Nat /\ created' = created /\ arrived' = arrived
  BY <1>1, <1>7 DEF TypeOK
<1>13. tabs' \in [Tabs -> Tab] /\ GoodTabs'
  BY <1>6, <1>8, <1>9, <1>10, <1>11, <1>12, TabsStep DEF Inv, TypeOK
<1>14. TypeOK'
  <2>1. jar' \in Jar BY <1>1, <1>7 DEF Jar
  <2>2. jar'.messages \subseteq jar.messages BY <1>7
  <2>3. completed' \subseteq Completed BY <1>1, <1>2, <1>7 DEF TypeOK, Completed
  <2>4. disturbed' \subseteq Tabs BY <1>1, <1>7 DEF TypeOK, WithExternal, WithPartial
  <2> QED BY <1>1, <1>7, <1>13, <2>1, <2>2, <2>3, <2>4 DEF TypeOK
<1>15. GoodCookies(jar', arrived') BY <1>7 DEF Inv, GoodCookies
<1>16. arrived' \subseteq jar'.messages \cup Gone' BY <1>7, <1>8 DEF Inv
<1>17. OwnMessages' BY <1>6, OwnMessagesKept
<1>18. OwnLogin' BY <1>7 DEF Inv, OwnLogin
<1> QED BY <1>13, <1>14, <1>15, <1>16, <1>17, <1>18 DEF Inv

LEMMA PartlySignedInStep ==
    ASSUME Inv, NEW t \in Tabs, NEW id \in arrived, PartlySignedIn(t, id, id), Outcome
    PROVE  Inv'
<1>1. TypeOK /\ jar \in Jar /\ tabs \in [Tabs -> Tab] BY DEF Inv, TypeOK
<1>2. id \in Ids BY ArrivedIds
<1>3. PICK tab : tab = [Idle EXCEPT !.id = id, !.resume = <<t, id>>] OBVIOUS
<1>4. tab \in Tab /\ tab.id = id /\ tab.resume = <<t, id>> BY <1>2, <1>3, ResumeTab
<1>5. Show(t, "partialPage", tab) BY <1>3 DEF PartlySignedIn
<1>6. PICK new : /\ Moves(t, new) /\ new.at = "partialPage" /\ new.id = id
                 /\ new.resume = <<t, id>> /\ new.cookies = Empty
  BY <1>1, <1>4, <1>5, ShowIs DEF Pages
<1>7. PICK partial : partial = [resume |-> <<t, id>>, message |-> id, identity |-> id]
  OBVIOUS
<1>8. /\ jar' = [jar EXCEPT !.external = None, !.partial = partial]
      /\ disturbed' = (disturbed \cup WithExternal(t) \cup WithPartial(t)) \ {t}
      /\ UNCHANGED <<created, arrived, purged, completed>>
  BY <1>7 DEF PartlySignedIn, Outcome
<1>9. jar' = [messages |-> jar.messages, partial |-> partial, external |-> None]
  BY <1>1, <1>8 DEF Jar
<1>10. /\ partial \in Partial /\ partial.message = id /\ partial.identity = id
       /\ partial.resume = <<t, id>>
  BY <1>2, <1>7 DEF Partial
<1>11. partial # None BY <1>10, NoneAssumption
<1>12. Gone' = Gone BY <1>8, GoneStep
<1>13. GoodTab(t, new, jar', arrived', created', Gone', disturbed')
  <2>1. GoodCookies(Empty, arrived') BY EmptyJar DEF GoodCookies
  <2>2. GoodPartial(new, jar') BY <1>6, <1>9, <1>10, <1>11 DEF GoodPartial
  <2> QED BY <1>6, <1>8, <2>1, <2>2 DEF GoodTab
<1>14. \A o \in Tabs \ {t} :
          /\ o \in disturbed => o \in disturbed'
          /\ At(o, "redirect") => o \in disturbed'
          /\ At(o, "partialPage") => o \in disturbed'
  BY <1>8 DEF At, WithExternal, WithPartial
<1>15. \A o \in Tabs : At(o, "authorize") => tabs[o].id \notin arrived'
  BY <1>8 DEF Inv, GoodTabs, GoodTab, At
<1>16. created' \in Nat /\ created' = created /\ arrived' = arrived
  BY <1>1, <1>8 DEF TypeOK
<1>17. tabs' \in [Tabs -> Tab] /\ GoodTabs'
  BY <1>6, <1>12, <1>13, <1>14, <1>15, <1>16, TabsStep DEF Inv, TypeOK
<1>18. TypeOK'
  <2>1. jar' \in Jar BY <1>1, <1>9, <1>10 DEF Jar
  <2>2. jar'.messages = jar.messages BY <1>9
  <2>3. disturbed' \subseteq Tabs BY <1>1, <1>8 DEF TypeOK, WithExternal, WithPartial
  <2> QED BY <1>1, <1>8, <1>17, <2>1, <2>2, <2>3 DEF TypeOK
<1>19. GoodCookies(jar', arrived')
  BY <1>8, <1>9, <1>10 DEF Inv, GoodCookies
<1>20. arrived' \subseteq jar'.messages \cup Gone' BY <1>8, <1>9, <1>12 DEF Inv
<1>21. OwnMessages' BY <1>6, OwnMessagesKept
<1>22. OwnLogin' BY <1>8 DEF Inv, OwnLogin
<1> QED BY <1>17, <1>18, <1>19, <1>20, <1>21, <1>22 DEF Inv

\* A step of one tab that changes neither the cookies nor the history.
LEMMA QuietStep ==
    ASSUME Inv, NEW t \in Tabs, NEW new, Moves(t, new), new.at # "authorize",
           UNCHANGED <<jar, created, arrived, purged, completed>>,
           disturbed' \subseteq Tabs, disturbed \ {t} \subseteq disturbed',
           GoodTab(t, new, jar, arrived, created, Gone, disturbed')
    PROVE  Inv'
<1>1. Gone' = Gone BY GoneStep
<1>2. \A o \in Tabs : At(o, "authorize") => tabs[o].id \notin arrived'
  BY DEF Inv, GoodTabs, GoodTab, At
<1>3. created' \in Nat /\ created' = created BY ArrivedIds
<1>4. GoodTab(t, new, jar', arrived', created', Gone', disturbed') BY <1>1
<1>5. tabs' \in [Tabs -> Tab] /\ GoodTabs' BY <1>1, <1>2, <1>3, <1>4, TabsStep
<1>6. TypeOK' BY <1>5 DEF Inv, TypeOK
<1>7. OwnMessages' BY OwnMessagesKept
<1>8. GoodCookies(jar', arrived') BY DEF Inv
<1>9. arrived' \subseteq jar'.messages \cup Gone' BY <1>1 DEF Inv
<1>10. OwnLogin' BY DEF Inv, OwnLogin
<1> QED BY <1>5, <1>6, <1>7, <1>8, <1>9, <1>10 DEF Inv

LEMMA TurnedAwayStep ==
    ASSUME Inv, NEW t \in Tabs, NEW id \in arrived, TurnedAway(t, id), Outcome
    PROVE  Inv'
<1>1. tabs \in [Tabs -> Tab] /\ disturbed \subseteq Tabs BY DEF Inv, TypeOK
<1>2. id \in Ids BY ArrivedIds
<1>3. PICK tab : tab = [Idle EXCEPT !.id = id] OBVIOUS
<1>4. tab \in Tab /\ tab.id = id BY <1>2, <1>3, IdTab
<1>5. Show(t, "loginPage", tab) BY <1>3 DEF TurnedAway
<1>6. PICK new : /\ Moves(t, new) /\ new.at = "loginPage" /\ new.id = id
                 /\ new.cookies = Empty
  BY <1>1, <1>4, <1>5, ShowIs DEF Pages
<1>7. GoodTab(t, new, jar, arrived, created, Gone, disturbed') BY <1>6, PageIsGood
<1> QED BY <1>1, <1>6, <1>7, QuietStep DEF TurnedAway, Outcome

LEMMA AuthenticatedStep ==
    ASSUME Inv, NEW t \in Tabs, NEW id \in arrived, Authenticated(t, id, id), Outcome
    PROVE  Inv'
BY SignedInStep, PartlySignedInStep, TurnedAwayStep DEF Authenticated

\* The request of a tab is refused for a reason.
LEMMA RefusedStep ==
    ASSUME Inv, NEW t \in Tabs, tabs[t].id \in arrived, Refused(t), Outcome,
           tabs[t].id \in Gone \/ t \in disturbed
    PROVE  Inv'
<1>1. tabs \in [Tabs -> Tab] /\ disturbed \subseteq Tabs BY DEF Inv, TypeOK
<1>2. PICK id : id = tabs[t].id OBVIOUS
<1>3. id \in Ids BY <1>2, ArrivedIds
<1>4. PICK tab : tab = [Idle EXCEPT !.id = id] OBVIOUS
<1>5. tab \in Tab /\ tab.id = id BY <1>3, <1>4, IdTab
<1>6. Show(t, "lost", tab) BY <1>2, <1>4 DEF Refused
<1>7. PICK new : Moves(t, new) /\ new.at = "lost" /\ new.id = id /\ new.cookies = Empty
  BY <1>1, <1>5, <1>6, ShowIs DEF Pages
<1>8. GoodCookies(Empty, arrived) BY EmptyJar DEF GoodCookies
<1>9. UNCHANGED <<jar, created, arrived, purged, completed, disturbed>>
  BY DEF Refused, Outcome
<1>10. GoodTab(t, new, jar, arrived, created, Gone, disturbed')
  BY <1>2, <1>7, <1>8, <1>9 DEF GoodTab
<1> QED BY <1>1, <1>7, <1>9, <1>10, QuietStep

LEMMA ChallengedStep ==
    ASSUME Inv, NEW t \in Tabs, tabs[t].id \in arrived, Challenged(t), Outcome
    PROVE  Inv'
<1>1. tabs \in [Tabs -> Tab] /\ tabs[t] \in Tab /\ disturbed \subseteq Tabs
  BY DEF Inv, TypeOK
<1>2. Show(t, "provider", tabs[t]) BY DEF Challenged
<1>3. PICK new : /\ Moves(t, new) /\ new.at = "provider" /\ new.id = tabs[t].id
                 /\ new.cookies = Empty
  BY <1>1, <1>2, ShowIs DEF Pages
<1>4. UNCHANGED <<jar, created, arrived, purged, completed, disturbed>>
  BY DEF Challenged, Outcome
<1>5. GoodTab(t, new, jar, arrived, created, Gone, disturbed') BY <1>3, PageIsGood
<1> QED BY <1>1, <1>3, <1>4, <1>5, QuietStep

------------------------------------------------------------------------------
\* Asking for a login

LEMMA AskStep ==
    ASSUME Inv, NEW t \in Tabs, Ask(t)
    PROVE  Inv'
<1>1. /\ tabs \in [Tabs -> Tab] /\ jar \in Jar /\ created \in 0 .. MaxMessages
      /\ arrived \subseteq 1 .. created /\ disturbed \subseteq Tabs
  BY DEF Inv, TypeOK
<1>2. PICK id : id = created + 1 OBVIOUS
<1>3. created < MaxMessages BY DEF Ask
<1>4. id \in Ids /\ created \in Nat /\ id \in Nat
  BY <1>1, <1>2, <1>3, ThresholdAssumption DEF Ids
<1>5. PICK tab : tab = [Idle EXCEPT !.id = id] OBVIOUS
<1>6. tab \in Tab /\ tab.id = id BY <1>4, <1>5, IdTab
<1>7. Send(t, "authorize", tab) BY <1>2, <1>5 DEF Ask
<1>8. PICK new : /\ Moves(t, new) /\ new.at = "authorize" /\ new.id = id
                 /\ new.cookies = Reads("authorize", id, jar)
  BY <1>1, <1>6, <1>7, SendIs DEF Exchanges
<1>9. /\ created' = id /\ disturbed' = disturbed \ {t}
      /\ UNCHANGED <<jar, arrived, purged, completed>>
  BY <1>2 DEF Ask
<1>10. Gone' = Gone BY <1>9, GoneStep
<1>11. GoodCookies(new.cookies, arrived)
  <2>1. /\ new.cookies.messages \subseteq jar.messages
        /\ new.cookies.partial \in {None, jar.partial}
        /\ new.cookies.external \in {None, jar.external}
    BY <1>1, <1>8, ReadsJar DEF Exchanges
  <2> QED BY <2>1 DEF Inv, GoodCookies
<1>12. id \in 1 .. id /\ id \notin arrived BY <1>1, <1>2, <1>4
<1>13. GoodTab(t, new, jar', arrived', created', Gone', disturbed')
  BY <1>8, <1>9, <1>11, <1>12 DEF GoodTab
<1>14. \A o \in Tabs : At(o, "authorize") => tabs[o].id \in (1 .. created) \ arrived
  BY DEF Inv, GoodTabs, GoodTab, At
<1>15. created' \in Nat /\ created <= created' BY <1>2, <1>4, <1>9
<1>16. tabs' \in [Tabs -> Tab] /\ GoodTabs'
  BY <1>8, <1>9, <1>10, <1>13, <1>14, <1>15, TabsStep
<1>17. OwnMessages'
  <2>1. \A o \in Tabs : o # t => tabs'[o] = tabs[o] BY <1>1, <1>8 DEF Moves
  <2>2. tabs'[t] = new BY <1>1, <1>8 DEF Moves
  <2>3. \A o \in Tabs : At(o, "authorize") => tabs[o].id # id
    BY <1>2, <1>4, <1>14
  <2>4. OwnMessages BY DEF Inv
  <2> QED BY <1>8, <2>1, <2>2, <2>3, <2>4 DEF OwnMessages, At
<1>18. TypeOK'
  <2>1. created' \in 0 .. MaxMessages BY <1>4, <1>9 DEF Ids
  <2>2. arrived' \subseteq 1 .. created' BY <1>1, <1>9, <1>15
  <2> QED BY <1>9, <1>16, <2>1, <2>2 DEF Inv, TypeOK
<1>19. GoodCookies(jar', arrived') BY <1>9 DEF Inv
<1>20. arrived' \subseteq jar'.messages \cup Gone' BY <1>9, <1>10 DEF Inv
<1>21. OwnLogin' BY <1>9 DEF Inv, OwnLogin
<1> QED BY <1>16, <1>17, <1>18, <1>19, <1>20, <1>21 DEF Inv

LEMMA OverflowWithin ==
    ASSUME NEW messages
    PROVE  Overflow(messages) \subseteq messages
BY DEF Overflow

\* The tab after the redirect to the login page.
LEMMA AskedIs ==
    ASSUME tabs \in [Tabs -> Tab], NEW t \in Tabs, jar' \in Jar,
           tabs' = [tabs EXCEPT ![t].at = "login",
                                ![t].cookies = Reads("login", tabs[t].id, jar')]
    PROVE  \E new : /\ Moves(t, new) /\ new.at = "login" /\ new.id = tabs[t].id
                    /\ new.cookies = Reads("login", tabs[t].id, jar')
<1>1. PICK tab : tab = tabs[t] OBVIOUS
<1>2. tab \in Tab BY <1>1
<1>3. PICK cookies : cookies = Reads("login", tabs[t].id, jar') OBVIOUS
<1>4. cookies \in Jar BY <1>3, ReadsJar DEF Exchanges
<1>5. PICK new : new = [tab EXCEPT !.at = "login", !.cookies = cookies] OBVIOUS
<1>6. new = [at |-> "login", cookies |-> cookies, id |-> tab.id, resume |-> tab.resume]
  BY <1>2, <1>5 DEF Tab
<1>7. new \in Tab BY <1>2, <1>4, <1>6 DEF Tab, Exchanges
<1>8. tabs' = [tabs EXCEPT ![t] = new] BY <1>1, <1>3, <1>5
<1>9. Moves(t, new) BY <1>7, <1>8 DEF Moves
<1>10. new.at = "login" /\ new.id = tab.id /\ new.cookies = cookies BY <1>6
<1> QED BY <1>1, <1>3, <1>9, <1>10

LEMMA DeliverAskStep ==
    ASSUME Inv, NEW t \in Tabs, DeliverAsk(t)
    PROVE  Inv'
<1>1. /\ tabs \in [Tabs -> Tab] /\ tabs[t] \in Tab /\ jar \in Jar
      /\ arrived \subseteq 1 .. created /\ created \in Nat /\ At(t, "authorize")
  BY ArrivedIds DEF Inv, TypeOK, DeliverAsk
<1>2. PICK id : id = tabs[t].id OBVIOUS
<1>3. PICK cleared : cleared = Overflow(tabs[t].cookies.messages) OBVIOUS
<1>4. GoodTab(t, tabs[t], jar, arrived, created, Gone, disturbed) BY DEF Inv, GoodTabs
<1>5. cleared \subseteq arrived BY <1>3, <1>4, OverflowWithin DEF GoodTab, GoodCookies
<1>6. id \in (1 .. created) \ arrived BY <1>1, <1>2, <1>4 DEF GoodTab, At
<1>7. PICK list : list = (jar.messages \ cleared) \cup {id} OBVIOUS
<1>8. /\ jar' = [jar EXCEPT !.messages = list]
      /\ arrived' = arrived \cup {id} /\ purged' = purged \cup cleared
      /\ UNCHANGED <<created, completed, disturbed>>
  BY <1>2, <1>3, <1>7 DEF DeliverAsk
<1>9. jar' = [messages |-> list, partial |-> jar.partial, external |-> jar.external]
  BY <1>1, <1>8 DEF Jar
<1>10. id \in Ids BY <1>6, ThresholdAssumption DEF Inv, TypeOK, Ids
<1>11. jar' \in Jar BY <1>1, <1>7, <1>9, <1>10 DEF Jar
<1>12. Gone' = Gone \cup cleared BY <1>8 DEF Gone, Done
<1>13. GoodCookies(jar', arrived') BY <1>7, <1>8, <1>9 DEF Inv, GoodCookies
<1>14. \E new : /\ Moves(t, new) /\ new.at \in {"idle", "login"}
                /\ GoodTab(t, new, jar', arrived', created', Gone', disturbed')
  <2>1. CASE t \in Frames
    <3>1. Show(t, "idle", Idle) BY <2>1 DEF DeliverAsk
    <3>2. PICK new : Moves(t, new) /\ new.at = "idle" /\ new.cookies = Empty
      BY <1>1, <3>1, ShowIs, IdleTab
    <3>3. GoodTab(t, new, jar', arrived', created', Gone', disturbed')
      BY <3>2, PageIsGood
    <3> QED BY <3>2, <3>3
  <2>2. CASE t \notin Frames
    <3>1. tabs' = [tabs EXCEPT ![t].at = "login",
                               ![t].cookies = Reads("login", tabs[t].id, jar')]
      BY <2>2 DEF DeliverAsk
    <3>2. PICK new : /\ Moves(t, new) /\ new.at = "login" /\ new.id = id
                     /\ new.cookies = Reads("login", id, jar')
      BY <1>1, <1>2, <1>11, <3>1, AskedIs
    <3>3. /\ new.cookies.messages \subseteq list
          /\ new.cookies.partial \in {None, jar'.partial}
          /\ new.cookies.external \in {None, jar'.external}
          /\ id \in new.cookies.messages
      BY <1>7, <1>9, <1>11, <3>2, ReadsJar DEF Exchanges
    <3>4. GoodCookies(new.cookies, arrived') BY <1>9, <1>13, <3>3 DEF GoodCookies
    <3>5. GoodTab(t, new, jar', arrived', created', Gone', disturbed')
      BY <1>8, <3>2, <3>3, <3>4 DEF GoodTab
    <3> QED BY <3>2, <3>5
  <2> QED BY <2>1, <2>2
<1>15. PICK new : /\ Moves(t, new) /\ new.at \in {"idle", "login"}
                  /\ GoodTab(t, new, jar', arrived', created', Gone', disturbed')
  BY <1>14
<1>16. \A o \in Tabs \ {t} : At(o, "authorize") => tabs[o].id \notin arrived'
  <2>1. \A o \in Tabs : At(o, "authorize") => tabs[o].id \notin arrived
    BY DEF Inv, GoodTabs, GoodTab, At
  <2>2. \A o \in Tabs \ {t} : At(o, "authorize") => tabs[o].id # id
    BY <1>1, <1>2 DEF Inv, OwnMessages
  <2> QED BY <1>8, <2>1, <2>2
<1>17. created' \in Nat /\ created <= created' BY <1>1, <1>8
<1>18. jar'.external = jar.external /\ jar'.partial = jar.partial BY <1>9
<1>19. tabs' \in [Tabs -> Tab] /\ GoodTabs'
  BY <1>8, <1>12, <1>15, <1>16, <1>17, <1>18, TabsStep
<1>20. OwnMessages' BY <1>15, OwnMessagesKept
<1>21. TypeOK'
  <2>1. jar'.messages \cup purged' \subseteq arrived'
    BY <1>5, <1>7, <1>8, <1>9 DEF Inv, TypeOK
  <2>2. arrived' \subseteq 1 .. created' BY <1>1, <1>6, <1>8
  <2> QED BY <1>8, <1>11, <1>19, <2>1, <2>2 DEF Inv, TypeOK
<1>22. arrived' \subseteq jar'.messages \cup Gone'
  BY <1>7, <1>8, <1>9, <1>12 DEF Inv
<1>23. OwnLogin' BY <1>8 DEF Inv, OwnLogin
<1> QED BY <1>13, <1>19, <1>20, <1>21, <1>22, <1>23 DEF Inv

------------------------------------------------------------------------------
\* The login page

\* What a tab that waits for a response, or on a page, knows of its message.
LEMMA TabHas ==
    ASSUME Inv, NEW t \in Tabs
    PROVE  /\ tabs \in [Tabs -> Tab] /\ tabs[t] \in Tab /\ tabs[t].cookies \in Jar
           /\ tabs[t].at \notin {"idle", "authorize"} => tabs[t].id \in arrived
           /\ GoodTab(t, tabs[t], jar, arrived, created, Gone, disturbed)
           /\ GoodCookies(tabs[t].cookies, arrived)
BY DEF Inv, TypeOK, GoodTabs, GoodTab, Tab

\* The request of a tab that knows its message, with the cookies of the moment.
LEMMA SentStep ==
    ASSUME Inv, NEW t \in Tabs, NEW at \in {"login", "submit", "callback", "resume"},
           NEW tab \in Tab, tab.id \in arrived, Send(t, at, tab),
           UNCHANGED <<jar, created, arrived, purged, completed>>,
           disturbed' \subseteq Tabs, disturbed \ {t} \subseteq disturbed',
           at = "callback" => GoodExternal(tab, jar) \/ t \in disturbed',
           at = "resume" => GoodPartial(tab, jar) \/ t \in disturbed'
    PROVE  Inv'
<1>1. tabs \in [Tabs -> Tab] /\ jar \in Jar BY DEF Inv, TypeOK
<1>2. at \in Exchanges BY DEF Exchanges
<1>3. PICK new : /\ Moves(t, new) /\ new.at = at /\ new.id = tab.id
                 /\ new.resume = tab.resume /\ new.cookies = Reads(at, tab.id, jar)
  BY <1>1, <1>2, SendIs
<1>4. PICK k : k = Reads(at, tab.id, jar) OBVIOUS
<1>5. /\ k.messages \subseteq jar.messages
      /\ k.partial \in {None, jar.partial} /\ k.external \in {None, jar.external}
      /\ tab.id \in jar.messages => tab.id \in k.messages
      /\ at = "callback" => k.external = jar.external
      /\ at = "resume" => k.partial = jar.partial
  BY <1>1, <1>2, <1>4, ReadsJar
<1>6. GoodCookies(k, arrived) BY <1>5 DEF Inv, GoodCookies
<1>7. tab.id \in k.messages \cup Gone BY <1>5 DEF Inv
<1>8. at = "callback" => GoodExternal(new, k) \/ t \in disturbed'
  BY <1>3, <1>5 DEF GoodExternal
<1>9. at = "resume" => GoodPartial(new, k) \/ t \in disturbed'
  BY <1>3, <1>5 DEF GoodPartial
<1>10. GoodTab(t, new, jar, arrived, created, Gone, disturbed')
  BY <1>3, <1>4, <1>6, <1>7, <1>8, <1>9 DEF GoodTab
<1> QED BY <1>3, <1>10, QuietStep

LEMMA RestartStep ==
    ASSUME Inv, NEW t \in Tabs, Restart(t)
    PROVE  Inv'
<1>1. tabs[t] \in Tab /\ tabs[t].id \in arrived BY TabHas DEF Restart, At
<1>2. PICK tab : tab = [tabs[t] EXCEPT !.resume = None] OBVIOUS
<1>3. tab = [at |-> tabs[t].at, cookies |-> tabs[t].cookies, id |-> tabs[t].id,
             resume |-> None]
  BY <1>1, <1>2 DEF Tab
<1>4. tab \in Tab /\ tab.id = tabs[t].id BY <1>1, <1>3 DEF Tab
<1>5. Send(t, "login", tab) BY <1>2 DEF Restart
<1>6. /\ UNCHANGED <<jar, created, arrived, purged, completed>>
      /\ disturbed' = disturbed \ {t}
  BY DEF Restart
<1>7. disturbed' \subseteq Tabs BY <1>6 DEF Inv, TypeOK
<1> QED BY <1>1, <1>4, <1>5, <1>6, <1>7, SentStep

LEMMA SubmitStep ==
    ASSUME Inv, NEW t \in Tabs, Submit(t)
    PROVE  Inv'
<1>1. tabs[t] \in Tab /\ tabs[t].id \in arrived BY TabHas DEF Submit, At
<1>2. disturbed' \subseteq Tabs BY DEF Inv, TypeOK, Submit
<1> QED BY <1>1, <1>2, SentStep DEF Submit

\* A response to the request of the login page.
LEMMA FoundStep ==
    ASSUME Inv, NEW t \in Tabs, tabs[t].at \in {"login", "submit"}, Outcome,
           IF Finds(tabs[t])
           THEN Challenged(t) \/ Authenticated(t, tabs[t].id, tabs[t].id)
           ELSE Refused(t)
    PROVE  Inv'
<1>1. tabs[t].id \in arrived /\ tabs[t].id \in tabs[t].cookies.messages \cup Gone
  BY TabHas DEF GoodTab
<1>2. CASE Finds(tabs[t]) BY <1>1, <1>2, ChallengedStep, AuthenticatedStep
<1>3. CASE ~Finds(tabs[t]) BY <1>1, <1>3, RefusedStep DEF Finds
<1> QED BY <1>2, <1>3

LEMMA DeliverLoginStep ==
    ASSUME Inv, NEW t \in Tabs, DeliverLogin(t)
    PROVE  Inv'
BY FoundStep DEF DeliverLogin, Outcome, At

LEMMA DeliverSubmitStep ==
    ASSUME Inv, NEW t \in Tabs, DeliverSubmit(t)
    PROVE  Inv'
BY FoundStep DEF DeliverSubmit, Outcome, At

------------------------------------------------------------------------------
\* External login

LEMMA ReturnFromProviderStep ==
    ASSUME Inv, NEW t \in Tabs, ReturnFromProvider(t)
    PROVE  Inv'
<1>1. /\ tabs \in [Tabs -> Tab] /\ tabs[t] \in Tab /\ jar \in Jar
      /\ disturbed \subseteq Tabs /\ tabs[t].id \in arrived
  BY TabHas DEF ReturnFromProvider, At, Inv, TypeOK
<1>2. PICK id : id = tabs[t].id OBVIOUS
<1>3. id \in Ids BY <1>1, <1>2, ArrivedIds
<1>4. PICK external : external = [message |-> id, identity |-> id] OBVIOUS
<1>5. external \in External /\ external.message = id /\ external.identity = id
  BY <1>3, <1>4 DEF External
<1>6. external # None BY <1>5, NoneAssumption
<1>7. /\ jar' = [jar EXCEPT !.external = external]
      /\ disturbed' = (disturbed \cup WithExternal(t)) \ {t}
      /\ UNCHANGED <<created, arrived, purged, completed>>
  BY <1>2, <1>4 DEF ReturnFromProvider
<1>8. jar' = [messages |-> jar.messages, partial |-> jar.partial, external |-> external]
  BY <1>1, <1>7 DEF Jar
<1>9. Show(t, "redirect", tabs[t]) BY DEF ReturnFromProvider
<1>10. PICK new : /\ Moves(t, new) /\ new.at = "redirect" /\ new.id = id
                  /\ new.cookies = Empty
  BY <1>1, <1>2, <1>9, ShowIs DEF Pages
<1>11. Gone' = Gone BY <1>7, GoneStep
<1>12. GoodTab(t, new, jar', arrived', created', Gone', disturbed')
  <2>1. GoodCookies(Empty, arrived') BY EmptyJar DEF GoodCookies
  <2>2. GoodExternal(new, jar') BY <1>5, <1>6, <1>8, <1>10 DEF GoodExternal
  <2> QED BY <1>1, <1>2, <1>7, <1>10, <2>1, <2>2 DEF GoodTab
<1>13. \A o \in Tabs \ {t} :
          /\ o \in disturbed => o \in disturbed'
          /\ At(o, "redirect") => o \in disturbed'
  BY <1>7 DEF At, WithExternal
<1>14. \A o \in Tabs : At(o, "authorize") => tabs[o].id \notin arrived'
  BY <1>7 DEF Inv, GoodTabs, GoodTab, At
<1>15. created' \in Nat /\ created' = created /\ arrived' = arrived BY <1>7, ArrivedIds
<1>16. jar'.partial = jar.partial /\ jar'.messages = jar.messages BY <1>8
<1>17. tabs' \in [Tabs -> Tab] /\ GoodTabs'
  BY <1>10, <1>11, <1>12, <1>13, <1>14, <1>15, <1>16, TabsStep
<1>18. TypeOK'
  <2>1. jar' \in Jar BY <1>1, <1>5, <1>8 DEF Jar
  <2>2. disturbed' \subseteq Tabs BY <1>1, <1>7 DEF WithExternal
  <2> QED BY <1>7, <1>16, <1>17, <2>1, <2>2 DEF Inv, TypeOK
<1>19. GoodCookies(jar', arrived')
  BY <1>1, <1>2, <1>5, <1>7, <1>8 DEF Inv, GoodCookies
<1>20. arrived' \subseteq jar'.messages \cup Gone' BY <1>7, <1>11, <1>16 DEF Inv
<1>21. OwnMessages' BY <1>10, OwnMessagesKept
<1>22. OwnLogin' BY <1>7 DEF Inv, OwnLogin
<1> QED BY <1>17, <1>18, <1>19, <1>20, <1>21, <1>22 DEF Inv

LEMMA CallbackStep ==
    ASSUME Inv, NEW t \in Tabs, Callback(t)
    PROVE  Inv'
<1>1. tabs[t] \in Tab /\ tabs[t].id \in arrived BY TabHas DEF Callback, At
<1>2. GoodExternal(tabs[t], jar) \/ t \in disturbed BY TabHas DEF Callback, At, GoodTab
<1>3. disturbed' = disturbed /\ disturbed' \subseteq Tabs BY DEF Inv, TypeOK, Callback
<1> QED BY <1>1, <1>2, <1>3, SentStep DEF Callback

LEMMA DeliverCallbackStep ==
    ASSUME Inv, NEW t \in Tabs, DeliverCallback(t)
    PROVE  Inv'
<1>1. /\ At(t, "callback") /\ Outcome /\ GoodCookies(tabs[t].cookies, arrived)
      /\ tabs[t].id \in arrived /\ tabs[t].id \in tabs[t].cookies.messages \cup Gone
      /\ GoodExternal(tabs[t], tabs[t].cookies) \/ t \in disturbed
  BY TabHas DEF DeliverCallback, Outcome, GoodTab, At
<1>2. PICK id : id = CalledBack(tabs[t]) OBVIOUS
<1>3. CASE id # None /\ id \in tabs[t].cookies.messages
  <2>1. Authenticated(t, id, tabs[t].cookies.external.identity)
    BY <1>2, <1>3 DEF DeliverCallback
  <2>2. id = tabs[t].cookies.external.identity /\ id \in arrived
    BY <1>1, <1>2, <1>3 DEF CalledBack, GoodCookies
  <2> QED BY <1>1, <2>1, <2>2, AuthenticatedStep
<1>4. CASE ~(id # None /\ id \in tabs[t].cookies.messages)
  <2>1. Refused(t) BY <1>2, <1>4 DEF DeliverCallback
  <2>2. tabs[t].id \in Gone \/ t \in disturbed
    <3>1. SUFFICES ASSUME t \notin disturbed PROVE tabs[t].id \in Gone OBVIOUS
    <3>2. id = tabs[t].id BY <1>1, <1>2, <3>1 DEF GoodExternal, CalledBack
    <3>3. id # None BY <1>1, <3>2, ArrivedIds, NoneAssumption
    <3> QED BY <1>1, <1>4, <3>2, <3>3
  <2> QED BY <1>1, <2>1, <2>2, RefusedStep
<1> QED BY <1>3, <1>4

------------------------------------------------------------------------------
\* Resuming a partial login

LEMMA ResumeStep ==
    ASSUME Inv, NEW t \in Tabs, Resume(t)
    PROVE  Inv'
<1>1. tabs[t] \in Tab /\ tabs[t].id \in arrived BY TabHas DEF Resume, At
<1>2. GoodPartial(tabs[t], jar) \/ t \in disturbed BY TabHas DEF Resume, At, GoodTab
<1>3. disturbed' = disturbed /\ disturbed' \subseteq Tabs BY DEF Inv, TypeOK, Resume
<1> QED BY <1>1, <1>2, <1>3, SentStep DEF Resume

LEMMA DeliverResumeStep ==
    ASSUME Inv, NEW t \in Tabs, DeliverResume(t)
    PROVE  Inv'
<1>1. /\ At(t, "resume") /\ Outcome /\ GoodCookies(tabs[t].cookies, arrived)
      /\ tabs[t].id \in arrived /\ tabs[t].id \in tabs[t].cookies.messages \cup Gone
      /\ GoodPartial(tabs[t], tabs[t].cookies) \/ t \in disturbed
  BY TabHas DEF DeliverResume, Outcome, GoodTab, At
<1>2. PICK id : id = Resumed(tabs[t]) OBVIOUS
<1>3. CASE id # None /\ id \in tabs[t].cookies.messages
  <2>1. Authenticated(t, id, tabs[t].cookies.partial.identity)
    BY <1>2, <1>3 DEF DeliverResume
  <2>2. id = tabs[t].cookies.partial.identity /\ id \in arrived
    BY <1>1, <1>2, <1>3 DEF Resumed, GoodCookies
  <2> QED BY <1>1, <2>1, <2>2, AuthenticatedStep
<1>4. CASE ~(id # None /\ id \in tabs[t].cookies.messages)
  <2>1. Refused(t) BY <1>2, <1>4 DEF DeliverResume
  <2>2. tabs[t].id \in Gone \/ t \in disturbed
    <3>1. SUFFICES ASSUME t \notin disturbed PROVE tabs[t].id \in Gone OBVIOUS
    <3>2. id = tabs[t].id BY <1>1, <1>2, <3>1 DEF GoodPartial, Resumed
    <3>3. id # None BY <1>1, <3>2, ArrivedIds, NoneAssumption
    <3> QED BY <1>1, <1>4, <3>2, <3>3
  <2> QED BY <1>1, <2>1, <2>2, RefusedStep
<1> QED BY <1>3, <1>4

\* A response of the login page, of whichever handler: a page, or the login of an identity
\* for its own message.
Answered(t) ==
    DeliverLogin(t) \/ DeliverSubmit(t) \/ DeliverCallback(t) \/ DeliverResume(t)

LEMMA Answers ==
    ASSUME Inv, NEW t \in Tabs, Answered(t)
    PROVE  /\ Outcome /\ tabs[t].id \in arrived
           /\ \/ Challenged(t)
              \/ Refused(t)
              \/ \E id \in arrived : Authenticated(t, id, id)
<1>1. tabs[t].id \in arrived /\ GoodCookies(tabs[t].cookies, arrived)
  BY TabHas
     DEF Answered, DeliverLogin, DeliverSubmit, DeliverCallback, DeliverResume, At
<1>2. CASE DeliverLogin(t) \/ DeliverSubmit(t)
  BY <1>1, <1>2 DEF DeliverLogin, DeliverSubmit, Outcome
<1>3. CASE DeliverCallback(t)
  <2>1. PICK id : id = CalledBack(tabs[t]) OBVIOUS
  <2>2. CASE id # None /\ id \in tabs[t].cookies.messages
    <3>1. Authenticated(t, id, tabs[t].cookies.external.identity)
      BY <1>3, <2>1, <2>2 DEF DeliverCallback
    <3>2. id = tabs[t].cookies.external.identity /\ id \in arrived
      BY <1>1, <2>1, <2>2 DEF CalledBack, GoodCookies
    <3> QED BY <1>1, <1>3, <3>1, <3>2 DEF DeliverCallback, Outcome
  <2>3. CASE ~(id # None /\ id \in tabs[t].cookies.messages)
    BY <1>1, <1>3, <2>1, <2>3 DEF DeliverCallback, Outcome
  <2> QED BY <2>2, <2>3
<1>4. CASE DeliverResume(t)
  <2>1. PICK id : id = Resumed(tabs[t]) OBVIOUS
  <2>2. CASE id # None /\ id \in tabs[t].cookies.messages
    <3>1. Authenticated(t, id, tabs[t].cookies.partial.identity)
      BY <1>4, <2>1, <2>2 DEF DeliverResume
    <3>2. id = tabs[t].cookies.partial.identity /\ id \in arrived
      BY <1>1, <2>1, <2>2 DEF Resumed, GoodCookies
    <3> QED BY <1>1, <1>4, <3>1, <3>2 DEF DeliverResume, Outcome
  <2>3. CASE ~(id # None /\ id \in tabs[t].cookies.messages)
    BY <1>1, <1>4, <2>1, <2>3 DEF DeliverResume, Outcome
  <2> QED BY <2>2, <2>3
<1> QED BY <1>2, <1>3, <1>4 DEF Answered

------------------------------------------------------------------------------
\* The shared cookies expire

LEMMA ExpiresStep ==
    ASSUME Inv, jar' \in Jar, jar'.messages = jar.messages,
           jar'.external \in {None, jar.external}, jar'.partial \in {None, jar.partial},
           disturbed' \subseteq Tabs, disturbed \subseteq disturbed',
           UNCHANGED <<tabs, created, arrived, purged, completed>>,
           \A t \in Tabs :
              /\ At(t, "redirect") => jar'.external = jar.external \/ t \in disturbed'
              /\ At(t, "partialPage") => jar'.partial = jar.partial \/ t \in disturbed'
    PROVE  Inv'
<1>1. Gone' = Gone BY GoneStep
<1>2. created' \in Nat /\ created' = created BY ArrivedIds
<1>3. GoodTabs'
  <2>1. SUFFICES ASSUME NEW t \in Tabs
                 PROVE  GoodTab(t, tabs[t], jar', arrived', created', Gone', disturbed')
    BY DEF GoodTabs
  <2>2. GoodTab(t, tabs[t], jar, arrived, created, Gone, disturbed) BY TabHas
  <2>3. tabs[t].at = "authorize" => tabs[t].id \notin arrived' BY <2>2 DEF GoodTab
  <2> QED BY <1>1, <1>2, <2>2, <2>3, TabKept DEF At
<1>4. TypeOK' BY DEF Inv, TypeOK
<1>5. GoodCookies(jar', arrived') BY DEF Inv, GoodCookies
<1>6. arrived' \subseteq jar'.messages \cup Gone' BY <1>1 DEF Inv
<1>7. OwnMessages' BY DEF Inv, OwnMessages, At
<1>8. OwnLogin' BY DEF Inv, OwnLogin
<1> QED BY <1>3, <1>4, <1>5, <1>6, <1>7, <1>8 DEF Inv

LEMMA ExternalExpiresStep ==
    ASSUME Inv, ExternalExpires
    PROVE  Inv'
<1>1. jar \in Jar /\ disturbed \subseteq Tabs BY DEF Inv, TypeOK
<1>2. jar' = [messages |-> jar.messages, partial |-> jar.partial, external |-> None]
  BY <1>1 DEF Jar, ExternalExpires
<1>3. jar' \in Jar BY <1>1, <1>2 DEF Jar
<1>4. /\ disturbed' \subseteq Tabs /\ disturbed \subseteq disturbed'
      /\ \A t \in Tabs : At(t, "redirect") => t \in disturbed'
  BY <1>1 DEF ExternalExpires
<1>5. jar'.partial = jar.partial /\ jar'.messages = jar.messages /\ jar'.external = None
  BY <1>2
<1> QED BY <1>3, <1>4, <1>5, ExpiresStep DEF ExternalExpires

LEMMA PartialExpiresStep ==
    ASSUME Inv, PartialExpires
    PROVE  Inv'
<1>1. jar \in Jar /\ disturbed \subseteq Tabs BY DEF Inv, TypeOK
<1>2. jar' = [messages |-> jar.messages, partial |-> None, external |-> jar.external]
  BY <1>1 DEF Jar, PartialExpires
<1>3. jar' \in Jar BY <1>1, <1>2 DEF Jar
<1>4. /\ disturbed' \subseteq Tabs /\ disturbed \subseteq disturbed'
      /\ \A t \in Tabs : At(t, "partialPage") => t \in disturbed'
  BY <1>1 DEF PartialExpires
<1>5. jar'.external = jar.external /\ jar'.messages = jar.messages /\ jar'.partial = None
  BY <1>2
<1> QED BY <1>3, <1>4, <1>5, ExpiresStep DEF PartialExpires

------------------------------------------------------------------------------
\* The invariant holds

LEMMA InvInit ==
    ASSUME Init
    PROVE  Inv
<1>1. jar = Empty /\ created = 0 /\ arrived = {} BY DEF Init
<1>2. tabs = [t \in Tabs |-> Idle] BY DEF Init
<1>3. TypeOK BY <1>1, <1>2, EmptyJar, IdleTab, ThresholdAssumption DEF Init, TypeOK
<1>4. GoodCookies(Empty, arrived) BY EmptyJar DEF GoodCookies
<1>5. GoodTabs BY <1>2, <1>4, IdleTab DEF GoodTabs, GoodTab
<1>6. OwnMessages BY <1>2, IdleTab DEF OwnMessages, At
<1>7. OwnLogin BY DEF Init, OwnLogin
<1> QED BY <1>1, <1>3, <1>4, <1>5, <1>6, <1>7 DEF Inv

LEMMA InvNext ==
    ASSUME Inv, [Next]_vars
    PROVE  Inv'
<1>1. CASE UNCHANGED vars
  <2>1. /\ jar' = jar /\ disturbed' = disturbed
        /\ UNCHANGED <<tabs, created, arrived, purged, completed>>
    BY <1>1 DEF vars
  <2> QED BY <2>1, ExpiresStep DEF Inv, TypeOK
<1>2. CASE ExternalExpires BY <1>2, ExternalExpiresStep
<1>3. CASE PartialExpires BY <1>3, PartialExpiresStep
<1>4. ASSUME NEW t \in Tabs,
             \/ Ask(t) \/ DeliverAsk(t)
             \/ Restart(t) \/ DeliverLogin(t)
             \/ Submit(t) \/ DeliverSubmit(t)
             \/ ReturnFromProvider(t) \/ Callback(t) \/ DeliverCallback(t)
             \/ Resume(t) \/ DeliverResume(t)
      PROVE  Inv'
  <2>1. CASE Ask(t) BY <2>1, AskStep
  <2>2. CASE DeliverAsk(t) BY <2>2, DeliverAskStep
  <2>3. CASE Restart(t) BY <2>3, RestartStep
  <2>4. CASE DeliverLogin(t) BY <2>4, DeliverLoginStep
  <2>5. CASE Submit(t) BY <2>5, SubmitStep
  <2>6. CASE DeliverSubmit(t) BY <2>6, DeliverSubmitStep
  <2>7. CASE ReturnFromProvider(t) BY <2>7, ReturnFromProviderStep
  <2>8. CASE Callback(t) BY <2>8, CallbackStep
  <2>9. CASE DeliverCallback(t) BY <2>9, DeliverCallbackStep
  <2>10. CASE Resume(t) BY <2>10, ResumeStep
  <2>11. CASE DeliverResume(t) BY <2>11, DeliverResumeStep
  <2> QED BY <1>4, <2>1, <2>2, <2>3, <2>4, <2>5, <2>6, <2>7, <2>8, <2>9, <2>10, <2>11
<1> QED BY <1>1, <1>2, <1>3, <1>4 DEF Next

\* The invariant of the login page, which the theorems below follow from: every message
\* that has reached the browser is still in its cookies or is gone for a reason, the shared
\* cookies pair a message with its own identity, and each tab finds what it needs unless
\* it was disturbed.
THEOREM Invariant == Spec => []Inv
<1>1. Init => Inv BY InvInit
<1>2. Inv /\ [Next]_vars => Inv' BY InvNext
<1> QED BY <1>1, <1>2, PTL DEF Spec

\* The state of AuthenticationController's cookies is well-formed: what a handler clears,
\* resumes or lets in is always a message that has reached the browser.
THEOREM TypeCorrect == Spec => []TypeOK
<1>1. Inv => TypeOK BY DEF Inv
<1> QED BY <1>1, Invariant, PTL

\* However many tabs log in at a time and overwrite one another's external and partial
\* cookies, SignInAndRedirectAsync lets an identity in for the login it was presented for.
THEOREM OwnLoginHolds == Spec => []OwnLogin
<1>1. Inv => OwnLogin BY DEF Inv
<1> QED BY <1>1, Invariant, PTL

\* HandleNoSignin is reached only when the message was cleared for later ones, its login is
\* completed, or the shared cookie of the tab has expired or been replaced.
THEOREM RefusedWithReasonHolds == Spec => []RefusedWithReason
<1>1. ASSUME Inv PROVE RefusedWithReason
  <2>1. SUFFICES ASSUME NEW t \in Tabs, At(t, "lost")
                 PROVE  tabs[t].id \in Gone \/ t \in disturbed
    BY DEF RefusedWithReason, Gone, Done
  <2> QED BY <1>1, <2>1, TabHas DEF GoodTab, At
<1> QED BY <1>1, Invariant, PTL

------------------------------------------------------------------------------
\* The message cookies implement PendingLogins

LEMMA FiniteArrived ==
    ASSUME Inv
    PROVE  IsFiniteSet(arrived)
<1>1. IsFiniteSet(Ids) BY FS_Interval, ThresholdAssumption DEF Ids
<1> QED BY <1>1, ArrivedIds, FS_Subset

\* PendingLogins counts as SignInMessages does.
LEMMA SameCardinality ==
    ASSUME NEW S
    PROVE  Pending!Cardinality(S) = Cardinality(S)
BY DEF Pending!Cardinality, Cardinality

\* What ClearOverflow clears may be given up, for it counts some of those that arrived.
LEMMA ClearedExpendable ==
    ASSUME Inv, NEW messages, messages \subseteq arrived,
           NEW m \in Overflow(messages), m \in jar.messages
    PROVE  m \in Pending!Expendable
<1>1. IsFiniteSet(arrived) BY FiniteArrived
<1>2. /\ Cardinality(messages) \in Nat /\ Cardinality(arrived) \in Nat
      /\ Cardinality(messages) <= Cardinality(arrived)
  BY <1>1, FS_Subset, FS_CardinalityType
<1>3. Threshold \in Nat BY ThresholdAssumption
<1>4. CASE Cardinality(messages) >= 2 * Threshold
  <2>1. Cardinality(arrived) >= 2 * Threshold BY <1>2, <1>3, <1>4
  <2> QED BY <2>1, SameCardinality DEF Pending!Expendable
<1>5. CASE ~(Cardinality(messages) >= 2 * Threshold)
  <2>1. PICK k : k = IF Threshold > 0 THEN Threshold - 1 ELSE 0 OBVIOUS
  <2>2. m \in messages \ Newest(messages, k) BY <1>5, <2>1 DEF Overflow
  <2>3. ~(Cardinality({n \in messages : n > m}) < k) BY <2>2 DEF Newest
  <2>4. PICK later : later = {n \in messages : n > m} OBVIOUS
  <2>5. PICK all : all = {n \in arrived : n > m} OBVIOUS
  <2>6. later \subseteq all /\ all \subseteq arrived BY <2>4, <2>5
  <2>7. IsFiniteSet(all) BY <1>1, <2>6, FS_Subset
  <2>8. /\ Cardinality(later) \in Nat /\ Cardinality(all) \in Nat
        /\ Cardinality(later) <= Cardinality(all)
    BY <2>6, <2>7, FS_Subset, FS_CardinalityType
  <2>9. Cardinality(all) >= Threshold - 1 BY <1>3, <2>1, <2>3, <2>4, <2>8
  <2> QED BY <2>5, <2>9, SameCardinality DEF Pending!Expendable
<1> QED BY <1>4, <1>5

LEMMA ArriveImplemented ==
    ASSUME Inv, NEW t \in Tabs, DeliverAsk(t)
    PROVE  Pending!Next
<1>1. /\ jar \in Jar /\ tabs[t].id \in (1 .. created) \ arrived
      /\ GoodCookies(tabs[t].cookies, arrived)
  BY TabHas DEF DeliverAsk, At, GoodTab, Inv, TypeOK
<1>2. PICK id : id = tabs[t].id OBVIOUS
<1>3. PICK cleared : cleared = Overflow(tabs[t].cookies.messages) OBVIOUS
<1>4. PICK list : list = (jar.messages \ cleared) \cup {id} OBVIOUS
<1>5. /\ jar' = [jar EXCEPT !.messages = list]
      /\ arrived' = arrived \cup {id} /\ UNCHANGED completed
  BY <1>2, <1>3, <1>4 DEF DeliverAsk
<1>6. jar'.messages = list BY <1>1, <1>5 DEF Jar
<1>7. id \in Ids BY <1>1, <1>2, ThresholdAssumption DEF Inv, TypeOK, Ids
<1>8. jar.messages \ jar'.messages \subseteq Pending!Expendable
  BY <1>1, <1>3, <1>4, <1>6, ClearedExpendable DEF GoodCookies
<1>9. Pending!Arrive(id) BY <1>1, <1>2, <1>4, <1>5, <1>6, <1>7, <1>8 DEF Pending!Arrive
<1> QED BY <1>7, <1>9 DEF Pending!Next

\* A step that leaves the messages alone is a stutter.
LEMMA Stutters ==
    ASSUME jar'.messages = jar.messages, UNCHANGED <<arrived, completed>>
    PROVE  UNCHANGED Pending!vars
BY DEF Pending!vars

LEMMA AuthenticatedImplemented ==
    ASSUME Inv, NEW t \in Tabs, NEW id \in arrived, Authenticated(t, id, id), Outcome
    PROVE  [Pending!Next]_(Pending!vars)
<1>1. jar \in Jar /\ id \in Ids BY ArrivedIds DEF Inv, TypeOK
<1>2. CASE SignedIn(t, id, id)
  <2>1. jar' = [messages |-> jar.messages \ {id}, partial |-> None, external |-> None]
    BY <1>2 DEF SignedIn
  <2>2. jar'.messages = jar.messages \ {id} BY <2>1
  <2>3. completed' = completed \cup {[message |-> id, identity |-> id]}
    BY <1>2 DEF SignedIn
  <2>4. Done' = Done \cup {id} BY <2>3, DoneGrows
  <2>5. Pending!Complete(id) BY <2>2, <2>4 DEF Pending!Complete, Outcome, Done
  <2> QED BY <1>1, <2>5 DEF Pending!Next
<1>3. CASE PartlySignedIn(t, id, id)
  <2>1. PICK partial : partial = [resume |-> <<t, id>>, message |-> id, identity |-> id]
    OBVIOUS
  <2>2. jar' = [jar EXCEPT !.external = None, !.partial = partial]
    BY <1>3, <2>1 DEF PartlySignedIn
  <2>3. jar'.messages = jar.messages BY <1>1, <2>2 DEF Jar
  <2> QED BY <1>3, <2>3, Stutters DEF PartlySignedIn, Outcome
<1>4. CASE TurnedAway(t, id) BY <1>4, Stutters DEF TurnedAway, Outcome
<1> QED BY <1>2, <1>3, <1>4 DEF Authenticated

LEMMA StepImplemented ==
    ASSUME Inv, [Next]_vars
    PROVE  [Pending!Next]_(Pending!vars)
<1>1. jar \in Jar BY DEF Inv, TypeOK
<1>2. CASE UNCHANGED vars BY <1>2, Stutters DEF vars
<1>3. CASE ExternalExpires
  <2>1. jar'.messages = jar.messages BY <1>1, <1>3 DEF ExternalExpires, Jar
  <2> QED BY <1>3, <2>1, Stutters DEF ExternalExpires
<1>4. CASE PartialExpires
  <2>1. jar'.messages = jar.messages BY <1>1, <1>4 DEF PartialExpires, Jar
  <2> QED BY <1>4, <2>1, Stutters DEF PartialExpires
<1>5. ASSUME NEW t \in Tabs,
             \/ Ask(t) \/ DeliverAsk(t)
             \/ Restart(t) \/ DeliverLogin(t)
             \/ Submit(t) \/ DeliverSubmit(t)
             \/ ReturnFromProvider(t) \/ Callback(t) \/ DeliverCallback(t)
             \/ Resume(t) \/ DeliverResume(t)
      PROVE  [Pending!Next]_(Pending!vars)
  <2>1. CASE Ask(t) BY <2>1, Stutters DEF Ask
  <2>2. CASE DeliverAsk(t) BY <2>2, ArriveImplemented
  <2>3. CASE Restart(t) BY <2>3, Stutters DEF Restart
  <2>4. CASE Submit(t) BY <2>4, Stutters DEF Submit
  <2>5. CASE Callback(t) BY <2>5, Stutters DEF Callback
  <2>6. CASE Resume(t) BY <2>6, Stutters DEF Resume
  <2>7. CASE ReturnFromProvider(t)
    <3>1. PICK external : external = [message |-> tabs[t].id, identity |-> tabs[t].id]
      OBVIOUS
    <3>2. jar' = [jar EXCEPT !.external = external] BY <2>7, <3>1 DEF ReturnFromProvider
    <3>3. jar'.messages = jar.messages BY <1>1, <3>2 DEF Jar
    <3> QED BY <2>7, <3>3, Stutters DEF ReturnFromProvider
  <2>8. CASE Answered(t)
    <3>1. CASE Challenged(t) \/ Refused(t)
      BY <2>8, <3>1, Answers, Stutters DEF Challenged, Refused, Outcome
    <3>2. CASE \E id \in arrived : Authenticated(t, id, id)
      BY <2>8, <3>2, Answers, AuthenticatedImplemented
    <3> QED BY <2>8, <3>1, <3>2, Answers
  <2> QED BY <1>5, <2>1, <2>2, <2>3, <2>4, <2>5, <2>6, <2>7, <2>8 DEF Answered
<1> QED BY <1>2, <1>3, <1>4, <1>5 DEF Next

\* The cookies of MessageCookie implement PendingLogins, for any threshold: a login is
\* given up only for as many later ones, although a request clears cookies from those it
\* carried, which may be older than the browser's.
THEOREM KeepsPendingHolds == Spec => KeepsPending
<1>1. Init => Pending!Init
  BY EmptyJar DEF Init, Pending!Init
<1>2. Inv /\ [Next]_vars => [Pending!Next]_(Pending!vars) BY StepImplemented
<1> QED BY <1>1, <1>2, Invariant, PTL DEF Spec, KeepsPending, Pending!Spec

------------------------------------------------------------------------------
\* The message cookies are bounded

\* Tabs whose request for a login is under way, with the cookies it carried.
Asking == {t \in Tabs : At(t, "authorize")}

\* What is left of some messages by the responses to the tabs of Q.
Left(messages, tb, Q) ==
    {m \in messages : \A t \in Q : m \notin Overflow(tb[t].cookies.messages)}

\* However the responses under way arrive, there is room for the messages they bring.
Room ==
    Threshold > 0 =>
       \A Q \in SUBSET Asking :
          Cardinality(Left(jar.messages, tabs, Q)) + Cardinality(Q)
             <= Threshold + Cardinality(Tabs) - 1

LEMMA Least ==
    ASSUME NEW S \in SUBSET Nat, S # {}
    PROVE  \E m \in S : \A n \in S : m <= n
<1>1. PICK m \in S : \A n \in S : ~(<<n, m>> \in OpToRel(<, Nat))
  BY NatLessThanWellFounded, WFMin
<1>2. \A n \in S : ~(n < m) BY <1>1 DEF OpToRel
<1> QED BY <1>2

\* There are no more than k newest.
LEMMA NewestBound ==
    ASSUME NEW messages \in SUBSET Nat, IsFiniteSet(messages), NEW k \in Nat
    PROVE  Cardinality(Newest(messages, k)) <= k
<1>1. PICK N : N = Newest(messages, k) OBVIOUS
<1>2. N \subseteq messages BY <1>1 DEF Newest
<1>3. IsFiniteSet(N) /\ Cardinality(N) \in Nat
  BY <1>2, FS_Subset, FS_CardinalityType
<1>4. CASE N = {} BY <1>1, <1>4, FS_EmptySet
<1>5. CASE N # {}
  <2>1. PICK m \in N : \A n \in N : m <= n BY <1>2, <1>5, Least
  <2>2. PICK later : later = {n \in messages : n > m} OBVIOUS
  <2>3. Cardinality(later) < k BY <1>1, <2>1, <2>2 DEF Newest
  <2>4. N \ {m} \subseteq later BY <1>2, <2>1, <2>2
  <2>5. IsFiniteSet(later) /\ Cardinality(later) \in Nat
    BY <2>2, FS_Subset, FS_CardinalityType
  <2>6. Cardinality(N \ {m}) <= Cardinality(later) BY <2>4, <2>5, FS_Subset
  <2>7. Cardinality(N \ {m}) = Cardinality(N) - 1 BY <1>3, <2>1, FS_RemoveElement
  <2> QED BY <1>1, <1>3, <2>3, <2>5, <2>6, <2>7
<1> QED BY <1>4, <1>5

\* ClearOverflow makes room for one more.
LEMMA OverflowLeaves ==
    ASSUME NEW messages \in SUBSET Nat, IsFiniteSet(messages), Threshold > 0
    PROVE  Cardinality(messages \ Overflow(messages)) <= Threshold - 1
<1>1. Threshold \in Nat /\ Threshold - 1 \in Nat BY ThresholdAssumption
<1>2. Cardinality(messages) \in Nat BY FS_CardinalityType
<1>3. CASE Cardinality(messages) >= 2 * Threshold
  <2>1. messages \ Overflow(messages) = {} BY <1>3 DEF Overflow
  <2> QED BY <1>1, <2>1, FS_EmptySet
<1>4. CASE /\ ~(Cardinality(messages) >= 2 * Threshold)
           /\ Cardinality(messages) >= Threshold
  <2>1. Overflow(messages) = messages \ Newest(messages, Threshold - 1)
    BY <1>4 DEF Overflow
  <2>2. Newest(messages, Threshold - 1) \subseteq messages BY DEF Newest
  <2>3. messages \ Overflow(messages) = Newest(messages, Threshold - 1) BY <2>1, <2>2
  <2> QED BY <1>1, <2>3, NewestBound
<1>5. CASE ~(Cardinality(messages) >= Threshold)
  <2>1. ~(Cardinality(messages) >= 2 * Threshold) BY <1>1, <1>2, <1>5
  <2>2. Overflow(messages) = {} BY <1>5, <2>1 DEF Overflow
  <2>3. messages \ Overflow(messages) = messages BY <2>2
  <2> QED BY <1>1, <1>2, <1>5, <2>3
<1> QED BY <1>3, <1>4, <1>5

\* The sets the bound counts.
LEMMA RoomCounts ==
    ASSUME Inv, NEW Q \in SUBSET Tabs
    PROVE  /\ IsFiniteSet(jar.messages) /\ jar.messages \in SUBSET Nat
           /\ IsFiniteSet(Q) /\ Cardinality(Q) \in Nat
           /\ Cardinality(Q) <= Cardinality(Tabs) /\ Cardinality(Tabs) \in Nat
           /\ \A tb : /\ IsFiniteSet(Left(jar.messages, tb, Q))
                      /\ Cardinality(Left(jar.messages, tb, Q)) \in Nat
<1>1. jar.messages \subseteq arrived BY DEF Inv, TypeOK
<1>2. IsFiniteSet(jar.messages) BY <1>1, FiniteArrived, FS_Subset
<1>3. jar.messages \in SUBSET Nat BY <1>1, ArrivedIds, ThresholdAssumption DEF Ids
<1>4. /\ IsFiniteSet(Q) /\ Cardinality(Q) \in Nat
      /\ Cardinality(Q) <= Cardinality(Tabs) /\ Cardinality(Tabs) \in Nat
  BY ThresholdAssumption, FS_Subset, FS_CardinalityType
<1>5. ASSUME NEW tb
      PROVE  /\ IsFiniteSet(Left(jar.messages, tb, Q))
             /\ Cardinality(Left(jar.messages, tb, Q)) \in Nat
  <2>1. Left(jar.messages, tb, Q) \subseteq jar.messages BY DEF Left
  <2> QED BY <1>2, <2>1, FS_Subset, FS_CardinalityType
<1> QED BY <1>2, <1>3, <1>4, <1>5

\* A step that begins no request for a login, and brings no message.
LEMMA RoomKept ==
    ASSUME Inv, Room, jar'.messages \subseteq jar.messages,
           \A o \in Tabs : tabs'[o].at = "authorize" => tabs'[o] = tabs[o]
    PROVE  Room'
<1>1. SUFFICES ASSUME Threshold > 0, NEW Q \in SUBSET Asking'
               PROVE  Cardinality(Left(jar'.messages, tabs', Q)) + Cardinality(Q)
                         <= Threshold + Cardinality(Tabs) - 1
  BY DEF Room
<1>2. Q \in SUBSET Asking /\ Q \in SUBSET Tabs BY DEF Asking, At
<1>3. \A o \in Q : tabs'[o] = tabs[o] BY DEF Asking, At
<1>4. Left(jar'.messages, tabs', Q) \subseteq Left(jar.messages, tabs, Q)
  BY <1>3 DEF Left
<1>5. /\ IsFiniteSet(Left(jar.messages, tabs, Q)) /\ Cardinality(Q) \in Nat
      /\ Cardinality(Left(jar.messages, tabs, Q)) \in Nat
      /\ Cardinality(Tabs) \in Nat
  BY <1>2, RoomCounts
<1>6. /\ Cardinality(Left(jar'.messages, tabs', Q)) \in Nat
      /\ Cardinality(Left(jar'.messages, tabs', Q)) <= Cardinality(Left(jar.messages, tabs, Q))
  BY <1>4, <1>5, FS_Subset, FS_CardinalityType
<1>7. Cardinality(Left(jar.messages, tabs, Q)) + Cardinality(Q)
         <= Threshold + Cardinality(Tabs) - 1
  BY <1>1, <1>2 DEF Room
<1> QED BY <1>5, <1>6, <1>7, ThresholdAssumption

LEMMA AskRoom ==
    ASSUME Inv, Room, NEW t \in Tabs, Ask(t)
    PROVE  Room'
<1>1. /\ tabs \in [Tabs -> Tab] /\ jar \in Jar /\ created \in 0 .. MaxMessages
      /\ created < MaxMessages
  BY DEF Inv, TypeOK, Ask
<1>2. PICK id : id = created + 1 OBVIOUS
<1>3. id \in Ids BY <1>1, <1>2, ThresholdAssumption DEF Ids
<1>4. PICK tab : tab = [Idle EXCEPT !.id = id] OBVIOUS
<1>5. tab \in Tab /\ tab.id = id BY <1>3, <1>4, IdTab
<1>6. Send(t, "authorize", tab) BY <1>2, <1>4 DEF Ask
<1>7. PICK new : Moves(t, new) /\ new.cookies = Reads("authorize", id, jar)
  BY <1>1, <1>5, <1>6, SendIs DEF Exchanges
<1>8. new.cookies.messages = jar.messages BY <1>1, <1>7, ReadsJar DEF Exchanges
<1>9. /\ tabs'[t] = new /\ jar' = jar
      /\ \A o \in Tabs : o # t => tabs'[o] = tabs[o]
  BY <1>1, <1>7 DEF Moves, Ask
<1>10. SUFFICES ASSUME Threshold > 0, NEW Q \in SUBSET Asking'
                PROVE  Cardinality(Left(jar.messages, tabs', Q)) + Cardinality(Q)
                          <= Threshold + Cardinality(Tabs) - 1
  BY <1>9 DEF Room
<1>11. Q \in SUBSET Tabs BY DEF Asking
<1>12. CASE t \notin Q
  <2>1. Q \in SUBSET Asking BY <1>9, <1>12 DEF Asking, At
  <2>2. Left(jar.messages, tabs', Q) = Left(jar.messages, tabs, Q)
    BY <1>9, <1>11, <1>12 DEF Left
  <2> QED BY <1>10, <2>1, <2>2 DEF Room
<1>13. CASE t \in Q
  <2>1. PICK rest : rest = jar.messages \ Overflow(jar.messages) OBVIOUS
  <2>2. Left(jar.messages, tabs', Q) \subseteq rest
    BY <1>8, <1>9, <1>13, <2>1 DEF Left
  <2>3. /\ IsFiniteSet(jar.messages) /\ jar.messages \in SUBSET Nat
        /\ Cardinality(Q) \in Nat /\ Cardinality(Q) <= Cardinality(Tabs)
        /\ Cardinality(Tabs) \in Nat
    BY <1>11, RoomCounts
  <2>4. Cardinality(rest) <= Threshold - 1 BY <1>10, <2>1, <2>3, OverflowLeaves
  <2>5. IsFiniteSet(rest) /\ Cardinality(rest) \in Nat
    BY <2>1, <2>3, FS_Subset, FS_CardinalityType
  <2>6. /\ Cardinality(Left(jar.messages, tabs', Q)) \in Nat
        /\ Cardinality(Left(jar.messages, tabs', Q)) <= Cardinality(rest)
    BY <2>2, <2>5, FS_Subset, FS_CardinalityType
  <2> QED BY <2>3, <2>4, <2>5, <2>6, ThresholdAssumption
<1> QED BY <1>12, <1>13

LEMMA DeliverAskRoom ==
    ASSUME Inv, Room, NEW t \in Tabs, DeliverAsk(t)
    PROVE  Room'
<1>1. tabs \in [Tabs -> Tab] /\ jar \in Jar /\ At(t, "authorize")
  BY DEF Inv, TypeOK, DeliverAsk
<1>2. PICK id : id = tabs[t].id OBVIOUS
<1>3. PICK cleared : cleared = Overflow(tabs[t].cookies.messages) OBVIOUS
<1>4. PICK list : list = (jar.messages \ cleared) \cup {id} OBVIOUS
<1>5. jar' = [jar EXCEPT !.messages = list] BY <1>2, <1>3, <1>4 DEF DeliverAsk
<1>6. jar'.messages = list BY <1>1, <1>5 DEF Jar
<1>7. /\ tabs'[t].at # "authorize"
      /\ \A o \in Tabs : o # t => tabs'[o] = tabs[o]
  <2>1. CASE t \in Frames
    <3>1. Show(t, "idle", Idle) BY <2>1 DEF DeliverAsk
    <3>2. Idle \in Tab /\ "idle" \in Pages \cup {"idle"} BY IdleTab
    <3>3. PICK new : Moves(t, new) /\ new.at = "idle" BY <1>1, <3>1, <3>2, ShowIs
    <3> QED BY <1>1, <3>3 DEF Moves
  <2>2. CASE t \notin Frames
    <3>1. tabs' = [tabs EXCEPT ![t].at = "login",
                               ![t].cookies = Reads("login", tabs[t].id, jar')]
      BY <2>2 DEF DeliverAsk
    <3>2. jar' \in Jar BY DeliverAskStep DEF Inv, TypeOK
    <3> QED BY <1>1, <3>1, <3>2, AskedIs DEF Moves
  <2> QED BY <2>1, <2>2
<1>8. SUFFICES ASSUME Threshold > 0, NEW Q \in SUBSET Asking'
               PROVE  Cardinality(Left(list, tabs', Q)) + Cardinality(Q)
                         <= Threshold + Cardinality(Tabs) - 1
  BY <1>6 DEF Room
<1>9. Q \in SUBSET Asking /\ Q \in SUBSET Tabs /\ t \notin Q
  BY <1>7 DEF Asking, At
<1>10. PICK both : both = Q \cup {t} OBVIOUS
<1>11. both \in SUBSET Asking /\ both \in SUBSET Tabs
  BY <1>1, <1>9, <1>10 DEF Asking
<1>12. PICK left : left = Left(jar.messages, tabs, both) OBVIOUS
<1>13. Left(list, tabs', Q) \subseteq left \cup {id}
  <2>1. SUFFICES ASSUME NEW m \in list, m # id,
                        \A o \in Q : m \notin Overflow(tabs'[o].cookies.messages)
                 PROVE  m \in Left(jar.messages, tabs, both)
    BY <1>12 DEF Left
  <2>2. m \in jar.messages /\ m \notin Overflow(tabs[t].cookies.messages)
    BY <1>3, <1>4, <2>1
  <2>3. \A o \in Q : tabs'[o] = tabs[o] BY <1>7, <1>9
  <2>4. \A o \in Q : m \notin Overflow(tabs[o].cookies.messages) BY <2>1, <2>3
  <2> QED BY <1>10, <2>2, <2>4 DEF Left
<1>14. /\ IsFiniteSet(left) /\ Cardinality(left) \in Nat
       /\ IsFiniteSet(Q) /\ Cardinality(Q) \in Nat /\ Cardinality(Tabs) \in Nat
  BY <1>9, <1>11, <1>12, RoomCounts
<1>15. Cardinality(both) = Cardinality(Q) + 1
  BY <1>9, <1>10, <1>14, FS_AddElement
<1>16. /\ IsFiniteSet(left \cup {id})
       /\ Cardinality(left \cup {id}) \in Nat
       /\ Cardinality(left \cup {id}) <= Cardinality(left) + 1
  <2>1. /\ IsFiniteSet(left \cup {id})
        /\ Cardinality(left \cup {id}) =
              IF id \in left THEN Cardinality(left) ELSE Cardinality(left) + 1
    BY <1>14, FS_AddElement
  <2> QED BY <1>14, <2>1
<1>17. /\ Cardinality(Left(list, tabs', Q)) \in Nat
       /\ Cardinality(Left(list, tabs', Q)) <= Cardinality(left \cup {id})
  BY <1>13, <1>16, FS_Subset, FS_CardinalityType
<1>18. Cardinality(left) + Cardinality(both) <= Threshold + Cardinality(Tabs) - 1
  BY <1>8, <1>11, <1>12 DEF Room
<1> QED BY <1>14, <1>15, <1>16, <1>17, <1>18, ThresholdAssumption

\* A page that is shown begins no request.
LEMMA ShowsNoAsk ==
    ASSUME Inv, NEW t \in Tabs, NEW at \in Pages \cup {"idle"}, NEW tab \in Tab,
           Show(t, at, tab)
    PROVE  \A o \in Tabs : tabs'[o].at = "authorize" => tabs'[o] = tabs[o]
<1>1. tabs \in [Tabs -> Tab] BY DEF Inv, TypeOK
<1>2. PICK new : Moves(t, new) /\ new.at = at BY <1>1, ShowIs
<1> QED BY <1>1, <1>2 DEF Moves, Pages

LEMMA SendsNoAsk ==
    ASSUME Inv, NEW t \in Tabs, NEW at \in Exchanges \ {"authorize"}, NEW tab \in Tab,
           Send(t, at, tab)
    PROVE  \A o \in Tabs : tabs'[o].at = "authorize" => tabs'[o] = tabs[o]
<1>1. tabs \in [Tabs -> Tab] /\ jar \in Jar BY DEF Inv, TypeOK
<1>2. PICK new : Moves(t, new) /\ new.at = at BY <1>1, SendIs
<1> QED BY <1>1, <1>2 DEF Moves

LEMMA AuthenticatedRoom ==
    ASSUME Inv, Room, NEW t \in Tabs, NEW id \in arrived, Authenticated(t, id, id)
    PROVE  Room'
<1>1. jar \in Jar /\ id \in Ids BY ArrivedIds DEF Inv, TypeOK
<1>2. PICK tab : tab = [Idle EXCEPT !.id = id] OBVIOUS
<1>3. tab \in Tab BY <1>1, <1>2, IdTab
<1>4. CASE SignedIn(t, id, id)
  <2>1. jar' = [messages |-> jar.messages \ {id}, partial |-> None, external |-> None]
    BY <1>4 DEF SignedIn
  <2>2. jar'.messages \subseteq jar.messages BY <2>1
  <2>3. Show(t, "loginPage", tab) BY <1>2, <1>4 DEF SignedIn
  <2>4. \A o \in Tabs : tabs'[o].at = "authorize" => tabs'[o] = tabs[o]
    BY <1>3, <2>3, ShowsNoAsk DEF Pages
  <2> QED BY <2>2, <2>4, RoomKept
<1>5. CASE PartlySignedIn(t, id, id)
  <2>1. PICK partial : partial = [resume |-> <<t, id>>, message |-> id, identity |-> id]
    OBVIOUS
  <2>2. jar' = [jar EXCEPT !.external = None, !.partial = partial]
    BY <1>5, <2>1 DEF PartlySignedIn
  <2>3. jar'.messages = jar.messages BY <1>1, <2>2 DEF Jar
  <2>4. PICK page : page = [Idle EXCEPT !.id = id, !.resume = <<t, id>>] OBVIOUS
  <2>5. page \in Tab BY <1>1, <2>4, ResumeTab
  <2>6. Show(t, "partialPage", page) BY <1>5, <2>4 DEF PartlySignedIn
  <2>7. \A o \in Tabs : tabs'[o].at = "authorize" => tabs'[o] = tabs[o]
    BY <2>5, <2>6, ShowsNoAsk DEF Pages
  <2> QED BY <2>3, <2>7, RoomKept
<1>6. CASE TurnedAway(t, id)
  <2>1. jar' = jar /\ Show(t, "loginPage", tab) BY <1>2, <1>6 DEF TurnedAway
  <2>2. \A o \in Tabs : tabs'[o].at = "authorize" => tabs'[o] = tabs[o]
    BY <1>3, <2>1, ShowsNoAsk DEF Pages
  <2> QED BY <2>1, <2>2, RoomKept
<1> QED BY <1>4, <1>5, <1>6 DEF Authenticated

LEMMA UnauthenticatedRoom ==
    ASSUME Inv, Room, NEW t \in Tabs, tabs[t].id \in arrived, Challenged(t) \/ Refused(t)
    PROVE  Room'
<1>1. tabs[t] \in Tab /\ tabs[t].id \in Ids BY TabHas, ArrivedIds
<1>2. PICK id : id = tabs[t].id OBVIOUS
<1>3. PICK tab : tab = [Idle EXCEPT !.id = id] OBVIOUS
<1>4. tab \in Tab BY <1>1, <1>2, <1>3, IdTab
<1>5. CASE Challenged(t)
  <2>1. Show(t, "provider", tabs[t]) /\ jar' = jar BY <1>5 DEF Challenged
  <2>2. \A o \in Tabs : tabs'[o].at = "authorize" => tabs'[o] = tabs[o]
    BY <1>1, <2>1, ShowsNoAsk DEF Pages
  <2> QED BY <2>1, <2>2, RoomKept
<1>6. CASE Refused(t)
  <2>1. Show(t, "lost", tab) /\ jar' = jar BY <1>2, <1>3, <1>6 DEF Refused
  <2>2. \A o \in Tabs : tabs'[o].at = "authorize" => tabs'[o] = tabs[o]
    BY <1>4, <2>1, ShowsNoAsk DEF Pages
  <2> QED BY <2>1, <2>2, RoomKept
<1> QED BY <1>5, <1>6

LEMMA RoomInit ==
    ASSUME Init
    PROVE  Room
<1>1. Asking = {} BY IdleTab DEF Init, Asking, At
<1>2. jar.messages = {} BY EmptyJar DEF Init
<1>3. Left({}, tabs, {}) = {} BY DEF Left
<1>4. Cardinality({}) = 0 BY FS_EmptySet
<1>5. Cardinality(Tabs) \in Nat BY ThresholdAssumption, FS_CardinalityType
<1> QED BY <1>1, <1>2, <1>3, <1>4, <1>5, ThresholdAssumption DEF Room

LEMMA RoomNext ==
    ASSUME Inv, Room, [Next]_vars
    PROVE  Room'
<1>1. jar \in Jar BY DEF Inv, TypeOK
<1>2. CASE UNCHANGED vars BY <1>2, RoomKept DEF vars
<1>3. CASE ExternalExpires
  <2>1. jar'.messages = jar.messages BY <1>1, <1>3 DEF ExternalExpires, Jar
  <2> QED BY <1>3, <2>1, RoomKept DEF ExternalExpires
<1>4. CASE PartialExpires
  <2>1. jar'.messages = jar.messages BY <1>1, <1>4 DEF PartialExpires, Jar
  <2> QED BY <1>4, <2>1, RoomKept DEF PartialExpires
<1>5. ASSUME NEW t \in Tabs,
             \/ Ask(t) \/ DeliverAsk(t)
             \/ Restart(t) \/ DeliverLogin(t)
             \/ Submit(t) \/ DeliverSubmit(t)
             \/ ReturnFromProvider(t) \/ Callback(t) \/ DeliverCallback(t)
             \/ Resume(t) \/ DeliverResume(t)
      PROVE  Room'
  <2>1. tabs[t] \in Tab BY TabHas
  <2>2. CASE Ask(t) BY <2>2, AskRoom
  <2>3. CASE DeliverAsk(t) BY <2>3, DeliverAskRoom
  <2>4. CASE Answered(t)
    <3>1. CASE Challenged(t) \/ Refused(t)
      BY <2>4, <3>1, Answers, UnauthenticatedRoom
    <3>2. CASE \E id \in arrived : Authenticated(t, id, id) BY <3>2, AuthenticatedRoom
    <3> QED BY <2>4, <3>1, <3>2, Answers
  <2>5. CASE ReturnFromProvider(t)
    <3>1. PICK external : external = [message |-> tabs[t].id, identity |-> tabs[t].id]
      OBVIOUS
    <3>2. jar' = [jar EXCEPT !.external = external] BY <2>5, <3>1 DEF ReturnFromProvider
    <3>3. jar'.messages = jar.messages BY <1>1, <3>2 DEF Jar
    <3>4. Show(t, "redirect", tabs[t]) BY <2>5 DEF ReturnFromProvider
    <3>5. \A o \in Tabs : tabs'[o].at = "authorize" => tabs'[o] = tabs[o]
      BY <2>1, <3>4, ShowsNoAsk DEF Pages
    <3> QED BY <3>3, <3>5, RoomKept
  <2>6. CASE Restart(t)
    <3>1. PICK tab : tab = [tabs[t] EXCEPT !.resume = None] OBVIOUS
    <3>2. tab = [at |-> tabs[t].at, cookies |-> tabs[t].cookies, id |-> tabs[t].id,
                 resume |-> None]
      BY <2>1, <3>1 DEF Tab
    <3>3. tab \in Tab BY <2>1, <3>2 DEF Tab
    <3>4. Send(t, "login", tab) /\ jar' = jar BY <2>6, <3>1 DEF Restart
    <3>5. \A o \in Tabs : tabs'[o].at = "authorize" => tabs'[o] = tabs[o]
      BY <3>3, <3>4, SendsNoAsk DEF Exchanges
    <3> QED BY <3>4, <3>5, RoomKept
  <2>7. CASE Submit(t) \/ Callback(t) \/ Resume(t)
    <3>1. PICK at \in Exchanges \ {"authorize"} : Send(t, at, tabs[t])
      BY <2>7 DEF Submit, Callback, Resume, Exchanges
    <3>2. jar' = jar BY <2>7 DEF Submit, Callback, Resume
    <3>3. \A o \in Tabs : tabs'[o].at = "authorize" => tabs'[o] = tabs[o]
      BY <2>1, <3>1, SendsNoAsk
    <3> QED BY <3>2, <3>3, RoomKept
  <2> QED BY <1>5, <2>2, <2>3, <2>4, <2>5, <2>6, <2>7 DEF Answered
<1> QED BY <1>2, <1>3, <1>4, <1>5 DEF Next

\* The browser never has more message cookies than the threshold, but for one of each
\* other tab: ClearOverflow keeps the Cookie header bounded although the requests for a
\* login that are under way together do not count one another's messages.
THEOREM JarBoundedHolds == Spec => []JarBounded
<1>1. Init => Inv /\ Room BY InvInit, RoomInit
<1>2. (Inv /\ Room) /\ [Next]_vars => (Inv /\ Room)' BY InvNext, RoomNext
<1>3. ASSUME Inv /\ Room PROVE JarBounded
  <2>1. SUFFICES ASSUME Threshold > 0
                 PROVE  Cardinality(jar.messages) <= Threshold + Cardinality(Tabs) - 1
    BY DEF JarBounded
  <2>2. Cardinality(Left(jar.messages, tabs, {})) + Cardinality({})
           <= Threshold + Cardinality(Tabs) - 1
    BY <1>3, <2>1 DEF Room
  <2>3. Left(jar.messages, tabs, {}) = jar.messages BY DEF Left
  <2>4. Cardinality({}) = 0 BY FS_EmptySet
  <2>5. Cardinality(jar.messages) \in Nat BY <1>3, RoomCounts, FS_CardinalityType
  <2> QED BY <2>2, <2>3, <2>4, <2>5
<1> QED BY <1>1, <1>2, <1>3, PTL DEF Spec
================================================================================

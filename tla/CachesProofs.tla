------------------------------ MODULE CachesProofs ------------------------------
(***************************************************************************)
(* Proofs about Caches, for any callers, questions, durations and times:   *)
(* type correctness, that nothing missing is remembered, and that the      *)
(* caches implement DelayedStore.                                          *)
(***************************************************************************)
EXTENDS Caches, TLAPS

------------------------------------------------------------------------------
\* Questions

\* What a question can be.
LEMMA QuestionForms ==
    ASSUME NEW q \in Questions
    PROVE  \/ q = AskClient(None)
           \/ \E id \in Clients : q = AskClient(id)
           \/ q = AllScopes
           \/ q = AllScopesPublic
           \/ \E names \in Seq(Names) \ {None} : q = FindScopes(names) /\ q.names = names
           \/ \E sub \in Users, names \in Seq(Names) \cup {None} :
                 q = AskProfile(sub, names) /\ q.names = names
BY QuestionAssumption DEF AskClient, FindScopes, AskProfile

LEMMA VersionsAreItems ==
    ASSUME NEW contents \in Contents, NEW things \in SUBSET (Clients \cup Scopes), MaxVersion \in Nat
    PROVE  Versions(things, contents) \in Items
<1>1. \A x \in things : contents[x] \in 0 .. MaxVersion
  BY DEF Contents
<1>2. \A x \in things : contents[x] > 0 => contents[x] \in 1 .. MaxVersion
  BY <1>1
<1>3. \A y \in Versions(things, contents) : y \in (Clients \cup Scopes) \X (1 .. MaxVersion)
  BY <1>2 DEF Versions
<1> QED BY <1>3 DEF Items

\* The inner stores answer with items or with null.
LEMMA TellType ==
    ASSUME NEW q \in Questions, NEW contents \in Contents
    PROVE  Tell(q, contents) \in {None} \cup Items
<1>0. MaxVersion \in Nat BY DurationAssumption
<1>1. CASE q = AskClient(None)
  BY <1>1 DEF AskClient, Tell
<1>2. CASE \E id \in Clients : q = AskClient(id)
  <2>1. PICK id \in Clients : q = AskClient(id) BY <1>2
  <2>2. Versions({id}, contents) \in Items BY <1>0, VersionsAreItems
  <2>3. q.kind = "client" /\ q.id = id BY <2>1 DEF AskClient
  <2> QED BY <2>2, <2>3 DEF Tell
<1>3. CASE q = AllScopes
  BY <1>0, <1>3, VersionsAreItems DEF AllScopes, Tell
<1>4. CASE q = AllScopesPublic
  BY <1>0, <1>4, VersionsAreItems, ScopeAssumption DEF AllScopesPublic, Tell
<1>n. Named(q) \subseteq Scopes BY DEF Named
<1>5. CASE \E names : q = FindScopes(names)
  BY <1>0, <1>5, <1>n, VersionsAreItems DEF FindScopes, Tell
<1>6. CASE \E sub \in Users : \E names : q = AskProfile(sub, names)
  <2>1. PICK sub \in Users : \E names : q = AskProfile(sub, names) BY <1>6
  <2>2. q.kind = "profile" /\ q.id = sub BY <2>1 DEF AskProfile
  <2>3. contents[sub] \in 0 .. MaxVersion BY DEF Contents
  <2>4. {<<s, contents[sub]>> : s \in {s \in Named(q) : contents[sub] > 0}}
           \in SUBSET ((Clients \cup Scopes) \X (1 .. MaxVersion))
    BY <1>0, <1>n, <2>3
  <2> QED BY <2>2, <2>4 DEF Tell, Items
<1> QED BY <1>1, <1>2, <1>3, <1>4, <1>5, <1>6, QuestionForms

\* Only a null key has no answer whatever is stored.
LEMMA NullKey ==
    ASSUME NEW q \in Questions, Key(q) = None, NEW contents
    PROVE  Tell(q, contents) = None
BY KeyAssumption DEF AskClient, Tell

\* What the names of a plain question are can be read from its key.
LEMMA PlainNames ==
    ASSUME NEW q \in Questions, Plain(q), q.kind \in {"find", "profile"}, q.names # None
    PROVE  /\ ToSet(q.names) = {<<name>> : name \in ToSet(Join(q.names))}
           /\ Join(q.names) \notin {<<AllScopesName>>, <<AllScopesPublicName>>}
<1>1. ToSet(q.names) = {<<name>> : name \in ToSet(Join(q.names))}
  BY KeyAssumption
<1>2. ASSUME NEW reserved \in {AllScopesName, AllScopesPublicName}, Join(q.names) = <<reserved>>
      PROVE  FALSE
  <2>1. reserved \in ToSet(<<reserved>>) BY DEF ToSet
  <2>2. <<reserved>> \in ToSet(q.names) BY <1>1, <1>2, <2>1
  <2> QED BY <2>2 DEF Plain
<1> QED BY <1>1, <1>2

\* Plain questions with one key have one answer: no two of them are mixed up.
LEMMA OneKeyOneAnswer ==
    ASSUME NEW p \in Questions, NEW q \in Questions, Key(p) = Key(q), Key(q) # None,
           Plain(p), Plain(q), NEW contents
    PROVE  Tell(p, contents) = Tell(q, contents)
<1>1. ASSUME NEW r \in Questions
      PROVE  /\ r.kind \in {"client", "find", "all", "public", "profile"}
             /\ r.kind = "find" => r.names # None
  BY <1>1, QuestionForms
     DEF AskClient, FindScopes, AllScopes, AllScopesPublic, AskProfile
<1>2. CASE q.kind = "client"
  <2>1. q.id # None /\ Key(q) = <<"client", q.id>> BY <1>2 DEF Key
  <2>2. p.kind = "client" BY <1>1, <2>1 DEF Key
  <2>3. Key(p) = <<"client", p.id>> BY <2>1, <2>2 DEF Key
  <2>4. p.id = q.id BY <2>1, <2>3
  <2> QED BY <1>2, <2>2, <2>4 DEF Tell
<1>3. ASSUME NEW r \in Questions, r.kind \in {"find", "all", "public"}
      PROVE  Key(r) = <<"scopes", Key(r)[2]>>
  BY <1>3 DEF Key
<1>4. CASE q.kind \in {"find", "all", "public"}
  <2>1. Key(q) = <<"scopes", Key(q)[2]>> BY <1>3, <1>4
  <2>2. p.kind \in {"find", "all", "public"} BY <1>1, <2>1 DEF Key
  <2>3. CASE p.kind = "find" /\ q.kind = "find"
    <3>1. Key(q) = <<"scopes", Join(q.names)>> /\ Key(p) = <<"scopes", Join(p.names)>>
      BY <2>3 DEF Key
    <3>2. Join(p.names) = Join(q.names) BY <3>1
    <3>3. ToSet(p.names) = ToSet(q.names) BY <1>1, <2>3, <3>2, PlainNames
    <3>4. Named(p) = Named(q) BY <1>1, <2>3, <3>3 DEF Named
    <3> QED BY <2>3, <3>4 DEF Tell
  <2>4. ASSUME NEW r \in Questions, Plain(r), r.kind = "find"
        PROVE  Key(r) \notin {<<"scopes", <<AllScopesName>>>>, <<"scopes", <<AllScopesPublicName>>>>}
    <3>1. Key(r) = <<"scopes", Join(r.names)>> BY <2>4 DEF Key
    <3> QED BY <1>1, <2>4, <3>1, PlainNames
  <2>5. CASE p.kind # "find" \/ q.kind # "find"
    <3>1. p.kind # "find" /\ q.kind # "find" BY <1>4, <2>2, <2>4, <2>5 DEF Key
    <3>2. p.kind = q.kind BY <1>4, <2>2, <3>1, ScopeAssumption DEF Key
    <3> QED BY <1>4, <3>1, <3>2 DEF Tell
  <2> QED BY <2>3, <2>5
<1>5. CASE q.kind = "profile"
  <2>1. Key(q)[1] = "profile" BY <1>5 DEF Key
  <2>2. p.kind = "profile" BY <1>1, <2>1 DEF Key
  <2>3. ASSUME NEW r \in Questions, r.kind = "profile"
        PROVE  /\ r.names = None => Key(r) = <<"profile", r.id>>
               /\ r.names # None => Key(r) = <<"profile", r.id, Join(r.names)>>
    BY <2>3 DEF Key
  <2>4. p.id = q.id /\ (p.names = None <=> q.names = None) BY <1>5, <2>2, <2>3
  <2>5. Named(p) = Named(q)
    <3>1. CASE q.names = None BY <2>4, <3>1 DEF Named
    <3>2. CASE q.names # None
      <4>1. Join(p.names) = Join(q.names) BY <1>5, <2>2, <2>3, <2>4, <3>2
      <4>2. ToSet(p.names) = ToSet(q.names) BY <1>5, <2>2, <2>4, <3>2, <4>1, PlainNames
      <4> QED BY <2>4, <3>2, <4>2 DEF Named
    <3> QED BY <3>1, <3>2
  <2> QED BY <1>5, <2>2, <2>4, <2>5 DEF Tell
<1> QED BY <1>1, <1>2, <1>4, <1>5

------------------------------------------------------------------------------
\* Calls

LEMMA IdleIsCall == Idle \in Call /\ Idle.at = "idle"
<1>1. 0 \in 0 .. LastTime BY DurationAssumption
<1> QED BY <1>1 DEF Idle, Call

------------------------------------------------------------------------------
\* The inductive invariant

\* An answer of the inner stores to q, given at the time t.
AnswerAt(q, item, t) == \E contents \in held[t] : item = Tell(q, contents)

\* The clock and the history of what was stored agree.
Clock ==
    /\ now \in 0 .. LastTime
    /\ version \in 1 .. MaxVersion
    /\ stored \in Contents
    /\ asked \subseteq Questions
    /\ DOMAIN held = 0 .. LastTime
    /\ stored \in held[now]

\* An entry is an answer to a question with its key, from a fill that was at most MaxFill
\* old when it was put there.
GoodEntry(k) ==
    /\ cache[k] = [item |-> cache[k].item, expires |-> cache[k].expires]
    /\ cache[k].item \in Items /\ cache[k].item # None
    /\ cache[k].expires \in Int
    /\ now < cache[k].expires /\ cache[k].expires <= now + Duration
    /\ \E q \in Questions, t \in 0 .. now :
          /\ Key(q) = k
          /\ t >= cache[k].expires - Duration - MaxFill
          /\ AnswerAt(q, cache[k].item, t)

\* What a call knows at each step.
GoodCall(c) ==
    /\ ~At(c, "idle") => calls[c].question \in Questions /\ Key(calls[c].question) \in Keys
    /\ At(c, "get") /\ Tell(calls[c].question, stored) = None => calls[c].absent
    /\ At(c, "set") =>
          /\ calls[c].item \in Items /\ calls[c].item # None
          /\ calls[c].since <= now /\ now - calls[c].since <= MaxFill
          /\ AnswerAt(calls[c].question, calls[c].item, calls[c].since)

CacheInv ==
    /\ Clock
    /\ DOMAIN cache \subseteq Keys
    /\ \A k \in DOMAIN cache : GoodEntry(k)
    /\ calls \in [Callers -> Call]
    /\ \A c \in Callers : GoodCall(c)
    /\ NewIsFound

LEMMA InitInv == Init => CacheInv
<1> SUFFICES ASSUME Init PROVE CacheInv
  OBVIOUS
<1>1. Clock
  <2>1. 0 \in 0 .. LastTime /\ 1 \in 1 .. MaxVersion /\ {0, 1} \subseteq 0 .. MaxVersion
    BY DurationAssumption
  <2>2. stored \in Contents BY <2>1 DEF Init, Contents
  <2>3. asked \subseteq Questions BY DEF Init
  <2> QED BY <2>1, <2>2, <2>3 DEF Init, Clock
<1>2. DOMAIN cache = {} BY DEF Init
<1>3. calls \in [Callers -> Call] BY IdleIsCall DEF Init
<1>4. \A c \in Callers : GoodCall(c)
  BY IdleIsCall DEF Init, GoodCall, At
<1>5. NewIsFound BY DEF Init, NewIsFound
<1> QED BY <1>1, <1>2, <1>3, <1>4, <1>5 DEF CacheInv

\* The entries are as good as before if nothing they depend on has changed.
LEMMA EntriesStay ==
    ASSUME CacheInv, UNCHANGED <<now, held, cache>>
    PROVE  (DOMAIN cache \subseteq Keys)' /\ (\A k \in DOMAIN cache : GoodEntry(k))'
BY DEF CacheInv, GoodEntry, AnswerAt, Keys

\* So are the other calls.
LEMMA CallsStay ==
    ASSUME CacheInv, NEW c \in Callers, NEW call \in Call, Become(c, call),
           UNCHANGED <<now, stored, held>>, GoodCall(c)'
    PROVE  (calls \in [Callers -> Call])' /\ (\A d \in Callers : GoodCall(d))'
<1>1. calls' \in [Callers -> Call] /\ \A d \in Callers \ {c} : calls'[d] = calls[d]
  BY DEF CacheInv, Become
<1>2. ASSUME NEW d \in Callers \ {c} PROVE GoodCall(d)'
  BY <1>1, <1>2 DEF CacheInv, GoodCall, At, AnswerAt
<1> QED BY <1>1, <1>2

LEMMA IdleIsGood ==
    ASSUME CacheInv, NEW c \in Callers, Become(c, Idle)
    PROVE  GoodCall(c)'
<1>1. calls'[c] = Idle BY DEF CacheInv, Become
<1> QED BY <1>1, IdleIsCall DEF GoodCall, At

LEMMA BeginStep ==
    ASSUME CacheInv, NEW c \in Callers, Begin(c)
    PROVE  CacheInv'
<1>1. UNCHANGED <<asked, now, version, stored, cache, held>> BY DEF Begin
<1>2. Clock' BY <1>1 DEF CacheInv, Clock
<1>3. PICK q \in asked :
        LET call == [Idle EXCEPT !.at = "get", !.question = q, !.absent = Tell(q, stored) = None]
        IN  IF Key(q) = None THEN Answer(c, call, None)
            ELSE IF Key(q) \in DOMAIN cache THEN Answer(c, call, cache[Key(q)].item)
            ELSE Become(c, call) /\ answer' = None
  BY DEF Begin
<1> DEFINE absent == Tell(q, stored) = None
<1>a. PICK call : call = [Idle EXCEPT !.at = "get", !.question = q, !.absent = absent]
  OBVIOUS
<1>4. q \in Questions BY DEF CacheInv, Clock
<1>5. absent \in BOOLEAN OBVIOUS
<1>6. call \in Call /\ call.at = "get" /\ call.question = q /\ call.absent = absent
  <2> HIDE DEF absent
  <2>1. call = [at |-> "get", question |-> q, item |-> None, since |-> 0, absent |-> absent]
    BY <1>a DEF Idle
  <2>2. 0 \in 0 .. LastTime BY DurationAssumption
  <2> QED BY <1>4, <1>5, <2>1, <2>2 DEF Call
<1>7. stored \in Contents BY DEF CacheInv, Clock
<1>8. CASE Key(q) = None
  <2>1. Answer(c, call, None) BY <1>3, <1>a, <1>8
  <2>2. Become(c, Idle) /\ answer' = [question |-> call.question, item |-> None, absent |-> call.absent]
    BY <2>1 DEF Answer
  <2>3. absent BY <1>4, <1>8, NullKey
  <2>4. NewIsFound' BY <1>6, <2>2, <2>3 DEF NewIsFound
  <2>5. GoodCall(c)' BY <2>2, IdleIsGood
  <2> QED BY <1>1, <1>2, <2>2, <2>4, <2>5, EntriesStay, CallsStay, IdleIsCall DEF CacheInv
<1>9. CASE Key(q) # None /\ Key(q) \in DOMAIN cache
  <2>1. Answer(c, call, cache[Key(q)].item) BY <1>3, <1>a, <1>9
  <2>2. Become(c, Idle) /\ answer' = [question |-> call.question, item |-> cache[Key(q)].item,
                                      absent |-> call.absent]
    BY <2>1 DEF Answer
  <2>3. cache[Key(q)].item # None BY <1>9 DEF CacheInv, GoodEntry
  <2>4. NewIsFound' BY <2>2, <2>3 DEF NewIsFound
  <2>5. GoodCall(c)' BY <2>2, IdleIsGood
  <2> QED BY <1>1, <1>2, <2>2, <2>4, <2>5, EntriesStay, CallsStay, IdleIsCall DEF CacheInv
<1>10. CASE Key(q) # None /\ Key(q) \notin DOMAIN cache
  <2>1. Become(c, call) /\ answer' = None BY <1>3, <1>a, <1>10
  <2>2. NewIsFound' BY <2>1 DEF NewIsFound
  <2>3. calls'[c] = call BY <2>1 DEF CacheInv, Become
  <2>4. Key(q) \in Keys BY <1>4, <1>10 DEF Keys
  <2>5. GoodCall(c)' BY <1>1, <1>4, <1>6, <2>3, <2>4 DEF GoodCall, At, Keys
  <2> QED BY <1>1, <1>2, <1>6, <2>1, <2>2, <2>5, EntriesStay, CallsStay DEF CacheInv
<1> QED BY <1>8, <1>9, <1>10

LEMMA GetStep ==
    ASSUME CacheInv, NEW c \in Callers, Get(c)
    PROVE  CacheInv'
<1> DEFINE old == calls[c]
           item == Tell(old.question, stored)
<1>a. PICK new : new = [old EXCEPT !.at = "set", !.item = item, !.since = now]
  OBVIOUS
<1>1. UNCHANGED <<asked, now, version, stored, cache, held>> /\ At(c, "get") BY DEF Get
<1>2. Clock' BY <1>1 DEF CacheInv, Clock
<1>3. old \in Call BY DEF CacheInv
<1>4. old.question \in Questions /\ Key(old.question) \in Keys
  BY <1>1 DEF CacheInv, GoodCall, At
<1>5. item \in {None} \cup Items BY <1>4, TellType DEF CacheInv, Clock
<1>6. now \in 0 .. LastTime /\ stored \in held[now] BY DEF CacheInv, Clock
<1>7. CASE item # None
  <2>1. Become(c, new) /\ answer' = None BY <1>a, <1>7 DEF Get, ToCache
  <2>2. item \in Items BY <1>5, <1>7
  <2>3. /\ new \in Call /\ new.at = "set" /\ new.question = old.question
        /\ new.item = item /\ new.since = now
    <3> HIDE DEF old, item
    <3>1. now \in 0 .. LastTime BY <1>6
    <3>2. new = [at |-> "set", question |-> old.question, item |-> item, since |-> now,
                 absent |-> old.absent]
      BY <1>a, <1>3 DEF Call
    <3> QED BY <1>3, <2>2, <3>1, <3>2 DEF Call
  <2>4. calls'[c] = new BY <2>1 DEF CacheInv, Become
  <2>5. AnswerAt(old.question, item, now) BY <1>6 DEF AnswerAt
  <2>6. GoodCall(c)'
    <3>1. now - now <= MaxFill BY <1>6, DurationAssumption
    <3> QED BY <1>1, <1>4, <1>6, <1>7, <2>2, <2>3, <2>4, <2>5, <3>1
            DEF GoodCall, At, AnswerAt, Keys
  <2>7. NewIsFound' BY <2>1 DEF NewIsFound
  <2> QED BY <1>1, <1>2, <2>1, <2>3, <2>6, <2>7, EntriesStay, CallsStay DEF CacheInv
<1>8. CASE item = None
  <2>1. Answer(c, old, None) BY <1>8 DEF Get, ToCache
  <2>2. Become(c, Idle) /\ answer' = [question |-> old.question, item |-> None, absent |-> old.absent]
    BY <2>1 DEF Answer
  <2>3. old.absent BY <1>1, <1>8 DEF CacheInv, GoodCall
  <2>4. NewIsFound' BY <2>2, <2>3 DEF NewIsFound
  <2>5. GoodCall(c)' BY <2>2, IdleIsGood
  <2> QED BY <1>1, <1>2, <2>2, <2>4, <2>5, EntriesStay, CallsStay, IdleIsCall DEF CacheInv
<1> QED BY <1>7, <1>8

LEMMA SetStep ==
    ASSUME CacheInv, NEW c \in Callers, Set(c)
    PROVE  CacheInv'
<1> DEFINE old == calls[c]
<1>k. PICK k : k = Key(old.question)
  OBVIOUS
<1>1. UNCHANGED <<asked, now, version, stored, held>> /\ At(c, "set") BY DEF Set
<1>2. Clock' BY <1>1 DEF CacheInv, Clock
<1>3. /\ old.question \in Questions /\ k \in Keys
      /\ old.item \in Items /\ old.item # None
      /\ old.since <= now /\ now - old.since <= MaxFill
      /\ AnswerAt(old.question, old.item, old.since)
  BY <1>k, <1>1 DEF CacheInv, GoodCall, At
<1>4. now \in Nat /\ old.since \in Nat /\ Duration \in Nat \ {0} /\ MaxFill \in Nat
  <2>1. old \in Call BY DEF CacheInv
  <2>2. old.since \in 0 .. LastTime /\ now \in 0 .. LastTime
    BY <2>1 DEF Call, CacheInv, Clock
  <2> QED BY <2>2, DurationAssumption
<1>5. PICK entry : entry = [item |-> old.item, expires |-> now + Duration] OBVIOUS
<1>6. cache' = [j \in DOMAIN cache \cup {k} |-> IF j = k THEN entry ELSE cache[j]]
  BY <1>k, <1>5 DEF Set, Put
<1>7. /\ DOMAIN cache' = DOMAIN cache \cup {k}
      /\ cache'[k] = entry
      /\ \A j \in DOMAIN cache \ {k} : cache'[j] = cache[j]
  BY <1>6
<1>8. GoodEntry(k)'
  <2>1. /\ entry = [item |-> entry.item, expires |-> entry.expires]
        /\ entry.item = old.item /\ entry.expires = now + Duration
    BY <1>5
  <2>2. /\ entry.expires \in Int /\ now < entry.expires /\ entry.expires <= now + Duration
        /\ old.since >= entry.expires - Duration - MaxFill
    BY <1>3, <1>4, <2>1
  <2>3. old.since \in 0 .. now BY <1>3, <1>4
  <2>4. \E q \in Questions, t \in 0 .. now :
           /\ Key(q) = k
           /\ t >= entry.expires - Duration - MaxFill
           /\ AnswerAt(q, entry.item, t)
    BY <1>k, <1>3, <2>1, <2>2, <2>3
  <2> HIDE DEF old
  <2> QED BY <1>1, <1>3, <1>7, <2>1, <2>2, <2>4 DEF GoodEntry, AnswerAt
<1>9. ASSUME NEW j \in DOMAIN cache \ {k} PROVE GoodEntry(j)'
  BY <1>1, <1>7, <1>9 DEF CacheInv, GoodEntry, AnswerAt
<1>10. Answer(c, old, old.item) BY DEF Set
<1>11. Become(c, Idle) /\ answer' = [question |-> old.question, item |-> old.item, absent |-> old.absent]
  BY <1>10 DEF Answer
<1>12. NewIsFound' BY <1>3, <1>11 DEF NewIsFound
<1>13. GoodCall(c)' BY <1>11, IdleIsGood
<1>14. (calls \in [Callers -> Call])' /\ (\A d \in Callers : GoodCall(d))'
  BY <1>1, <1>11, <1>13, CallsStay, IdleIsCall
<1>15. DOMAIN cache' \subseteq Keys' BY <1>3, <1>7 DEF CacheInv, Keys
<1>16. \A j \in DOMAIN cache' : GoodEntry(j)' BY <1>7, <1>8, <1>9
<1> QED BY <1>2, <1>12, <1>14, <1>15, <1>16 DEF CacheInv

LEMMA ChangeStep ==
    ASSUME CacheInv, Change
    PROVE  CacheInv'
<1>1. /\ version < MaxVersion /\ version' = version + 1
      /\ held' = [held EXCEPT ![now] = @ \cup {stored'}]
      /\ answer' = None /\ UNCHANGED <<asked, now, cache>>
  BY DEF Change
<1>2. PICK thing \in DOMAIN stored, v \in {0, version'} : stored' = [stored EXCEPT ![thing] = v]
  BY DEF Change
<1>3. now \in 0 .. LastTime /\ DOMAIN held = 0 .. LastTime /\ stored \in Contents
      /\ version \in 1 .. MaxVersion
  BY DEF CacheInv, Clock
<1>4. version' \in 1 .. MaxVersion /\ v \in 0 .. MaxVersion
  BY <1>1, <1>2, <1>3, DurationAssumption
<1>5. stored' \in Contents BY <1>2, <1>3, <1>4 DEF Contents
<1>6. /\ DOMAIN held' = 0 .. LastTime
      /\ held'[now] = held[now] \cup {stored'}
      /\ \A t \in 0 .. LastTime : held[t] \subseteq held'[t]
  BY <1>1, <1>3
<1>7. Clock' BY <1>1, <1>3, <1>4, <1>5, <1>6 DEF CacheInv, Clock
<1>8. ASSUME NEW q, NEW item, NEW t \in 0 .. LastTime, AnswerAt(q, item, t)
      PROVE  AnswerAt(q, item, t)'
  BY <1>6, <1>8 DEF AnswerAt
<1>9. 0 .. now \subseteq 0 .. LastTime BY <1>3, DurationAssumption
<1>10. ASSUME NEW k \in DOMAIN cache PROVE GoodEntry(k)'
  <2>1. GoodEntry(k) BY DEF CacheInv
  <2>2. \E q \in Questions, t \in 0 .. now :
           /\ Key(q) = k
           /\ t >= cache[k].expires - Duration - MaxFill
           /\ AnswerAt(q, cache[k].item, t)'
    BY <1>1, <1>8, <1>9, <2>1 DEF GoodEntry
  <2> QED BY <1>1, <2>1, <2>2 DEF GoodEntry, AnswerAt
<1>11. ASSUME NEW c \in Callers
       PROVE  calls'[c] \in Call /\ GoodCall(c)'
  <2> DEFINE old == calls[c]
             also == old.absent \/ (Tell(old.question, stored') = None)
  <2>1. old \in Call /\ GoodCall(c) BY DEF CacheInv
  <2>2. CASE At(c, "idle")
    <3>1. calls'[c] = old BY <2>2 DEF Change
    <3> QED BY <2>1, <2>2, <3>1 DEF GoodCall, At
  <2>3. CASE ~At(c, "idle")
    <3>1. calls'[c] = [old EXCEPT !.absent = also] BY <2>3 DEF Change
    <3>2. also \in BOOLEAN BY <2>1 DEF Call
    <3>3. calls'[c] = [at |-> old.at, question |-> old.question, item |-> old.item,
                       since |-> old.since, absent |-> also]
      <4> HIDE DEF old, also
      <4> QED BY <2>1, <3>1 DEF Call
    <3>4. calls'[c] \in Call
      <4> HIDE DEF old, also
      <4> QED BY <2>1, <3>2, <3>3 DEF Call
    <3>5. /\ calls'[c].at = old.at /\ calls'[c].question = old.question
          /\ calls'[c].item = old.item /\ calls'[c].since = old.since
          /\ calls'[c].absent = also
      <4> HIDE DEF old, also
      <4> QED BY <3>3
    <3>6. old.since \in 0 .. LastTime BY <2>1 DEF Call
    <3>7. At(c, "set") => \E contents \in held'[old.since] : old.item = Tell(old.question, contents)
      <4>1. At(c, "set") => AnswerAt(old.question, old.item, old.since)
        BY <2>1 DEF GoodCall
      <4> QED BY <1>6, <3>6, <4>1 DEF AnswerAt
    <3> QED BY <1>1, <2>1, <3>4, <3>5, <3>7 DEF GoodCall, At, AnswerAt, Keys
  <2> QED BY <2>2, <2>3
<1>12. calls' \in [Callers -> Call] /\ \A c \in Callers : GoodCall(c)'
  <2>1. DOMAIN calls' = Callers /\ calls' = [c \in Callers |-> calls'[c]] BY DEF Change
  <2> QED BY <1>11, <2>1
<1>13. NewIsFound' BY <1>1 DEF NewIsFound
<1>14. (DOMAIN cache \subseteq Keys)' BY <1>1 DEF CacheInv, Keys
<1> QED BY <1>1, <1>7, <1>10, <1>12, <1>13, <1>14 DEF CacheInv

LEMMA TickStep ==
    ASSUME CacheInv, Tick
    PROVE  CacheInv'
<1>1. /\ now < LastTime /\ now' = now + 1
      /\ \A c \in Callers : At(c, "set") => now - calls[c].since < MaxFill
      /\ cache' = [k \in {k \in DOMAIN cache : Live(k, now')} |-> cache[k]]
      /\ held' = [held EXCEPT ![now'] = {stored}]
      /\ answer' = None /\ UNCHANGED <<asked, version, stored, calls>>
  BY DEF Tick
<1>2. /\ now \in 0 .. LastTime /\ now' \in 0 .. LastTime /\ LastTime \in Nat
      /\ DOMAIN held = 0 .. LastTime
  BY <1>1, DurationAssumption DEF CacheInv, Clock
<1>3. /\ DOMAIN held' = 0 .. LastTime /\ held'[now'] = {stored}
      /\ \A t \in 0 .. now : held'[t] = held[t]
  BY <1>1, <1>2
<1>4. Clock' BY <1>1, <1>2, <1>3 DEF CacheInv, Clock
<1>5. DOMAIN cache' \subseteq DOMAIN cache
      /\ \A k \in DOMAIN cache' : cache'[k] = cache[k] /\ cache[k].expires > now'
  BY <1>1 DEF Live
<1>6. ASSUME NEW k \in DOMAIN cache' PROVE GoodEntry(k)'
  <2>1. GoodEntry(k) /\ cache'[k] = cache[k] /\ cache[k].expires > now' BY <1>5 DEF CacheInv
  <2>2. \E q \in Questions, t \in 0 .. now' :
           /\ Key(q) = k
           /\ t >= cache[k].expires - Duration - MaxFill
           /\ AnswerAt(q, cache[k].item, t)'
    <3>1. PICK q \in Questions, t \in 0 .. now : /\ Key(q) = k
                                                 /\ t >= cache[k].expires - Duration - MaxFill
                                                 /\ AnswerAt(q, cache[k].item, t)
      BY <2>1 DEF GoodEntry
    <3>2. t \in 0 .. now' BY <1>1, <1>2
    <3>3. AnswerAt(q, cache[k].item, t)' BY <1>3, <2>1, <3>1 DEF AnswerAt
    <3> QED BY <2>1, <3>1, <3>2, <3>3
  <2>3. cache[k].expires \in Int /\ cache[k].expires <= now' + Duration
    BY <1>1, <1>2, <2>1, DurationAssumption DEF GoodEntry
  <2> QED BY <2>1, <2>2, <2>3 DEF GoodEntry, AnswerAt
<1>7. ASSUME NEW c \in Callers PROVE GoodCall(c)'
  <2>1. GoodCall(c) /\ calls[c] \in Call BY DEF CacheInv
  <2>2. calls[c].since \in 0 .. LastTime BY <2>1 DEF Call
  <2>3. CASE At(c, "set")
    <3>1. /\ calls[c].since <= now' /\ now' - calls[c].since <= MaxFill
          /\ calls[c].since \in 0 .. now
      BY <1>1, <1>2, <2>1, <2>2, <2>3, DurationAssumption DEF GoodCall
    <3> QED BY <1>1, <1>3, <2>1, <2>3, <3>1 DEF GoodCall, At, AnswerAt, Keys
  <2>4. CASE ~At(c, "set")
    BY <1>1, <2>1, <2>4 DEF GoodCall, At, Keys
  <2> QED BY <2>3, <2>4
<1>8. NewIsFound' BY <1>1 DEF NewIsFound
<1>9. (DOMAIN cache \subseteq Keys)' BY <1>5 DEF CacheInv, Keys
<1> QED BY <1>1, <1>4, <1>6, <1>7, <1>8, <1>9 DEF CacheInv

LEMMA StepInv == CacheInv /\ [Next]_vars => CacheInv'
<1> SUFFICES ASSUME CacheInv, [Next]_vars PROVE CacheInv'
  OBVIOUS
<1>1. ASSUME NEW c \in Callers, Begin(c) PROVE CacheInv' BY <1>1, BeginStep
<1>2. ASSUME NEW c \in Callers, Get(c) PROVE CacheInv' BY <1>2, GetStep
<1>3. ASSUME NEW c \in Callers, Set(c) PROVE CacheInv' BY <1>3, SetStep
<1>4. CASE Change BY <1>4, ChangeStep
<1>5. CASE Tick BY <1>5, TickStep
<1>6. CASE UNCHANGED vars
  <2>1. UNCHANGED <<asked, now, version, stored, cache, calls, held, answer>> BY <1>6 DEF vars
  <2>2. Clock' /\ NewIsFound' BY <2>1 DEF CacheInv, Clock, NewIsFound
  <2>3. \A c \in Callers : GoodCall(c)' BY <2>1 DEF CacheInv, GoodCall, At, AnswerAt, Keys
  <2> QED BY <2>1, <2>2, <2>3, EntriesStay DEF CacheInv
<1> QED BY <1>1, <1>2, <1>3, <1>4, <1>5, <1>6 DEF Next

LEMMA Inductive == Spec => []CacheInv
BY InitInv, StepInv, PTL DEF Spec

------------------------------------------------------------------------------
\* The theorems

\* Type correctness: entries answer with items, never with null, and expire in time.
THEOREM TypeCorrect == Spec => []TypeOK
<1>1. CacheInv => TypeOK
  <2> SUFFICES ASSUME CacheInv PROVE TypeOK
    OBVIOUS
  <2>1. ASSUME NEW k \in DOMAIN cache
        PROVE  cache[k].item # None /\ cache[k] \in Entry /\ cache[k].expires <= now + Duration
    <3>1. GoodEntry(k) /\ now \in Nat BY DurationAssumption DEF CacheInv, Clock
    <3>2. cache[k].expires \in Nat BY <3>1 DEF GoodEntry
    <3> QED BY <3>1, <3>2 DEF GoodEntry, Entry
  <2> QED BY <2>1 DEF CacheInv, Clock, TypeOK
<1> QED BY <1>1, Inductive, PTL

\* A cache does not remember what is missing: whoever is told null asked for something
\* that was not there at some time since.
THEOREM NewIsFoundHolds == Spec => []NewIsFound
<1>1. CacheInv => NewIsFound BY DEF CacheInv
<1> QED BY <1>1, Inductive, PTL

\* The initial states are those of a store.
LEMMA RefinementInit == Init => Delayed!Init
BY InitInv DEF Init, Delayed!Init, CacheInv, Clock

\* A question may be taken for one whose key it has, by its answers at least.
LEMMA SameKeyIsTaken ==
    ASSUME NEW p \in Questions, NEW q \in Questions, Key(p) = Key(q), Key(q) # None,
           NEW item, NEW t, AnswerAt(p, item, t)
    PROVE  \E r \in TakenFor[q] : AnswerAt(r, item, t)
<1>1. CASE Plain(p) /\ Plain(q)
  BY <1>1, OneKeyOneAnswer DEF AnswerAt, TakenFor
<1>2. CASE ~(Plain(p) /\ Plain(q))
  BY <1>2 DEF TakenFor
<1> QED BY <1>1, <1>2

\* An answer of a step is one of the store.
LEMMA AnswerIsRecent ==
    ASSUME CacheInv, NEW q \in Questions, NEW item, NEW t \in 0 .. now,
           t >= now - (Duration + MaxFill - 1), \E p \in TakenFor[q] : AnswerAt(p, item, t),
           NEW absent, answer' = [question |-> q, item |-> item, absent |-> absent],
           UNCHANGED <<now, stored, held>>
    PROVE  Delayed!Next
<1>1. PICK p \in TakenFor[q] : \E contents \in held[t] : item = Tell(p, contents)
  BY DEF AnswerAt
<1>2. t \in Delayed!Recent BY DEF Delayed!Recent
<1>3. CASE answer' = None
  BY <1>3 DEF Delayed!Next, Delayed!Pause
<1>4. CASE answer' # None
  BY <1>1, <1>2, <1>4 DEF Delayed!Next, Delayed!Answer
<1> QED BY <1>3, <1>4

\* In particular one to that very question.
LEMMA OwnAnswer ==
    ASSUME NEW q \in Questions, NEW item, NEW t, AnswerAt(q, item, t)
    PROVE  \E p \in TakenFor[q] : AnswerAt(p, item, t)
BY DEF TakenFor

\* A step without an answer in which the store does not change is a pause.
LEMMA SilentStep ==
    ASSUME answer' = None, UNCHANGED <<now, stored, held>>
    PROVE  Delayed!Next
BY DEF Delayed!Next, Delayed!Pause

LEMMA BeginRefines ==
    ASSUME CacheInv, NEW c \in Callers, Begin(c)
    PROVE  Delayed!Next
<1>1. UNCHANGED <<now, stored, held>> BY DEF Begin
<1>2. PICK q \in asked :
        LET call == [Idle EXCEPT !.at = "get", !.question = q, !.absent = Tell(q, stored) = None]
        IN  IF Key(q) = None THEN Answer(c, call, None)
            ELSE IF Key(q) \in DOMAIN cache THEN Answer(c, call, cache[Key(q)].item)
            ELSE Become(c, call) /\ answer' = None
  BY DEF Begin
<1>3. PICK call : call = [Idle EXCEPT !.at = "get", !.question = q, !.absent = Tell(q, stored) = None]
  OBVIOUS
<1>4. q \in Questions /\ now \in 0 .. LastTime /\ stored \in held[now]
  BY DEF CacheInv, Clock
<1>5. call.question = q BY <1>3 DEF Idle
<1>6. now \in Nat /\ Duration \in Nat \ {0} /\ MaxFill \in Nat
  BY <1>4, DurationAssumption
<1>7. CASE Key(q) = None
  <2>1. Answer(c, call, None) BY <1>2, <1>3, <1>7
  <2>2. answer' = [question |-> q, item |-> None, absent |-> call.absent]
    BY <1>5, <2>1 DEF Answer
  <2>3. AnswerAt(q, None, now) BY <1>4, <1>7, NullKey DEF AnswerAt
  <2>4. now \in 0 .. now /\ now >= now - (Duration + MaxFill - 1) BY <1>6
  <2> QED BY <1>1, <1>4, <2>2, <2>3, <2>4, AnswerIsRecent, OwnAnswer
<1>8. CASE Key(q) # None /\ Key(q) \in DOMAIN cache
  <2> DEFINE entry == cache[Key(q)]
  <2>1. Answer(c, call, entry.item) BY <1>2, <1>3, <1>8
  <2>2. answer' = [question |-> q, item |-> entry.item, absent |-> call.absent]
    BY <1>5, <2>1 DEF Answer
  <2>3. GoodEntry(Key(q)) BY <1>8 DEF CacheInv
  <2>4. PICK p \in Questions, t \in 0 .. now : /\ Key(p) = Key(q)
                                              /\ t >= entry.expires - Duration - MaxFill
                                              /\ AnswerAt(p, entry.item, t)
    BY <1>4, <2>3 DEF GoodEntry
  <2>5. now < entry.expires /\ entry.expires \in Int BY <2>3 DEF GoodEntry
  <2>6. t >= now - (Duration + MaxFill - 1) BY <1>6, <2>4, <2>5
  <2>7. \E r \in TakenFor[q] : AnswerAt(r, entry.item, t)
    BY <1>4, <1>8, <2>4, SameKeyIsTaken
  <2> QED BY <1>1, <1>4, <2>2, <2>6, <2>7, AnswerIsRecent
<1>9. CASE Key(q) # None /\ Key(q) \notin DOMAIN cache
  BY <1>1, <1>2, <1>9, SilentStep
<1> QED BY <1>7, <1>8, <1>9

LEMMA GetRefines ==
    ASSUME CacheInv, NEW c \in Callers, Get(c)
    PROVE  Delayed!Next
<1> DEFINE q == calls[c].question
<1>1. UNCHANGED <<now, stored, held>> BY DEF Get
<1>2. now \in Nat /\ stored \in held[now] /\ Duration \in Nat \ {0} /\ MaxFill \in Nat
  BY DurationAssumption DEF CacheInv, Clock
<1>3. q \in Questions BY DEF CacheInv, GoodCall, Get, At
<1>4. CASE Tell(q, stored) # None
  BY <1>1, <1>4, SilentStep DEF Get, ToCache
<1>5. CASE Tell(q, stored) = None
  <2>1. answer' = [question |-> q, item |-> None, absent |-> calls[c].absent]
    BY <1>5 DEF Get, ToCache, Answer
  <2>2. AnswerAt(q, None, now) BY <1>2, <1>5 DEF AnswerAt
  <2>3. now \in 0 .. now /\ now >= now - (Duration + MaxFill - 1) BY <1>2
  <2> QED BY <1>1, <1>3, <2>1, <2>2, <2>3, AnswerIsRecent, OwnAnswer
<1> QED BY <1>4, <1>5

LEMMA SetRefines ==
    ASSUME CacheInv, NEW c \in Callers, Set(c)
    PROVE  Delayed!Next
<1> DEFINE old == calls[c]
<1>1. UNCHANGED <<now, stored, held>> BY DEF Set
<1>2. /\ old.question \in Questions /\ old.since <= now /\ now - old.since <= MaxFill
      /\ AnswerAt(old.question, old.item, old.since)
  BY DEF CacheInv, GoodCall, Set, At
<1>3. old \in Call BY DEF CacheInv
<1>4. old.since \in 0 .. LastTime BY <1>3 DEF Call
<1>5. now \in Nat /\ Duration \in Nat \ {0} /\ MaxFill \in Nat
  BY DurationAssumption DEF CacheInv, Clock
<1>6. old.since \in 0 .. now /\ old.since >= now - (Duration + MaxFill - 1)
  BY <1>2, <1>4, <1>5
<1>7. answer' = [question |-> old.question, item |-> old.item, absent |-> old.absent]
  BY DEF Set, Answer
<1> QED BY <1>1, <1>2, <1>6, <1>7, AnswerIsRecent, OwnAnswer

LEMMA RefinementStep == CacheInv /\ [Next]_vars => [Delayed!Next]_(Delayed!vars)
<1> SUFFICES ASSUME CacheInv, [Next]_vars PROVE [Delayed!Next]_(Delayed!vars)
  OBVIOUS
<1>1. ASSUME NEW c \in Callers, Begin(c) PROVE Delayed!Next BY <1>1, BeginRefines
<1>2. ASSUME NEW c \in Callers, Get(c) PROVE Delayed!Next BY <1>2, GetRefines
<1>3. ASSUME NEW c \in Callers, Set(c) PROVE Delayed!Next BY <1>3, SetRefines
<1>4. CASE Change
  <2>1. stored' \in Contents BY <1>4, ChangeStep DEF CacheInv, Clock
  <2> QED BY <1>4, <2>1 DEF Change, Delayed!Next, Delayed!Change
<1>5. CASE Tick
  BY <1>5 DEF Tick, Delayed!Next, Delayed!Tick
<1>6. CASE UNCHANGED vars
  BY <1>6 DEF vars, Delayed!vars
<1> QED BY <1>1, <1>2, <1>3, <1>4, <1>5, <1>6 DEF Next

\* The caches implement the store with a delay: whatever fills overtake one another and
\* whenever the stores change, an answer is from the duration and the time of a fill ago
\* at most.  It is one to that very question if the names in it and in the other questions
\* with its key are plain, and otherwise one to a question with its key.
THEOREM AnswersAreRecentHolds == Spec => AnswersAreRecent
<1>1. CacheInv /\ [Next]_vars => [Delayed!Next]_(Delayed!vars) BY RefinementStep
<1> QED BY <1>1, RefinementInit, Inductive, PTL DEF Spec, AnswersAreRecent, Delayed!Spec
================================================================================

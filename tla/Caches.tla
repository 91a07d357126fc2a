--------------------------------- MODULE Caches ---------------------------------
(***************************************************************************)
(* The read-through caches in front of the client store, the scope store   *)
(* and the profile data of the user service.  All three go through         *)
(* ICacheExtensions.GetAsync, and only differ in the key they make of a    *)
(* question.  Nothing is ever taken out of a cache but by its expiration.  *)
(*                                                                         *)
(* GetAsync awaits the cache, the inner store and the cache again.  A      *)
(* DefaultCache completes at once, so that calls interleave before and     *)
(* after the inner store answers.  The inner stores are external: what     *)
(* they hold is a version of each client, scope and user, 0 when it is not *)
(* there, and may change at any time.                                      *)
(*                                                                         *)
(* A key is a text.  The names of scopes come from requests as they are,   *)
(* and are joined without an escape, so that questions with odd names may  *)
(* have the key of others.                                                 *)
(***************************************************************************)
EXTENDS Integers, Sequences, SequencesExt

CONSTANTS
    Callers,        \* the calls in flight at a time
    Clients,        \* client ids
    Scopes,         \* scope names, a set of numbers
    PublicScopes,   \* those with ShowInDiscoveryDocument
    AllScopesName, AllScopesPublicName,     \* the names that are keys of their own
    Users,          \* subject ids
    Questions,      \* what callers may ask
    MaxQuestions,   \* bound on the different questions of a behaviour
    Duration,       \* DefaultCache.duration
    MaxFill,        \* the longest time from the answer of a store to its SetAsync
    LastTime,       \* bound on the time
    MaxVersion,     \* bound on the changes of what is stored
    None            \* null

ASSUME NoneAssumption == None \notin Clients \cup Users

\* DefaultCache throws for a duration that is not positive.
ASSUME DurationAssumption ==
    /\ Duration \in Nat \ {0}
    /\ MaxFill \in Nat
    /\ LastTime \in Nat
    /\ MaxVersion \in Nat \ {0}
    /\ MaxQuestions \in Nat

ASSUME ScopeAssumption ==
    /\ Scopes \subseteq Nat
    /\ PublicScopes \subseteq Scopes
    /\ {AllScopesName, AllScopesPublicName} \subseteq Nat \ Scopes
    /\ AllScopesName # AllScopesPublicName

VARIABLES
    asked,      \* the questions of this behaviour
    now,        \* UtcNow
    version,    \* the number of changes of what is stored
    stored,     \* what the inner stores hold
    cache,      \* the entries of the caches: [item, expires] by key
    calls,      \* the calls of GetAsync, one by caller
    held,       \* history: held[t] is what the stores have held at the time t
    answer      \* history: what this step answers to a call

vars == <<asked, now, version, stored, cache, calls, held, answer>>

------------------------------------------------------------------------------
\* Questions and keys

\* What a name is made of between its separators: ":" after a subject, "," elsewhere.
\* A scope of the configuration is taken to have a name of one part; a request may name
\* anything.
Parts == Scopes \cup {AllScopesName, AllScopesPublicName}
Names == Seq(Parts) \ {<<>>}

\* FindClientByIdAsync, FindScopesAsync and GetScopesAsync, GetProfileDataAsync.  The
\* names of a question are in the order of the request; the claim types of
\* GetProfileDataAsync are those of scopes, or null for all claims.
AskClient(id) == [kind |-> "client", id |-> id]
FindScopes(names) == [kind |-> "find", names |-> names]
AllScopes == [kind |-> "all"]
AllScopesPublic == [kind |-> "public"]
AskProfile(sub, types) == [kind |-> "profile", id |-> sub, names |-> types]

\* The order of texts, by their parts.
Before(a, b) ==
    \E i \in 1 .. Len(b) :
        /\ \A j \in 1 .. i - 1 : j <= Len(a) /\ a[j] = b[j]
        /\ i > Len(a) \/ a[i] < b[i]

\* OrderBy and Aggregate: the names in order, with separators between them.  What is a
\* separator of the list and what is one of a name cannot be told apart any more.
Join(names) == FlattenSeq(SortSeq(names, Before))

\* Mutant: the two lists of all scopes have one key.
KeyAll(q) ==
    CASE q.kind = "client" -> IF q.id = None THEN None ELSE <<"client", q.id>>
      [] q.kind = "find" -> <<"scopes", Join(q.names)>>
      [] q.kind \in {"all", "public"} -> <<"scopes", <<AllScopesName>>>>
      [] q.kind = "profile" ->
            IF q.names = None THEN <<"profile", q.id>> ELSE <<"profile", q.id, Join(q.names)>>

\* GetKey.  The three caches are separate objects; the lists of all scopes are in the
\* one with the scopes by name, under names of their own.  Subjects have no ":".
Key(q) ==
    CASE q.kind = "client" -> IF q.id = None THEN None ELSE <<"client", q.id>>
      [] q.kind = "find" -> <<"scopes", Join(q.names)>>
      [] q.kind = "all" -> <<"scopes", <<AllScopesName>>>>
      [] q.kind = "public" -> <<"scopes", <<AllScopesPublicName>>>>
      [] q.kind = "profile" ->
            IF q.names = None THEN <<"profile", q.id>> ELSE <<"profile", q.id, Join(q.names)>>

\* Aggregate throws for an empty list, which FindScopesAsync looks for and
\* GetProfileDataAsync does not.
Throws(q) == q.kind = "profile" /\ q.names = <<>>

Keys == {Key(q) : q \in Questions} \ {None}

Contents == [Clients \cup Scopes \cup Users -> 0 .. MaxVersion]

Versions(things, contents) ==
    {<<x, contents[x]>> : x \in {x \in things : contents[x] > 0}}

\* The scopes, or the claims of them, that a question names.
Named(q) == {s \in Scopes : q.names = None \/ <<s>> \in ToSet(q.names)}

\* What an inner store tells.  A client that is not there is null; scopes that are not
\* there are left out of a list, and a user who is not there has the claims the context
\* begins with, none.
Tell(q, contents) ==
    CASE q.kind = "client" ->
            IF q.id = None \/ contents[q.id] = 0 THEN None ELSE Versions({q.id}, contents)
      [] q.kind = "find" -> Versions(Named(q), contents)
      [] q.kind = "all" -> Versions(Scopes, contents)
      [] q.kind = "public" -> Versions(PublicScopes, contents)
      [] q.kind = "profile" ->
            {<<s, contents[q.id]>> : s \in {s \in Named(q) : contents[q.id] > 0}}

Items == SUBSET ((Clients \cup Scopes) \X (1 .. MaxVersion))

\* There are no other questions.
ASSUME QuestionAssumption ==
    \A q \in Questions :
        \/ \E id \in Clients \cup {None} : q = AskClient(id)
        \/ q \in {AllScopes, AllScopesPublic}
        \/ q.names \in Seq(Names) \ {None} /\ q = FindScopes(q.names)
        \/ q.names \in Seq(Names) \cup {None} /\ \E sub \in Users : q = AskProfile(sub, q.names)

\* The names of a question are plain when none has a separator in it or is a key.
Plain(q) ==
    q.kind \in {"find", "profile"} /\ q.names # None =>
        \A name \in ToSet(q.names) :
            Len(name) = 1 /\ name[1] \notin {AllScopesName, AllScopesPublicName}

\* The questions that q can be taken for: those with its key, when not all the names are
\* plain.
TakenFor == [q \in Questions |->
    {q} \cup {p \in Questions : Key(p) = Key(q) /\ ~(Plain(p) /\ Plain(q))}]

\* Only a client id can be null, and joining plain names neither adds one nor loses one.
ASSUME KeyAssumption ==
    \A q \in Questions :
        /\ Key(q) = None => q = AskClient(None)
        /\ q.kind \in {"find", "profile"} /\ q.names # None /\ Plain(q) =>
              ToSet(q.names) = {<<name>> : name \in ToSet(Join(q.names))}

------------------------------------------------------------------------------
\* State

Entry == [item: Items, expires: Nat]

\* absent: history, the question had null for an answer at some time since the call.
Call == [at: {"idle", "get", "set"}, question: Questions \cup {None},
         item: {None} \cup Items, since: 0 .. LastTime, absent: BOOLEAN]

Idle == [at |-> "idle", question |-> None, item |-> None, since |-> 0, absent |-> FALSE]

Init ==
    /\ asked \in {qs \in SUBSET Questions : Cardinality(qs) = MaxQuestions}
    /\ now = 0
    /\ version = 1
    /\ \E v \in {0, 1} : stored = [thing \in Clients \cup Scopes \cup Users |-> v]
    /\ cache = [k \in {} |-> None]
    /\ calls = [c \in Callers |-> Idle]
    /\ held = [t \in 0 .. LastTime |-> IF t = 0 THEN {stored} ELSE {}]
    /\ answer = None

At(c, at) == calls[c].at = at
Become(c, call) == calls' = [calls EXCEPT ![c] = call]

Answer(c, call, item) ==
    /\ Become(c, Idle)
    /\ answer' = [question |-> call.question, item |-> item, absent |-> call.absent]

------------------------------------------------------------------------------
\* ICacheExtensions.GetAsync

\* A null key is answered at once, and the others from the cache if it has an answer.
Begin(c) ==
    /\ At(c, "idle")
    /\ \E q \in {q \in asked : ~Throws(q)} :
          LET call == [Idle EXCEPT !.at = "get", !.question = q, !.absent = Tell(q, stored) = None]
          IN  IF Key(q) = None THEN Answer(c, call, None)
              ELSE IF Key(q) \in DOMAIN cache THEN Answer(c, call, cache[Key(q)].item)
              ELSE Become(c, call) /\ answer' = None
    /\ UNCHANGED <<asked, now, version, stored, cache, held>>

\* Mutant: what is not there is remembered as well.
ToCacheAny(item) == TRUE

\* null is not cached.
ToCache(item) == item # None

\* The inner store answers.
Get(c) ==
    LET item == Tell(calls[c].question, stored) IN
    /\ At(c, "get")
    /\ IF ToCache(item)
       THEN /\ Become(c, [calls[c] EXCEPT !.at = "set", !.item = item, !.since = now])
            /\ answer' = None
       ELSE Answer(c, calls[c], item)
    /\ UNCHANGED <<asked, now, version, stored, cache, held>>

\* Mutant: the duration is added to what is left of the entry that is replaced.
PutExtended(k, item) ==
    LET from == IF k \in DOMAIN cache THEN cache[k].expires ELSE now IN
    cache' = [j \in DOMAIN cache \cup {k} |->
                 IF j = k THEN [item |-> item, expires |-> from + Duration] ELSE cache[j]]

\* DefaultCache.SetAsync
Put(k, item) ==
    cache' = [j \in DOMAIN cache \cup {k} |->
                 IF j = k THEN [item |-> item, expires |-> now + Duration] ELSE cache[j]]

\* cache.SetAsync: a fill that is late replaces what another one has put there.
Set(c) ==
    /\ At(c, "set")
    /\ Put(Key(calls[c].question), calls[c].item)
    /\ Answer(c, calls[c], calls[c].item)
    /\ UNCHANGED <<asked, now, version, stored, held>>

------------------------------------------------------------------------------
\* The rest of the world

\* A client, a scope or a user is put into its store, changed or taken out.
Change ==
    /\ version < MaxVersion
    /\ version' = version + 1
    /\ \E thing \in DOMAIN stored, v \in {0, version'} : stored' = [stored EXCEPT ![thing] = v]
    /\ held' = [held EXCEPT ![now] = @ \cup {stored'}]
    /\ calls' = [c \in Callers |->
          IF At(c, "idle") THEN calls[c]
          ELSE [calls[c] EXCEPT !.absent = @ \/ Tell(calls[c].question, stored') = None]]
    /\ answer' = None
    /\ UNCHANGED <<asked, now, cache>>

\* MemoryCache returns no entry that has expired.
Live(k, time) == cache[k].expires > time

\* Time passes, but not during a fill that is MaxFill old.
Tick ==
    /\ now < LastTime
    /\ \A c \in Callers : At(c, "set") => now - calls[c].since < MaxFill
    /\ now' = now + 1
    /\ cache' = [k \in {k \in DOMAIN cache : Live(k, now')} |-> cache[k]]
    /\ held' = [held EXCEPT ![now'] = {stored}]
    /\ answer' = None
    /\ UNCHANGED <<asked, version, stored, calls>>

Next ==
    \/ \E c \in Callers : Begin(c) \/ Get(c) \/ Set(c)
    \/ Change
    \/ Tick

Spec == Init /\ [][Next]_vars

------------------------------------------------------------------------------
\* Properties

\* Only answers are cached, under keys of questions, for Duration at most.
TypeOK ==
    /\ asked \subseteq Questions
    /\ now \in 0 .. LastTime
    /\ version \in 1 .. MaxVersion
    /\ stored \in Contents
    /\ DOMAIN cache \subseteq Keys
    /\ \A k \in DOMAIN cache :
          cache[k].item # None /\ cache[k] \in Entry /\ cache[k].expires <= now + Duration
    /\ calls \in [Callers -> Call]

\* A client that has been there since the request began is found, however many requests
\* have looked for it in vain before: a cache does not remember null.  A list without the
\* scopes or the claims that are missing is not null, and is remembered.
NewIsFound == answer # None /\ answer.item = None => answer.absent

\* What a cache adds to the stores is a delay.
Delayed == INSTANCE DelayedStore WITH
    current <- stored,
    Delay <- Duration + MaxFill - 1,
    answer <- IF answer = None THEN None
              ELSE [question |-> answer.question, item |-> answer.item]

\* The caches implement it: an answer is at most the duration and the time of a fill old,
\* whatever fills overtake one another, and one of the store to that very question when
\* the names that are asked for are plain.  Names that are not can be confused: a single
\* scope with a "," in its name has the key of the two scopes on its sides, and one with
\* the name of a list of all scopes has the key of that list.
AnswersAreRecent == Delayed!Spec
================================================================================

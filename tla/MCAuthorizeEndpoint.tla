-------------------------- MODULE MCAuthorizeEndpoint --------------------------
(* Instances of AuthorizeEndpoint for TLC: settings, accounts and requests. *)
EXTENDS AuthorizeEndpoint, TLC

CONSTANTS c1, c2, local, google, read, profile, offline

Everywhere == Subjects \X Idps
LocalOnly == Subjects \X {local}

NoRestrictions == [c \in Clients |-> {}]
GoogleForC1 == [c \in Clients |-> IF c = c1 THEN {google} ELSE {}]

Plain == [client |-> c1, scopes |-> {read, profile}, prompt |-> None,
          idp |-> None, maxAge |-> None]

\* A request whose consent is remembered and reused, and two that are asked all the same:
\* c2 may not remember consents.
ConsentRequests ==
    {Plain,
     [Plain EXCEPT !.scopes = {profile, offline}],
     [Plain EXCEPT !.client = c2, !.scopes = {read}]}

SignInRequests ==
    {[Plain EXCEPT !.client = c, !.prompt = p, !.idp = i, !.maxAge = age] :
        c \in Clients, p \in PromptModes \cup {None}, i \in {None, google}, age \in {None, 1}}

PlainRequest == {Plain}

SymmetricTabs == Permutations(Tabs)
================================================================================

-------------------------------- MODULE MCCaches --------------------------------
(* Caches for TLC: one client, two scopes, one user, and what is asked of them. *)
EXTENDS Caches, TLC

CONSTANTS client, user

MCClients == {client}
MCScopes == {1, 2}
MCPublicScopes == {1}
MCUsers == {user}

\* Two scopes, one with a separator in its name between theirs and one with the name of the
\* list of all scopes, both lists, a null key, and a claim of the user, all of them, and
\* none, which throws.
MCQuestions == {AskClient(client), AskClient(None), FindScopes(<<<<2>>, <<1>>>>),
                FindScopes(<<<<1, 2>>>>), FindScopes(<<<<AllScopesName>>>>),
                AllScopes, AllScopesPublic,
                AskProfile(user, <<<<1>>>>), AskProfile(user, None), AskProfile(user, <<>>)}

SymmetricCallers == Permutations(Callers)
================================================================================

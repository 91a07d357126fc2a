-------------------------- MODULE MCAuthorizationCodes --------------------------
(* Instances of AuthorizationCodes for TLC: the settings of the clients. *)
EXTENDS AuthorizationCodes, TLC

CONSTANTS c1, c2, t1, t2, u1, u2

Mixed == [c \in Clients |-> IF c = c1 THEN "HybridWithProofKey" ELSE "AuthorizationCode"]

OneUri == [c \in Clients |-> IF c = c1 THEN {u1} ELSE {u2}]
Zero == [c \in Clients |-> 0]

\* A digest that differs from its text.
Digest == [t \in Texts |-> IF t = t1 THEN t2 ELSE t1]

SymmetricValues == Permutations(Requests) \cup Permutations(Codes)
================================================================================

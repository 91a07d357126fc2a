---------------------------- MODULE MCRefreshTokens ----------------------------
(* Instances of RefreshTokens for TLC: the settings of the clients. *)
EXTENDS RefreshTokens, TLC

CONSTANTS c1, c2

OneTime == [c \in Clients |-> "OneTimeOnly"]
Mixed == [c \in Clients |-> IF c = c1 THEN "OneTimeOnly" ELSE "ReUse"]

Sliding == [c \in Clients |-> "Sliding"]
AbsoluteThenSliding == [c \in Clients |-> IF c = c1 THEN "Absolute" ELSE "Sliding"]

Jwt == [c \in Clients |-> "Jwt"]
Reference == [c \in Clients |-> "Reference"]

Zero == [c \in Clients |-> 0]
One == [c \in Clients |-> 1]
Two == [c \in Clients |-> 2]

SymmetricValues ==
    Permutations(Requests) \cup Permutations(Grants) \cup Permutations(Handles)
================================================================================

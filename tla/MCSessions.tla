------------------------------- MODULE MCSessions -------------------------------
(* Instances of Sessions for TLC. *)
EXTENDS Sessions, TLC

CONSTANTS a, b, u1, u2

SymmetricValues == Permutations(Tabs) \cup Permutations(Sids) \cup Permutations(Users)
================================================================================

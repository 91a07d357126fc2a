----------------------------- MODULE MCPermissions -----------------------------
(* Permissions for TLC: requests are interchangeable, and so are the ids. *)
EXTENDS Permissions, TLC

SymmetricActors == Permutations(Requests) \cup Permutations(Ids)
================================================================================

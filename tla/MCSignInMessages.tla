---------------------------- MODULE MCSignInMessages ----------------------------
(* SignInMessages for TLC: the tabs are interchangeable, and so are the frames. *)
EXTENDS SignInMessages, TLC

SymmetricTabs == Permutations(Tabs \ Frames) \cup Permutations(Frames)
================================================================================

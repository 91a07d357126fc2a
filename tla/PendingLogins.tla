----------------------------- MODULE PendingLogins -----------------------------
(***************************************************************************)
(* What the sign-in messages of a browser promise.  A login that was asked *)
(* for stays pending until it is completed, or given up for newer ones:    *)
(* only when Threshold - 1 later ones have arrived, or when 2 * Threshold  *)
(* have arrived in all.  Logins are numbered in the order they were asked  *)
(* for in.                                                                 *)
(***************************************************************************)
EXTENDS FiniteSets, Integers

CONSTANTS
    Logins,     \* the logins, a set of numbers
    Threshold   \* AuthenticationOptions.SignInMessageThreshold

VARIABLES
    pending,    \* the logins the browser can go on with
    arrived,    \* the logins that have been pending
    completed   \* the logins that were completed

vars == <<pending, arrived, completed>>

Init == pending = {} /\ arrived = {} /\ completed = {}

\* Those that may be given up when one more arrives.
Expendable ==
    {m \in pending : \/ Cardinality({n \in arrived : n > m}) >= Threshold - 1
                     \/ Cardinality(arrived) >= 2 * Threshold}

\* A new login arrives, and may take the place of others.
Arrive(m) ==
    /\ m \in Logins \ arrived
    /\ m \in pending' /\ pending' \subseteq pending \cup {m}
    /\ pending \ pending' \subseteq Expendable
    /\ arrived' = arrived \cup {m}
    /\ UNCHANGED completed

\* A login that was under way when its message was given up may still complete.
Complete(m) ==
    /\ m \in arrived
    /\ pending' = pending \ {m}
    /\ completed' = completed \cup {m}
    /\ UNCHANGED arrived

Next == \E m \in Logins : Arrive(m) \/ Complete(m)

Spec == Init /\ [][Next]_vars
================================================================================

------------------------------ MODULE DelayedStore ------------------------------
(***************************************************************************)
(* What a cache in front of a store promises: an answer may be late, but   *)
(* it is what the store would have said to the same question at most Delay *)
(* ago.  Nothing is promised of the order of the answers, and a question   *)
(* that is confused with another may get the answer to that one.           *)
(***************************************************************************)
EXTENDS Integers

CONSTANTS
    Questions,
    Contents,           \* what the store may hold
    Tell(_, _),         \* Tell(q, held): the answer of the store to a question
    TakenFor,           \* TakenFor[q]: the questions whose answer q may get
    Delay, LastTime, None

VARIABLES
    now,        \* the time
    current,    \* what the store holds
    held,       \* held[t]: what it has held at the time t
    answer      \* what this step answers, if it does

vars == <<now, current, held, answer>>

Init ==
    /\ now = 0
    /\ current \in Contents
    /\ held = [t \in 0 .. LastTime |-> IF t = 0 THEN {current} ELSE {}]
    /\ answer = None

Change ==
    /\ current' \in Contents
    /\ held' = [held EXCEPT ![now] = @ \cup {current'}]
    /\ answer' = None
    /\ UNCHANGED now

Tick ==
    /\ now < LastTime
    /\ now' = now + 1
    /\ held' = [held EXCEPT ![now'] = {current}]
    /\ answer' = None
    /\ UNCHANGED current

\* The times whose answers will still do.
Recent == {t \in 0 .. now : t >= now - Delay}

Answer ==
    /\ \E q \in Questions, t \in Recent : \E p \in TakenFor[q], contents \in held[t] :
          answer' = [question |-> q, item |-> Tell(p, contents)]
    /\ UNCHANGED <<now, current, held>>

Pause ==
    /\ answer' = None
    /\ UNCHANGED <<now, current, held>>

Next == Change \/ Tick \/ Answer \/ Pause

Spec == Init /\ [][Next]_vars
================================================================================

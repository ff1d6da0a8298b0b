-------------------------- MODULE BoundedResource ---------------------------
(***************************************************************************)
(* What a pool of threads promises: whoever wants one waits for it, and no *)
(* more than Limit have one at a time.                                     *)
(***************************************************************************)
EXTENDS Naturals, FiniteSets

CONSTANTS Client, Limit

VARIABLES waiting, holding

vars == <<waiting, holding>>

Init == waiting = {} /\ holding = {}

Request(c) ==
    /\ c \notin waiting \cup holding
    /\ waiting' = waiting \cup {c}
    /\ UNCHANGED holding

Grant(c) ==
    /\ c \in waiting
    /\ Cardinality(holding) < Limit
    /\ waiting' = waiting \ {c}
    /\ holding' = holding \cup {c}

GiveUp(c) ==
    /\ c \in waiting
    /\ waiting' = waiting \ {c}
    /\ UNCHANGED holding

Release(c) ==
    /\ c \in holding
    /\ holding' = holding \ {c}
    /\ UNCHANGED waiting

Next == \E c \in Client : Request(c) \/ Grant(c) \/ GiveUp(c) \/ Release(c)
Spec == Init /\ [][Next]_vars
=============================================================================

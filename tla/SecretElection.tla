--------------------------- MODULE SecretElection ---------------------------
(***************************************************************************)
(* What a single secret leader election promises: it is decided once, in a *)
(* single step as far as anybody outside can see, and at most one of the   *)
(* nodes holds a winning commitment.  It may also be abandoned.            *)
(***************************************************************************)
EXTENDS Integers, FiniteSets

CONSTANT Nodes

VARIABLES phase,    \* "open", "decided" or "abandoned"
          winners   \* the nodes whose commitment opens to the winning value

vars == <<phase, winners>>

Init == phase = "open" /\ winners = {}

Decide ==
    /\ phase = "open"
    /\ phase' = "decided"
    /\ winners' \in {{}} \cup {{n} : n \in Nodes}

Abandon ==
    /\ phase = "open"
    /\ phase' = "abandoned"
    /\ UNCHANGED winners

Next == Decide \/ Abandon

Safety == Init /\ [][Next]_vars

Spec == Safety /\ WF_vars(Next)
=============================================================================

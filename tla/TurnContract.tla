------------------------------ MODULE TurnContract -----------------------------
(***************************************************************************)
(* What the closing of a turn promises, in four facts: the turn is closed   *)
(* with what was frozen first, the planner's decision comes after it, once, *)
(* and every advance is by that decision.                                   *)
(***************************************************************************)
CONSTANTS Inputs, NoInputs, Decisions

VARIABLES
    frozen,     \* what the turn is closed with
    closed,     \* its four-part closure
    decision,   \* what it was aligned with
    outcome     \* what it advanced with

vars == <<frozen, closed, decision, outcome>>

Undecided == "none"

Init == frozen = NoInputs /\ closed = NoInputs /\ decision = Undecided /\ outcome = Undecided

Freeze ==
    /\ frozen = NoInputs
    /\ frozen' \in Inputs
    /\ UNCHANGED <<closed, decision, outcome>>

Close ==
    /\ frozen # NoInputs /\ closed = NoInputs
    /\ closed' = frozen
    /\ UNCHANGED <<frozen, decision, outcome>>

Decide ==
    /\ closed # NoInputs /\ decision = Undecided
    /\ decision' \in Decisions
    /\ UNCHANGED <<frozen, closed, outcome>>

Advance ==
    /\ decision # Undecided
    /\ outcome' = decision
    /\ UNCHANGED <<frozen, closed, decision>>

Next == Freeze \/ Close \/ Decide \/ Advance

Spec == Init /\ [][Next]_vars
===============================================================================

--------------------------------- MODULE MCTurn --------------------------------
EXTENDS TurnProperties, TLC

CONSTANTS c1, c2, c3, v1, v2

\* Calls are interchangeable, and what a turn is closed with is.
Symmetric == Permutations(Children) \cup Permutations(Inputs)
===============================================================================

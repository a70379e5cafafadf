-------------------------------- MODULE MCJournal --------------------------------
EXTENDS JournalProperties, TLC

CONSTANTS c1, c2, c3, p1, p2, p3, k1, k2, f1, f2

\* One id with two facts, and another id.
MCInputs == {[id |-> k1, fact |-> f1], [id |-> k1, fact |-> f2], [id |-> k2, fact |-> 1]}

MCOneInput == {[id |-> k1, fact |-> f1]}

\* Calls and processes are interchangeable, and the facts of k1 are.
Symmetric ==
    Permutations(Callers) \cup Permutations(Processes) \cup Permutations({f1, f2})
===============================================================================

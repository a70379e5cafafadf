------------------------------- MODULE JournalLog -------------------------------
(***************************************************************************)
(* What an organ journal promises, whatever happens to its processes: one  *)
(* log that only grows, by one record at a time, and never takes the same  *)
(* commit id twice.                                                        *)
(***************************************************************************)
EXTENDS Naturals, Sequences

CONSTANT Records      \* [id, fact]

VARIABLE log

Init == log = <<>>

Append1(r) ==
    /\ \A i \in 1 .. Len(log) : log[i].id # r.id
    /\ log' = Append(log, r)

Next == \E r \in Records : Append1(r)

Spec == Init /\ [][Next]_log
===============================================================================

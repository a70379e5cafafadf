------------------------------- MODULE MCGateway -------------------------------
(* Instances of the gateway for TLC. *)
EXTENDS GatewayProperties, TLC

CONSTANTS c1, c2, c3, o1, o2, k1, k2

Keep == [after |-> "keep", effect |-> "keep", retry |-> "keep"]
Allow == [Keep EXCEPT !.retry = "allow"]

MCOneIntent == {[op |-> o1, key |-> k1, fp |-> "f1"]}
\* Two operations that compete for one key.
MCOneKey == {[op |-> o, key |-> k1, fp |-> "f1"] : o \in {o1, o2}}
MCResumeInputs == {Keep, Allow}

\* Bound: nothing is explored beyond the step in which a read overtakes an
\* operation.  What is said of operations that no read has overtaken is said of
\* the behaviours up to there.
UntilOvertaken == overtaken = {}

\* Calls are interchangeable (safety runs only).
CallerSymmetry == Permutations(Callers)
================================================================================

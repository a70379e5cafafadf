------------------------------- MODULE MCDispatch ------------------------------
(* Instances of the manager over the pool for TLC. *)
EXTENDS DispatchProperties, TLC

CONSTANTS d1, d2, w1, w2, r1, r2, a1, a2

MCWorker == (d1 :> w1) @@ (d2 :> w2)
MCReviewer == (d1 :> r1) @@ (d2 :> r2)
MCNeeds == (w1 :> {"execute"}) @@ (w2 :> {"execute"}) @@ (r1 :> {"review"}) @@ (r2 :> {"review"})

\* The two dispatches may be exchanged with the clients they acquire with.
MCSymmetry == {[m \in {d1, d2, w1, w2, r1, r2} |-> m],
               (d1 :> d2) @@ (d2 :> d1) @@ (w1 :> w2) @@ (w2 :> w1) @@ (r1 :> r2) @@ (r2 :> r1)}
================================================================================

------------------------------ MODULE EventContract ------------------------------
(***************************************************************************)
(* What the event bus promises a consumer (agent-communication-and-feedback, *)
(* section 5): the events of a stream are acknowledged one after another, none *)
(* before its message has a final outcome, and an outcome is given once.        *)
(***************************************************************************)
EXTENDS Naturals, Sequences

CONSTANTS Streams, Messages, Outcomes, NoOutcome

VARIABLES
    published,      \* the messages of each stream
    acknowledged,   \* how many of them are acknowledged
    outcome         \* outcome of each event

contractVars == <<published, acknowledged, outcome>>

Known(m) == \E s \in Streams : outcome[<<s, m>>] # NoOutcome

Init ==
    /\ published = [s \in Streams |-> <<>>]
    /\ acknowledged = [s \in Streams |-> 0]
    /\ outcome = [e \in Streams \X Messages |-> NoOutcome]

Publish(s, m) ==
    /\ published' = [published EXCEPT ![s] = Append(@, m)]
    /\ UNCHANGED <<acknowledged, outcome>>

\* The next event of a stream is acknowledged with its outcome, or with the one
\* that its message has already, on this stream or on another.
Acknowledge(s) ==
    /\ acknowledged[s] < Len(published[s])
    /\ LET m == published[s][acknowledged[s] + 1] IN
       \/ /\ outcome[<<s, m>>] = NoOutcome
          /\ \E o \in Outcomes : outcome' = [outcome EXCEPT ![<<s, m>>] = o]
       \/ Known(m) /\ UNCHANGED outcome
    /\ acknowledged' = [acknowledged EXCEPT ![s] = @ + 1]
    /\ UNCHANGED published

\* A delivery that was overtaken by the acknowledgement of another stream's
\* outcome may still record its own.
Record(s, i) ==
    /\ i \in 1 .. acknowledged[s]
    /\ outcome[<<s, published[s][i]>>] = NoOutcome
    /\ \E o \in Outcomes : outcome' = [outcome EXCEPT ![<<s, published[s][i]>>] = o]
    /\ UNCHANGED <<published, acknowledged>>

Next ==
    \E s \in Streams :
       \/ \E m \in Messages : Publish(s, m)
       \/ Acknowledge(s)
       \/ \E i \in 1 .. acknowledged[s] : Record(s, i)

Spec == Init /\ [][Next]_contractVars
================================================================================

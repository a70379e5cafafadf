--------------------------- MODULE OperationContract ---------------------------
(***************************************************************************)
(* What a caller of the tool-execution gateway may rely on for each        *)
(* operation, with no journal, cache, lock or call in sight: an operation  *)
(* is admitted once, moves along the lifecycle table, runs again only      *)
(* while it is known to have had no effect, performs its external effect   *)
(* at most once and only while it is running, and never leaves a terminal  *)
(* status.  The contract of an operation may become void, once and for     *)
(* all: it then promises nothing.                                          *)
(***************************************************************************)
EXTENDS OperationLifecycle, Naturals

CONSTANT Operations

VARIABLES
    status,      \* the status a reader of the journal sees, "none" or "void"
    epoch,       \* the execution epoch of that status
    performed    \* whether the external effect has happened

vars == <<status, epoch, performed>>

Init ==
    /\ status = [o \in Operations |-> "none"]
    /\ epoch = [o \in Operations |-> 0]
    /\ performed = [o \in Operations |-> FALSE]

Accept(o) ==
    /\ status[o] = "none"
    /\ status' = [status EXCEPT ![o] = "accepted"]
    /\ epoch' = [epoch EXCEPT ![o] = 1]
    /\ UNCHANGED performed

\* A run starts under a fresh epoch unless it is the operation's first, and
\* never after an effect.
Lease(o) ==
    /\ status[o] = "queued"
    /\ ~performed[o]
    /\ status' = [status EXCEPT ![o] = "leased"]
    /\ \E e \in {epoch[o], epoch[o] + 1} : epoch' = [epoch EXCEPT ![o] = e]
    /\ UNCHANGED performed

\* The outcome of a running operation passes through "settling", which is
\* not published.
Reaches(from, to) ==
    \/ CanTransitionOperationStatus(from, to)
    \/ /\ CanTransitionOperationStatus(from, "settling")
       /\ CanTransitionOperationStatus("settling", to)

Move(o) ==
    /\ status[o] \notin {"none", "void"}
    /\ \E to \in OperationStatus \ {"leased", "settling"} :
         /\ Reaches(status[o], to)
         /\ status' = [status EXCEPT ![o] = to]
    /\ UNCHANGED <<epoch, performed>>

Perform(o) ==
    /\ status[o] = "running"
    /\ ~performed[o]
    /\ performed' = [performed EXCEPT ![o] = TRUE]
    /\ UNCHANGED <<status, epoch>>

Void(S) ==
    /\ \A o \in S : status[o] # "none"
    /\ status' = [o \in Operations |-> IF o \in S THEN "void" ELSE status[o]]
    /\ epoch' = [o \in Operations |-> IF o \in S THEN 0 ELSE epoch[o]]
    /\ performed' = [o \in Operations |-> o \notin S /\ performed[o]]

Next ==
    \/ \E o \in Operations : Accept(o) \/ Lease(o) \/ Move(o) \/ Perform(o)
    \/ \E S \in SUBSET Operations : Void(S)

Spec == Init /\ [][Next]_vars
===============================================================================

--------------------------- MODULE AssignmentDispatch --------------------------
(***************************************************************************)
(* The orchestration manager (orchestration/manager.ts) over its assignment *)
(* graph (assignment-graph.ts) and the runtime pool.  A dispatch acquires a *)
(* runtime for an assignment, executes it, accepts the result, has it       *)
(* reviewed by another runtime of the same pool, settles the assignment in  *)
(* the graph and releases what it holds.  An assignment here is one         *)
(* attempt; the remediation of a failed one is another assignment.          *)
(***************************************************************************)
EXTENDS RuntimePool

CONSTANTS
    Dispatches,     \* dispatch calls that may be in progress at the same time
    Worker,         \* the client with which each acquires its executor
    Reviewer,       \* ... and its reviewer
    Assignments,
    CanRetry,       \* those whose attempt is below the manager's maximum
    MustMerge       \* those with a required merge gate

ASSUME DispatchAssumption ==
    /\ Worker \in [Dispatches -> Clients] /\ Reviewer \in [Dispatches -> Clients]
    /\ None \notin Assignments
    /\ CanRetry \subseteq Assignments /\ MustMerge \subseteq Assignments

\* A client stands for one acquisition: no two dispatches share one.
ASSUME ClientsAssumption == \A d, e \in Dispatches :
    /\ Worker[d] # Reviewer[e]
    /\ d # e => Worker[d] # Worker[e] /\ Reviewer[d] # Reviewer[e]

VARIABLES
    graph,      \* the status of each assignment
    dispatch,   \* where each dispatch is and which assignment it is for
    executions  \* how often each assignment was handed to an executor

dispatchVars == <<graph, dispatch, executions>>
vars == <<poolVars, dispatchVars>>

-------------------------------------------------------------------------------
(* The assignment graph. *)

Statuses == {"absent", "planned", "running", "succeeded", "blocked", "escalated",
             "retryable", "merged"}
DispatchStates == {"idle", "acquiring", "preparing", "executing", "reviewing",
                   "reviewed", "releasing"}

\* Statuses beginDispatch answers without a dispatch.
Answered == {"running", "succeeded", "blocked", "escalated", "merged"}

\* Mutant: a success does not survive a failed release.
KeptMerged == {"merged"}

\* Statuses that survive a failed release.
Kept == {"succeeded", "merged"}

Mark(a, status) == graph' = [graph EXCEPT ![a] = status]

\* blockedResult keeps an escalation.
Blocked(a) == IF graph[a] = "escalated" THEN UNCHANGED graph ELSE Mark(a, "blocked")

InFlight(a) == \E d \in Dispatches : dispatch[d].of = a

Idle == [pc |-> "idle", of |-> None]
Ended(d) == dispatch' = [dispatch EXCEPT ![d] = Idle]
Goto(d, pc) == dispatch' = [dispatch EXCEPT ![d].pc = pc]

-------------------------------------------------------------------------------
(* dispatch *)

\* beginDispatch, and the acquisition it leads to.
Begin(d, a) ==
    /\ dispatch[d].pc = "idle"
    /\ ~InFlight(a)
    /\ graph[a] \notin Answered
    /\ graph' = [graph EXCEPT ![a] = IF @ = "absent" THEN "planned" ELSE @]
    /\ dispatch' = [dispatch EXCEPT ![d] = [pc |-> "acquiring", of |-> a]]
    /\ Acquire(Worker[d])
    /\ UNCHANGED executions

\* Without a runtime the dispatch ends and the assignment may be dispatched again.
Refused(d) ==
    /\ dispatch[d].pc = "acquiring"
    /\ client[Worker[d]].pc = "refused"
    /\ Freed(Worker[d])
    /\ Ended(d)
    /\ UNCHANGED <<runtimes, handles, disposed, sweep, graph, executions>>

\* Mutant: an assignment that was tried before is not fenced.
AssignAgain(d) ==
    LET a == dispatch[d].of IN
    /\ dispatch[d].pc = "acquiring"
    /\ client[Worker[d]].pc = "held"
    /\ Mark(a, "running")
    /\ Goto(d, "preparing")
    /\ UNCHANGED <<poolVars, executions>>

\* assign and start.  An assignment that was tried before is fenced, by the
\* binding it kept or by the agent it lost.
Assign(d) ==
    LET a == dispatch[d].of IN
    /\ dispatch[d].pc = "acquiring"
    /\ client[Worker[d]].pc = "held"
    /\ \/ /\ graph[a] = "planned"
          /\ Mark(a, "running")
          /\ Goto(d, "preparing")
       \/ /\ graph[a] # "planned"
          /\ Blocked(a)
          /\ Goto(d, "releasing")
    /\ UNCHANGED <<poolVars, executions>>

\* The checkpoint of the call is durable before the executor is invoked.
Prepare(d) ==
    /\ dispatch[d].pc = "preparing"
    /\ \/ /\ Goto(d, "executing")
          /\ executions' = [executions EXCEPT ![dispatch[d].of] = @ + 1]
          /\ UNCHANGED graph
       \/ /\ Blocked(dispatch[d].of)
          /\ Goto(d, "releasing")
          /\ UNCHANGED executions
    /\ UNCHANGED poolVars

\* The executor throws.
ExecuteThrows(d) ==
    LET a == dispatch[d].of IN
    /\ dispatch[d].pc = "executing"
    /\ IF a \in CanRetry
       THEN Mark(a, "retryable") \/ Mark(a, "blocked")  \* the retry could not be published
       ELSE Mark(a, "escalated")
    /\ Goto(d, "releasing")
    /\ UNCHANGED <<poolVars, executions>>

\* A result that does not succeed, or that cannot be recorded, accepted or
\* published.
ExecuteEnds(d) ==
    LET a == dispatch[d].of IN
    /\ dispatch[d].pc = "executing"
    /\ \E status \in {"blocked", "escalated", "retryable"} :
          /\ status = "retryable" => a \in CanRetry
          /\ Mark(a, status)
    /\ Goto(d, "releasing")
    /\ UNCHANGED <<poolVars, executions>>

\* A successful result completes the assignment or goes on to its review.
ExecuteSucceeds(d) ==
    LET a == dispatch[d].of IN
    /\ dispatch[d].pc = "executing"
    /\ \/ /\ a \notin MustMerge
          /\ Mark(a, "succeeded")
          /\ Goto(d, "releasing")
          /\ UNCHANGED poolVars
       \/ /\ Goto(d, "reviewing")
          /\ Acquire(Reviewer[d])
          /\ UNCHANGED graph
    /\ UNCHANGED executions

\* No runtime for the reviewer: the wait of a full pool blocks the assignment,
\* because the worker's runtime is still held.
ReviewRefused(d) ==
    /\ dispatch[d].pc = "reviewing"
    /\ client[Reviewer[d]].pc = "refused"
    /\ Freed(Reviewer[d])
    /\ Blocked(dispatch[d].of)
    /\ Goto(d, "releasing")
    /\ UNCHANGED <<runtimes, handles, disposed, sweep, executions>>

\* The review is committed, or not; its runtime is released in either case.
Review(d) ==
    /\ dispatch[d].pc = "reviewing"
    /\ client[Reviewer[d]].pc = "held"
    /\ Release(Reviewer[d])
    /\ Goto(d, "reviewed")
    /\ UNCHANGED <<graph, executions>>

\* The gate decides, and the merge if one is required.
Gate(d) ==
    LET a == dispatch[d].of IN
    /\ dispatch[d].pc = "reviewed"
    /\ \/ /\ client[Reviewer[d]].pc \in {"released", "unreleased"}
          /\ Blocked(a)
       \/ /\ client[Reviewer[d]].pc = "released"
          /\ \/ a \in CanRetry /\ Mark(a, "retryable")
             \/ a \notin CanRetry /\ Mark(a, "escalated")
             \/ Mark(a, IF a \in MustMerge THEN "merged" ELSE "succeeded")
    /\ Freed(Reviewer[d])
    /\ Goto(d, "releasing")
    /\ UNCHANGED <<runtimes, handles, disposed, sweep, executions>>

\* Mutant: a blocked assignment may keep its worker.
ReleaseWorkerUnlessBlocked(d) ==
    /\ dispatch[d].pc = "releasing"
    /\ client[Worker[d]].pc = "held"
    /\ \/ Release(Worker[d]) /\ UNCHANGED dispatch
       \/ graph[dispatch[d].of] = "blocked" /\ Ended(d) /\ UNCHANGED poolVars
    /\ UNCHANGED <<graph, executions>>

\* Whatever happened, the worker's lease is released and the call returns.
ReleaseWorker(d) ==
    /\ dispatch[d].pc = "releasing"
    /\ client[Worker[d]].pc = "held"
    /\ Release(Worker[d])
    /\ UNCHANGED dispatchVars

Return(d) ==
    LET a == dispatch[d].of IN
    /\ dispatch[d].pc = "releasing"
    /\ client[Worker[d]].pc \in {"released", "unreleased"}
    /\ IF client[Worker[d]].pc = "released" \/ graph[a] \in Kept
       THEN UNCHANGED graph
       ELSE Mark(a, "blocked")
    /\ Freed(Worker[d])
    /\ Ended(d)
    /\ UNCHANGED <<runtimes, handles, disposed, sweep, executions>>

-------------------------------------------------------------------------------
Init ==
    /\ PoolInit
    /\ graph = [a \in Assignments |-> "absent"]
    /\ dispatch = [d \in Dispatches |-> Idle]
    /\ executions = [a \in Assignments |-> 0]

Step(d) ==
    \/ \E a \in Assignments : Begin(d, a)
    \/ Refused(d) \/ Assign(d) \/ Prepare(d)
    \/ ExecuteThrows(d) \/ ExecuteEnds(d) \/ ExecuteSucceeds(d)
    \/ ReviewRefused(d) \/ Review(d) \/ Gate(d)
    \/ ReleaseWorker(d) \/ Return(d)

Next == (\E d \in Dispatches : Step(d)) \/ (PoolStep /\ UNCHANGED dispatchVars)

Spec == Init /\ [][Next]_vars
================================================================================

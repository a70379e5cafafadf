----------------------------- MODULE DispatchProofs -----------------------------
(***************************************************************************)
(* Theorems about the orchestration manager over its assignment graph and  *)
(* the runtime pool, for any number of dispatches, assignments, clients    *)
(* and runtimes, every capacity and every set of faults.                   *)
(*                                                                         *)
(* The first part relates the status of an assignment to the dispatch that *)
(* works on it, whatever the pool answers: only the one dispatch at an     *)
(* assignment changes its status, and it knows where it is.                *)
(*                                                                         *)
(* The second relates the record of a runtime to the clients that start or *)
(* hold it, and to the dispose that may be under way.  What makes it       *)
(* inductive: only one client starts a runtime, a record whose startup is  *)
(* not over is leased to nobody, and a record leaves the map only when its *)
(* runtime is gone.                                                        *)
(*                                                                         *)
(* The third accounts for what is left: a runtime that starts, runs or     *)
(* rejects a handle has a client at it, and what the dispose has passed is *)
(* gone.  The fourth says where the clients of a dispatch are, so that a   *)
(* dispatch that has returned has none at a runtime.                       *)
(***************************************************************************)
EXTENDS DispatchProperties, NaturalExtrema, FiniteSetTheorems, SequenceTheorems, TLAPS

-------------------------------------------------------------------------------
(***************************************************************************)
(* Assignments.                                                            *)
(***************************************************************************)
Working == {"preparing", "executing", "reviewing", "reviewed"}

GraphTypes ==
    /\ graph \in [Assignments -> Statuses]
    /\ dispatch \in [Dispatches -> [pc : DispatchStates, of : Assignments \cup {None}]]
    /\ executions \in [Assignments -> Nat]

DispatchOK(d) ==
    LET a == dispatch[d].of IN
    /\ dispatch[d].pc = "idle" <=> a = None
    /\ dispatch[d].pc = "acquiring" => graph[a] \in {"planned", "retryable"}
    /\ dispatch[d].pc \in Working => graph[a] = "running"
    /\ dispatch[d].pc = "preparing" => executions[a] = 0

AssignmentOK(a) ==
    /\ graph[a] \in {"absent", "planned"} => executions[a] = 0
    /\ executions[a] <= 1
    /\ graph[a] = "running" =>
          \E d \in Dispatches : dispatch[d].of = a /\ dispatch[d].pc \in Working

\* Two dispatches are never at the same assignment.
OneDispatch ==
    \A d, e \in Dispatches :
        dispatch[d].of = dispatch[e].of /\ dispatch[d].of # None => d = e

GraphInv ==
    /\ GraphTypes /\ OneDispatch
    /\ \A d \in Dispatches : DispatchOK(d)
    /\ \A a \in Assignments : AssignmentOK(a)

Settled == {"succeeded", "merged", "blocked"}

StaysSettled ==
    \A a \in Assignments : graph[a] \in Settled => graph'[a] = graph[a]

\* What a dispatch does to its assignment: it goes from one status to another
\* and from one place to another, maybe with an execution.
LEMMA Moves ==
  ASSUME GraphInv, NEW d \in Dispatches, NEW a \in Assignments, dispatch[d].of = a,
         NEW status \in Statuses, NEW pc \in DispatchStates \ {"idle", "acquiring"},
         NEW more \in {0, 1},
         graph' = [graph EXCEPT ![a] = status],
         dispatch' = [dispatch EXCEPT ![d].pc = pc],
         executions' = [executions EXCEPT ![a] = @ + more],
         status = "running" <=> pc \in Working,
         status \notin {"absent", "planned"},
         pc = "preparing" => executions[a] = 0 /\ more = 0,
         more = 1 => executions[a] = 0,
         graph[a] \in Settled => status = graph[a]
  PROVE  GraphInv' /\ StaysSettled
<1>1. /\ a # None /\ dispatch[d].pc # "idle"
      /\ \A e \in Dispatches \ {d} : dispatch[e].of # a
  BY DispatchAssumption DEF GraphInv, OneDispatch, DispatchOK
<1>2. /\ dispatch'[d].pc = pc /\ dispatch'[d].of = a
      /\ \A e \in Dispatches \ {d} : dispatch'[e] = dispatch[e]
      /\ graph'[a] = status /\ executions'[a] = executions[a] + more
      /\ \A b \in Assignments \ {a} : graph'[b] = graph[b] /\ executions'[b] = executions[b]
  BY DEF GraphInv, GraphTypes
<1>3. GraphTypes'
  BY DEF GraphInv, GraphTypes
<1>4. OneDispatch'
  BY <1>2 DEF GraphInv, OneDispatch
<1>5. ASSUME NEW e \in Dispatches
      PROVE  DispatchOK(e)'
  <2>1. CASE e = d
    BY <1>1, <1>2, <2>1 DEF DispatchOK, Working, GraphInv, GraphTypes
  <2>2. CASE e # d
    <3>1. dispatch[e].of \in Assignments \cup {None}
      BY DEF GraphInv, GraphTypes
    <3>2. DispatchOK(e) /\ dispatch'[e] = dispatch[e] /\ dispatch[e].of # a
      BY <1>1, <1>2, <2>2 DEF GraphInv
    <3> QED
      BY <1>2, <3>1, <3>2 DEF DispatchOK, Working, DispatchStates
  <2> QED
    BY <2>1, <2>2
<1>6. ASSUME NEW b \in Assignments
      PROVE  AssignmentOK(b)'
  <2>1. CASE b = a
    <3>1. executions[a] \in Nat /\ executions[a] <= 1
      BY DEF GraphInv, GraphTypes, AssignmentOK
    <3> QED
      BY <1>2, <2>1, <3>1 DEF AssignmentOK
  <2>2. CASE b # a
    <3>1. AssignmentOK(b) /\ graph'[b] = graph[b] /\ executions'[b] = executions[b]
      BY <1>2, <2>2 DEF GraphInv
    <3>2. ASSUME graph[b] = "running"
          PROVE  \E e \in Dispatches : dispatch'[e].of = b /\ dispatch'[e].pc \in Working
      <4>1. PICK e \in Dispatches : dispatch[e].of = b /\ dispatch[e].pc \in Working
        BY <3>1, <3>2 DEF AssignmentOK
      <4> QED
        BY <1>2, <2>2, <4>1
    <3> QED
      BY <3>1, <3>2 DEF AssignmentOK
  <2> QED
    BY <2>1, <2>2
<1>7. StaysSettled
  BY <1>2 DEF StaysSettled
<1> QED
  BY <1>3, <1>4, <1>5, <1>6, <1>7 DEF GraphInv

LEMMA AtAssignment ==
  ASSUME GraphInv, NEW d \in Dispatches, dispatch[d].pc # "idle"
  PROVE  /\ dispatch[d].of \in Assignments /\ dispatch[d].of # None
         /\ graph \in [Assignments -> Statuses] /\ executions \in [Assignments -> Nat]
         /\ \A e \in Dispatches \ {d} : dispatch[e].of # dispatch[d].of
BY DEF GraphInv, GraphTypes, DispatchOK, OneDispatch

LEMMA BeginGraph ==
  ASSUME GraphInv, NEW d \in Dispatches, NEW a \in Assignments, Begin(d, a)
  PROVE  GraphInv' /\ StaysSettled
<1>1. /\ dispatch[d].pc = "idle" /\ graph[a] \notin Answered /\ a # None
      /\ \A e \in Dispatches : dispatch[e].of # a
      /\ graph' = [graph EXCEPT ![a] = IF @ = "absent" THEN "planned" ELSE @]
      /\ dispatch' = [dispatch EXCEPT ![d] = [pc |-> "acquiring", of |-> a]]
      /\ UNCHANGED executions
  BY DispatchAssumption DEF Begin, InFlight
<1>2. /\ dispatch'[d] = [pc |-> "acquiring", of |-> a]
      /\ \A e \in Dispatches \ {d} : dispatch'[e] = dispatch[e]
      /\ graph'[a] \in {"planned", "retryable"} /\ graph[a] \in {"absent", "planned", "retryable"}
      /\ \A b \in Assignments \ {a} : graph'[b] = graph[b]
  BY <1>1 DEF GraphInv, GraphTypes, Answered, Statuses
<1>3. GraphTypes'
  BY <1>1 DEF GraphInv, GraphTypes, Statuses, DispatchStates
<1>4. OneDispatch'
  BY <1>1, <1>2 DEF GraphInv, OneDispatch
<1>5. ASSUME NEW e \in Dispatches
      PROVE  DispatchOK(e)'
  <2>1. CASE e = d
    BY <1>1, <1>2, <2>1 DEF DispatchOK, Working
  <2>2. CASE e # d
    <3>1. DispatchOK(e) /\ dispatch'[e] = dispatch[e] /\ dispatch[e].of \in Assignments \cup {None}
          /\ dispatch[e].of # a
      BY <1>1, <1>2, <2>2 DEF GraphInv, GraphTypes
    <3> QED
      BY <1>1, <1>2, <3>1 DEF DispatchOK, Working
  <2> QED
    BY <2>1, <2>2
<1>6. ASSUME NEW b \in Assignments
      PROVE  AssignmentOK(b)'
  <2>1. CASE b = a
    <3>1. AssignmentOK(a) /\ (graph'[a] = "planned" => graph[a] \in {"absent", "planned"})
      BY <1>1, <1>2 DEF GraphInv, GraphTypes
    <3> QED
      BY <1>1, <1>2, <2>1, <3>1 DEF AssignmentOK
  <2>2. CASE b # a
    <3>1. AssignmentOK(b) /\ graph'[b] = graph[b] /\ executions' = executions
      BY <1>1, <1>2, <2>2 DEF GraphInv
    <3>2. ASSUME graph[b] = "running"
          PROVE  \E e \in Dispatches : dispatch'[e].of = b /\ dispatch'[e].pc \in Working
      <4>1. PICK e \in Dispatches : dispatch[e].of = b /\ dispatch[e].pc \in Working
        BY <3>1, <3>2 DEF AssignmentOK
      <4>2. e # d
        BY <1>1, <4>1 DEF Working
      <4> QED
        BY <1>2, <4>1, <4>2
    <3> QED
      BY <3>1, <3>2 DEF AssignmentOK
  <2> QED
    BY <2>1, <2>2
<1>7. StaysSettled
  BY <1>2 DEF StaysSettled, Settled
<1> QED
  BY <1>3, <1>4, <1>5, <1>6, <1>7 DEF GraphInv

\* A dispatch that is not working on its assignment ends.
LEMMA EndsGraph ==
  ASSUME GraphInv, NEW d \in Dispatches, NEW a, a = dispatch[d].of,
         dispatch[d].pc \in {"acquiring", "releasing"}, Ended(d), UNCHANGED executions,
         UNCHANGED graph \/ (dispatch[d].pc = "releasing" /\ graph[a] \notin {"succeeded", "merged"}
                             /\ Mark(a, "blocked"))
  PROVE  GraphInv' /\ StaysSettled
<1>1. /\ a \in Assignments /\ a # None
      /\ graph \in [Assignments -> Statuses] /\ executions \in [Assignments -> Nat]
      /\ \A e \in Dispatches \ {d} : dispatch[e].of # a
  BY AtAssignment
<1>2. /\ dispatch'[d] = [pc |-> "idle", of |-> None]
      /\ \A e \in Dispatches \ {d} : dispatch'[e] = dispatch[e]
      /\ graph'[a] = graph[a] \/ (graph'[a] = "blocked" /\ graph[a] \notin {"succeeded", "merged"})
      /\ \A b \in Assignments \ {a} : graph'[b] = graph[b]
      /\ graph' \in [Assignments -> Statuses]
  BY <1>1 DEF GraphInv, GraphTypes, Ended, Idle, Mark, Statuses
<1>3. graph[a] # "running"
  BY <1>1 DEF GraphInv, AssignmentOK, Working
<1>4. GraphTypes'
  BY <1>2 DEF GraphInv, GraphTypes, Ended, Idle, DispatchStates
<1>5. OneDispatch'
  BY <1>2 DEF GraphInv, OneDispatch
<1>6. ASSUME NEW e \in Dispatches
      PROVE  DispatchOK(e)'
  <2>1. CASE e = d
    BY <1>2, <2>1 DEF DispatchOK, Working
  <2>2. CASE e # d
    <3>1. DispatchOK(e) /\ dispatch'[e] = dispatch[e] /\ dispatch[e].of \in Assignments \cup {None}
          /\ dispatch[e].of # a
      BY <1>1, <1>2, <2>2 DEF GraphInv, GraphTypes
    <3> QED
      BY <1>1, <1>2, <3>1 DEF DispatchOK, Working
  <2> QED
    BY <2>1, <2>2
<1>7. ASSUME NEW b \in Assignments
      PROVE  AssignmentOK(b)'
  <2>1. CASE b = a
    BY <1>1, <1>2, <1>3, <2>1 DEF GraphInv, AssignmentOK
  <2>2. CASE b # a
    <3>1. AssignmentOK(b) /\ graph'[b] = graph[b] /\ executions' = executions
      BY <1>2, <2>2 DEF GraphInv
    <3>2. ASSUME graph[b] = "running"
          PROVE  \E e \in Dispatches : dispatch'[e].of = b /\ dispatch'[e].pc \in Working
      <4>1. PICK e \in Dispatches : dispatch[e].of = b /\ dispatch[e].pc \in Working
        BY <3>1, <3>2 DEF AssignmentOK
      <4>2. e # d
        BY <2>2, <4>1
      <4> QED
        BY <1>2, <4>1, <4>2
    <3> QED
      BY <3>1, <3>2 DEF AssignmentOK
  <2> QED
    BY <2>1, <2>2
<1>8. StaysSettled
  BY <1>2 DEF StaysSettled, Settled
<1> QED
  BY <1>4, <1>5, <1>6, <1>7, <1>8 DEF GraphInv

LEMMA StepGraph ==
  ASSUME GraphInv, NEW d \in Dispatches, Step(d)
  PROVE  GraphInv' /\ StaysSettled
<1> DEFINE a == dispatch[d].of
\* Moves, once the status and the place are known.
<1>1. ASSUME dispatch[d].pc # "idle", NEW status \in Statuses \ {"absent", "planned"},
             NEW pc \in DispatchStates \ {"idle", "acquiring"}, NEW more \in {0, 1},
             graph' = [graph EXCEPT ![a] = status], Goto(d, pc),
             executions' = [executions EXCEPT ![a] = @ + more],
             status = "running" <=> pc \in Working,
             pc = "preparing" => executions[a] = 0 /\ more = 0,
             more = 1 => executions[a] = 0,
             graph[a] \in Settled => status = graph[a]
      PROVE  GraphInv' /\ StaysSettled
  <2>1. a \in Assignments
    BY <1>1, AtAssignment
  <2> QED
    BY <1>1, <2>1, Moves DEF Goto
<1>2. ASSUME dispatch[d].pc # "idle", UNCHANGED executions
      PROVE  executions' = [executions EXCEPT ![a] = @ + 0]
  BY <1>2, AtAssignment
<1>3. ASSUME dispatch[d].pc # "idle", UNCHANGED graph
      PROVE  graph' = [graph EXCEPT ![a] = graph[a]]
  BY <1>3, AtAssignment
<1>4. dispatch[d].pc \in Working => graph[a] = "running" /\ graph[a] \notin Settled
  BY DEF GraphInv, DispatchOK, Settled
\* A dispatch gives up its assignment, or goes on with it.
<1>16. ASSUME dispatch[d].pc # "idle", UNCHANGED executions, graph[a] \notin Settled,
              NEW status \in {"retryable", "blocked", "escalated", "merged", "succeeded"},
              graph' = [graph EXCEPT ![a] = status], Goto(d, "releasing")
       PROVE  GraphInv' /\ StaysSettled
  <2>1. executions' = [executions EXCEPT ![a] = @ + 0]
    BY <1>2, <1>16
  <2>2. status \in Statuses \ {"absent", "planned"} /\ status # "running"
    BY DEF Statuses
  <2>3. "releasing" \in DispatchStates \ {"idle", "acquiring"} /\ "releasing" \notin Working
    BY DEF DispatchStates, Working
  <2>4. 0 \in {0, 1} /\ 0 # 1
    OBVIOUS
  <2> HIDE DEF a
  <2> QED
    BY <1>1, <1>16, <2>1, <2>2, <2>3, <2>4, Zenon
<1>17. ASSUME dispatch[d].pc # "idle", UNCHANGED executions, graph[a] \notin Settled,
              graph' = [graph EXCEPT ![a] = "running"],
              NEW pc \in {"reviewing", "reviewed"}, Goto(d, pc)
       PROVE  GraphInv' /\ StaysSettled
  <2>1. executions' = [executions EXCEPT ![a] = @ + 0]
    BY <1>2, <1>17
  <2>2. "running" \in Statuses \ {"absent", "planned"}
    BY DEF Statuses
  <2>3. pc \in DispatchStates \ {"idle", "acquiring"} /\ pc \in Working /\ pc # "preparing"
    BY DEF DispatchStates, Working
  <2>4. 0 \in {0, 1} /\ 0 # 1
    OBVIOUS
  <2> HIDE DEF a
  <2> QED
    BY <1>1, <1>17, <2>1, <2>2, <2>3, <2>4, Zenon
<1>5. CASE \E b \in Assignments : Begin(d, b)
  BY <1>5, BeginGraph
<1>6. CASE Refused(d)
  BY <1>6, EndsGraph DEF Refused
<1>7. CASE Assign(d)
  <2>1. /\ dispatch[d].pc = "acquiring" /\ UNCHANGED executions
        /\ graph[a] \in {"planned", "retryable"}
        /\ graph[a] = "planned" => executions[a] = 0
    BY <1>7, AtAssignment DEF Assign, GraphInv, DispatchOK, AssignmentOK
  <2>2. CASE graph[a] = "planned" /\ Mark(a, "running") /\ Goto(d, "preparing")
    BY <1>1, <1>2, <2>1, <2>2 DEF Mark, Statuses, DispatchStates, Working, Settled
  <2>3. CASE Blocked(a) /\ Goto(d, "releasing")
    <3>1. graph' = [graph EXCEPT ![a] = "blocked"]
      BY <2>1, <2>3 DEF Blocked, Mark
    <3> QED
      BY <1>16, <2>1, <2>3, <3>1 DEF Settled
  <2> QED
    BY <1>7, <2>2, <2>3 DEF Assign
<1>8. CASE Prepare(d)
  <2>1. /\ dispatch[d].pc = "preparing" /\ executions[a] = 0 /\ graph[a] = "running"
    BY <1>8 DEF Prepare, GraphInv, DispatchOK, Working
  <2>2. CASE Goto(d, "executing") /\ executions' = [executions EXCEPT ![a] = @ + 1] /\ UNCHANGED graph
    <3>1. graph' = [graph EXCEPT ![a] = "running"]
      BY <1>3, <2>1, <2>2
    <3> QED
      BY <1>1, <2>1, <2>2, <3>1 DEF Statuses, DispatchStates, Working, Settled
  <2>3. CASE Blocked(a) /\ Goto(d, "releasing") /\ UNCHANGED executions
    <3>1. graph' = [graph EXCEPT ![a] = "blocked"]
      BY <2>1, <2>3 DEF Blocked, Mark
    <3> QED
      BY <1>4, <1>16, <2>1, <2>3, <3>1 DEF Working
  <2> QED
    BY <1>8, <2>2, <2>3 DEF Prepare
<1>9. CASE ExecuteThrows(d) \/ ExecuteEnds(d)
  <2>1. /\ dispatch[d].pc = "executing" /\ UNCHANGED executions /\ Goto(d, "releasing")
    BY <1>9 DEF ExecuteThrows, ExecuteEnds
  <2>2. PICK status \in {"retryable", "blocked", "escalated"} : graph' = [graph EXCEPT ![a] = status]
    BY <1>9 DEF ExecuteThrows, ExecuteEnds, Mark
  <2> QED
    BY <1>4, <1>16, <2>1, <2>2 DEF Working
<1>10. CASE ExecuteSucceeds(d)
  <2>1. /\ dispatch[d].pc = "executing" /\ UNCHANGED executions
    BY <1>10 DEF ExecuteSucceeds
  <2>2. CASE Mark(a, "succeeded") /\ Goto(d, "releasing")
    BY <1>4, <1>16, <2>1, <2>2 DEF Mark, Working
  <2>3. CASE Goto(d, "reviewing") /\ UNCHANGED graph
    <3>1. graph' = [graph EXCEPT ![a] = "running"]
      BY <1>3, <1>4, <2>1, <2>3 DEF Working
    <3> QED
      BY <1>4, <1>17, <2>1, <2>3, <3>1 DEF Working
  <2> QED
    BY <1>10, <2>2, <2>3 DEF ExecuteSucceeds
<1>11. CASE ReviewRefused(d)
  <2>1. /\ dispatch[d].pc = "reviewing" /\ UNCHANGED executions /\ Blocked(a) /\ Goto(d, "releasing")
    BY <1>11 DEF ReviewRefused
  <2>2. graph' = [graph EXCEPT ![a] = "blocked"]
    BY <1>4, <2>1 DEF Blocked, Mark, Working
  <2> QED
    BY <1>4, <1>16, <2>1, <2>2 DEF Working
<1>12. CASE Review(d)
  <2>1. /\ dispatch[d].pc = "reviewing" /\ UNCHANGED <<graph, executions>> /\ Goto(d, "reviewed")
    BY <1>12 DEF Review
  <2>2. graph' = [graph EXCEPT ![a] = "running"]
    BY <1>3, <1>4, <2>1 DEF Working
  <2> QED
    BY <1>4, <1>17, <2>1, <2>2 DEF Working
<1>13. CASE Gate(d)
  <2>1. /\ dispatch[d].pc = "reviewed" /\ UNCHANGED executions /\ Goto(d, "releasing")
    BY <1>13 DEF Gate
  <2>2. PICK status \in {"retryable", "blocked", "escalated", "merged", "succeeded"} :
          graph' = [graph EXCEPT ![a] = status]
    BY <1>4, <1>13, <2>1 DEF Gate, Mark, Blocked, Working
  <2> QED
    BY <1>4, <1>16, <2>1, <2>2 DEF Working
<1>14. CASE ReleaseWorker(d)
  BY <1>14 DEF ReleaseWorker, dispatchVars, GraphInv, GraphTypes, OneDispatch, DispatchOK,
     AssignmentOK, StaysSettled
<1>15. CASE Return(d)
  BY <1>15, EndsGraph DEF Return, Kept
<1> QED
  BY <1>5, <1>6, <1>7, <1>8, <1>9, <1>10, <1>11, <1>12, <1>13, <1>14, <1>15 DEF Step

LEMMA GraphStutters ==
  ASSUME GraphInv, UNCHANGED dispatchVars
  PROVE  GraphInv' /\ StaysSettled
BY DEF dispatchVars, GraphInv, GraphTypes, OneDispatch, DispatchOK, AssignmentOK, StaysSettled

LEMMA GraphNext == GraphInv /\ [Next]_vars => GraphInv' /\ StaysSettled
BY StepGraph, GraphStutters DEF Next, vars

LEMMA GraphInit == Init => GraphInv
BY DispatchAssumption DEF Init, GraphInv, GraphTypes, OneDispatch, DispatchOK, AssignmentOK, Idle,
   Statuses, DispatchStates, Working

\* An assignment is worked on by at most one dispatch, which knows its status.
THEOREM GraphInvariant == Spec => []GraphInv
<1>1. GraphInv /\ [Next]_vars => GraphInv'
  BY GraphNext
<1> QED
  BY GraphInit, <1>1, PTL DEF Spec

\* beginDispatch and assign: an assignment is executed at most once.
THEOREM OnceExecuted == Spec => []ExecutedOnce
<1>1. GraphInv => ExecutedOnce
  BY DEF GraphInv, AssignmentOK, ExecutedOnce
<1> QED
  BY GraphInvariant, <1>1, PTL

\* finally of dispatch, blockedResult: no cleanup takes a settled status back.
THEOREM Final == Spec => SettledIsFinal
<1>1. GraphInv /\ [Next]_vars =>
        [\A a \in Assignments :
            graph[a] \in {"succeeded", "merged", "blocked"} => graph'[a] = graph[a]]_vars
  BY GraphNext DEF StaysSettled, Settled
<1> QED
  BY GraphInvariant, <1>1, PTL DEF Spec, SettledIsFinal

\* beginDispatch answers "in progress" for a running assignment: a dispatch is
\* at it, so that the answer comes true.
THEOREM RunningHasDispatch == Spec => []RunningIsInFlight
<1>1. GraphInv => RunningIsInFlight
  BY DEF GraphInv, AssignmentOK, RunningIsInFlight, InFlight
<1> QED
  BY GraphInvariant, <1>1, PTL

-------------------------------------------------------------------------------
(***************************************************************************)
(* Runtimes.                                                               *)
(***************************************************************************)
Starting == {"starting", "undoing", "invalidated"}
Holding == {"held", "releasing"}

RuntimesTyped == runtimes \in Seq(Runtime)

PoolTypes ==
    /\ RuntimesTyped
    /\ client \in [Clients -> [pc : ClientStates, gen : Nat]]
    /\ sweep \in [pc : SweepStates, left : SUBSET Nat, at : Nat, issues : BOOLEAN]

\* What may be said of a record on its own.
RecordOK(r) ==
    /\ ~r.settled => r.state = "spawning" /\ r.lease = None /\ ~r.gone /\ r.mapped
    /\ ~r.mapped => r.gone

RecordsOK == \A g \in Generations : RecordOK(runtimes[g])

ClientOK(k) ==
    LET g == client[k].gen IN
    /\ client[k].pc \in Starting => g \in Generations /\ ~runtimes[g].settled
    /\ client[k].pc \in Holding => g \in Generations /\ (runtimes[g].lease = k \/ runtimes[g].gone)
    /\ client[k].pc = "rejecting" => g \in Generations /\ runtimes[g].settled

OneStart ==
    \A j, k \in Clients :
        /\ client[j].pc \in Starting /\ client[k].pc \in Starting
        /\ client[j].gen = client[k].gen
        => j = k

SweepOK ==
    /\ sweep.left \subseteq Generations
    /\ sweep.pc \in {"next", "handle", "runtime"} => \A g \in sweep.left : runtimes[g].settled
    /\ sweep.pc \in {"handle", "runtime"} =>
          sweep.at \in Generations /\ runtimes[sweep.at].settled

\* Everything but the dispose.
UseInv ==
    /\ PoolTypes /\ RecordsOK /\ OneStart
    /\ \A k \in Clients : ClientOK(k)
    /\ Cardinality(Mapped) <= MaxRuntimes

PoolInv == UseInv /\ SweepOK

-------------------------------------------------------------------------------
(* Records. *)

LEMMA MappedIsFinite ==
  ASSUME RuntimesTyped
  PROVE  /\ Generations = 1 .. Len(runtimes) /\ Len(runtimes) \in Nat
         /\ IsFiniteSet(Mapped) /\ Cardinality(Mapped) \in Nat
<1>1. Generations = 1 .. Len(runtimes) /\ Len(runtimes) \in Nat
  BY LenProperties DEF RuntimesTyped, Generations
<1>2. IsFiniteSet(Generations)
  BY <1>1, FS_Interval
<1>3. Mapped \in SUBSET Generations
  BY DEF Mapped
<1> QED
  BY <1>1, <1>2, <1>3, FS_Subset, FS_CardinalityType

\* There is a free identity among one more than are taken.
LEMMA NextIdIsFree ==
  ASSUME RuntimesTyped
  PROVE  NextRuntimeId \in Nat
<1> DEFINE n == Cardinality(Mapped)
           I == 1 .. (n + 1)
           free == {i \in I : \A g \in Mapped : runtimes[g].id # i}
           f == [i \in I |-> CHOOSE g \in Mapped : runtimes[g].id = i]
<1>1. n \in Nat /\ IsFiniteSet(Mapped)
  BY MappedIsFinite
<1>2. free # {}
  <2> SUFFICES ASSUME free = {} PROVE FALSE
    OBVIOUS
  <2>1. \A i \in I : f[i] \in Mapped /\ runtimes[f[i]].id = i
    OBVIOUS
  <2>2. f \in [I -> Mapped]
    BY <2>1
  <2>3. IsFiniteSet(I) /\ Cardinality(I) = n + 1
    BY <1>1, FS_Interval
  <2>4. n < n + 1
    BY <1>1
  <2> HIDE DEF f, I, n
  <2>5. Cardinality(Mapped) < Cardinality(I)
    BY <2>3, <2>4 DEF n
  <2>6. PICK i, j \in I : i # j /\ f[i] = f[j]
    BY <1>1, <2>2, <2>3, <2>5, FS_PigeonHole
  <2> QED
    BY <2>1, <2>6
<1>3. free \subseteq Nat
  BY <1>1
<1>4. Min(free) \in free
  BY <1>2, <1>3, MinOf
<1>5. NextRuntimeId = Min(free)
  BY DEF NextRuntimeId
<1> QED
  BY <1>3, <1>4, <1>5

\* A record changes: the generations stay, and the map does not grow.
LEMMA RecordChanges ==
  ASSUME RuntimesTyped, RecordsOK, Cardinality(Mapped) <= MaxRuntimes,
         NEW g \in Generations, NEW r \in Runtime, runtimes' = [runtimes EXCEPT ![g] = r],
         RecordOK(r), r.mapped => runtimes[g].mapped
  PROVE  /\ RuntimesTyped' /\ RecordsOK' /\ Generations' = Generations
         /\ runtimes'[g] = r
         /\ \A h \in Generations \ {g} : runtimes'[h] = runtimes[h]
         /\ (Cardinality(Mapped) <= MaxRuntimes)'
<1>1. Generations = 1 .. Len(runtimes) /\ IsFiniteSet(Mapped) /\ Cardinality(Mapped) \in Nat
  BY MappedIsFinite
<1>2. /\ runtimes' \in Seq(Runtime)
      /\ Len(runtimes') = Len(runtimes)
      /\ \A h \in Generations : runtimes'[h] = IF h = g THEN r ELSE runtimes[h]
  BY <1>1, ExceptSeq DEF RuntimesTyped
<1>3. RuntimesTyped'
  BY <1>2 DEF RuntimesTyped
<1>4. Generations' = Generations
  BY <1>1, <1>2, LenProperties DEF Generations
<1>5. RecordsOK'
  BY <1>2, <1>4 DEF RecordsOK
<1>6. Mapped' \in SUBSET Mapped
  BY <1>2, <1>4 DEF Mapped
<1>7. Cardinality(Mapped') <= Cardinality(Mapped) /\ IsFiniteSet(Mapped')
  BY <1>1, <1>6, FS_Subset
<1>8. Cardinality(Mapped') \in Nat
  BY <1>7, FS_CardinalityType
<1>9. Cardinality(Mapped') <= MaxRuntimes
  BY <1>1, <1>7, <1>8, PoolBoundsAssumption
<1> QED
  BY <1>2, <1>3, <1>4, <1>5, <1>9

LEMMA ClientChanges ==
  ASSUME PoolTypes, NEW k \in Clients, NEW c \in [pc : ClientStates, gen : Nat],
         client' = [client EXCEPT ![k] = c]
  PROVE  /\ client' \in [Clients -> [pc : ClientStates, gen : Nat]]
         /\ client'[k] = c
         /\ \A j \in Clients \ {k} : client'[j] = client[j]
BY DEF PoolTypes

-------------------------------------------------------------------------------
(* Steps of clients. *)

\* A client changes its place, not its runtime.
LEMMA ClientMoves ==
  ASSUME UseInv, NEW k \in Clients, NEW c \in [pc : ClientStates, gen : Nat],
         client' = [client EXCEPT ![k] = c], UNCHANGED runtimes, sweep' \in
            [pc : SweepStates, left : SUBSET Nat, at : Nat, issues : BOOLEAN],
         c.pc \in Starting => client[k].pc \in Starting /\ c.gen = client[k].gen,
         c.pc \in Holding => client[k].pc \in Holding /\ c.gen = client[k].gen,
         c.pc # "rejecting"
  PROVE  UseInv'
<1>1. /\ client' \in [Clients -> [pc : ClientStates, gen : Nat]]
      /\ client'[k] = c
      /\ \A j \in Clients \ {k} : client'[j] = client[j]
  BY ClientChanges DEF UseInv
<1>2. PoolTypes' /\ RecordsOK' /\ (Cardinality(Mapped) <= MaxRuntimes)'
  BY <1>1 DEF UseInv, PoolTypes, RuntimesTyped, RecordsOK, Mapped, Generations
<1>3. OneStart'
  BY <1>1 DEF UseInv, OneStart
<1>4. ASSUME NEW j \in Clients PROVE ClientOK(j)'
  <2>1. CASE j = k
    BY <1>1, <2>1 DEF UseInv, ClientOK, Generations
  <2>2. CASE j # k
    BY <1>1, <2>2 DEF UseInv, ClientOK, Generations
  <2> QED
    BY <2>1, <2>2
<1> QED
  BY <1>2, <1>3, <1>4 DEF UseInv

\* A client changes a record.  A lease is taken from nobody else, unless the
\* runtime is gone.
LEMMA ClientTurns ==
  ASSUME UseInv, UNCHANGED sweep,
         NEW k \in Clients, NEW c \in [pc : ClientStates, gen : Nat],
         client' = [client EXCEPT ![k] = c],
         NEW g \in Generations, NEW r \in Runtime, runtimes' = [runtimes EXCEPT ![g] = r],
         RecordOK(r), r.mapped => runtimes[g].mapped, runtimes[g].gone => r.gone,
         r.lease # runtimes[g].lease => runtimes[g].lease \in {None, k} \/ r.gone,
         r.settled, c.pc \notin Starting,
         ~runtimes[g].settled => client[k].pc \in Starting /\ client[k].gen = g,
         c.pc \in Holding => c.gen = g /\ (r.lease = k \/ r.gone),
         c.pc = "rejecting" => c.gen = g
  PROVE  UseInv' /\ (SweepOK => SweepOK')
<1>1. /\ client' \in [Clients -> [pc : ClientStates, gen : Nat]]
      /\ client'[k] = c
      /\ \A j \in Clients \ {k} : client'[j] = client[j]
  BY ClientChanges DEF UseInv
<1>2. /\ RuntimesTyped' /\ RecordsOK' /\ Generations' = Generations
      /\ runtimes'[g] = r
      /\ \A h \in Generations \ {g} : runtimes'[h] = runtimes[h]
      /\ (Cardinality(Mapped) <= MaxRuntimes)'
  BY RecordChanges DEF UseInv, PoolTypes
<1>3. PoolTypes'
  BY <1>1, <1>2 DEF UseInv, PoolTypes
<1>4. OneStart'
  BY <1>1 DEF UseInv, OneStart
<1>5. ASSUME NEW j \in Clients PROVE ClientOK(j)'
  <2>1. CASE j = k
    BY <1>1, <1>2, <2>1 DEF ClientOK
  <2>2. CASE j # k
    <3>1. ClientOK(j) /\ client'[j] = client[j] /\ ClientOK(k)
      BY <1>1, <2>2 DEF UseInv
    <3>2. client[j].pc \in Starting /\ client[j].gen = g => runtimes[g].settled
      BY <2>2 DEF UseInv, OneStart
    <3>3. client[j].pc \in Starting =>
             client[j].gen \in Generations \ {g} /\ ~runtimes[client[j].gen].settled
      BY <3>1, <3>2 DEF ClientOK
    <3>4. ASSUME client[j].pc \in Holding, client[j].gen = g
          PROVE  r.lease = j \/ r.gone
      <4>1. runtimes[g].lease = j \/ runtimes[g].gone
        BY <3>1, <3>4 DEF ClientOK
      <4>2. j \notin {None, k}
        BY <2>2, NoneAssumption
      <4> QED
        BY <4>1, <4>2
    <3> QED
      BY <1>2, <3>1, <3>3, <3>4 DEF ClientOK
  <2> QED
    BY <2>1, <2>2
<1>6. ASSUME SweepOK PROVE SweepOK'
  <2>1. \A h \in Generations : runtimes[h].settled => runtimes'[h].settled
    BY <1>2
  <2> QED
    BY <1>2, <1>6, <2>1 DEF SweepOK
<1> QED
  BY <1>2, <1>3, <1>4, <1>5, <1>6 DEF UseInv

LEMMA ClientHas ==
  ASSUME UseInv, NEW k \in Clients
  PROVE  /\ client[k] \in [pc : ClientStates, gen : Nat]
         /\ client[k].gen \in Generations => runtimes[client[k].gen] \in Runtime
<1>1. client[k] \in [pc : ClientStates, gen : Nat]
  BY DEF UseInv, PoolTypes
<1>2. client[k].gen \in Generations => runtimes[client[k].gen] \in Runtime
  BY MappedIsFinite, ElementOfSeq DEF UseInv, PoolTypes, RuntimesTyped
<1> QED
  BY <1>1, <1>2

LEMMA PlaceOnly ==
  ASSUME NEW c \in [pc : ClientStates, gen : Nat], NEW pc
  PROVE  [c EXCEPT !.pc = pc] = [pc |-> pc, gen |-> c.gen]
OBVIOUS

\* A client goes on without a change of the pool.
LEMMA Goes ==
  ASSUME UseInv, NEW k \in Clients, NEW pc \in ClientStates, At(k, pc),
         UNCHANGED <<runtimes, sweep>>,
         pc \in Starting => client[k].pc \in Starting,
         pc \in Holding => client[k].pc \in Holding,
         pc # "rejecting"
  PROVE  UseInv' /\ (SweepOK => SweepOK')
<1> DEFINE c == [pc |-> pc, gen |-> client[k].gen]
<1>1. c \in [pc : ClientStates, gen : Nat]
  BY ClientHas
<1>2. client' = [client EXCEPT ![k] = c]
  <2>1. [client[k] EXCEPT !.pc = pc] = c
    BY ClientHas, PlaceOnly
  <2>2. client' = [client EXCEPT ![k] = [client[k] EXCEPT !.pc = pc]]
    BY DEF At
  <2> QED
    BY <2>1, <2>2
<1>3. sweep' \in [pc : SweepStates, left : SUBSET Nat, at : Nat, issues : BOOLEAN]
  BY DEF UseInv, PoolTypes
<1>4. UseInv'
  BY <1>1, <1>2, <1>3, ClientMoves
<1>5. SweepOK => SweepOK'
  BY DEF SweepOK, Generations
<1> QED
  BY <1>4, <1>5

LEMMA FreedKeeps ==
  ASSUME UseInv, NEW k \in Clients, Freed(k), UNCHANGED <<runtimes, sweep>>
  PROVE  UseInv' /\ (SweepOK => SweepOK')
<1> DEFINE c == [pc |-> "idle", gen |-> 0]
<1>1. c \in [pc : ClientStates, gen : Nat] /\ c.pc \notin Starting \cup Holding /\ c.pc # "rejecting"
  BY DEF ClientStates, Starting, Holding
<1>2. client' = [client EXCEPT ![k] = c]
  BY DEF Freed
<1>3. sweep' \in [pc : SweepStates, left : SUBSET Nat, at : Nat, issues : BOOLEAN]
  BY DEF UseInv, PoolTypes
<1>4. UseInv'
  BY <1>1, <1>2, <1>3, ClientMoves
<1>5. SweepOK => SweepOK'
  BY DEF SweepOK, Generations
<1> QED
  BY <1>4, <1>5

\* A client turns to another place on the generation it has.
LEMMA Turns ==
  ASSUME UseInv, UNCHANGED sweep, NEW k \in Clients, NEW pc \in ClientStates, At(k, pc),
         NEW g, g = client[k].gen, g \in Generations,
         NEW r \in Runtime, runtimes' = [runtimes EXCEPT ![g] = r],
         RecordOK(r), r.mapped => runtimes[g].mapped, runtimes[g].gone => r.gone,
         r.lease # runtimes[g].lease => runtimes[g].lease \in {None, k} \/ r.gone,
         r.settled, pc \notin Starting, pc # "rejecting",
         ~runtimes[g].settled => client[k].pc \in Starting,
         pc \in Holding => r.lease = k \/ r.gone
  PROVE  UseInv' /\ (SweepOK => SweepOK')
<1> DEFINE c == [pc |-> pc, gen |-> g]
<1>1. c \in [pc : ClientStates, gen : Nat] /\ c.pc = pc /\ c.gen = g
  BY ClientHas
<1>2. client' = [client EXCEPT ![k] = c]
  <2>1. [client[k] EXCEPT !.pc = pc] = c
    BY ClientHas, PlaceOnly
  <2>2. client' = [client EXCEPT ![k] = [client[k] EXCEPT !.pc = pc]]
    BY DEF At
  <2> QED
    BY <2>1, <2>2
<1> HIDE DEF c
<1> QED
  BY <1>1, <1>2, ClientTurns

\* A spawn appends a record, which takes up one more place of the map.
LEMMA SpawnKeeps ==
  ASSUME UseInv, NEW k \in Clients, client[k].pc = "idle", HasCapacity, Spawn(k),
         UNCHANGED sweep
  PROVE  UseInv' /\ (SweepOK => SweepOK')
<1> DEFINE n == Len(runtimes) + 1
           r == [id |-> NextRuntimeId, caps |-> {}, state |-> "spawning", lease |-> None,
                 handle |-> None, mapped |-> TRUE, settled |-> FALSE, issue |-> FALSE,
                 gone |-> FALSE]
           c == [pc |-> "starting", gen |-> n]
<1>1. /\ Generations = 1 .. Len(runtimes) /\ Len(runtimes) \in Nat
      /\ IsFiniteSet(Mapped) /\ Cardinality(Mapped) \in Nat
  BY MappedIsFinite DEF UseInv, PoolTypes
<1>2. r \in Runtime
  BY NextIdIsFree DEF UseInv, PoolTypes, Runtime, RuntimeStates
<1>3. c \in [pc : ClientStates, gen : Nat] /\ c.pc = "starting" /\ c.gen = n
  BY <1>1 DEF ClientStates
<1>4. runtimes' = Append(runtimes, r) /\ client' = [client EXCEPT ![k] = c]
  BY DEF Spawn, AtGeneration
<1>5. RecordOK(r) /\ r.mapped /\ ~r.settled
  BY DEF RecordOK
<1> HIDE DEF r, c
<1>6. /\ RuntimesTyped' /\ Len(runtimes') = n /\ runtimes'[n] = r
      /\ \A g \in Generations : runtimes'[g] = runtimes[g]
  BY <1>1, <1>2, <1>4, AppendProperties DEF UseInv, PoolTypes, RuntimesTyped
<1>7. Generations' = 1 .. n
  BY <1>6, LenProperties DEF RuntimesTyped, Generations
<1>8. Generations' = Generations \cup {n} /\ n \notin Generations
  BY <1>1, <1>7
<1>9. /\ client' \in [Clients -> [pc : ClientStates, gen : Nat]]
      /\ client'[k] = c
      /\ \A j \in Clients \ {k} : client'[j] = client[j]
  BY <1>3, <1>4, ClientChanges DEF UseInv
<1>10. PoolTypes'
  BY <1>6, <1>9 DEF UseInv, PoolTypes
<1>11. RecordsOK'
  BY <1>5, <1>6, <1>8 DEF UseInv, RecordsOK
<1>12. \A j \in Clients : client[j].pc \in Starting => client[j].gen \in Generations
  BY DEF UseInv, ClientOK
<1>13. OneStart'
  BY <1>3, <1>8, <1>9, <1>12 DEF UseInv, OneStart
<1>14. ASSUME NEW j \in Clients PROVE ClientOK(j)'
  <2>1. CASE j = k
    BY <1>3, <1>5, <1>6, <1>8, <1>9, <2>1 DEF ClientOK, Starting, Holding
  <2>2. CASE j # k
    BY <1>6, <1>8, <1>9, <2>2 DEF UseInv, ClientOK
  <2> QED
    BY <2>1, <2>2
<1>15. Cardinality(Mapped') <= MaxRuntimes
  <2>1. Mapped' = Mapped \cup {n}
    BY <1>5, <1>6, <1>8 DEF Mapped
  <2>2. /\ IsFiniteSet(Mapped \cup {n})
        /\ Cardinality(Mapped \cup {n}) =
              IF n \in Mapped THEN Cardinality(Mapped) ELSE Cardinality(Mapped) + 1
    <3> HIDE DEF n
    <3> QED
      BY <1>1, FS_AddElement
  <2> QED
    BY <1>1, <2>1, <2>2, PoolBoundsAssumption DEF HasCapacity
<1>16. ASSUME SweepOK PROVE SweepOK'
  BY <1>6, <1>8, <1>16 DEF SweepOK
<1> QED
  BY <1>10, <1>11, <1>13, <1>14, <1>15, <1>16 DEF UseInv

LEMMA AcquireKeeps ==
  ASSUME UseInv, NEW k \in Clients, Acquire(k)
  PROVE  UseInv' /\ (SweepOK => SweepOK')
<1>1. client[k].pc = "idle" /\ UNCHANGED sweep
  BY DEF Acquire
<1>2. CASE Reusable(k) # {} /\ Reuse(k, Min(Reusable(k)))
  <2>1. PICK g : g = Min(Reusable(k))
    OBVIOUS
  <2>2. g \in Reusable(k)
    <3>1. Reusable(k) \subseteq Nat
      BY MappedIsFinite DEF Reusable, Mapped, UseInv, PoolTypes
    <3> QED
      BY <1>2, <2>1, <3>1, MinOf
  <2>3. g \in Generations /\ runtimes[g] \in Runtime /\ g \in Nat
        /\ runtimes[g].state = "idle" /\ runtimes[g].lease = None
    BY <2>2, MappedIsFinite, ElementOfSeq DEF Reusable, Mapped, UseInv, PoolTypes, RuntimesTyped
  <2>4. RecordOK(runtimes[g]) /\ runtimes[g].settled
    BY <2>3 DEF UseInv, RecordsOK, RecordOK
  <2>5. CASE /\ runtimes' = [runtimes EXCEPT ![g].state = "running", ![g].lease = k, ![g].handle = k]
             /\ AtGeneration(k, "held", g)
    <3> DEFINE r == [runtimes[g] EXCEPT !.state = "running", !.lease = k, !.handle = k]
               c == [pc |-> "held", gen |-> g]
    <3>1. /\ r \in Runtime /\ r.mapped = runtimes[g].mapped /\ r.gone = runtimes[g].gone
          /\ r.lease = k /\ r.settled
      BY <2>3, <2>4 DEF Runtime, RuntimeStates
    <3>2. RecordOK(r)
      BY <2>4, <3>1 DEF RecordOK
    <3>3. c \in [pc : ClientStates, gen : Nat] /\ c.pc = "held" /\ c.gen = g
      BY <2>3 DEF ClientStates
    <3>4. runtimes' = [runtimes EXCEPT ![g] = r] /\ client' = [client EXCEPT ![k] = c]
      BY <2>3, <2>5 DEF AtGeneration
    <3> HIDE DEF r, c
    <3> QED
      BY <1>1, <2>3, <2>4, <3>1, <3>2, <3>3, <3>4, ClientTurns DEF Starting
  <2>6. CASE /\ runtimes' = [runtimes EXCEPT ![g].state = "running"]
             /\ AtGeneration(k, "rejecting", g)
    <3> DEFINE r == [runtimes[g] EXCEPT !.state = "running"]
               c == [pc |-> "rejecting", gen |-> g]
    <3>1. /\ r \in Runtime /\ r.mapped = runtimes[g].mapped /\ r.gone = runtimes[g].gone
          /\ r.lease = runtimes[g].lease /\ r.settled
      BY <2>3, <2>4 DEF Runtime, RuntimeStates
    <3>2. RecordOK(r)
      BY <2>4, <3>1 DEF RecordOK
    <3>3. c \in [pc : ClientStates, gen : Nat] /\ c.pc = "rejecting" /\ c.gen = g
      BY <2>3 DEF ClientStates
    <3>4. runtimes' = [runtimes EXCEPT ![g] = r] /\ client' = [client EXCEPT ![k] = c]
      BY <2>3, <2>6 DEF AtGeneration
    <3> HIDE DEF r, c
    <3> QED
      BY <1>1, <2>3, <2>4, <3>1, <3>2, <3>3, <3>4, ClientTurns DEF Starting, Holding
  <2> QED
    BY <1>2, <2>1, <2>5, <2>6 DEF Reuse
<1>3. CASE HasCapacity /\ Spawn(k)
  BY <1>1, <1>3, SpawnKeeps
<1>4. CASE At(k, "refused") /\ UNCHANGED runtimes
  BY <1>1, <1>4, Goes DEF ClientStates, Starting, Holding
<1> QED
  BY <1>2, <1>3, <1>4 DEF Acquire

\* The generation a client starts or holds.
LEMMA Its ==
  ASSUME UseInv, NEW k \in Clients, NEW g, g = client[k].gen,
         client[k].pc \in Starting \cup Holding \cup {"rejecting"}
  PROVE  /\ g \in Generations /\ runtimes[g] \in Runtime /\ RecordOK(runtimes[g])
         /\ client[k].pc \in Starting => ~runtimes[g].settled
         /\ client[k].pc \notin Starting => runtimes[g].settled
         /\ client[k].pc \in Holding => runtimes[g].lease = k \/ runtimes[g].gone
<1>1. g \in Generations /\ ClientOK(k)
  BY DEF UseInv, ClientOK
<1>2. runtimes[g] \in Runtime
  BY <1>1, ClientHas
<1>3. RecordOK(runtimes[g])
  BY <1>1 DEF UseInv, RecordsOK
<1>4. client[k].pc \in Holding => runtimes[g].settled
  BY <1>1, <1>3, NoneAssumption DEF ClientOK, RecordOK
<1> QED
  BY <1>1, <1>2, <1>3, <1>4 DEF ClientOK

LEMMA RejectedKeeps ==
  ASSUME UseInv, NEW k \in Clients, Rejected(k)
  PROVE  UseInv' /\ (SweepOK => SweepOK')
<1>1. PICK g : g = client[k].gen
  OBVIOUS
<1>2. /\ client[k].pc = "rejecting" /\ UNCHANGED sweep /\ At(k, "refused")
      /\ UNCHANGED runtimes \/ runtimes' = [runtimes EXCEPT ![g].state = "idle"]
  BY <1>1 DEF Rejected
<1>3. g \in Generations /\ runtimes[g] \in Runtime /\ RecordOK(runtimes[g]) /\ runtimes[g].settled
  BY <1>1, <1>2, Its DEF Starting
<1>4. CASE UNCHANGED runtimes
  BY <1>2, <1>4, Goes DEF ClientStates, Starting, Holding
<1>5. CASE runtimes' = [runtimes EXCEPT ![g].state = "idle"]
  <2> DEFINE r == [runtimes[g] EXCEPT !.state = "idle"]
  <2>1. /\ r \in Runtime /\ r.mapped = runtimes[g].mapped /\ r.gone = runtimes[g].gone
        /\ r.lease = runtimes[g].lease /\ r.settled
    BY <1>3 DEF Runtime, RuntimeStates
  <2>2. RecordOK(r)
    BY <1>3, <2>1 DEF RecordOK
  <2>3. runtimes' = [runtimes EXCEPT ![g] = r]
    BY <1>3, <1>5
  <2>4. "refused" \in ClientStates /\ "refused" \notin Starting \cup Holding
    BY DEF ClientStates, Starting, Holding
  <2> HIDE DEF r
  <2> QED
    BY <1>1, <1>2, <1>3, <2>1, <2>2, <2>3, <2>4, Turns
<1> QED
  BY <1>2, <1>4, <1>5

LEMMA StartedKeeps ==
  ASSUME UseInv, NEW k \in Clients, Started(k)
  PROVE  UseInv' /\ (SweepOK => SweepOK')
<1>1. PICK g : g = client[k].gen
  OBVIOUS
<1>2. client[k].pc = "starting" /\ UNCHANGED sweep
  BY DEF Started
<1>3. g \in Generations /\ runtimes[g] \in Runtime /\ RecordOK(runtimes[g]) /\ ~runtimes[g].settled
  BY <1>1, <1>2, Its DEF Starting
<1>4. CASE At(k, "invalidated") /\ UNCHANGED runtimes
  BY <1>2, <1>4, Goes DEF ClientStates, Starting, Holding
<1>5. CASE /\ runtimes[g].mapped
           /\ runtimes' = [runtimes EXCEPT ![g] =
                [@ EXCEPT !.caps = Needs[k], !.state = "running", !.lease = k,
                          !.handle = k, !.settled = TRUE]]
           /\ At(k, "held")
  <2> DEFINE r == [runtimes[g] EXCEPT !.caps = Needs[k], !.state = "running", !.lease = k,
                                      !.handle = k, !.settled = TRUE]
  <2>1. Needs[k] \in SUBSET Capabilities
    BY NeedsAssumption
  <2>2. /\ r \in Runtime /\ r.mapped = runtimes[g].mapped /\ r.gone = runtimes[g].gone
        /\ r.lease = k /\ r.settled
    BY <1>3, <2>1 DEF Runtime, RuntimeStates
  <2>3. RecordOK(r) /\ runtimes[g].lease = None
    BY <1>3, <1>5, <2>2 DEF RecordOK
  <2>4. runtimes' = [runtimes EXCEPT ![g] = r]
    BY <1>3, <1>5
  <2>5. "held" \in ClientStates /\ "held" \notin Starting /\ client[k].pc \in Starting
        /\ "held" # "rejecting"
    BY <1>2 DEF ClientStates, Starting
  <2>6. r.mapped => runtimes[g].mapped
    BY <2>2
  <2>7. runtimes[g].gone => r.gone
    BY <2>2
  <2>8. At(k, "held")
    BY <1>5
  <2> HIDE DEF r
  <2> QED
    BY <1>1, <1>2, <1>3, <2>2, <2>3, <2>4, <2>5, <2>6, <2>7, <2>8, Turns
<1> QED
  BY <1>1, <1>4, <1>5 DEF Started

LEMMA UndoneKeeps ==
  ASSUME UseInv, NEW k \in Clients, Undone(k)
  PROVE  UseInv' /\ (SweepOK => SweepOK')
<1>1. PICK g : g = client[k].gen
  OBVIOUS
<1>2. PICK ok \in BOOLEAN :
        runtimes' = [runtimes EXCEPT ![g] = UndoneRecord(@, ok, client[k].pc)]
  BY <1>1 DEF Undone
<1>3. client[k].pc \in {"undoing", "invalidated"} /\ UNCHANGED sweep /\ At(k, "refused")
  BY DEF Undone
<1>4. g \in Generations /\ runtimes[g] \in Runtime /\ RecordOK(runtimes[g]) /\ ~runtimes[g].settled
  BY <1>1, <1>3, Its DEF Starting
<1>5. PICK r : r = UndoneRecord(runtimes[g], ok, client[k].pc)
  OBVIOUS
<1>6. runtimes' = [runtimes EXCEPT ![g] = r]
  BY <1>2, <1>4, <1>5
<1>7. runtimes[g].lease = None /\ ~runtimes[g].gone /\ runtimes[g].mapped
  BY <1>4 DEF RecordOK
<1>8. /\ r \in Runtime /\ r.settled /\ r.lease = None
      /\ r.gone \/ r.mapped
  <2>1. CASE ok
    <3>1. PICK m \in BOOLEAN : m = (client[k].pc = "invalidated")
      OBVIOUS
    <3>2. r = [runtimes[g] EXCEPT !.state = "disposed", !.lease = None, !.gone = TRUE,
                   !.settled = TRUE, !.mapped = m]
      BY <1>5, <2>1, <3>1 DEF UndoneRecord
    <3> QED
      BY <1>4, <3>2 DEF Runtime, RuntimeStates
  <2>2. CASE ~ok
    <3>1. r = [runtimes[g] EXCEPT !.state = "failed", !.issue = TRUE, !.settled = TRUE]
      BY <1>5, <2>2 DEF UndoneRecord
    <3> QED
      BY <1>4, <1>7, <3>1 DEF Runtime, RuntimeStates
  <2> QED
    BY <2>1, <2>2
<1>9. RecordOK(r)
  BY <1>8 DEF RecordOK
<1>10. "refused" \in ClientStates /\ "refused" \notin Starting \cup Holding
       /\ client[k].pc \in Starting
  BY <1>3 DEF ClientStates, Starting, Holding
<1> QED
  BY <1>1, <1>3, <1>4, <1>6, <1>7, <1>8, <1>9, <1>10, Turns

\* A record whose lease is given back.
LEMMA LeaseEnds ==
  ASSUME UseInv, NEW k \in Clients, client[k].pc \in Holding, UNCHANGED sweep,
         NEW pc \in {"released", "unreleased"}, At(k, pc),
         NEW g, g = client[k].gen, NEW r \in Runtime, runtimes' = [runtimes EXCEPT ![g] = r],
         r.lease = None, r.gone = runtimes[g].gone, r.mapped = runtimes[g].mapped,
         r.settled = runtimes[g].settled
  PROVE  UseInv' /\ (SweepOK => SweepOK')
<1>1. /\ g \in Generations /\ RecordOK(runtimes[g]) /\ runtimes[g].settled
      /\ runtimes[g].lease = k \/ runtimes[g].gone
  BY Its DEF Starting, Holding
<1>2. RecordOK(r)
  BY <1>1 DEF RecordOK
<1>3. pc \in ClientStates /\ pc \notin Starting \cup Holding /\ pc # "rejecting"
  BY DEF ClientStates, Starting, Holding
<1> QED
  BY <1>1, <1>2, <1>3, Turns

LEMMA ReleaseKeeps ==
  ASSUME UseInv, NEW k \in Clients, Release(k)
  PROVE  UseInv' /\ (SweepOK => SweepOK')
<1>1. PICK g : g = client[k].gen
  OBVIOUS
<1>2. client[k].pc \in Holding /\ client[k].pc = "held" /\ UNCHANGED sweep
  BY DEF Release, Holding
<1>3. g \in Generations /\ runtimes[g] \in Runtime
  BY <1>1, <1>2, Its
<1>4. CASE UNCHANGED runtimes /\ (At(k, "unreleased") \/ At(k, "releasing"))
  <2>1. /\ "unreleased" \in ClientStates \ (Starting \cup Holding \cup {"rejecting"})
        /\ "releasing" \in ClientStates \ (Starting \cup {"rejecting"})
    BY DEF ClientStates, Starting, Holding
  <2> QED
    BY <1>2, <1>4, <2>1, Goes
<1>5. CASE /\ runtimes' = [runtimes EXCEPT ![g].state = "idle", ![g].lease = None]
           /\ At(k, "released")
  <2> DEFINE r == [runtimes[g] EXCEPT !.state = "idle", !.lease = None]
  <2>1. /\ r \in Runtime /\ r.mapped = runtimes[g].mapped /\ r.gone = runtimes[g].gone
        /\ r.lease = None /\ r.settled = runtimes[g].settled
    BY <1>3 DEF Runtime, RuntimeStates
  <2>2. runtimes' = [runtimes EXCEPT ![g] = r]
    BY <1>3, <1>5
  <2>3. "released" \in {"released", "unreleased"} /\ At(k, "released")
    BY <1>5
  <2> HIDE DEF r
  <2> QED
    BY <1>1, <1>2, <2>1, <2>2, <2>3, LeaseEnds
<1> QED
  BY <1>1, <1>4, <1>5 DEF Release

LEMMA ReleaseEndsKeeps ==
  ASSUME UseInv, NEW k \in Clients, ReleaseEnds(k)
  PROVE  UseInv' /\ (SweepOK => SweepOK')
<1>1. PICK g : g = client[k].gen
  OBVIOUS
<1>2. client[k].pc \in Holding /\ UNCHANGED sweep
  BY DEF ReleaseEnds, Holding
<1>3. g \in Generations /\ runtimes[g] \in Runtime
  BY <1>1, <1>2, Its
<1>4. PICK ok \in BOOLEAN, pc \in {"released", "unreleased"} :
         runtimes' = [runtimes EXCEPT ![g] = ReleasedRecord(@, ok)] /\ At(k, pc)
  BY <1>1 DEF ReleaseEnds
<1>5. PICK r : r = ReleasedRecord(runtimes[g], ok)
  OBVIOUS
<1>6. PICK state \in RuntimeStates : state = IF ok THEN "idle" ELSE "failed"
  BY DEF RuntimeStates
<1>7. r = [runtimes[g] EXCEPT !.state = state, !.lease = None, !.handle = None]
  BY <1>5, <1>6 DEF ReleasedRecord
<1>8. /\ r \in Runtime /\ r.mapped = runtimes[g].mapped /\ r.gone = runtimes[g].gone
      /\ r.lease = None /\ r.settled = runtimes[g].settled
  BY <1>3, <1>7 DEF Runtime
<1>9. runtimes' = [runtimes EXCEPT ![g] = r]
  BY <1>3, <1>4, <1>5
<1>10. At(k, pc)
  BY <1>4
<1> QED
  BY <1>1, <1>2, <1>8, <1>9, <1>10, LeaseEnds

-------------------------------------------------------------------------------
(* Steps of the dispose. *)

SweepTypes == [pc : SweepStates, left : SUBSET Nat, at : Nat, issues : BOOLEAN]

LEMMA SweepChanges ==
  ASSUME UseInv, UNCHANGED client, sweep' \in SweepTypes,
         NEW g \in Generations, runtimes[g].settled,
         NEW r \in Runtime, runtimes' = [runtimes EXCEPT ![g] = r],
         r.mapped = runtimes[g].mapped, r.settled, runtimes[g].gone => r.gone,
         r.lease = runtimes[g].lease \/ r.gone
  PROVE  /\ UseInv' /\ Generations' = Generations
         /\ \A h \in Generations : runtimes'[h].settled = runtimes[h].settled
<1>1. RecordOK(r)
  BY DEF UseInv, RecordsOK, RecordOK
<1>2. /\ RuntimesTyped' /\ RecordsOK' /\ Generations' = Generations
      /\ runtimes'[g] = r
      /\ \A h \in Generations \ {g} : runtimes'[h] = runtimes[h]
      /\ (Cardinality(Mapped) <= MaxRuntimes)'
  BY <1>1, RecordChanges DEF UseInv, PoolTypes
<1>3. PoolTypes'
  BY <1>2 DEF UseInv, PoolTypes, SweepTypes
<1>4. OneStart'
  BY DEF UseInv, OneStart
<1>5. r.settled = TRUE /\ runtimes[g].settled = TRUE
  <2>1. runtimes[g] \in Runtime
    BY MappedIsFinite, ElementOfSeq DEF UseInv, PoolTypes, RuntimesTyped
  <2> QED
    BY <2>1 DEF Runtime
<1>6. \A h \in Generations : runtimes'[h].settled = runtimes[h].settled
  BY <1>2, <1>5
<1>7. ASSUME NEW j \in Clients PROVE ClientOK(j)'
  <2>1. ClientOK(j)
    BY DEF UseInv
  <2>2. \A h \in Generations :
           runtimes[h].lease = j \/ runtimes[h].gone => runtimes'[h].lease = j \/ runtimes'[h].gone
    BY <1>2
  <2> QED
    BY <1>2, <1>6, <2>1, <2>2 DEF ClientOK
<1> QED
  BY <1>2, <1>3, <1>4, <1>6, <1>7 DEF UseInv

LEMMA SweepOnly ==
  ASSUME UseInv, UNCHANGED <<runtimes, client>>, sweep' \in SweepTypes
  PROVE  UseInv' /\ Generations' = Generations
BY DEF UseInv, PoolTypes, RuntimesTyped, RecordsOK, Mapped, Generations, OneStart, ClientOK, SweepTypes

LEMMA SweepNextKeeps ==
  ASSUME PoolInv, SweepNext
  PROVE  PoolInv'
<1>1. PICK g : g = Min(sweep.left)
  OBVIOUS
<1>2. sweep \in SweepTypes /\ sweep.pc = "next" /\ UNCHANGED client
  BY DEF SweepNext, PoolInv, UseInv, PoolTypes, SweepTypes
<1>3. g \in sweep.left /\ g \in Nat
  BY <1>1, <1>2, MinOf DEF SweepNext, SweepTypes
<1>4. g \in Generations /\ runtimes[g] \in Runtime /\ runtimes[g].settled
  BY <1>2, <1>3, MappedIsFinite, ElementOfSeq
     DEF PoolInv, SweepOK, UseInv, PoolTypes, RuntimesTyped
<1>5. CASE /\ runtimes' = [runtimes EXCEPT ![g].issue = FALSE]
           /\ sweep' = [sweep EXCEPT !.left = sweep.left \ {g}, !.issues = TRUE]
  <2> DEFINE r == [runtimes[g] EXCEPT !.issue = FALSE]
  <2>1. /\ r \in Runtime /\ r.mapped = runtimes[g].mapped /\ r.settled
        /\ r.lease = runtimes[g].lease
        /\ runtimes[g].gone => r.gone
    BY <1>4 DEF Runtime
  <2>2. runtimes' = [runtimes EXCEPT ![g] = r]
    BY <1>4, <1>5
  <2>3. /\ sweep' \in SweepTypes /\ sweep'.left = sweep.left \ {g} /\ sweep'.pc = "next"
    BY <1>2, <1>5 DEF SweepTypes
  <2> HIDE DEF r
  <2>4. /\ UseInv' /\ Generations' = Generations
        /\ \A h \in Generations : runtimes'[h].settled = runtimes[h].settled
    BY <1>2, <1>4, <2>1, <2>2, <2>3, SweepChanges DEF PoolInv
  <2> QED
    BY <1>2, <2>3, <2>4 DEF PoolInv, SweepOK
<1>6. CASE sweep' = [sweep EXCEPT !.left = sweep.left \ {g}] /\ UNCHANGED runtimes
  <2>1. /\ sweep' \in SweepTypes /\ sweep'.left = sweep.left \ {g} /\ sweep'.pc = "next"
    BY <1>2, <1>6 DEF SweepTypes
  <2>2. UseInv' /\ Generations' = Generations
    BY <1>2, <1>6, <2>1, SweepOnly DEF PoolInv
  <2> QED
    BY <1>2, <1>6, <2>1, <2>2 DEF PoolInv, SweepOK
<1>7. CASE /\ runtimes' = [runtimes EXCEPT ![g].handle = None]
           /\ sweep' = [sweep EXCEPT !.left = sweep.left \ {g}, !.at = g,
                          !.pc = IF runtimes[g].handle = None THEN "runtime" ELSE "handle"]
  <2> DEFINE r == [runtimes[g] EXCEPT !.handle = None]
  <2>1. /\ r \in Runtime /\ r.mapped = runtimes[g].mapped /\ r.settled
        /\ r.lease = runtimes[g].lease
        /\ runtimes[g].gone => r.gone
    BY <1>4 DEF Runtime
  <2>2. runtimes' = [runtimes EXCEPT ![g] = r]
    BY <1>4, <1>7
  <2>3. /\ sweep' \in SweepTypes /\ sweep'.left = sweep.left \ {g} /\ sweep'.at = g
    BY <1>2, <1>3, <1>7 DEF SweepTypes, SweepStates
  <2> HIDE DEF r
  <2>4. /\ UseInv' /\ Generations' = Generations
        /\ \A h \in Generations : runtimes'[h].settled = runtimes[h].settled
    BY <1>2, <1>4, <2>1, <2>2, <2>3, SweepChanges DEF PoolInv
  <2> QED
    BY <1>2, <1>4, <2>3, <2>4 DEF PoolInv, SweepOK
<1> QED
  BY <1>1, <1>5, <1>6, <1>7 DEF SweepNext

\* The runtime under the dispose is settled: it fails, or is gone.
LEMMA SweepHereKeeps ==
  ASSUME PoolInv, SweepHandle \/ SweepRuntime
  PROVE  PoolInv'
<1>1. PICK g : g = sweep.at
  OBVIOUS
<1>2. sweep \in SweepTypes /\ sweep.pc \in {"handle", "runtime"} /\ UNCHANGED client
  BY DEF SweepHandle, SweepRuntime, PoolInv, UseInv, PoolTypes, SweepTypes
<1>3. g \in Generations /\ runtimes[g] \in Runtime /\ runtimes[g].settled
  BY <1>1, <1>2, MappedIsFinite, ElementOfSeq
     DEF PoolInv, SweepOK, UseInv, PoolTypes, RuntimesTyped
<1>4. CASE UNCHANGED runtimes /\ sweep' = [sweep EXCEPT !.pc = "runtime"]
  <2>1. /\ sweep' \in SweepTypes /\ sweep'.left = sweep.left /\ sweep'.at = sweep.at
    BY <1>2, <1>4 DEF SweepTypes, SweepStates
  <2>2. UseInv' /\ Generations' = Generations
    BY <1>2, <1>4, <2>1, SweepOnly DEF PoolInv
  <2> QED
    BY <1>2, <1>4, <2>1, <2>2 DEF PoolInv, SweepOK
<1>5. ASSUME NEW r \in Runtime, runtimes' = [runtimes EXCEPT ![g] = r],
             r.mapped = runtimes[g].mapped, r.settled, runtimes[g].gone => r.gone,
             r.lease = runtimes[g].lease \/ r.gone,
             NEW issues \in BOOLEAN,
             sweep' = [sweep EXCEPT !.pc = "next", !.at = 0, !.issues = issues]
      PROVE  PoolInv'
  <2>1. /\ sweep' \in SweepTypes /\ sweep'.left = sweep.left /\ sweep'.pc = "next"
    BY <1>2, <1>5 DEF SweepTypes, SweepStates
  <2>2. /\ UseInv' /\ Generations' = Generations
        /\ \A h \in Generations : runtimes'[h].settled = runtimes[h].settled
    BY <1>2, <1>3, <1>5, <2>1, SweepChanges DEF PoolInv
  <2> QED
    BY <1>2, <2>1, <2>2 DEF PoolInv, SweepOK
<1>6. CASE /\ runtimes' = [runtimes EXCEPT ![g].state = "failed"]
           /\ sweep' = [sweep EXCEPT !.pc = "next", !.at = 0, !.issues = TRUE]
  <2> DEFINE r == [runtimes[g] EXCEPT !.state = "failed"]
  <2>1. /\ r \in Runtime /\ r.mapped = runtimes[g].mapped /\ r.settled
        /\ r.lease = runtimes[g].lease
        /\ runtimes[g].gone => r.gone
    BY <1>3 DEF Runtime, RuntimeStates
  <2>2. runtimes' = [runtimes EXCEPT ![g] = r]
    BY <1>3, <1>6
  <2>3. TRUE \in BOOLEAN
    OBVIOUS
  <2> HIDE DEF r
  <2> QED
    BY <1>5, <1>6, <2>1, <2>2, <2>3
<1>7. CASE /\ runtimes' = [runtimes EXCEPT ![g] =
                [@ EXCEPT !.state = "disposed", !.lease = None, !.gone = TRUE]]
           /\ sweep' = [sweep EXCEPT !.pc = "next", !.at = 0]
  <2> DEFINE r == [runtimes[g] EXCEPT !.state = "disposed", !.lease = None, !.gone = TRUE]
  <2>1. /\ r \in Runtime /\ r.mapped = runtimes[g].mapped /\ r.settled /\ r.gone
    BY <1>3 DEF Runtime, RuntimeStates
  <2>2. runtimes' = [runtimes EXCEPT ![g] = r]
    BY <1>3, <1>7
  <2>3. sweep' = [sweep EXCEPT !.pc = "next", !.at = 0, !.issues = sweep.issues]
        /\ sweep.issues \in BOOLEAN
    BY <1>2, <1>7 DEF SweepTypes
  <2> HIDE DEF r
  <2> QED
    BY <1>5, <2>1, <2>2, <2>3
<1> QED
  BY <1>1, <1>4, <1>6, <1>7 DEF SweepHandle, SweepRuntime

LEMMA SweepEdgesKeep ==
  ASSUME PoolInv, Dispose \/ SweepStarts \/ DisposeReturns
  PROVE  PoolInv'
<1>1. /\ sweep \in SweepTypes /\ UNCHANGED <<runtimes, client>> /\ Mapped \subseteq Generations
      /\ Generations \subseteq Nat
  BY MappedIsFinite
     DEF Dispose, SweepStarts, DisposeReturns, PoolInv, UseInv, PoolTypes, SweepTypes, Mapped
<1>2. CASE Dispose
  <2>1. sweep' \in SweepTypes /\ sweep'.left = Mapped /\ sweep'.pc = "startups"
    BY <1>1, <1>2 DEF Dispose, SweepTypes, SweepStates
  <2>2. UseInv' /\ Generations' = Generations
    BY <1>1, <2>1, SweepOnly DEF PoolInv
  <2> QED
    BY <1>1, <2>1, <2>2 DEF PoolInv, SweepOK
<1>3. CASE SweepStarts
  <2>1. /\ sweep' \in SweepTypes /\ sweep'.left = sweep.left /\ sweep'.pc = "next"
        /\ \A g \in sweep.left : runtimes[g].settled
    BY <1>1, <1>3 DEF SweepStarts, StartupsSettled, SweepTypes, SweepStates
  <2>2. UseInv' /\ Generations' = Generations
    BY <1>1, <2>1, SweepOnly DEF PoolInv
  <2> QED
    BY <1>1, <2>1, <2>2 DEF PoolInv, SweepOK
<1>4. CASE DisposeReturns
  <2>1. PICK pc \in {"blocked", "disposed"} : sweep' = [sweep EXCEPT !.pc = pc]
    BY <1>4 DEF DisposeReturns
  <2>2. sweep' \in SweepTypes /\ sweep'.left = sweep.left /\ sweep'.pc \in {"blocked", "disposed"}
    BY <1>1, <2>1 DEF SweepTypes, SweepStates
  <2>3. UseInv' /\ Generations' = Generations
    BY <1>1, <2>2, SweepOnly DEF PoolInv
  <2> QED
    BY <1>1, <2>2, <2>3 DEF PoolInv, SweepOK
<1> QED
  BY <1>2, <1>3, <1>4

-------------------------------------------------------------------------------
LEMMA PoolStutters == PoolInv /\ UNCHANGED poolVars => PoolInv'
BY DEF poolVars, PoolInv, UseInv, PoolTypes, RuntimesTyped, RecordsOK, Mapped, Generations,
   OneStart, ClientOK, SweepOK

LEMMA PoolStepKeeps ==
  ASSUME PoolInv, PoolStep
  PROVE  PoolInv'
<1>1. CASE \E k \in Clients : Rejected(k) \/ Started(k) \/ StartFails(k) \/ Undone(k) \/ ReleaseEnds(k)
  <2>1. PICK k \in Clients : Rejected(k) \/ Started(k) \/ StartFails(k) \/ Undone(k) \/ ReleaseEnds(k)
    BY <1>1
  <2>2. CASE StartFails(k)
    <3>1. /\ At(k, "undoing") /\ UNCHANGED <<runtimes, sweep>> /\ client[k].pc \in Starting
          /\ "undoing" \in ClientStates \ (Holding \cup {"rejecting"})
      BY <2>2 DEF StartFails, ClientStates, Starting, Holding
    <3> QED
      BY <3>1, Goes DEF PoolInv
  <2> QED
    BY <2>1, <2>2, RejectedKeeps, StartedKeeps, UndoneKeeps, ReleaseEndsKeeps DEF PoolInv
<1> QED
  BY <1>1, SweepNextKeeps, SweepHereKeeps, SweepEdgesKeep DEF PoolStep

\* A dispatch acquires, releases and forgets its clients, these when they have
\* nothing any more; that is all it does to the pool.
LEMMA DispatchUses ==
  ASSUME NEW d \in Dispatches, Step(d)
  PROVE  \/ UNCHANGED poolVars
         \/ \E k \in Clients :
              \/ Acquire(k) \/ Release(k)
              \/ /\ Freed(k) /\ client[k].pc \in {"refused", "released", "unreleased"}
                 /\ UNCHANGED <<runtimes, sweep, disposed, handles>>
<1>1. Worker[d] \in Clients /\ Reviewer[d] \in Clients
  BY DispatchAssumption
<1>2. CASE Assign(d) \/ Prepare(d) \/ ExecuteThrows(d) \/ ExecuteEnds(d)
  BY <1>2 DEF Assign, Prepare, ExecuteThrows, ExecuteEnds
<1>3. CASE (\E a \in Assignments : Begin(d, a)) \/ ReleaseWorker(d)
  BY <1>1, <1>3 DEF Begin, ReleaseWorker
<1>4. CASE ExecuteSucceeds(d) \/ Review(d)
  BY <1>1, <1>4 DEF ExecuteSucceeds, Review
<1>5. CASE Refused(d) \/ ReviewRefused(d) \/ Gate(d) \/ Return(d)
  BY <1>1, <1>5 DEF Refused, ReviewRefused, Gate, Return
<1> QED
  BY <1>2, <1>3, <1>4, <1>5 DEF Step

LEMMA PoolNext == PoolInv /\ [Next]_vars => PoolInv'
<1> SUFFICES ASSUME PoolInv, [Next]_vars PROVE PoolInv'
  OBVIOUS
<1>1. CASE UNCHANGED poolVars
  BY <1>1, PoolStutters
<1>2. ASSUME NEW k \in Clients,
             Acquire(k) \/ Release(k) \/ (Freed(k) /\ UNCHANGED <<runtimes, sweep>>)
      PROVE  PoolInv'
  BY <1>2, AcquireKeeps, ReleaseKeeps, FreedKeeps DEF PoolInv
<1>3. CASE \E d \in Dispatches : Step(d)
  BY <1>1, <1>2, <1>3, DispatchUses
<1>4. CASE PoolStep
  BY <1>4, PoolStepKeeps
<1>5. CASE UNCHANGED vars
  BY <1>1, <1>5 DEF vars
<1> QED
  BY <1>3, <1>4, <1>5 DEF Next

LEMMA PoolStarts == Init => PoolInv
<1> SUFFICES ASSUME Init PROVE PoolInv
  OBVIOUS
<1>1. /\ runtimes = <<>> /\ client = [k \in Clients |-> [pc |-> "idle", gen |-> 0]]
      /\ sweep = [pc |-> "never", left |-> {}, at |-> 0, issues |-> FALSE]
  BY DEF Init, PoolInit
<1>2. RuntimesTyped /\ Generations = {} /\ Mapped = {}
  BY <1>1 DEF RuntimesTyped, Generations, Mapped
<1>3. Cardinality(Mapped) <= MaxRuntimes
  BY <1>2, FS_EmptySet, PoolBoundsAssumption
<1>4. PoolTypes
  BY <1>1, <1>2 DEF PoolTypes, ClientStates, SweepStates
<1>5. OneStart /\ \A k \in Clients : ClientOK(k)
  BY <1>1 DEF OneStart, ClientOK, Starting, Holding
<1>6. RecordsOK /\ SweepOK
  BY <1>1, <1>2 DEF RecordsOK, SweepOK
<1> QED
  BY <1>3, <1>4, <1>5, <1>6 DEF PoolInv, UseInv

\* The records of the pool agree with the clients that start and hold runtimes.
THEOREM PoolInvariant == Spec => []PoolInv
<1>1. PoolInv /\ [Next]_vars => PoolInv'
  BY PoolNext
<1> QED
  BY PoolStarts, <1>1, PTL DEF Spec

\* acquire and release: a runtime serves the client that holds its lease.
THEOREM Exclusive == Spec => []LeaseIsExclusive
<1>1. PoolInv => LeaseIsExclusive
  BY DEF PoolInv, UseInv, ClientOK, Holding, LeaseIsExclusive
<1> QED
  BY PoolInvariant, <1>1, PTL

\* hasCapacity: the live runtimes are among the records of the map, of which
\* there are never more than the capacity.
THEOREM Capacity == Spec => []CapacityIsKept
<1>1. ASSUME PoolInv PROVE CapacityIsKept
  <2> DEFINE live == {g \in Generations : ~runtimes[g].gone}
  <2>1. live \in SUBSET Mapped
    BY <1>1 DEF PoolInv, UseInv, RecordsOK, RecordOK, Mapped
  <2>2. IsFiniteSet(Mapped) /\ Cardinality(Mapped) \in Nat /\ Cardinality(Mapped) <= MaxRuntimes
    BY <1>1, MappedIsFinite DEF PoolInv, UseInv, PoolTypes
  <2>3. IsFiniteSet(live) /\ Cardinality(live) <= Cardinality(Mapped)
    BY <2>1, <2>2, FS_Subset
  <2>4. Cardinality(live) \in Nat
    BY <2>3, FS_CardinalityType
  <2> QED
    BY <2>2, <2>3, <2>4, PoolBoundsAssumption DEF CapacityIsKept
<1> QED
  BY PoolInvariant, <1>1, PTL

-------------------------------------------------------------------------------
(***************************************************************************)
(* What is left of the pool.                                               *)
(***************************************************************************)
Claiming == Holding \cup {"rejecting"}

\* How the state of a record bears on its lease and its handle.
UseOK(r) ==
    /\ r.state = "spawning" => ~r.settled
    /\ r.state = "idle" => r.lease = None
    /\ r.handle # None => r.state = "running" /\ r.lease = r.handle /\ ~r.gone
    /\ r.lease # None => r.state \in {"running", "failed"}
    /\ r.state = "disposed" => r.gone

UsesOK ==
    /\ \A g \in Generations : UseOK(runtimes[g])
    /\ ~disposed => \A g \in Generations : runtimes[g].gone => ~runtimes[g].mapped

\* Somebody starts a runtime that is spawning, and uses or rejects one that runs.
Starters == \A g \in Generations : ~runtimes[g].settled =>
    \E k \in Clients : client[k].pc \in Starting /\ client[k].gen = g

Leasers == \A g \in Generations : \A k \in Clients :
    runtimes[g].state = "running" /\ runtimes[g].lease = k =>
        client[k].pc \in Holding /\ client[k].gen = g

Rejecters == ~disposed => \A g \in Generations :
    runtimes[g].state = "running" /\ runtimes[g].lease = None =>
        \E k \in Clients : client[k].pc = "rejecting" /\ client[k].gen = g

OneReject == ~disposed => \A j, k \in Clients :
    client[j].pc = "rejecting" /\ client[k].pc = "rejecting" /\ client[j].gen = client[k].gen
        => j = k

\* Until the pool is disposed of, a client has what it believes to have.
ClaimOK(k) ==
    LET r == runtimes[client[k].gen] IN
    /\ ~disposed /\ client[k].pc \in Holding =>
          r.state = "running" /\ r.lease = k /\ r.handle = k
    /\ ~disposed /\ client[k].pc = "rejecting" =>
          r.state = "running" /\ r.lease = None /\ ~r.gone
    /\ client[k].pc = "invalidated" => disposed
    /\ k \in handles => client[k].pc \in Holding /\ r.handle = k

\* What the dispose has not passed is still to come; a runtime is gone for good.
SweepUse ==
    /\ disposed \in BOOLEAN
    /\ disposed <=> sweep.pc # "never"
    /\ sweep.pc = "startups" => \A g \in Generations : g \in sweep.left \/ runtimes[g].gone
    /\ sweep.pc \notin {"never", "startups"} => \A g \in Generations : runtimes[g].settled
    /\ sweep.pc = "next" /\ ~sweep.issues =>
          \A g \in Generations : g \in sweep.left \/ runtimes[g].gone
    /\ sweep.pc \in {"handle", "runtime"} /\ ~sweep.issues =>
          \A g \in Generations : g \in sweep.left \/ runtimes[g].gone \/ g = sweep.at
    /\ sweep.pc \in {"handle", "runtime"} => runtimes[sweep.at].handle = None
    /\ sweep.pc = "disposed" => \A g \in Generations : runtimes[g].gone

ClaimInv ==
    /\ UsesOK /\ Starters /\ Leasers /\ Rejecters /\ OneReject /\ SweepUse
    /\ handles \subseteq Clients
    /\ \A k \in Clients : ClaimOK(k)

\* Nobody but k has anything of the runtime.
Alone(k, g) == \A j \in Clients \ {k} : client[j].gen = g =>
    j \notin handles /\ (~disposed => client[j].pc \notin Claiming)

-------------------------------------------------------------------------------
(* Records as they change. *)

LEMMA RecordSet ==
  ASSUME RuntimesTyped, NEW g \in Generations, NEW r \in Runtime,
         runtimes' = [runtimes EXCEPT ![g] = r]
  PROVE  /\ Generations' = Generations /\ runtimes'[g] = r
         /\ \A h \in Generations \ {g} : runtimes'[h] = runtimes[h]
<1>1. Generations = 1 .. Len(runtimes)
  BY MappedIsFinite
<1>2. /\ runtimes' \in Seq(Runtime)
      /\ Len(runtimes') = Len(runtimes)
      /\ \A h \in Generations : runtimes'[h] = IF h = g THEN r ELSE runtimes[h]
  BY <1>1, ExceptSeq DEF RuntimesTyped
<1>3. Generations' = Generations
  BY <1>1, <1>2, LenProperties DEF Generations
<1> QED
  BY <1>2, <1>3

\* The dispose stays where it is while records only get older.
LEMMA SweepWaits ==
  ASSUME PoolInv, ClaimInv, UNCHANGED <<sweep, disposed>>, Generations' = Generations,
         \A h \in Generations :
            /\ runtimes[h].settled => runtimes'[h].settled
            /\ runtimes[h].gone => runtimes'[h].gone
            /\ disposed /\ runtimes[h].handle = None => runtimes'[h].handle = None
  PROVE  SweepUse'
BY DEF PoolInv, SweepOK, ClaimInv, SweepUse

\* A client that has the runtime to itself changes its record.
LEMMA ClaimTurns ==
  ASSUME PoolInv, ClaimInv, UNCHANGED <<sweep, disposed>>,
         NEW k \in Clients, NEW c \in [pc : ClientStates, gen : Nat],
         client' = [client EXCEPT ![k] = c],
         NEW g \in Generations, NEW r \in Runtime, runtimes' = [runtimes EXCEPT ![g] = r],
         handles' \subseteq handles \cup {k},
         UseOK(r), r.settled, runtimes[g].gone => r.gone,
         ~disposed /\ r.gone => ~r.mapped,
         disposed /\ runtimes[g].handle = None => r.handle = None,
         client[k].pc \in Starting \cup Claiming => client[k].gen = g,
         Alone(k, g),
         r.state = "running" =>
            \/ r.lease = k /\ c.pc \in Holding
            \/ r.lease = None /\ c.pc = "rejecting",
         c.pc \in Starting \cup Claiming => c.gen = g,
         c.pc \notin Starting,
         c.pc \in Holding => r.state = "running" /\ r.lease = k /\ r.handle = k,
         c.pc = "rejecting" => r.state = "running" /\ r.lease = None /\ ~r.gone,
         k \in handles' => c.pc \in Holding
  PROVE  ClaimInv'
<1>1. /\ client' \in [Clients -> [pc : ClientStates, gen : Nat]]
      /\ client'[k] = c
      /\ \A j \in Clients \ {k} : client'[j] = client[j]
  BY ClientChanges DEF PoolInv, UseInv
<1>2. /\ Generations' = Generations /\ runtimes'[g] = r
      /\ \A h \in Generations \ {g} : runtimes'[h] = runtimes[h]
  BY RecordSet DEF PoolInv, UseInv, PoolTypes
<1>3. UsesOK'
  BY <1>2 DEF ClaimInv, UsesOK
<1>4. Starters'
  <2> SUFFICES ASSUME NEW h \in Generations, ~runtimes'[h].settled
               PROVE  \E j \in Clients : client'[j].pc \in Starting /\ client'[j].gen = h
    BY <1>2 DEF Starters
  <2>1. h # g /\ ~runtimes[h].settled
    BY <1>2
  <2>2. PICK j \in Clients : client[j].pc \in Starting /\ client[j].gen = h
    BY <2>1 DEF ClaimInv, Starters
  <2> QED
    BY <1>1, <2>1, <2>2
<1>5. Leasers'
  <2> SUFFICES ASSUME NEW h \in Generations, NEW j \in Clients,
                      runtimes'[h].state = "running", runtimes'[h].lease = j
               PROVE  client'[j].pc \in Holding /\ client'[j].gen = h
    BY <1>2 DEF Leasers
  <2>1. CASE h = g
    <3>1. j # None
      BY NoneAssumption
    <3> QED
      BY <1>1, <1>2, <2>1, <3>1 DEF Claiming
  <2>2. CASE h # g
    <3>1. client[j].pc \in Holding /\ client[j].gen = h
      BY <1>2, <2>2 DEF ClaimInv, Leasers
    <3> QED
      BY <1>1, <2>2, <3>1 DEF Claiming
  <2> QED
    BY <2>1, <2>2
<1>6. Rejecters'
  <2> SUFFICES ASSUME ~disposed, NEW h \in Generations,
                      runtimes'[h].state = "running", runtimes'[h].lease = None
               PROVE  \E j \in Clients : client'[j].pc = "rejecting" /\ client'[j].gen = h
    BY <1>2 DEF Rejecters
  <2>1. CASE h = g
    BY <1>1, <1>2, <2>1, NoneAssumption DEF Claiming
  <2>2. CASE h # g
    <3>1. PICK j \in Clients : client[j].pc = "rejecting" /\ client[j].gen = h
      BY <1>2, <2>2 DEF ClaimInv, Rejecters
    <3> QED
      BY <1>1, <2>2, <3>1 DEF Claiming
  <2> QED
    BY <2>1, <2>2
<1>7. OneReject'
  BY <1>1 DEF ClaimInv, OneReject, Alone, Claiming
<1>8. SweepUse'
  BY <1>2, SweepWaits
<1>9. ASSUME NEW j \in Clients PROVE ClaimOK(j)'
  <2>1. CASE j = k
    <3>1. c.pc # "invalidated"
      BY DEF Starting
    <3> QED
      BY <1>1, <1>2, <2>1, <3>1 DEF ClaimOK, Claiming
  <2>2. CASE j # k
    <3>1. ClaimOK(j) /\ ClientOK(j) /\ client'[j] = client[j]
      BY <1>1, <2>2 DEF ClaimInv, PoolInv, UseInv
    <3>2. j \in handles' => j \in handles
      BY <2>2
    <3>3. CASE client[j].gen = g
      BY <2>2, <3>1, <3>2, <3>3 DEF ClaimOK, Alone, Claiming
    <3>4. CASE client[j].gen # g
      BY <1>2, <3>1, <3>2, <3>4 DEF ClaimOK, ClientOK
    <3> QED
      BY <3>3, <3>4
  <2> QED
    BY <2>1, <2>2
<1> QED
  BY <1>3, <1>4, <1>5, <1>6, <1>7, <1>8, <1>9 DEF ClaimInv

\* A client goes on without a change of the pool.
LEMMA ClaimGoes ==
  ASSUME PoolInv, ClaimInv, UNCHANGED <<runtimes, sweep, disposed, handles>>,
         NEW k \in Clients, NEW c \in [pc : ClientStates, gen : Nat],
         client' = [client EXCEPT ![k] = c],
         client[k].pc \in Starting => c.pc \in Starting /\ c.gen = client[k].gen,
         client[k].pc \in Holding =>
            \/ c.pc \in Holding /\ c.gen = client[k].gen
            \/ /\ k \notin handles
               /\ \A g \in Generations : ~(runtimes[g].state = "running" /\ runtimes[g].lease = k),
         client[k].pc = "rejecting" => disposed,
         c.pc \in Holding => client[k].pc \in Holding /\ c.gen = client[k].gen,
         c.pc # "rejecting", c.pc = "invalidated" => disposed
  PROVE  ClaimInv'
<1>1. /\ client'[k] = c
      /\ \A j \in Clients \ {k} : client'[j] = client[j]
  BY ClientChanges DEF PoolInv, UseInv
<1>2. Generations' = Generations
  BY DEF Generations
<1>3. UsesOK'
  BY <1>2 DEF ClaimInv, UsesOK
<1>4. Starters'
  <2> SUFFICES ASSUME NEW h \in Generations, ~runtimes[h].settled
               PROVE  \E j \in Clients : client'[j].pc \in Starting /\ client'[j].gen = h
    BY <1>2 DEF Starters
  <2>1. PICK j \in Clients : client[j].pc \in Starting /\ client[j].gen = h
    BY DEF ClaimInv, Starters
  <2> QED
    BY <1>1, <2>1
<1>5. Leasers'
  BY <1>1, <1>2 DEF ClaimInv, Leasers
<1>6. Rejecters'
  <2> SUFFICES ASSUME ~disposed, NEW h \in Generations,
                      runtimes[h].state = "running", runtimes[h].lease = None
               PROVE  \E j \in Clients : client'[j].pc = "rejecting" /\ client'[j].gen = h
    BY <1>2 DEF Rejecters
  <2>1. PICK j \in Clients : client[j].pc = "rejecting" /\ client[j].gen = h
    BY DEF ClaimInv, Rejecters
  <2> QED
    BY <1>1, <2>1
<1>7. OneReject'
  BY <1>1 DEF ClaimInv, OneReject
<1>8. SweepUse'
  BY <1>2, SweepWaits
<1>9. ASSUME NEW j \in Clients PROVE ClaimOK(j)'
  <2>1. ClaimOK(j)
    BY DEF ClaimInv
  <2>2. CASE j = k
    BY <1>1, <2>1, <2>2 DEF ClaimOK
  <2>3. CASE j # k
    BY <1>1, <2>1, <2>3 DEF ClaimOK
  <2> QED
    BY <2>2, <2>3
<1> QED
  BY <1>3, <1>4, <1>5, <1>6, <1>7, <1>8, <1>9 DEF ClaimInv

\* The dispose changes a record.
LEMMA ClaimSweeps ==
  ASSUME PoolInv, ClaimInv, UNCHANGED client, disposed, disposed', SweepUse',
         NEW g \in Generations, NEW r \in Runtime, runtimes' = [runtimes EXCEPT ![g] = r],
         handles' \subseteq handles,
         UseOK(r), r.settled,
         r.state = "running" /\ r.lease # None =>
            runtimes[g].state = "running" /\ runtimes[g].lease = r.lease,
         \A j \in handles' : runtimes[g].handle = j => r.handle = j
  PROVE  ClaimInv'
<1>1. /\ Generations' = Generations /\ runtimes'[g] = r
      /\ \A h \in Generations \ {g} : runtimes'[h] = runtimes[h]
  BY RecordSet DEF PoolInv, UseInv, PoolTypes
<1>2. UsesOK'
  BY <1>1 DEF ClaimInv, UsesOK
<1>3. Starters' /\ Rejecters' /\ OneReject'
  BY <1>1 DEF ClaimInv, Starters, Rejecters, OneReject
<1>4. Leasers'
  BY <1>1, NoneAssumption DEF ClaimInv, Leasers
<1>5. ASSUME NEW j \in Clients PROVE ClaimOK(j)'
  <2>1. ClaimOK(j) /\ ClientOK(j)
    BY DEF ClaimInv, PoolInv, UseInv
  <2> QED
    BY <1>1, <2>1 DEF ClaimOK, ClientOK
<1> QED
  BY <1>2, <1>3, <1>4, <1>5 DEF ClaimInv

\* The dispose goes on without a change of the records.
LEMMA ClaimSweepsOn ==
  ASSUME ClaimInv, UNCHANGED <<runtimes, client, handles>>, disposed', SweepUse'
  PROVE  ClaimInv'
<1>1. Generations' = Generations
  BY DEF Generations
<1> QED
  BY <1>1 DEF ClaimInv, UsesOK, Starters, Leasers, Rejecters, OneReject, ClaimOK

-------------------------------------------------------------------------------
(* Steps of clients. *)

\* A client changes its place alone.
LEMMA ClaimGoesTo ==
  ASSUME PoolInv, ClaimInv, UNCHANGED <<runtimes, sweep, disposed, handles>>,
         NEW k \in Clients, NEW pc \in ClientStates, At(k, pc),
         client[k].pc \in Starting => pc \in Starting,
         client[k].pc \in Holding =>
            \/ pc \in Holding
            \/ /\ k \notin handles
               /\ \A g \in Generations : ~(runtimes[g].state = "running" /\ runtimes[g].lease = k),
         client[k].pc = "rejecting" => disposed,
         pc \in Holding => client[k].pc \in Holding,
         pc # "rejecting", pc = "invalidated" => disposed
  PROVE  ClaimInv'
<1> DEFINE c == [pc |-> pc, gen |-> client[k].gen]
<1>1. c \in [pc : ClientStates, gen : Nat] /\ c.pc = pc /\ c.gen = client[k].gen
  BY ClientHas DEF PoolInv
<1>2. client' = [client EXCEPT ![k] = c]
  BY ClientHas, PlaceOnly DEF PoolInv, At
<1> HIDE DEF c
<1> QED
  BY <1>1, <1>2, ClaimGoes

\* A client changes its place and the record of its generation.
LEMMA ClaimTurnsTo ==
  ASSUME PoolInv, ClaimInv, UNCHANGED <<sweep, disposed>>,
         NEW k \in Clients, NEW pc \in ClientStates, At(k, pc),
         NEW g, g = client[k].gen, g \in Generations,
         NEW r \in Runtime, runtimes' = [runtimes EXCEPT ![g] = r],
         handles' \subseteq handles \cup {k},
         UseOK(r), r.settled, runtimes[g].gone => r.gone,
         ~disposed /\ r.gone => ~r.mapped,
         disposed /\ runtimes[g].handle = None => r.handle = None,
         Alone(k, g),
         r.state = "running" => r.lease = k /\ pc \in Holding,
         pc \notin Starting, pc # "rejecting",
         pc \in Holding => r.state = "running" /\ r.lease = k /\ r.handle = k,
         k \in handles' => pc \in Holding
  PROVE  ClaimInv'
<1> DEFINE c == [pc |-> pc, gen |-> g]
<1>1. c \in [pc : ClientStates, gen : Nat] /\ c.pc = pc /\ c.gen = g
  BY ClientHas DEF PoolInv
<1>2. client' = [client EXCEPT ![k] = c]
  <2>1. [client[k] EXCEPT !.pc = pc] = c
    BY ClientHas, PlaceOnly DEF PoolInv
  <2> QED
    BY <2>1 DEF At
<1> HIDE DEF c
<1> QED
  BY <1>1, <1>2, ClaimTurns

\* A runtime that is not running is nobody else's.
LEMMA AloneAtRest ==
  ASSUME ClaimInv, NEW g \in Generations, runtimes[g].state # "running", NEW k \in Clients
  PROVE  Alone(k, g)
BY NoneAssumption DEF ClaimInv, UsesOK, UseOK, ClaimOK, Alone, Claiming

LEMMA ClaimSpawns ==
  ASSUME PoolInv, ClaimInv, NEW k \in Clients, client[k].pc = "idle", ~disposed, Spawn(k),
         UNCHANGED <<sweep, disposed>>
  PROVE  ClaimInv'
<1> DEFINE n == Len(runtimes) + 1
           r == [id |-> NextRuntimeId, caps |-> {}, state |-> "spawning", lease |-> None,
                 handle |-> None, mapped |-> TRUE, settled |-> FALSE, issue |-> FALSE,
                 gone |-> FALSE]
           c == [pc |-> "starting", gen |-> n]
<1>1. Generations = 1 .. Len(runtimes) /\ Len(runtimes) \in Nat
  BY MappedIsFinite DEF PoolInv, UseInv, PoolTypes
<1>2. r \in Runtime
  BY NextIdIsFree DEF PoolInv, UseInv, PoolTypes, Runtime, RuntimeStates
<1>3. c \in [pc : ClientStates, gen : Nat] /\ c.pc = "starting" /\ c.gen = n
  BY <1>1 DEF ClientStates
<1>4. runtimes' = Append(runtimes, r) /\ client' = [client EXCEPT ![k] = c] /\ UNCHANGED handles
  BY DEF Spawn, AtGeneration
<1>5. UseOK(r) /\ ~r.settled /\ ~r.gone /\ r.state = "spawning"
  BY DEF UseOK
<1> HIDE DEF r, c
<1>6. /\ runtimes' \in Seq(Runtime) /\ Len(runtimes') = n /\ runtimes'[n] = r
      /\ \A g \in Generations : runtimes'[g] = runtimes[g]
  BY <1>1, <1>2, <1>4, AppendProperties DEF PoolInv, UseInv, PoolTypes, RuntimesTyped
<1>7. Generations' = 1 .. n
  BY <1>6, LenProperties DEF Generations
<1>8. Generations' = Generations \cup {n} /\ n \notin Generations
  BY <1>1, <1>7
<1> HIDE DEF n
<1>9. /\ client'[k] = c
      /\ \A j \in Clients \ {k} : client'[j] = client[j]
  BY <1>3, <1>4, ClientChanges DEF PoolInv, UseInv
<1>10. client[k].pc \notin Starting \cup Claiming
  BY DEF Starting, Claiming, Holding
<1>11. UsesOK'
  BY <1>5, <1>6, <1>8 DEF ClaimInv, UsesOK
<1>12. Starters'
  <2> SUFFICES ASSUME NEW h \in Generations', ~runtimes'[h].settled
               PROVE  \E j \in Clients : client'[j].pc \in Starting /\ client'[j].gen = h
    BY DEF Starters
  <2>1. CASE h = n
    BY <1>3, <1>9, <2>1 DEF Starting
  <2>2. CASE h \in Generations
    <3>1. PICK j \in Clients : client[j].pc \in Starting /\ client[j].gen = h
      BY <1>6, <2>2 DEF ClaimInv, Starters
    <3> QED
      BY <1>9, <1>10, <3>1
  <2> QED
    BY <1>8, <2>1, <2>2
<1>13. Leasers'
  BY <1>5, <1>6, <1>8, <1>9, <1>10 DEF ClaimInv, Leasers, Claiming
<1>14. Rejecters'
  <2> SUFFICES ASSUME NEW h \in Generations',
                      runtimes'[h].state = "running", runtimes'[h].lease = None
               PROVE  \E j \in Clients : client'[j].pc = "rejecting" /\ client'[j].gen = h
    BY DEF Rejecters
  <2>1. h \in Generations /\ runtimes'[h] = runtimes[h]
    BY <1>5, <1>6, <1>8
  <2>2. PICK j \in Clients : client[j].pc = "rejecting" /\ client[j].gen = h
    BY <2>1 DEF ClaimInv, Rejecters
  <2> QED
    BY <1>9, <1>10, <2>2 DEF Claiming
<1>15. OneReject'
  BY <1>3, <1>9 DEF ClaimInv, OneReject
<1>16. SweepUse'
  BY DEF ClaimInv, SweepUse
<1>17. ASSUME NEW j \in Clients PROVE ClaimOK(j)'
  <2>1. ClaimOK(j) /\ ClientOK(j)
    BY DEF ClaimInv, PoolInv, UseInv
  <2>2. CASE j = k
    BY <1>3, <1>4, <1>9, <1>10, <2>1, <2>2 DEF ClaimOK, Claiming, Holding
  <2>3. CASE j # k
    BY <1>4, <1>6, <1>9, <2>1, <2>3 DEF ClaimOK, ClientOK
  <2> QED
    BY <2>2, <2>3
<1> QED
  BY <1>4, <1>11, <1>12, <1>13, <1>14, <1>15, <1>16, <1>17 DEF ClaimInv

LEMMA ClaimAcquires ==
  ASSUME PoolInv, ClaimInv, NEW k \in Clients, Acquire(k)
  PROVE  ClaimInv'
<1>1. /\ client[k].pc = "idle" /\ UNCHANGED <<sweep, disposed>>
      /\ client[k].pc \notin Starting \cup Claiming
  BY DEF Acquire, Starting, Claiming, Holding
<1>2. CASE ~disposed /\ Reusable(k) # {} /\ Reuse(k, Min(Reusable(k)))
  <2>1. PICK g : g = Min(Reusable(k))
    OBVIOUS
  <2>2. g \in Reusable(k)
    <3>1. Reusable(k) \subseteq Nat
      BY MappedIsFinite DEF Reusable, Mapped, PoolInv, UseInv, PoolTypes
    <3> QED
      BY <1>2, <2>1, <3>1, MinOf
  <2>3. /\ g \in Generations /\ runtimes[g] \in Runtime /\ g \in Nat /\ runtimes[g].mapped
        /\ runtimes[g].state = "idle" /\ runtimes[g].lease = None
    BY <2>2, MappedIsFinite, ElementOfSeq
       DEF Reusable, Mapped, PoolInv, UseInv, PoolTypes, RuntimesTyped
  <2>4. /\ runtimes[g].settled /\ ~runtimes[g].gone /\ runtimes[g].handle = None
        /\ UseOK(runtimes[g])
    BY <1>2, <2>3 DEF PoolInv, UseInv, RecordsOK, RecordOK, ClaimInv, UsesOK, UseOK
  <2>5. Alone(k, g)
    BY <2>3, AloneAtRest
  <2>6. CASE /\ runtimes' = [runtimes EXCEPT ![g].state = "running", ![g].lease = k, ![g].handle = k]
             /\ AtGeneration(k, "held", g) /\ handles' = handles \cup {k}
    <3> DEFINE r == [runtimes[g] EXCEPT !.state = "running", !.lease = k, !.handle = k]
               c == [pc |-> "held", gen |-> g]
    <3>1. /\ r \in Runtime /\ r.state = "running" /\ r.lease = k /\ r.handle = k
          /\ r.settled /\ ~r.gone
      BY <2>3, <2>4 DEF Runtime, RuntimeStates
    <3>2. UseOK(r)
      BY <3>1 DEF UseOK
    <3>3. /\ c \in [pc : ClientStates, gen : Nat] /\ c.pc \in Holding /\ c.gen = g
          /\ c.pc \notin Starting /\ c.pc # "rejecting"
      BY <2>3 DEF ClientStates, Holding, Starting
    <3>4. runtimes' = [runtimes EXCEPT ![g] = r] /\ client' = [client EXCEPT ![k] = c]
      BY <2>3, <2>6 DEF AtGeneration
    <3> HIDE DEF r, c
    <3> QED
      BY <1>1, <1>2, <2>3, <2>4, <2>5, <2>6, <3>1, <3>2, <3>3, <3>4, ClaimTurns
  <2>7. CASE /\ runtimes' = [runtimes EXCEPT ![g].state = "running"]
             /\ AtGeneration(k, "rejecting", g) /\ UNCHANGED handles
    <3> DEFINE r == [runtimes[g] EXCEPT !.state = "running"]
               c == [pc |-> "rejecting", gen |-> g]
    <3>1. /\ r \in Runtime /\ r.state = "running" /\ r.lease = None /\ r.handle = None
          /\ r.settled /\ ~r.gone
      BY <2>3, <2>4 DEF Runtime, RuntimeStates
    <3>2. UseOK(r)
      BY <3>1 DEF UseOK
    <3>3. /\ c \in [pc : ClientStates, gen : Nat] /\ c.pc = "rejecting" /\ c.gen = g
          /\ c.pc \notin Starting /\ c.pc \notin Holding
      BY <2>3 DEF ClientStates, Holding, Starting
    <3>4. runtimes' = [runtimes EXCEPT ![g] = r] /\ client' = [client EXCEPT ![k] = c]
      BY <2>3, <2>7 DEF AtGeneration
    <3>5. k \notin handles
      BY <1>1 DEF ClaimInv, ClaimOK, Claiming
    <3> HIDE DEF r, c
    <3> QED
      BY <1>1, <1>2, <2>3, <2>4, <2>5, <2>7, <3>1, <3>2, <3>3, <3>4, <3>5, ClaimTurns
  <2> QED
    BY <1>2, <2>1, <2>6, <2>7 DEF Reuse
<1>3. CASE ~disposed /\ Spawn(k)
  BY <1>1, <1>3, ClaimSpawns
<1>4. CASE At(k, "refused") /\ UNCHANGED <<runtimes, handles>>
  BY <1>1, <1>4, ClaimGoesTo DEF ClientStates, Starting, Holding, Claiming
<1> QED
  BY <1>2, <1>3, <1>4 DEF Acquire

\* Nobody else holds or rejects the runtime of a client that does.
LEMMA AloneInUse ==
  ASSUME PoolInv, ClaimInv, NEW k \in Clients, client[k].pc \in Claiming,
         NEW g, g = client[k].gen, runtimes[g].state = "running",
         disposed /\ client[k].pc = "rejecting" => runtimes[g].handle = None,
         disposed /\ client[k].pc \in Holding => runtimes[g].lease = k
  PROVE  Alone(k, g)
<1> SUFFICES ASSUME NEW j \in Clients \ {k}, client[j].gen = g,
                    j \in handles \/ (~disposed /\ client[j].pc \in Claiming)
             PROVE  FALSE
  BY DEF Alone
<1>1. ClaimOK(j) /\ ClaimOK(k) /\ k # None /\ j # None /\ k # j
  BY NoneAssumption DEF ClaimInv
<1>2. g \in Generations /\ UseOK(runtimes[g])
  BY DEF PoolInv, UseInv, ClientOK, Claiming, ClaimInv, UsesOK
<1>3. CASE disposed
  BY <1>1, <1>2, <1>3 DEF ClaimOK, UseOK, Claiming
<1>4. CASE ~disposed /\ client[k].pc \in Holding
  BY <1>1, <1>2, <1>4 DEF ClaimOK, UseOK, Claiming
<1>5. CASE ~disposed /\ client[k].pc = "rejecting"
  <2>1. runtimes[g].lease = None
    BY <1>1, <1>5 DEF ClaimOK
  <2>2. client[j].pc # "rejecting"
    BY <1>1, <1>5 DEF ClaimInv, OneReject
  <2> QED
    BY <1>1, <1>2, <1>5, <2>1, <2>2 DEF ClaimOK, UseOK, Claiming
<1> QED
  BY <1>3, <1>4, <1>5 DEF Claiming

LEMMA ClaimRejected ==
  ASSUME PoolInv, ClaimInv, NEW k \in Clients, Rejected(k)
  PROVE  ClaimInv'
<1>1. PICK g : g = client[k].gen
  OBVIOUS
<1>2. /\ client[k].pc = "rejecting" /\ At(k, "refused") /\ UNCHANGED <<handles, sweep, disposed>>
      /\ client[k].pc \in Claiming \ (Starting \cup Holding)
      /\ "refused" \in ClientStates \ (Starting \cup Claiming)
  BY DEF Rejected, Claiming, Starting, Holding, ClientStates
<1>3. g \in Generations /\ runtimes[g] \in Runtime /\ RecordOK(runtimes[g])
      /\ runtimes[g].settled /\ UseOK(runtimes[g])
  BY <1>1, <1>2, Its DEF PoolInv, ClaimInv, UsesOK
<1>4. k \notin handles
  BY <1>2 DEF ClaimInv, ClaimOK
<1>5. CASE disposed
  <2>1. UNCHANGED runtimes
    BY <1>5 DEF Rejected
  <2> QED
    BY <1>2, <1>5, <2>1, ClaimGoesTo DEF Claiming
<1>6. CASE ~disposed
  <2>1. /\ runtimes[g].state = "running" /\ runtimes[g].lease = None
        /\ runtimes[g].handle = None /\ sweep.pc = "never" /\ ~runtimes[g].gone
    BY <1>1, <1>2, <1>3, <1>6, NoneAssumption DEF ClaimInv, ClaimOK, UseOK, SweepUse, Runtime
  <2> DEFINE r == [runtimes[g] EXCEPT !.state = "idle"]
  <2>2. runtimes' = [runtimes EXCEPT ![g].state = "idle"]
    BY <1>1, <1>6, <2>1 DEF Rejected, Sweeping
  <2>3. /\ r \in Runtime /\ r.state = "idle" /\ r.lease = None /\ r.handle = None
        /\ r.settled /\ ~r.gone
    BY <1>3, <2>1 DEF Runtime, RuntimeStates
  <2>4. UseOK(r)
    BY <2>3 DEF UseOK
  <2>5. runtimes' = [runtimes EXCEPT ![g] = r]
    BY <1>3, <2>2
  <2>6. Alone(k, g)
    BY <1>1, <1>2, <1>6, <2>1, AloneInUse
  <2> HIDE DEF r
  <2> QED
    BY <1>1, <1>2, <1>3, <1>4, <1>6, <2>1, <2>3, <2>4, <2>5, <2>6, ClaimTurnsTo DEF Claiming
<1> QED
  BY <1>5, <1>6

LEMMA ClaimStarted ==
  ASSUME PoolInv, ClaimInv, NEW k \in Clients, Started(k)
  PROVE  ClaimInv'
<1>1. PICK g : g = client[k].gen
  OBVIOUS
<1>2. /\ client[k].pc = "starting" /\ UNCHANGED <<sweep, disposed>>
      /\ client[k].pc \in Starting \ Claiming
      /\ "held" \in ClientStates \ Starting /\ "held" \in Holding /\ "held" # "rejecting"
      /\ "invalidated" \in ClientStates \cap Starting /\ "invalidated" \notin Holding
      /\ "invalidated" # "rejecting"
  BY DEF Started, Claiming, Starting, Holding, ClientStates
<1>3. /\ g \in Generations /\ runtimes[g] \in Runtime /\ RecordOK(runtimes[g])
      /\ ~runtimes[g].settled /\ UseOK(runtimes[g])
  BY <1>1, <1>2, Its DEF PoolInv, ClaimInv, UsesOK
<1>4. /\ runtimes[g].state = "spawning" /\ runtimes[g].mapped /\ ~runtimes[g].gone
  BY <1>3 DEF RecordOK
<1>5. CASE disposed /\ At(k, "invalidated") /\ UNCHANGED <<runtimes, handles>>
  BY <1>2, <1>5, ClaimGoesTo DEF Claiming
<1>6. CASE /\ ~disposed
           /\ runtimes' = [runtimes EXCEPT ![g] =
                [@ EXCEPT !.caps = Needs[k], !.state = "running", !.lease = k,
                          !.handle = k, !.settled = TRUE]]
           /\ handles' = handles \cup {k}
           /\ At(k, "held")
  <2> DEFINE r == [runtimes[g] EXCEPT !.caps = Needs[k], !.state = "running", !.lease = k,
                                      !.handle = k, !.settled = TRUE]
  <2>1. Needs[k] \in SUBSET Capabilities
    BY NeedsAssumption
  <2>2. /\ r \in Runtime /\ r.state = "running" /\ r.lease = k /\ r.handle = k
        /\ r.settled /\ ~r.gone
    BY <1>3, <1>4, <2>1 DEF Runtime, RuntimeStates
  <2>3. UseOK(r)
    BY <2>2 DEF UseOK
  <2>4. runtimes' = [runtimes EXCEPT ![g] = r]
    BY <1>3, <1>6
  <2>5. Alone(k, g)
    BY <1>3, <1>4, AloneAtRest
  <2>6. At(k, "held") /\ handles' \subseteq handles \cup {k} /\ ~disposed
    BY <1>6
  <2> HIDE DEF r
  <2> QED
    BY <1>1, <1>2, <1>3, <1>4, <2>2, <2>3, <2>4, <2>5, <2>6, ClaimTurnsTo
<1> QED
  BY <1>1, <1>4, <1>5, <1>6 DEF Started

LEMMA ClaimUndone ==
  ASSUME PoolInv, ClaimInv, NEW k \in Clients, Undone(k)
  PROVE  ClaimInv'
<1>1. PICK g : g = client[k].gen
  OBVIOUS
<1>2. PICK ok \in BOOLEAN :
        runtimes' = [runtimes EXCEPT ![g] = UndoneRecord(@, ok, client[k].pc)]
  BY <1>1 DEF Undone
<1>3. /\ client[k].pc \in {"undoing", "invalidated"} /\ At(k, "refused")
      /\ UNCHANGED <<handles, sweep, disposed>>
      /\ client[k].pc \in Starting \ Claiming
      /\ "refused" \in ClientStates \ (Starting \cup Claiming)
  BY DEF Undone, Claiming, Starting, Holding, ClientStates
<1>4. /\ g \in Generations /\ runtimes[g] \in Runtime /\ RecordOK(runtimes[g])
      /\ ~runtimes[g].settled /\ UseOK(runtimes[g])
  BY <1>1, <1>3, Its DEF PoolInv, ClaimInv, UsesOK
<1>5. /\ runtimes[g].state = "spawning" /\ runtimes[g].lease = None
      /\ runtimes[g].handle = None /\ ~runtimes[g].gone
  BY <1>4 DEF RecordOK, UseOK
<1>6. PICK r : r = UndoneRecord(runtimes[g], ok, client[k].pc)
  OBVIOUS
<1>7. runtimes' = [runtimes EXCEPT ![g] = r]
  BY <1>2, <1>4, <1>6
<1>8. /\ r \in Runtime /\ r.settled /\ r.lease = None /\ r.handle = None
      /\ (r.state = "failed" /\ ~r.gone) \/ (r.state = "disposed" /\ r.gone)
      /\ r.gone /\ r.mapped => client[k].pc = "invalidated"
  <2>1. CASE ok
    <3>1. PICK m \in BOOLEAN : m = (client[k].pc = "invalidated")
      OBVIOUS
    <3>2. r = [runtimes[g] EXCEPT !.state = "disposed", !.lease = None, !.gone = TRUE,
                   !.settled = TRUE, !.mapped = m]
      BY <1>6, <2>1, <3>1 DEF UndoneRecord
    <3> QED
      BY <1>4, <1>5, <3>1, <3>2 DEF Runtime, RuntimeStates
  <2>2. CASE ~ok
    <3>1. r = [runtimes[g] EXCEPT !.state = "failed", !.issue = TRUE, !.settled = TRUE]
      BY <1>6, <2>2 DEF UndoneRecord
    <3> QED
      BY <1>4, <1>5, <3>1 DEF Runtime, RuntimeStates
  <2> QED
    BY <2>1, <2>2
<1>9. UseOK(r)
  BY <1>8 DEF UseOK
<1>10. ~disposed /\ r.gone => ~r.mapped
  BY <1>8 DEF ClaimInv, ClaimOK
<1>11. k \notin handles
  BY <1>3 DEF ClaimInv, ClaimOK, Claiming
<1>12. Alone(k, g)
  BY <1>4, <1>5, AloneAtRest
<1>13. r.state # "running"
  BY <1>8
<1> QED
  BY <1>1, <1>3, <1>4, <1>5, <1>7, <1>8, <1>9, <1>10, <1>11, <1>12, <1>13, ClaimTurnsTo DEF Claiming

\* A lease that is given back.
LEMMA ClaimEnds ==
  ASSUME PoolInv, ClaimInv, NEW k \in Clients, client[k].pc \in Holding,
         UNCHANGED <<sweep, disposed>>, handles' = handles \ {k},
         NEW pc \in {"released", "unreleased"}, At(k, pc),
         NEW g, g = client[k].gen, NEW r \in Runtime, runtimes' = [runtimes EXCEPT ![g] = r],
         r.state \in {"idle", "failed"}, r.lease = None, r.handle = None,
         r.gone = runtimes[g].gone, r.mapped = runtimes[g].mapped,
         r.settled = runtimes[g].settled, Alone(k, g)
  PROVE  ClaimInv'
<1>1. /\ g \in Generations /\ RecordOK(runtimes[g]) /\ runtimes[g].settled
  BY Its DEF PoolInv, Starting, Holding
<1>2. UseOK(r)
  BY DEF UseOK
<1>3. pc \in ClientStates /\ pc \notin Starting \cup Holding /\ pc # "rejecting"
  BY DEF ClientStates, Starting, Holding
<1>4. ~disposed /\ r.gone => ~r.mapped
  BY <1>1 DEF ClaimInv, UsesOK
<1>5. r.state # "running"
  OBVIOUS
<1> QED
  BY <1>1, <1>2, <1>3, <1>4, <1>5, ClaimTurnsTo

LEMMA ClaimReleases ==
  ASSUME PoolInv, ClaimInv, NEW k \in Clients, Release(k)
  PROVE  ClaimInv'
<1>1. PICK g : g = client[k].gen
  OBVIOUS
<1>2. /\ client[k].pc \in Holding /\ client[k].pc = "held"
      /\ UNCHANGED <<sweep, disposed, handles>>
      /\ client[k].pc \notin Starting /\ client[k].pc # "rejecting"
      /\ "unreleased" \in ClientStates \ (Starting \cup Claiming)
      /\ "releasing" \in ClientStates \cap Holding
      /\ "releasing" \notin Starting /\ "releasing" # "rejecting"
  BY DEF Release, Holding, Starting, Claiming, ClientStates
<1>3. g \in Generations /\ runtimes[g] \in Runtime /\ UseOK(runtimes[g]) /\ k # None
  BY <1>1, <1>2, Its, NoneAssumption DEF PoolInv, ClaimInv, UsesOK
<1>4. CASE /\ runtimes[g].state # "running" \/ runtimes[g].lease # k
           /\ At(k, "unreleased") /\ UNCHANGED runtimes
  <2>1. k \notin handles
    BY <1>1, <1>3, <1>4 DEF ClaimInv, ClaimOK, UseOK
  <2>2. \A h \in Generations : ~(runtimes[h].state = "running" /\ runtimes[h].lease = k)
    BY <1>1, <1>4 DEF ClaimInv, Leasers
  <2> QED
    BY <1>2, <1>4, <2>1, <2>2, ClaimGoesTo DEF Claiming
<1>5. CASE /\ runtimes[g].state = "running" /\ runtimes[g].lease = k /\ runtimes[g].handle = None
           /\ runtimes' = [runtimes EXCEPT ![g].state = "idle", ![g].lease = None]
           /\ At(k, "released")
  <2> DEFINE r == [runtimes[g] EXCEPT !.state = "idle", !.lease = None]
  <2>1. /\ r \in Runtime /\ r.mapped = runtimes[g].mapped /\ r.gone = runtimes[g].gone
        /\ r.state \in {"idle", "failed"}
        /\ r.lease = None /\ r.handle = None /\ r.settled = runtimes[g].settled
    BY <1>3, <1>5 DEF Runtime, RuntimeStates
  <2>2. runtimes' = [runtimes EXCEPT ![g] = r]
    BY <1>3, <1>5
  <2>3. "released" \in {"released", "unreleased"} /\ At(k, "released")
    BY <1>5
  <2>4. k \notin handles
    BY <1>1, <1>3, <1>5 DEF ClaimInv, ClaimOK
  <2>5. Alone(k, g)
    BY <1>1, <1>2, <1>5, AloneInUse DEF Claiming
  <2>6. handles' = handles \ {k}
    BY <1>2, <2>4
  <2> HIDE DEF r
  <2> QED
    BY <1>1, <1>2, <2>1, <2>2, <2>3, <2>5, <2>6, ClaimEnds
<1>6. CASE At(k, "releasing") /\ UNCHANGED runtimes
  BY <1>2, <1>6, ClaimGoesTo
<1> QED
  BY <1>1, <1>4, <1>5, <1>6 DEF Release

LEMMA ClaimReleased ==
  ASSUME PoolInv, ClaimInv, NEW k \in Clients, ReleaseEnds(k)
  PROVE  ClaimInv'
<1>1. PICK g : g = client[k].gen
  OBVIOUS
<1>2. /\ client[k].pc \in Holding /\ client[k].pc \in Claiming /\ client[k].pc # "rejecting"
      /\ UNCHANGED <<sweep, disposed>> /\ handles' = handles \ {k}
  BY DEF ReleaseEnds, Holding, Claiming
<1>3. /\ g \in Generations /\ runtimes[g] \in Runtime /\ UseOK(runtimes[g])
      /\ runtimes[g].lease = k \/ runtimes[g].gone
  BY <1>1, <1>2, Its DEF PoolInv, ClaimInv, UsesOK
<1>4. PICK ok \in BOOLEAN, pc \in {"released", "unreleased"} :
         runtimes' = [runtimes EXCEPT ![g] = ReleasedRecord(@, ok)] /\ At(k, pc)
  BY <1>1 DEF ReleaseEnds
<1>5. PICK r : r = ReleasedRecord(runtimes[g], ok)
  OBVIOUS
<1>6. PICK state \in {"idle", "failed"} : state = IF ok THEN "idle" ELSE "failed"
  OBVIOUS
<1>7. r = [runtimes[g] EXCEPT !.state = state, !.lease = None, !.handle = None]
  BY <1>5, <1>6 DEF ReleasedRecord
<1>8. /\ r \in Runtime /\ r.mapped = runtimes[g].mapped /\ r.gone = runtimes[g].gone
      /\ r.state \in {"idle", "failed"}
      /\ r.lease = None /\ r.handle = None /\ r.settled = runtimes[g].settled
  BY <1>3, <1>7 DEF Runtime, RuntimeStates
<1>9. runtimes' = [runtimes EXCEPT ![g] = r]
  BY <1>3, <1>4, <1>5
<1>10. Alone(k, g)
  <2>1. CASE ~disposed
    <3>1. runtimes[g].state = "running"
      BY <1>1, <1>2, <2>1 DEF ClaimInv, ClaimOK
    <3> QED
      BY <1>1, <1>2, <2>1, <3>1, AloneInUse
  <2>2. CASE disposed
    BY <1>3, <2>2, NoneAssumption DEF Alone, ClaimInv, ClaimOK, UseOK
  <2> QED
    BY <2>1, <2>2
<1>11. At(k, pc)
  BY <1>4
<1> QED
  BY <1>1, <1>2, <1>8, <1>9, <1>10, <1>11, ClaimEnds

LEMMA ClaimFreed ==
  ASSUME PoolInv, ClaimInv, NEW k \in Clients, Freed(k),
         client[k].pc \in {"refused", "released", "unreleased"},
         UNCHANGED <<runtimes, sweep, disposed, handles>>
  PROVE  ClaimInv'
<1> DEFINE c == [pc |-> "idle", gen |-> 0]
<1>1. /\ c \in [pc : ClientStates, gen : Nat] /\ c.pc \notin Starting \cup Claiming
      /\ client[k].pc \notin Starting \cup Claiming
  BY DEF ClientStates, Starting, Holding, Claiming
<1>2. client' = [client EXCEPT ![k] = c]
  BY DEF Freed
<1> HIDE DEF c
<1> QED
  BY <1>1, <1>2, ClaimGoes DEF Claiming, Starting

LEMMA ClaimStartFails ==
  ASSUME PoolInv, ClaimInv, NEW k \in Clients, StartFails(k)
  PROVE  ClaimInv'
<1>1. /\ client[k].pc = "starting" /\ At(k, "undoing")
      /\ UNCHANGED <<runtimes, handles, disposed, sweep>>
      /\ "undoing" \in Starting \cap ClientStates /\ "undoing" \notin Holding
      /\ client[k].pc \notin Holding /\ client[k].pc # "rejecting"
      /\ "undoing" \notin {"rejecting", "invalidated"}
  BY DEF StartFails, Starting, Holding, ClientStates
<1> QED
  BY <1>1, ClaimGoesTo

-------------------------------------------------------------------------------
(* Steps of the dispose. *)

\* The record the dispose looks at.
LEMMA SweptIs ==
  ASSUME PoolInv, ClaimInv, NEW g \in Generations
  PROVE  runtimes[g] \in Runtime /\ RecordOK(runtimes[g]) /\ UseOK(runtimes[g]) /\ g \in Nat
BY MappedIsFinite, ElementOfSeq
   DEF PoolInv, UseInv, PoolTypes, RuntimesTyped, RecordsOK, ClaimInv, UsesOK

LEMMA ClaimSweepNext ==
  ASSUME PoolInv, ClaimInv, SweepNext
  PROVE  ClaimInv'
<1>1. PICK g : g = Min(sweep.left)
  OBVIOUS
<1>2. /\ sweep \in SweepTypes /\ sweep.pc = "next" /\ UNCHANGED <<client, disposed>> /\ disposed
  BY DEF SweepNext, PoolInv, UseInv, PoolTypes, SweepTypes, ClaimInv, SweepUse
<1>3. g \in sweep.left /\ g \in Nat
  BY <1>1, <1>2, MinOf DEF SweepNext, SweepTypes
<1>4. g \in Generations /\ runtimes[g].settled /\ sweep.left \subseteq Generations
  BY <1>2, <1>3 DEF PoolInv, SweepOK
<1>5. /\ runtimes[g] \in Runtime /\ UseOK(runtimes[g])
  BY <1>4, SweptIs
<1>6. /\ \A h \in Generations : runtimes[h].settled
      /\ sweep.issues \/ \A h \in Generations : h \in sweep.left \/ runtimes[h].gone
  BY <1>2 DEF ClaimInv, SweepUse
<1>7. CASE /\ runtimes' = [runtimes EXCEPT ![g].issue = FALSE]
           /\ sweep' = [sweep EXCEPT !.left = sweep.left \ {g}, !.issues = TRUE]
           /\ UNCHANGED handles
  <2> DEFINE r == [runtimes[g] EXCEPT !.issue = FALSE]
  <2>1. /\ r \in Runtime /\ r.settled /\ r.state = runtimes[g].state
        /\ r.lease = runtimes[g].lease /\ r.handle = runtimes[g].handle
        /\ r.gone = runtimes[g].gone
    BY <1>4, <1>5 DEF Runtime
  <2>2. runtimes' = [runtimes EXCEPT ![g] = r]
    BY <1>4, <1>7
  <2>3. UseOK(r)
    BY <1>4, <1>5, <2>1 DEF UseOK
  <2>4. sweep'.pc = "next" /\ sweep'.issues
    BY <1>2, <1>7 DEF SweepTypes
  <2> HIDE DEF r
  <2>5. /\ Generations' = Generations /\ runtimes'[g] = r
        /\ \A h \in Generations \ {g} : runtimes'[h] = runtimes[h]
    BY <1>4, <2>1, <2>2, RecordSet DEF PoolInv, UseInv, PoolTypes
  <2>7. \A h \in Generations : runtimes'[h].settled
    BY <1>6, <2>1, <2>5
  <2>6. SweepUse'
    BY <1>2, <1>4, <2>4, <2>5, <2>7 DEF SweepUse
  <2> QED
    BY <1>2, <1>4, <1>7, <2>1, <2>2, <2>3, <2>6, ClaimSweeps
<1>8. CASE /\ runtimes[g].state = "disposed" \/ runtimes[g].gone
           /\ sweep' = [sweep EXCEPT !.left = sweep.left \ {g}] /\ UNCHANGED <<runtimes, handles>>
  <2>1. /\ sweep'.pc = "next" /\ sweep'.issues = sweep.issues /\ sweep'.left = sweep.left \ {g}
    BY <1>2, <1>8 DEF SweepTypes
  <2>2. runtimes[g].gone /\ Generations' = Generations
    BY <1>5, <1>8 DEF UseOK, Generations
  <2>3. SweepUse'
    BY <1>2, <1>6, <1>8, <2>1, <2>2 DEF SweepUse
  <2> QED
    BY <1>2, <1>8, <2>3, ClaimSweepsOn
<1>9. CASE /\ runtimes' = [runtimes EXCEPT ![g].handle = None]
           /\ sweep' = [sweep EXCEPT !.left = sweep.left \ {g}, !.at = g,
                          !.pc = IF runtimes[g].handle = None THEN "runtime" ELSE "handle"]
           /\ handles' = handles \ {runtimes[g].handle}
  <2> DEFINE r == [runtimes[g] EXCEPT !.handle = None]
  <2>1. /\ r \in Runtime /\ r.settled /\ r.state = runtimes[g].state
        /\ r.lease = runtimes[g].lease /\ r.handle = None
        /\ r.gone = runtimes[g].gone
    BY <1>4, <1>5 DEF Runtime
  <2>2. runtimes' = [runtimes EXCEPT ![g] = r]
    BY <1>4, <1>9
  <2>3. UseOK(r)
    BY <1>4, <1>5, <2>1 DEF UseOK
  <2>4. /\ sweep'.pc \in {"handle", "runtime"} /\ sweep'.issues = sweep.issues
        /\ sweep'.left = sweep.left \ {g} /\ sweep'.at = g
    BY <1>2, <1>9 DEF SweepTypes
  <2> HIDE DEF r
  <2>5. /\ Generations' = Generations /\ runtimes'[g] = r
        /\ \A h \in Generations \ {g} : runtimes'[h] = runtimes[h]
    BY <1>4, <2>1, <2>2, RecordSet DEF PoolInv, UseInv, PoolTypes
  <2>8. \A h \in Generations : runtimes'[h].settled /\ (runtimes[h].gone => runtimes'[h].gone)
    BY <1>6, <2>1, <2>5
  <2>6. SweepUse'
    BY <1>2, <1>4, <1>6, <2>1, <2>4, <2>5, <2>8 DEF SweepUse
  <2>7. \A j \in handles' : runtimes[g].handle = j => r.handle = j
    BY <1>9
  <2> QED
    BY <1>2, <1>4, <1>9, <2>1, <2>2, <2>3, <2>6, <2>7, ClaimSweeps
<1> QED
  BY <1>1, <1>7, <1>8, <1>9 DEF SweepNext

LEMMA ClaimSweepHere ==
  ASSUME PoolInv, ClaimInv, SweepHandle \/ SweepRuntime
  PROVE  ClaimInv'
<1>1. PICK g : g = sweep.at
  OBVIOUS
<1>2. /\ sweep \in SweepTypes /\ sweep.pc \in {"handle", "runtime"}
      /\ UNCHANGED <<client, disposed, handles>> /\ disposed
  BY DEF SweepHandle, SweepRuntime, PoolInv, UseInv, PoolTypes, SweepTypes, ClaimInv, SweepUse
<1>3. g \in Generations /\ runtimes[g].settled /\ sweep.left \subseteq Generations
  BY <1>1, <1>2 DEF PoolInv, SweepOK
<1>4. /\ runtimes[g] \in Runtime /\ UseOK(runtimes[g]) /\ runtimes[g].handle = None
      /\ \A h \in Generations : runtimes[h].settled
      /\ sweep.issues \/ \A h \in Generations : h \in sweep.left \/ runtimes[h].gone \/ h = g
  BY <1>1, <1>2, <1>3, SweptIs DEF ClaimInv, SweepUse
<1>5. CASE UNCHANGED runtimes /\ sweep' = [sweep EXCEPT !.pc = "runtime"]
  <2>1. /\ sweep'.pc = "runtime" /\ sweep'.issues = sweep.issues /\ sweep'.at = g
        /\ sweep'.left = sweep.left /\ Generations' = Generations
    BY <1>1, <1>2, <1>5 DEF SweepTypes, Generations
  <2>2. SweepUse'
    BY <1>2, <1>4, <1>5, <2>1 DEF SweepUse
  <2> QED
    BY <1>2, <1>5, <2>2, ClaimSweepsOn
<1>6. ASSUME NEW r \in Runtime, runtimes' = [runtimes EXCEPT ![g] = r],
             r.settled, runtimes[g].gone => r.gone, r.handle = None,
             (r.state = "failed" /\ r.lease = runtimes[g].lease) \/
                (r.state = "disposed" /\ r.gone /\ r.lease = None),
             NEW issues \in BOOLEAN, sweep.issues => issues, issues \/ r.gone,
             sweep' = [sweep EXCEPT !.pc = "next", !.at = 0, !.issues = issues]
      PROVE  ClaimInv'
  <2>1. /\ sweep'.pc = "next" /\ sweep'.issues = issues /\ sweep'.left = sweep.left
    BY <1>2, <1>6 DEF SweepTypes
  <2>2. /\ Generations' = Generations /\ runtimes'[g] = r
        /\ \A h \in Generations \ {g} : runtimes'[h] = runtimes[h]
    BY <1>3, <1>6, RecordSet DEF PoolInv, UseInv, PoolTypes
  <2>6. \A h \in Generations : runtimes'[h].settled /\ (runtimes[h].gone => runtimes'[h].gone)
    BY <1>4, <1>6, <2>2
  <2>3. SweepUse'
    BY <1>2, <1>4, <1>6, <2>1, <2>2, <2>6 DEF SweepUse
  <2>4. UseOK(r)
    BY <1>6 DEF UseOK
  <2>5. \A j \in handles' : runtimes[g].handle = j => r.handle = j
    BY <1>4, <1>6
  <2> QED
    BY <1>2, <1>3, <1>6, <2>3, <2>4, <2>5, ClaimSweeps
<1>7. CASE /\ runtimes' = [runtimes EXCEPT ![g].state = "failed"]
           /\ sweep' = [sweep EXCEPT !.pc = "next", !.at = 0, !.issues = TRUE]
  <2> DEFINE r == [runtimes[g] EXCEPT !.state = "failed"]
  <2>1. /\ r \in Runtime /\ r.settled /\ r.lease = runtimes[g].lease /\ r.state = "failed"
        /\ runtimes[g].gone => r.gone
        /\ r.handle = None
    BY <1>3, <1>4 DEF Runtime, RuntimeStates
  <2>2. runtimes' = [runtimes EXCEPT ![g] = r]
    BY <1>3, <1>7
  <2>3. TRUE \in BOOLEAN
    OBVIOUS
  <2> HIDE DEF r
  <2> QED
    BY <1>6, <1>7, <2>1, <2>2, <2>3
<1>8. CASE /\ runtimes' = [runtimes EXCEPT ![g] =
                [@ EXCEPT !.state = "disposed", !.lease = None, !.gone = TRUE]]
           /\ sweep' = [sweep EXCEPT !.pc = "next", !.at = 0]
  <2> DEFINE r == [runtimes[g] EXCEPT !.state = "disposed", !.lease = None, !.gone = TRUE]
  <2>1. /\ r \in Runtime /\ r.settled /\ r.gone /\ r.state = "disposed" /\ r.lease = None
        /\ r.handle = None
    BY <1>3, <1>4 DEF Runtime, RuntimeStates
  <2>2. runtimes' = [runtimes EXCEPT ![g] = r]
    BY <1>3, <1>8
  <2>3. sweep' = [sweep EXCEPT !.pc = "next", !.at = 0, !.issues = sweep.issues]
        /\ sweep.issues \in BOOLEAN
    BY <1>2, <1>8 DEF SweepTypes
  <2> HIDE DEF r
  <2> QED
    BY <1>6, <2>1, <2>2, <2>3
<1> QED
  BY <1>1, <1>5, <1>7, <1>8 DEF SweepHandle, SweepRuntime

LEMMA ClaimSweepEdges ==
  ASSUME PoolInv, ClaimInv, Dispose \/ SweepStarts \/ DisposeReturns
  PROVE  ClaimInv'
<1>1. /\ sweep \in SweepTypes /\ UNCHANGED <<runtimes, client, handles>>
      /\ Generations' = Generations /\ \A g \in Generations : RecordOK(runtimes[g])
      /\ ClaimInv
  BY DEF Dispose, SweepStarts, DisposeReturns, PoolInv, UseInv, PoolTypes, SweepTypes,
         RecordsOK, Generations
<1>2. CASE Dispose
  <2>1. sweep'.left = Mapped /\ sweep'.pc = "startups" /\ disposed' = TRUE
    BY <1>2 DEF Dispose
  <2>2. \A g \in Generations : g \in Mapped \/ runtimes[g].gone
    BY <1>1 DEF RecordOK, Mapped
  <2>3. SweepUse'
    BY <1>1, <2>1, <2>2 DEF SweepUse
  <2> QED
    BY <1>1, <2>1, <2>3, ClaimSweepsOn
<1>3. CASE SweepStarts
  <2>1. /\ sweep'.pc = "next" /\ sweep'.left = sweep.left /\ sweep'.issues = sweep.issues
        /\ \A g \in sweep.left : runtimes[g].settled
        /\ sweep.pc = "startups" /\ UNCHANGED disposed
    BY <1>1, <1>3 DEF SweepStarts, StartupsSettled, SweepTypes
  <2>2. \A g \in Generations : g \in sweep.left \/ runtimes[g].gone
    BY <2>1 DEF ClaimInv, SweepUse
  <2>3. \A g \in Generations : runtimes[g].settled
    BY <1>1, <2>1, <2>2 DEF RecordOK
  <2>4. disposed /\ disposed' /\ disposed' \in BOOLEAN
    BY <2>1 DEF ClaimInv, SweepUse
  <2>5. SweepUse'
    BY <1>1, <2>1, <2>2, <2>3, <2>4 DEF SweepUse
  <2> QED
    BY <1>1, <2>4, <2>5, ClaimSweepsOn
<1>4. CASE DisposeReturns
  <2>1. /\ sweep.pc = "next" /\ sweep.left = {} /\ UNCHANGED disposed
        /\ sweep'.pc = IF sweep.issues THEN "blocked" ELSE "disposed"
    BY <1>1, <1>4 DEF DisposeReturns, SweepTypes
  <2>2. /\ \A g \in Generations : runtimes[g].settled
        /\ sweep.issues \/ \A g \in Generations : runtimes[g].gone
        /\ disposed' /\ disposed' \in BOOLEAN
    BY <2>1 DEF ClaimInv, SweepUse
  <2>3. SweepUse'
    BY <1>1, <2>1, <2>2 DEF SweepUse
  <2> QED
    BY <1>1, <2>2, <2>3, ClaimSweepsOn
<1> QED
  BY <1>2, <1>3, <1>4

-------------------------------------------------------------------------------
LEMMA ClaimPoolStep ==
  ASSUME PoolInv, ClaimInv, PoolStep
  PROVE  ClaimInv'
<1>1. CASE \E k \in Clients : Rejected(k) \/ Started(k) \/ StartFails(k) \/ Undone(k) \/ ReleaseEnds(k)
  BY <1>1, ClaimRejected, ClaimStarted, ClaimStartFails, ClaimUndone, ClaimReleased
<1> QED
  BY <1>1, ClaimSweepNext, ClaimSweepHere, ClaimSweepEdges DEF PoolStep

LEMMA ClaimNext == PoolInv /\ ClaimInv /\ [Next]_vars => ClaimInv'
<1> SUFFICES ASSUME PoolInv, ClaimInv, [Next]_vars PROVE ClaimInv'
  OBVIOUS
<1>1. CASE UNCHANGED poolVars
  BY <1>1 DEF poolVars, ClaimInv, UsesOK, Starters, Leasers, Rejecters, OneReject, SweepUse,
     ClaimOK, Generations
<1>2. ASSUME NEW k \in Clients,
             \/ Acquire(k) \/ Release(k)
             \/ /\ Freed(k) /\ client[k].pc \in {"refused", "released", "unreleased"}
                /\ UNCHANGED <<runtimes, sweep, disposed, handles>>
      PROVE  ClaimInv'
  BY <1>2, ClaimAcquires, ClaimReleases, ClaimFreed
<1>3. CASE \E d \in Dispatches : Step(d)
  BY <1>1, <1>2, <1>3, DispatchUses
<1>4. CASE PoolStep
  BY <1>4, ClaimPoolStep
<1>5. CASE UNCHANGED vars
  BY <1>1, <1>5 DEF vars
<1> QED
  BY <1>3, <1>4, <1>5 DEF Next

LEMMA ClaimStarts == Init => ClaimInv
<1> SUFFICES ASSUME Init PROVE ClaimInv
  OBVIOUS
<1>1. /\ runtimes = <<>> /\ client = [k \in Clients |-> [pc |-> "idle", gen |-> 0]]
      /\ sweep = [pc |-> "never", left |-> {}, at |-> 0, issues |-> FALSE]
      /\ handles = {} /\ disposed = FALSE /\ Generations = {}
  BY DEF Init, PoolInit, Generations
<1> QED
  BY <1>1 DEF ClaimInv, UsesOK, Starters, Leasers, Rejecters, OneReject, SweepUse, ClaimOK, Holding

\* Runtimes, leases and handles are accounted for by the clients that are at
\* them and by the dispose, whatever fails and whenever it is called.
THEOREM ClaimInvariant == Spec => [](PoolInv /\ ClaimInv)
<1>1. Init => PoolInv /\ ClaimInv
  BY PoolStarts, ClaimStarts
<1>2. PoolInv /\ ClaimInv /\ [Next]_vars => (PoolInv /\ ClaimInv)'
  BY PoolNext, ClaimNext
<1> QED
  BY <1>1, <1>2, PTL DEF Spec

\* dispose: it reports success only when no runtime and no handle is left, and
\* no startup is under way.
THEOREM DisposedAll == Spec => []DisposedLeavesNothing
<1>1. ASSUME PoolInv, ClaimInv PROVE DisposedLeavesNothing
  <2> SUFFICES ASSUME sweep.pc = "disposed"
               PROVE  /\ \A g \in Generations : runtimes[g].gone
                      /\ handles = {}
                      /\ \A k \in Clients : client[k].pc # "starting"
    BY DEF DisposedLeavesNothing
  <2>1. \A g \in Generations : runtimes[g].gone
    BY <1>1 DEF ClaimInv, SweepUse
  <2>2. ASSUME NEW k \in Clients, client[k].pc = "starting"
        PROVE  FALSE
    <3>1. client[k].gen \in Generations /\ ~runtimes[client[k].gen].settled
      BY <1>1, <2>2 DEF PoolInv, UseInv, ClientOK, Starting
    <3> QED
      BY <1>1, <2>1, <3>1 DEF PoolInv, UseInv, RecordsOK, RecordOK
  <2>3. ASSUME NEW k \in handles
        PROVE  FALSE
    <3>1. k \in Clients /\ ClaimOK(k) /\ ClientOK(k)
      BY <1>1 DEF ClaimInv, PoolInv, UseInv
    <3>2. client[k].gen \in Generations /\ runtimes[client[k].gen].handle = k
      BY <3>1 DEF ClaimOK, ClientOK
    <3> QED
      BY <1>1, <2>1, <3>1, <3>2, NoneAssumption DEF ClaimInv, UsesOK, UseOK
  <2> QED
    BY <2>1, <2>2, <2>3
<1> QED
  BY ClaimInvariant, <1>1, PTL

-------------------------------------------------------------------------------
(***************************************************************************)
(* Where the clients of a dispatch are.                                    *)
(***************************************************************************)
Acquiring == Starting \cup {"rejecting", "refused", "held"}
Giving == {"releasing", "released", "unreleased"}

CallOK(d) ==
    LET worker == client[Worker[d]].pc
        reviewer == client[Reviewer[d]].pc IN
    /\ dispatch[d].pc = "idle" => worker = "idle"
    /\ dispatch[d].pc = "acquiring" => worker \in Acquiring
    /\ dispatch[d].pc \in Working => worker = "held"
    /\ dispatch[d].pc = "releasing" => worker \in Giving \cup {"held"}
    /\ dispatch[d].pc = "reviewing" => reviewer \in Acquiring
    /\ dispatch[d].pc = "reviewed" => reviewer \in Giving
    /\ dispatch[d].pc \notin {"reviewing", "reviewed"} => reviewer = "idle"

CallInv ==
    /\ \A d \in Dispatches : CallOK(d)
    /\ \A k \in Clients :
          (\A d \in Dispatches : k # Worker[d] /\ k # Reviewer[d]) => client[k].pc = "idle"

LEMMA PlaceChanges ==
  ASSUME PoolTypes, NEW k \in Clients, NEW pc, At(k, pc)
  PROVE  client'[k].pc = pc /\ \A j \in Clients \ {k} : client'[j] = client[j]
<1>1. client[k] \in [pc : ClientStates, gen : Nat]
  BY DEF PoolTypes
<1>2. [client[k] EXCEPT !.pc = pc] = [pc |-> pc, gen |-> client[k].gen]
  BY <1>1, PlaceOnly
<1>3. /\ client'[k] = [client[k] EXCEPT !.pc = pc]
      /\ \A j \in Clients \ {k} : client'[j] = client[j]
  BY DEF At, PoolTypes
<1> QED
  BY <1>2, <1>3

LEMMA ClientSet ==
  ASSUME PoolTypes, NEW k \in Clients, NEW pc, NEW g, AtGeneration(k, pc, g)
  PROVE  client'[k].pc = pc /\ \A j \in Clients \ {k} : client'[j] = client[j]
BY DEF AtGeneration, PoolTypes

LEMMA AcquireMoves ==
  ASSUME PoolTypes, NEW k \in Clients, Acquire(k)
  PROVE  /\ client[k].pc = "idle" /\ client'[k].pc \in Acquiring
         /\ \A j \in Clients \ {k} : client'[j] = client[j]
<1>1. client[k].pc = "idle"
  BY DEF Acquire
<1>2. \/ At(k, "refused")
      \/ \E g : AtGeneration(k, "held", g) \/ AtGeneration(k, "rejecting", g)
                  \/ AtGeneration(k, "starting", g)
  BY DEF Acquire, Reuse, Spawn
<1>3. CASE At(k, "refused")
  BY <1>1, <1>3, PlaceChanges DEF Acquiring
<1>4. CASE \E g : AtGeneration(k, "held", g) \/ AtGeneration(k, "rejecting", g)
                    \/ AtGeneration(k, "starting", g)
  BY <1>1, <1>4, ClientSet DEF Acquiring, Starting
<1> QED
  BY <1>2, <1>3, <1>4

LEMMA ReleaseMoves ==
  ASSUME PoolTypes, NEW k \in Clients, Release(k)
  PROVE  /\ client[k].pc = "held" /\ client'[k].pc \in Giving
         /\ \A j \in Clients \ {k} : client'[j] = client[j]
<1>1. client[k].pc = "held"
  BY DEF Release
<1>2. At(k, "unreleased") \/ At(k, "released") \/ At(k, "releasing")
  BY DEF Release
<1> QED
  BY <1>1, <1>2, PlaceChanges DEF Giving

LEMMA FreedMoves ==
  ASSUME PoolTypes, NEW k \in Clients, Freed(k)
  PROVE  client'[k].pc = "idle" /\ \A j \in Clients \ {k} : client'[j] = client[j]
BY DEF Freed, PoolTypes

\* On its own the pool goes on with an acquisition or a release.
LEMMA PoolMoves ==
  ASSUME PoolTypes, PoolStep, NEW j \in Clients
  PROVE  \/ client'[j].pc = client[j].pc
         \/ /\ client[j].pc \in Starting \cup {"rejecting"}
            /\ client'[j].pc \in Acquiring
         \/ client[j].pc = "releasing" /\ client'[j].pc \in Giving
<1>1. CASE UNCHANGED client
  BY <1>1
<1>2. ASSUME NEW k \in Clients, NEW pc, At(k, pc),
             \/ client[k].pc \in Starting \cup {"rejecting"} /\ pc \in Acquiring
             \/ client[k].pc = "releasing" /\ pc \in Giving
      PROVE  \/ client'[j].pc = client[j].pc
             \/ /\ client[j].pc \in Starting \cup {"rejecting"}
                /\ client'[j].pc \in Acquiring
             \/ client[j].pc = "releasing" /\ client'[j].pc \in Giving
  <2>1. client'[k].pc = pc /\ \A i \in Clients \ {k} : client'[i] = client[i]
    BY <1>2, PlaceChanges
  <2> QED
    BY <1>2, <2>1
<1>3. CASE \E k \in Clients : Rejected(k) \/ Started(k) \/ StartFails(k) \/ Undone(k) \/ ReleaseEnds(k)
  <2>1. PICK k \in Clients : Rejected(k) \/ Started(k) \/ StartFails(k) \/ Undone(k) \/ ReleaseEnds(k)
    BY <1>3
  <2>2. \E pc : /\ At(k, pc)
                /\ \/ client[k].pc \in Starting \cup {"rejecting"} /\ pc \in Acquiring
                   \/ client[k].pc = "releasing" /\ pc \in Giving
    <3>1. CASE Rejected(k)
      <4>1. At(k, "refused") /\ client[k].pc = "rejecting" /\ "refused" \in Acquiring
        BY <3>1 DEF Rejected, Acquiring
      <4> QED
        BY <4>1
    <3>2. CASE Started(k) \/ StartFails(k)
      <4>1. /\ client[k].pc \in Starting
            /\ At(k, "invalidated") \/ At(k, "held") \/ At(k, "undoing")
            /\ {"invalidated", "held", "undoing"} \subseteq Acquiring
        BY <3>2 DEF Started, StartFails, Acquiring, Starting
      <4> QED
        BY <4>1
    <3>3. CASE Undone(k)
      <4>1. client[k].pc \in Starting /\ At(k, "refused") /\ "refused" \in Acquiring
        BY <3>3 DEF Undone, Acquiring, Starting
      <4> QED
        BY <4>1
    <3>4. CASE ReleaseEnds(k)
      <4>1. /\ client[k].pc = "releasing" /\ (At(k, "released") \/ At(k, "unreleased"))
            /\ {"released", "unreleased"} \subseteq Giving
        BY <3>4 DEF ReleaseEnds, Giving
      <4> QED
        BY <4>1
    <3> QED
      BY <2>1, <3>1, <3>2, <3>3, <3>4
  <2> QED
    BY <1>2, <2>2
<1>4. CASE Dispose \/ SweepStarts \/ SweepNext \/ SweepHandle \/ SweepRuntime \/ DisposeReturns
  BY <1>1, <1>4 DEF Dispose, SweepStarts, SweepNext, SweepHandle, SweepRuntime, DisposeReturns
<1> QED
  BY <1>3, <1>4 DEF PoolStep

LEMMA CallsGoOn ==
  ASSUME PoolTypes, CallInv, PoolStep, UNCHANGED dispatch
  PROVE  CallInv'
<1>1. ASSUME NEW j \in Clients
      PROVE  /\ client[j].pc \in {"idle", "held", "refused", "released", "unreleased"}
                   => client'[j].pc = client[j].pc
             /\ client[j].pc \in Acquiring => client'[j].pc \in Acquiring
             /\ client[j].pc \in Giving => client'[j].pc \in Giving
  <2>1. \/ client'[j].pc = client[j].pc
        \/ /\ client[j].pc \in Starting \cup {"rejecting"}
           /\ client'[j].pc \in Acquiring
        \/ client[j].pc = "releasing" /\ client'[j].pc \in Giving
    BY PoolMoves
  <2> QED
    BY <2>1 DEF Starting, Acquiring, Giving
<1>2. ASSUME NEW d \in Dispatches PROVE CallOK(d)'
  <2>1. Worker[d] \in Clients /\ Reviewer[d] \in Clients /\ CallOK(d)
    BY DispatchAssumption DEF CallInv
  <2> QED
    BY <1>1, <2>1 DEF CallOK
<1> QED
  BY <1>1, <1>2 DEF CallInv

\* A dispatch goes on with its own clients.
LEMMA CallGoesOn ==
  ASSUME CallInv, NEW d \in Dispatches, CallOK(d)',
         \A e \in Dispatches \ {d} : dispatch'[e] = dispatch[e],
         \A k \in Clients \ {Worker[d], Reviewer[d]} : client'[k] = client[k]
  PROVE  CallInv'
<1>1. ASSUME NEW e \in Dispatches PROVE CallOK(e)'
  <2>1. CASE e = d
    BY <2>1
  <2>2. CASE e # d
    <3>1. /\ Worker[e] \in Clients \ {Worker[d], Reviewer[d]}
          /\ Reviewer[e] \in Clients \ {Worker[d], Reviewer[d]}
      BY <2>2, DispatchAssumption, ClientsAssumption
    <3>2. CallOK(e) /\ dispatch'[e] = dispatch[e]
      BY <2>2 DEF CallInv
    <3> QED
      BY <3>1, <3>2 DEF CallOK
  <2> QED
    BY <2>1, <2>2
<1> QED
  BY <1>1 DEF CallInv

\* Every step of a dispatch does so.
LEMMA CallSteps ==
  ASSUME PoolTypes, GraphTypes, CallInv, NEW d \in Dispatches, Step(d)
  PROVE  CallInv'
<1> DEFINE w == Worker[d]
           v == Reviewer[d]
<1>1. w \in Clients /\ v \in Clients /\ w # v /\ CallOK(d)
  BY DispatchAssumption, ClientsAssumption DEF CallInv
<1> HIDE DEF w, v
<1>2. ASSUME NEW pc, Goto(d, pc)
      PROVE  dispatch'[d].pc = pc /\ \A e \in Dispatches \ {d} : dispatch'[e] = dispatch[e]
  BY <1>2 DEF Goto, GraphTypes
<1>3. ASSUME Ended(d)
      PROVE  dispatch'[d].pc = "idle" /\ \A e \in Dispatches \ {d} : dispatch'[e] = dispatch[e]
  <2>1. Idle.pc = "idle"
    BY DEF Idle
  <2> QED
    BY <1>3, <2>1 DEF Ended, GraphTypes
<1>4. CASE \E a \in Assignments : Begin(d, a)
  <2>1. PICK a \in Assignments : Begin(d, a)
    BY <1>4
  <2>2. /\ dispatch[d].pc = "idle" /\ Acquire(w)
        /\ dispatch' = [dispatch EXCEPT ![d] = [pc |-> "acquiring", of |-> a]]
    BY <2>1 DEF Begin, w
  <2>3. /\ dispatch'[d].pc = "acquiring"
        /\ \A e \in Dispatches \ {d} : dispatch'[e] = dispatch[e]
    BY <2>2 DEF GraphTypes
  <2>4. client'[w].pc \in Acquiring /\ \A k \in Clients \ {w} : client'[k] = client[k]
    BY <1>1, <2>2, AcquireMoves
  <2>5. CallOK(d)'
    BY <1>1, <2>2, <2>3, <2>4 DEF CallOK, Working, w, v
  <2> QED
    BY <2>3, <2>4, <2>5, CallGoesOn DEF w, v
<1>5. CASE Refused(d) \/ Return(d)
  <2>1. Freed(w) /\ Ended(d) /\ dispatch[d].pc \in {"acquiring", "releasing"}
    BY <1>5 DEF Refused, Return, w
  <2>2. client'[w].pc = "idle" /\ \A k \in Clients \ {w} : client'[k] = client[k]
    BY <1>1, <2>1, FreedMoves
  <2>3. /\ dispatch'[d].pc = "idle"
        /\ \A e \in Dispatches \ {d} : dispatch'[e] = dispatch[e]
    BY <1>3, <2>1
  <2>4. CallOK(d)'
    BY <1>1, <2>1, <2>2, <2>3 DEF CallOK, Working, w, v
  <2> QED
    BY <2>2, <2>3, <2>4, CallGoesOn DEF w, v
<1>6. CASE Assign(d) \/ Prepare(d) \/ ExecuteThrows(d) \/ ExecuteEnds(d)
  <2>1. /\ dispatch[d].pc \in {"acquiring", "preparing", "executing"}
        /\ dispatch[d].pc = "acquiring" => client[w].pc = "held"
        /\ Goto(d, "preparing") \/ Goto(d, "executing") \/ Goto(d, "releasing")
        /\ UNCHANGED client
    BY <1>6 DEF Assign, Prepare, ExecuteThrows, ExecuteEnds, poolVars, w
  <2>2. /\ dispatch'[d].pc \in {"preparing", "executing", "releasing"}
        /\ \A e \in Dispatches \ {d} : dispatch'[e] = dispatch[e]
    BY <1>2, <2>1
  <2>3. CallOK(d)'
    BY <1>1, <2>1, <2>2 DEF CallOK, Working, w, v
  <2> QED
    BY <2>1, <2>2, <2>3, CallGoesOn
<1>7. CASE ExecuteSucceeds(d)
  <2>1. /\ dispatch[d].pc = "executing"
        /\ \/ Goto(d, "releasing") /\ UNCHANGED client
           \/ Goto(d, "reviewing") /\ Acquire(v)
    BY <1>7 DEF ExecuteSucceeds, poolVars, v
  <2>2. CASE Goto(d, "releasing") /\ UNCHANGED client
    <3>1. /\ dispatch'[d].pc = "releasing"
          /\ \A e \in Dispatches \ {d} : dispatch'[e] = dispatch[e]
      BY <1>2, <2>2
    <3>2. CallOK(d)'
      BY <1>1, <2>1, <2>2, <3>1 DEF CallOK, Working, w, v
    <3> QED
      BY <2>2, <3>1, <3>2, CallGoesOn
  <2>3. CASE Goto(d, "reviewing") /\ Acquire(v)
    <3>1. /\ dispatch'[d].pc = "reviewing"
          /\ \A e \in Dispatches \ {d} : dispatch'[e] = dispatch[e]
      BY <1>2, <2>3
    <3>2. client'[v].pc \in Acquiring /\ \A k \in Clients \ {v} : client'[k] = client[k]
      BY <1>1, <2>3, AcquireMoves
    <3>3. CallOK(d)'
      BY <1>1, <2>1, <3>1, <3>2 DEF CallOK, Working, w, v
    <3> QED
      BY <3>1, <3>2, <3>3, CallGoesOn DEF w, v
  <2> QED
    BY <2>1, <2>2, <2>3
<1>8. CASE ReviewRefused(d) \/ Gate(d)
  <2>1. Freed(v) /\ Goto(d, "releasing") /\ dispatch[d].pc \in {"reviewing", "reviewed"}
    BY <1>8 DEF ReviewRefused, Gate, v
  <2>2. client'[v].pc = "idle" /\ \A k \in Clients \ {v} : client'[k] = client[k]
    BY <1>1, <2>1, FreedMoves
  <2>3. /\ dispatch'[d].pc = "releasing"
        /\ \A e \in Dispatches \ {d} : dispatch'[e] = dispatch[e]
    BY <1>2, <2>1
  <2>4. CallOK(d)'
    BY <1>1, <2>1, <2>2, <2>3 DEF CallOK, Working, w, v
  <2> QED
    BY <2>2, <2>3, <2>4, CallGoesOn DEF w, v
<1>9. CASE Review(d)
  <2>1. Release(v) /\ Goto(d, "reviewed") /\ dispatch[d].pc = "reviewing"
    BY <1>9 DEF Review, v
  <2>2. client'[v].pc \in Giving /\ \A k \in Clients \ {v} : client'[k] = client[k]
    BY <1>1, <2>1, ReleaseMoves
  <2>3. /\ dispatch'[d].pc = "reviewed"
        /\ \A e \in Dispatches \ {d} : dispatch'[e] = dispatch[e]
    BY <1>2, <2>1
  <2>4. CallOK(d)'
    BY <1>1, <2>1, <2>2, <2>3 DEF CallOK, Working, w, v
  <2> QED
    BY <2>2, <2>3, <2>4, CallGoesOn DEF w, v
<1>10. CASE ReleaseWorker(d)
  <2>1. Release(w) /\ UNCHANGED dispatch /\ dispatch[d].pc = "releasing"
    BY <1>10 DEF ReleaseWorker, dispatchVars, w
  <2>2. client'[w].pc \in Giving /\ \A k \in Clients \ {w} : client'[k] = client[k]
    BY <1>1, <2>1, ReleaseMoves
  <2>3. CallOK(d)'
    BY <1>1, <2>1, <2>2 DEF CallOK, Working, w, v
  <2> QED
    BY <2>1, <2>2, <2>3, CallGoesOn DEF w, v
<1> QED
  BY <1>4, <1>5, <1>6, <1>7, <1>8, <1>9, <1>10 DEF Step

LEMMA CallNext == PoolTypes /\ GraphTypes /\ CallInv /\ [Next]_vars => CallInv'
<1> SUFFICES ASSUME PoolTypes, GraphTypes, CallInv, [Next]_vars PROVE CallInv'
  OBVIOUS
<1>1. CASE \E d \in Dispatches : Step(d)
  BY <1>1, CallSteps
<1>2. CASE PoolStep /\ UNCHANGED dispatchVars
  BY <1>2, CallsGoOn DEF dispatchVars
<1>3. CASE UNCHANGED vars
  BY <1>3 DEF vars, poolVars, dispatchVars, CallInv, CallOK
<1> QED
  BY <1>1, <1>2, <1>3 DEF Next

LEMMA CallStarts == Init => CallInv
<1> SUFFICES ASSUME Init PROVE CallInv
  OBVIOUS
<1>1. /\ \A k \in Clients : client[k].pc = "idle"
      /\ \A d \in Dispatches : dispatch[d].pc = "idle"
  <2>1. Idle.pc = "idle"
    BY DEF Idle
  <2> QED
    BY <2>1 DEF Init, PoolInit
<1> QED
  BY <1>1, DispatchAssumption DEF CallInv, CallOK, Working

\* A dispatch holds a worker from assign to its release, and a reviewer within
\* the review; nobody else acquires.
THEOREM CallInvariant == Spec => []CallInv
<1>1. GraphInv /\ PoolInv => GraphTypes /\ PoolTypes
  BY DEF GraphInv, PoolInv, UseInv
<1> QED
  BY GraphInvariant, PoolInvariant, CallStarts, CallNext, <1>1, PTL DEF Spec

\* The finally of dispatch and of the review: when no dispatch is under way no
\* runtime is leased and no handle is open, but for what a dispose looks after.
THEOREM RestsUnleased == Spec => []NothingIsLeasedAtRest
<1>1. ASSUME ClaimInv, PoolInv, CallInv PROVE NothingIsLeasedAtRest
  <2> SUFFICES ASSUME \A d \in Dispatches : dispatch[d].pc = "idle"
               PROVE  /\ handles = {}
                      /\ \A g \in Generations :
                            /\ runtimes[g].state \in {"spawning", "running"} => disposed
                            /\ runtimes[g].lease # None => runtimes[g].state = "failed"
    BY DEF NothingIsLeasedAtRest
  <2>1. ASSUME NEW k \in Clients PROVE client[k].pc = "idle"
    <3>1. CASE \E d \in Dispatches : k = Worker[d] \/ k = Reviewer[d]
      BY <1>1, <3>1 DEF CallInv, CallOK
    <3>2. CASE \A d \in Dispatches : k # Worker[d] /\ k # Reviewer[d]
      BY <1>1, <3>2 DEF CallInv
    <3> QED
      BY <3>1, <3>2
  <2>2. \A k \in Clients : client[k].pc \notin Starting \cup Holding \cup {"rejecting"}
    BY <2>1 DEF Starting, Holding
  <2>3. handles = {}
    BY <1>1, <2>2 DEF ClaimInv, ClaimOK
  <2>4. ASSUME NEW g \in Generations
        PROVE  /\ runtimes[g].state \in {"spawning", "running"} => disposed
               /\ runtimes[g].lease # None => runtimes[g].state = "failed"
    <3>1. UseOK(runtimes[g]) /\ runtimes[g] \in Runtime
      BY <1>1, SweptIs
    <3>2. runtimes[g].state # "spawning"
      BY <1>1, <2>2, <3>1 DEF ClaimInv, Starters, UseOK
    <3>3. runtimes[g].state = "running" => runtimes[g].lease = None
      BY <1>1, <2>2, <3>1 DEF ClaimInv, Leasers, Runtime
    <3>4. runtimes[g].state = "running" => disposed
      BY <1>1, <2>2, <3>3 DEF ClaimInv, Rejecters
    <3> QED
      BY <3>1, <3>2, <3>3, <3>4 DEF UseOK
  <2> QED
    BY <2>3, <2>4
<1> QED
  BY ClaimInvariant, CallInvariant, <1>1, PTL
===============================================================================

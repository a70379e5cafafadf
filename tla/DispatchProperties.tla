-------------------------- MODULE DispatchProperties ---------------------------
(* What the runtime pool and the orchestration manager must guarantee. *)
EXTENDS AssignmentDispatch

\* The state is well formed.
TypeOK ==
    /\ runtimes \in Seq(Runtime)
    /\ Len(runtimes) <= MaxGenerations
    /\ client \in [Clients -> [pc : ClientStates, gen : 0..MaxGenerations]]
    /\ handles \subseteq Clients
    /\ disposed \in BOOLEAN
    /\ sweep \in [pc : SweepStates, left : SUBSET (1..MaxGenerations),
                  at : 0..MaxGenerations, issues : BOOLEAN]
    /\ graph \in [Assignments -> Statuses]
    /\ dispatch \in [Dispatches -> [pc : DispatchStates, of : Assignments \cup {None}]]
    /\ executions \in [Assignments -> Nat]

\* A runtime serves the client that holds it and no other, from the acquisition
\* to the end of the release, unless the pool was disposed of.
LeaseIsExclusive ==
    \A k \in Clients : client[k].pc \in {"held", "releasing"} =>
        LET r == runtimes[client[k].gen] IN r.lease = k \/ r.gone

\* There are never more live runtimes than the capacity, failed startups and
\* failed cleanups included.
CapacityIsKept ==
    Cardinality({g \in Generations : ~runtimes[g].gone}) <= MaxRuntimes

\* When dispose reports success nothing of the pool is left: no runtime, no
\* handle, and no call that may still produce one.
DisposedLeavesNothing ==
    sweep.pc = "disposed" =>
        /\ \A g \in Generations : runtimes[g].gone
        /\ handles = {}
        /\ \A k \in Clients : client[k].pc # "starting"

\* Every way out of a dispatch gives its runtimes back.  (The dispose of the pool
\* looks after a runtime whose handle was refused meanwhile.)
NothingIsLeasedAtRest ==
    (\A d \in Dispatches : dispatch[d].pc = "idle") =>
        /\ handles = {}
        /\ \A g \in Generations :
              /\ runtimes[g].state \in {"spawning", "running"} => disposed
              /\ runtimes[g].lease # None => runtimes[g].state = "failed"

\* An assignment is handed to an executor at most once, however often it is
\* dispatched, retried or refused a runtime.
ExecutedOnce == \A a \in Assignments : executions[a] <= 1

\* A running assignment is answered with "in progress": some dispatch is at it.
RunningIsInFlight ==
    \A a \in Assignments : graph[a] = "running" => InFlight(a)

\* A settled assignment is settled for good, although cleanups and second
\* dispatches mark assignments blocked without looking.
SettledIsFinal ==
    [][\A a \in Assignments :
          graph[a] \in {"succeeded", "merged", "blocked"} =>
              graph'[a] = graph[a]]_vars
================================================================================

------------------------------ MODULE RuntimePool ------------------------------
(***************************************************************************)
(* The pool of agent runtimes (orchestration/runtime-pool.ts) with its     *)
(* capacity decision (admission/orchestration-pool.ts).  A client acquires *)
(* a runtime that is idle or spawned for it, holds it under a lease with   *)
(* an execution handle, and releases it once.  The pool awaits its factory *)
(* and the handles, so that the calls of clients and dispose interleave.   *)
(* A lease and its handle are named by the client that holds them, a       *)
(* runtime record by its generation.                                       *)
(***************************************************************************)
EXTENDS Naturals, Sequences, FiniteSets, FiniteSetsExt

CONSTANTS
    Clients,        \* acquisitions that may be in progress at the same time
    Capabilities,
    Needs,          \* the capabilities each client requires
    MaxRuntimes,    \* the pool's capacity
    MaxGenerations, \* bound: how many runtimes are ever spawned
    None,           \* no client
    PoolFaults      \* what may fail, a subset of PoolFaultKinds

PoolFaultKinds == {"start", "creator", "destroy", "handle", "dispose"}

ASSUME NeedsAssumption == Needs \in [Clients -> SUBSET Capabilities]
ASSUME PoolBoundsAssumption == MaxRuntimes \in Nat /\ MaxGenerations \in Nat
ASSUME NoneAssumption == None \notin Clients
ASSUME PoolFaultsAssumption == PoolFaults \subseteq PoolFaultKinds

VARIABLES
    runtimes,   \* every record, by generation; `mapped` ones are in the map
    client,     \* where each acquisition is, and the generation it works on
    handles,    \* the execution handles whose dispose was never called
    disposed,   \* the pool's flag
    sweep       \* the dispose call: where it is, what it has yet to look at

poolVars == <<runtimes, client, handles, disposed, sweep>>

-------------------------------------------------------------------------------
RuntimeStates == {"idle", "running", "spawning", "failed", "disposed"}

\* settled: its startup is over; issue: its failed cleanup is not reported yet;
\* gone: the factory disposed of it.
Runtime == [id : Nat, caps : SUBSET Capabilities, state : RuntimeStates,
            lease : Clients \cup {None}, handle : Clients \cup {None},
            mapped : BOOLEAN, settled : BOOLEAN, issue : BOOLEAN, gone : BOOLEAN]

ClientStates == {"idle", "starting", "undoing", "invalidated", "rejecting",
                 "refused", "held", "releasing", "released", "unreleased"}
SweepStates == {"never", "startups", "next", "handle", "runtime", "disposed", "blocked"}

Generations == DOMAIN runtimes
Mapped == {g \in Generations : runtimes[g].mapped}

\* Mutant: a runtime that serves a client is reused for another.
ReusableShared(k) == {g \in Mapped : /\ runtimes[g].state \in {"idle", "running"}
                                     /\ Needs[k] \subseteq runtimes[g].caps}

\* Records in the order of the map, which is the order they were spawned in.
Reusable(k) == {g \in Mapped : /\ runtimes[g].state = "idle"
                               /\ runtimes[g].lease = None
                               /\ Needs[k] \subseteq runtimes[g].caps}
NextRuntimeId == Min({i \in 1..(Cardinality(Mapped) + 1) :
                        \A g \in Mapped : runtimes[g].id # i})

\* Mutant: failed runtimes take up no capacity.
HasCapacitySpare == Cardinality({g \in Mapped : runtimes[g].state # "failed"}) < MaxRuntimes

\* Every record of the map takes up capacity, failed and disposed ones too.
HasCapacity == Cardinality(Mapped) < MaxRuntimes

Sweeping(g) == sweep.pc \in {"handle", "runtime"} /\ sweep.at = g

Freed(k) == client' = [client EXCEPT ![k] = [pc |-> "idle", gen |-> 0]]
At(k, pc) == client' = [client EXCEPT ![k].pc = pc]
AtGeneration(k, pc, g) == client' = [client EXCEPT ![k] = [pc |-> pc, gen |-> g]]

-------------------------------------------------------------------------------
(* acquire *)

\* An idle runtime is taken.  The handle is constructed within the call; one
\* with another identity is disposed of first, and nobody may take the runtime
\* meanwhile.
Reuse(k, g) ==
    \/ /\ runtimes' = [runtimes EXCEPT ![g].state = "running", ![g].lease = k, ![g].handle = k]
       /\ handles' = handles \cup {k}
       /\ AtGeneration(k, "held", g)
    \/ /\ "creator" \in PoolFaults
       /\ runtimes' = [runtimes EXCEPT ![g].state = "running"]
       /\ AtGeneration(k, "rejecting", g)
       /\ UNCHANGED handles

Rejected(k) ==
    /\ client[k].pc = "rejecting"
    /\ LET g == client[k].gen IN
       runtimes' = IF /\ runtimes[g].state = "running" /\ runtimes[g].lease = None
                      /\ ~Sweeping(g) /\ ~runtimes[g].gone /\ ~disposed
                   THEN [runtimes EXCEPT ![g].state = "idle"] ELSE runtimes
    /\ At(k, "refused")
    /\ UNCHANGED <<handles, disposed, sweep>>

Spawn(k) ==
    /\ Len(runtimes) < MaxGenerations
    /\ runtimes' = Append(runtimes,
            [id |-> NextRuntimeId, caps |-> {}, state |-> "spawning", lease |-> None,
             handle |-> None, mapped |-> TRUE, settled |-> FALSE, issue |-> FALSE,
             gone |-> FALSE])
    /\ AtGeneration(k, "starting", Len(runtimes) + 1)
    /\ UNCHANGED handles

Acquire(k) ==
    /\ client[k].pc = "idle"
    /\ \/ /\ ~disposed /\ Reusable(k) # {}
          /\ Reuse(k, Min(Reusable(k)))
       \/ /\ ~disposed /\ Reusable(k) = {} /\ HasCapacity
          /\ Spawn(k)
       \/ /\ disposed \/ (Reusable(k) = {} /\ ~HasCapacity)
          /\ At(k, "refused")
          /\ UNCHANGED <<runtimes, handles>>
    /\ UNCHANGED <<disposed, sweep>>

\* factory.start answers.  A runtime of a pool that was disposed of meanwhile is
\* invalidated; so is one that another record replaced.
Started(k) ==
    LET g == client[k].gen IN
    /\ client[k].pc = "starting"
    /\ \/ /\ disposed \/ ~runtimes[g].mapped \/ runtimes[g].state # "spawning"
          /\ At(k, "invalidated")
          /\ UNCHANGED <<runtimes, handles>>
       \/ /\ ~disposed /\ runtimes[g].mapped /\ runtimes[g].state = "spawning"
          /\ runtimes' = [runtimes EXCEPT ![g] =
                [@ EXCEPT !.caps = Needs[k], !.state = "running", !.lease = k,
                          !.handle = k, !.settled = TRUE]]
          /\ handles' = handles \cup {k}
          /\ At(k, "held")
    /\ UNCHANGED <<disposed, sweep>>

\* factory.start rejects, or what it started is refused: another identity, a
\* missing capability, no handle.
StartFails(k) ==
    /\ client[k].pc = "starting"
    /\ "start" \in PoolFaults
    /\ At(k, "undoing")
    /\ UNCHANGED <<runtimes, handles, disposed, sweep>>

\* disposeRuntime of a startup, which has no handle: the record of a failed one
\* leaves the map, that of an invalidated one stays.  A failed cleanup keeps it.
UndoneRecord(r, ok, pc) ==
    IF ok
    THEN [r EXCEPT !.state = "disposed", !.lease = None, !.gone = TRUE,
                   !.settled = TRUE, !.mapped = (pc = "invalidated")]
    ELSE [r EXCEPT !.state = "failed", !.issue = TRUE, !.settled = TRUE]

Undone(k) ==
    /\ client[k].pc \in {"undoing", "invalidated"}
    /\ \E ok \in {TRUE} \cup {b \in {FALSE} : "destroy" \in PoolFaults} :
          runtimes' = [runtimes EXCEPT ![client[k].gen] = UndoneRecord(@, ok, client[k].pc)]
    /\ At(k, "refused")
    /\ UNCHANGED <<handles, disposed, sweep>>

-------------------------------------------------------------------------------
(* release *)

\* A lease that is not the runtime's any more is stale.  The handle of a current
\* one is settled and disposed of, unless a dispose of the pool has taken it.
Release(k) ==
    LET g == client[k].gen IN
    /\ client[k].pc = "held"
    /\ \/ /\ runtimes[g].state # "running" \/ runtimes[g].lease # k
          /\ At(k, "unreleased")
          /\ UNCHANGED runtimes
       \/ /\ runtimes[g].state = "running" /\ runtimes[g].lease = k
          /\ runtimes[g].handle = None
          /\ runtimes' = [runtimes EXCEPT ![g].state = "idle", ![g].lease = None]
          /\ At(k, "released")
       \/ /\ runtimes[g].state = "running" /\ runtimes[g].lease = k
          /\ runtimes[g].handle # None
          /\ At(k, "releasing")
          /\ UNCHANGED runtimes
    /\ UNCHANGED <<handles, disposed, sweep>>

\* What release leaves, whatever became of the record while it awaited.
ReleasedRecord(r, ok) ==
    [r EXCEPT !.state = IF ok THEN "idle" ELSE "failed", !.lease = None, !.handle = None]

\* The handle is disposed of even when its settlement fails.
ReleaseEnds(k) ==
    /\ client[k].pc = "releasing"
    /\ \/ /\ runtimes' = [runtimes EXCEPT ![client[k].gen] = ReleasedRecord(@, TRUE)]
          /\ At(k, "released")
       \/ /\ "handle" \in PoolFaults
          /\ runtimes' = [runtimes EXCEPT ![client[k].gen] = ReleasedRecord(@, FALSE)]
          /\ At(k, "unreleased")
    /\ handles' = handles \ {k}
    /\ UNCHANGED <<disposed, sweep>>

-------------------------------------------------------------------------------
(* dispose: one call at a time, repeated when it reports that it is blocked. *)

Dispose ==
    /\ "dispose" \in PoolFaults
    /\ sweep.pc \in {"never", "disposed", "blocked"}
    /\ disposed' = TRUE
    /\ sweep' = [pc |-> "startups", left |-> Mapped, at |-> 0, issues |-> FALSE]
    /\ UNCHANGED <<runtimes, client, handles>>

\* Mutant: dispose does not wait for the startups.
StartupsAnyhow == TRUE

StartupsSettled == \A g \in sweep.left : runtimes[g].settled

SweepStarts ==
    /\ sweep.pc = "startups"
    /\ StartupsSettled
    /\ sweep' = [sweep EXCEPT !.pc = "next"]
    /\ UNCHANGED <<runtimes, client, handles, disposed>>

\* A failed startup cleanup is reported once; the next call retries it.
SweepNext ==
    LET g == Min(sweep.left)
        rest == sweep.left \ {g} IN
    /\ sweep.pc = "next"
    /\ sweep.left # {}
    /\ \/ /\ runtimes[g].issue
          /\ runtimes' = [runtimes EXCEPT ![g].issue = FALSE]
          /\ sweep' = [sweep EXCEPT !.left = rest, !.issues = TRUE]
          /\ UNCHANGED handles
       \/ /\ ~runtimes[g].issue
          /\ runtimes[g].state = "disposed" \/ runtimes[g].gone
          /\ sweep' = [sweep EXCEPT !.left = rest]
          /\ UNCHANGED <<runtimes, handles>>
       \/ /\ ~runtimes[g].issue
          /\ runtimes[g].state # "disposed" /\ ~runtimes[g].gone
          /\ runtimes' = [runtimes EXCEPT ![g].handle = None]
          /\ sweep' = [sweep EXCEPT !.left = rest, !.at = g,
                         !.pc = IF runtimes[g].handle = None THEN "runtime" ELSE "handle"]
          /\ handles' = handles \ {runtimes[g].handle}
    /\ UNCHANGED <<client, disposed>>

\* The handle's dispose answers; when it rejects the record fails.
SweepHandle ==
    /\ sweep.pc = "handle"
    /\ \/ /\ sweep' = [sweep EXCEPT !.pc = "runtime"]
          /\ UNCHANGED runtimes
       \/ /\ "handle" \in PoolFaults
          /\ runtimes' = [runtimes EXCEPT ![sweep.at].state = "failed"]
          /\ sweep' = [sweep EXCEPT !.pc = "next", !.at = 0, !.issues = TRUE]
    /\ UNCHANGED <<client, handles, disposed>>

SweepRuntime ==
    /\ sweep.pc = "runtime"
    /\ \/ /\ runtimes' = [runtimes EXCEPT ![sweep.at] =
                [@ EXCEPT !.state = "disposed", !.lease = None, !.gone = TRUE]]
          /\ sweep' = [sweep EXCEPT !.pc = "next", !.at = 0]
       \/ /\ "destroy" \in PoolFaults
          /\ runtimes' = [runtimes EXCEPT ![sweep.at].state = "failed"]
          /\ sweep' = [sweep EXCEPT !.pc = "next", !.at = 0, !.issues = TRUE]
    /\ UNCHANGED <<client, handles, disposed>>

DisposeReturns ==
    /\ sweep.pc = "next"
    /\ sweep.left = {}
    /\ sweep' = [sweep EXCEPT !.pc = IF sweep.issues THEN "blocked" ELSE "disposed"]
    /\ UNCHANGED <<runtimes, client, handles, disposed>>

-------------------------------------------------------------------------------
PoolInit ==
    /\ runtimes = <<>>
    /\ client = [k \in Clients |-> [pc |-> "idle", gen |-> 0]]
    /\ handles = {}
    /\ disposed = FALSE
    /\ sweep = [pc |-> "never", left |-> {}, at |-> 0, issues |-> FALSE]

\* Steps of the pool on its own: its ports answer, and it is disposed of.
PoolStep ==
    \/ \E k \in Clients : Rejected(k) \/ Started(k) \/ StartFails(k) \/ Undone(k) \/ ReleaseEnds(k)
    \/ Dispose \/ SweepStarts \/ SweepNext \/ SweepHandle \/ SweepRuntime \/ DisposeReturns
================================================================================

------------------------------ MODULE RetryCycle -------------------------------
(***************************************************************************)
(* The retry cycle of one assignment (orchestration/retry-cycle.ts), the   *)
(* journal port that keeps its versions (app/src/retry-cycle-journal.ts)   *)
(* and the attempt loop of the task coordinator that drives it.  A cycle   *)
(* tries the candidate bindings in order, one execution epoch each, and    *)
(* never more than MaxAttempts of them.  Epochs are counted from the       *)
(* initial one, so that attempt n runs in epoch n.                         *)
(***************************************************************************)
EXTENDS Naturals, Sequences

CONSTANTS
    Bindings,       \* provider bindings
    Configs,        \* ordered candidate lists a process may be configured with
    MaxAttempts,    \* the initial attempt and its retries (11 in the code)
    MaxStarts,      \* bound: how often the operation is begun
    Faults          \* what may go wrong, a subset of FaultKinds

FaultKinds == {"persist", "driver", "execute", "close", "publish"}

ASSUME ConfigsAssumption == Configs \subseteq Seq(Bindings) \ {<<>>}
ASSUME MaxAttemptsAssumption == MaxAttempts \in Nat \ {0}
ASSUME MaxStartsAssumption == MaxStarts \in Nat
ASSUME FaultsAssumption == Faults \subseteq FaultKinds

VARIABLES
    versions,   \* the committed versions of the control record, oldest first
    config,     \* the candidate list of the live process
    starts,     \* how often the operation was begun
    pc,         \* where the coordinator is
    rec,        \* the version it is about to persist
    then,       \* what it does once that version is persisted
    attempt,    \* attemptNumber, attemptEpoch and attemptBindingId of the loop
    epoch,
    binding,
    first,      \* the selection of begin: [epoch, binding]
    closure,    \* what the last attempt that returned left behind
    corrected   \* the orchestration dispatched its corrective attempt

vars == <<versions, config, starts, pc, rec, then, attempt, epoch, binding,
          first, closure, corrected>>

-------------------------------------------------------------------------------
(* The control record. *)

Settlements == {"unsettled", "retry-safe", "unknown", "cancelled", "success"}
States == {"admitted", "running", "retry-safe", "exhausted", "blocked-attention"}
Continuations == {"select", "dispatch", "stop", "block"}

\* admitted[e] is the binding of the admission snapshot of epoch e.
Record == [state : States, candidates : Seq(Bindings),
           attempts : Seq([binding : Bindings, settle : Settlements]),
           excluded : SUBSET Bindings, admitted : Seq(Bindings)]

NewCycle(candidates) ==
    [state |-> "admitted", candidates |-> candidates, attempts |-> <<>>,
     excluded |-> {}, admitted |-> <<>>]

Current == versions[Len(versions)]

\* persistCycle: a version equal to the newest is not appended; one equal to an
\* older version has its commit id, and is not appended when its evidence is
\* equal too (evidence is abstracted, so either may happen).
Committed(r) ==
    IF versions # <<>> /\ Current = r THEN {versions}
    ELSE {Append(versions, r)} \cup {v \in {versions} : \E i \in 2..Len(v) : v[i] = r}

\* Mutant: only the binding tried last is avoided.
EligibleAfterLast(r) ==
    {i \in DOMAIN r.candidates :
        r.attempts = <<>> \/ r.candidates[i] # r.attempts[Len(r.attempts)].binding}

\* Candidates of the persisted snapshot that no exclusion names.
Eligible(r) == {i \in DOMAIN r.candidates : r.candidates[i] \notin r.excluded}
FirstEligible(r) ==
    r.candidates[CHOOSE i \in Eligible(r) : \A j \in Eligible(r) : i <= j]

\* The record of a failed attempt whose binding may be replaced.
Excluding(r, b) == [r EXCEPT !.state = "retry-safe", !.excluded = @ \cup {b}]

\* Attempt n is over the budget.
Spent(n) == n > MaxAttempts

\* Mutant: a cycle that is not running has no unsettled attempt.
UnsettledUnless(r) == r.state = "running" /\ r.attempts[Len(r.attempts)].settle = "unsettled"

\* The last attempt may still be running at its provider.
Unsettled(r) == r.attempts[Len(r.attempts)].settle = "unsettled"

\* Mutant: the selection is persisted without its admission.
SelectedUnadmitted(r, n) ==
    [r EXCEPT !.state = "running",
              !.attempts = IF n \in DOMAIN @ THEN @
                           ELSE Append(@, [binding |-> FirstEligible(r),
                                           settle |-> "unsettled"])]

\* The record selectCandidate persists for attempt n, when it has a candidate.
Selected(r, n) ==
    LET b == FirstEligible(r) IN
    [r EXCEPT !.state = "running",
              !.attempts = IF n \in DOMAIN @ THEN @
                           ELSE Append(@, [binding |-> b, settle |-> "unsettled"]),
              !.admitted = IF n \in DOMAIN @ THEN @ ELSE Append(@, b)]

-------------------------------------------------------------------------------
(* Steps of the manager.  Each leaves the version to persist and what follows. *)

ToPersist(r, next) ==
    /\ pc' = "persist"
    /\ rec' = r
    /\ then' = next

\* selectCandidate: the next binding under the next epoch, or no candidate.
SelectCandidate(r, n) ==
    \/ /\ Eligible(r) # {}
       /\ ToPersist(Selected(r, n), "dispatch")
       /\ attempt' = n
       /\ epoch' = n
       /\ binding' = FirstEligible(r)
    \/ /\ Eligible(r) = {}
       /\ ToPersist([r EXCEPT !.state = "blocked-attention"], "block")
       /\ UNCHANGED <<attempt, epoch, binding>>

\* hydrate: the persisted snapshot must be the configuration of this process.
Hydrated == versions # <<>> /\ Current.candidates = config

\* begin on a cycle that has attempts.  Only an unsettled last attempt blocks it.
Resume ==
    LET n == Len(Current.attempts) + 1 IN
    \/ /\ Unsettled(Current)
       /\ ToPersist([Current EXCEPT !.state = "blocked-attention"], "block")
       /\ UNCHANGED <<attempt, epoch, binding>>
    \/ /\ ~Unsettled(Current) /\ Current.state = "exhausted"
       /\ pc' = "idle"
       /\ UNCHANGED <<rec, then, attempt, epoch, binding>>
    \/ /\ ~Unsettled(Current) /\ Current.state # "exhausted"
       /\ Spent(n)
       /\ ToPersist([Current EXCEPT !.state = "exhausted"], "stop")
       /\ UNCHANGED <<attempt, epoch, binding>>
    \/ /\ ~Unsettled(Current) /\ Current.state # "exhausted"
       /\ ~Spent(n)
       /\ SelectCandidate(Current, n)

\* begin: the operation is executed, for the first time or again after a
\* restart.  A cycle of another configuration, or one that was admitted but has
\* no attempt, is refused.
Begin ==
    /\ pc = "idle"
    /\ starts < MaxStarts
    /\ starts' = starts + 1
    /\ closure' = "none"
    /\ corrected' = FALSE
    /\ \/ /\ versions = <<>>
          /\ ToPersist(NewCycle(config), "select")
          /\ attempt' = 1
          /\ UNCHANGED <<epoch, binding>>
       \/ /\ Hydrated
          /\ Current.attempts # <<>>
          /\ Resume
       \/ /\ versions # <<>>
          /\ ~Hydrated \/ Current.attempts = <<>>
          /\ UNCHANGED <<pc, rec, then, attempt, epoch, binding>>
    /\ first' = [epoch |-> 0, binding |-> config[1]]
    /\ UNCHANGED <<versions, config>>

\* recordFailure.  The attempt may be missing: the call throws.  (The process has
\* not changed since begin, so that the snapshot is still its configuration.)
RecordFailure(s) ==
    IF attempt \notin DOMAIN Current.attempts
    THEN /\ pc' = "thrown"
         /\ UNCHANGED <<rec, then, attempt, epoch, binding>>
    ELSE LET r == [Current EXCEPT !.attempts[attempt].settle = s] IN
         IF s # "retry-safe"
         THEN /\ ToPersist([r EXCEPT !.state = "blocked-attention"], "block")
              /\ UNCHANGED <<attempt, epoch, binding>>
         ELSE /\ ToPersist(Excluding(r, binding), "select")
              /\ attempt' = attempt + 1
              /\ UNCHANGED <<epoch, binding>>

\* recordSuccess: an attempt that is not on the cycle changes nothing.
RecordSuccess ==
    ToPersist(IF attempt \in DOMAIN Current.attempts
              THEN [Current EXCEPT !.attempts[attempt] =
                        [binding |-> binding, settle |-> "success"]]
              ELSE Current,
              "stop")

\* What follows a version that was persisted.
Continue ==
    \/ /\ then = "select"
       /\ \/ /\ Spent(attempt)
             /\ ToPersist([rec EXCEPT !.state = "exhausted"], "block")
             /\ UNCHANGED <<attempt, epoch, binding>>
          \/ /\ ~Spent(attempt)
             /\ SelectCandidate(rec, attempt)
       /\ UNCHANGED <<first>>
    \/ /\ then = "dispatch"
       /\ pc' = "ready"
       /\ first' = IF first.epoch = 0 THEN [epoch |-> epoch, binding |-> binding]
                   ELSE first
       /\ UNCHANGED <<rec, then, attempt, epoch, binding>>
    \/ /\ then \in {"stop", "block"}
       /\ pc' = IF then = "block" /\ first.epoch # 0 THEN "blocked" ELSE "idle"
       /\ UNCHANGED <<rec, then, attempt, epoch, binding, first>>

Persist ==
    /\ pc = "persist"
    /\ versions' \in Committed(rec)
    /\ Continue
    /\ UNCHANGED <<config, starts, closure, corrected>>

\* The journal rejects, before or after the version became durable.
PersistRejected ==
    /\ pc = "persist"
    /\ "persist" \in Faults
    /\ versions' \in {versions} \cup Committed(rec)
    /\ pc' = "thrown"
    /\ UNCHANGED <<config, starts, rec, then, attempt, epoch, binding, first,
                   closure, corrected>>
-------------------------------------------------------------------------------
(* The attempt loop of the coordinator. *)

\* createDriverForBinding: the provider of the selected binding runs.
Drive ==
    /\ pc = "ready"
    /\ pc' = "running"
    /\ UNCHANGED <<versions, config, starts, rec, then, attempt, epoch, binding,
                   first, closure, corrected>>

\* The driver cannot be built, the attempt throws, the close of a failed attempt
\* throws, or the attention of a blocked cycle cannot be published.
Throw ==
    /\ \/ pc = "ready" /\ "driver" \in Faults
       \/ pc = "running" /\ "execute" \in Faults
       \/ pc = "failed" /\ "close" \in Faults
       \/ pc = "blocked" /\ "publish" \in Faults
    /\ pc' = "thrown"
    /\ UNCHANGED <<versions, config, starts, rec, then, attempt, epoch, binding,
                   first, closure, corrected>>

\* The attempt returns.  A failure goes on to the close of its driver; success
\* and every other outcome are recorded at once.  "clean" stands for an attempt
\* without evidence of a side effect, "final" for success or such evidence,
\* "none" for a stop that left no closure.
Succeed ==
    /\ pc = "running"
    /\ RecordSuccess
    /\ closure' = "final"
    /\ UNCHANGED <<versions, config, starts, attempt, epoch, binding, first, corrected>>

Fail ==
    /\ pc = "running"
    /\ pc' = "failed"
    /\ closure' \in {"clean", "final"}
    /\ UNCHANGED <<versions, config, starts, rec, then, attempt, epoch, binding,
                   first, corrected>>

FailUnsafe(s) ==
    /\ pc = "running"
    /\ RecordFailure(s)
    /\ closure' \in IF s = "unsettled" THEN {"none", "clean", "final"}
                    ELSE {"clean", "final"}
    /\ UNCHANGED <<versions, config, starts, first, corrected>>

\* close confirms that the driver is closed, or does not.
Close(s) ==
    /\ pc = "failed"
    /\ RecordFailure(s)
    /\ UNCHANGED <<versions, config, starts, first, closure, corrected>>

\* The blocked result is published and ends the operation; a stop that lands
\* before the provider starts ends it without a word to the cycle.
End ==
    /\ pc \in {"blocked", "ready"}
    /\ pc' = "idle"
    /\ UNCHANGED <<versions, config, starts, rec, then, attempt, epoch, binding,
                   first, closure, corrected>>

\* An exception inside the loop is an execution failure to the orchestration,
\* which dispatches the assignment once more when the last attempt that returned
\* shows no side effect: with its own attempt number, 2, and with the binding
\* and the epoch begin selected.  Any other exception ends the operation.
Correct ==
    /\ pc = "thrown"
    /\ first.epoch # 0 /\ closure = "clean" /\ ~corrected
    /\ pc' = "ready"
    /\ corrected' = TRUE
    /\ attempt' = 2
    /\ epoch' = first.epoch
    /\ binding' = first.binding
    /\ UNCHANGED <<versions, config, starts, rec, then, first, closure>>

GiveUp ==
    /\ pc = "thrown"
    /\ ~(first.epoch # 0 /\ closure = "clean" /\ ~corrected)
    /\ pc' = "idle"
    /\ UNCHANGED <<versions, config, starts, rec, then, attempt, epoch, binding,
                   first, closure, corrected>>

\* The process dies and is started again, maybe with another configuration.
Crash ==
    /\ starts < MaxStarts
    /\ pc' = "idle"
    /\ config' \in Configs
    /\ <<pc, config>> # <<pc', config'>>
    /\ UNCHANGED <<versions, starts, rec, then, attempt, epoch, binding, first,
                   closure, corrected>>

-------------------------------------------------------------------------------
Init ==
    /\ versions = <<>>
    /\ config \in Configs
    /\ starts = 0
    /\ pc = "idle"
    /\ rec = NewCycle(config)
    /\ then = "stop"
    /\ attempt = 0
    /\ epoch = 0
    /\ binding = config[1]
    /\ first = [epoch |-> 0, binding |-> config[1]]
    /\ closure = "none"
    /\ corrected = FALSE

Next ==
    \/ Begin \/ Persist \/ PersistRejected
    \/ Drive \/ Throw \/ Succeed \/ Fail \/ End \/ Correct \/ GiveUp \/ Crash
    \/ \E s \in {"unknown", "cancelled", "unsettled"} : FailUnsafe(s)
    \/ \E s \in {"retry-safe", "unsettled"} : Close(s)

Spec == Init /\ [][Next]_vars
================================================================================

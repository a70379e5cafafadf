---------------------------- MODULE RetryProperties ----------------------------
(* What a retry cycle must guarantee. *)
EXTENDS RetryCycle

\* The state is well formed: the durable record numbers its attempts and its
\* admissions alike, and never more than the budget allows.
RecordOK(r) ==
    /\ r.state \in States
    /\ r.candidates \in Configs
    /\ r.attempts \in Seq([binding : Bindings, settle : Settlements])
    /\ r.admitted \in Seq(Bindings)
    /\ Len(r.attempts) = Len(r.admitted)
    /\ Len(r.attempts) <= MaxAttempts
    /\ r.excluded \subseteq Bindings

TypeOK ==
    /\ versions \in Seq(Record)
    /\ \A i \in DOMAIN versions : RecordOK(versions[i])
    /\ config \in Configs
    /\ starts \in 0..MaxStarts
    /\ pc \in {"idle", "persist", "ready", "running", "failed", "blocked", "thrown"}
    /\ rec \in Record /\ RecordOK(rec)
    /\ then \in Continuations
    /\ attempt \in Nat /\ epoch \in Nat
    /\ binding \in Bindings
    /\ first \in [epoch : Nat, binding : Bindings]
    /\ closure \in {"none", "clean", "final"}
    /\ corrected \in BOOLEAN

\* A provider runs only under a binding and an epoch whose admission snapshot is
\* durable, whatever was begun again, retried or rejected before.  (The loop of a
\* corrective attempt counts from 2 again and may meet epochs of another binding.)
AdmittedBeforeExecution ==
    pc \in {"ready", "running"} /\ ~corrected =>
        /\ versions # <<>>
        /\ epoch \in DOMAIN Current.admitted
        /\ Current.admitted[epoch] = binding

\* The durable cycle never forgets: no version drops an exclusion, loses an
\* attempt, or gives an epoch another binding than the one it was admitted with.
CycleOnlyGrows ==
    [][versions # <<>> /\ versions' # versions =>
          LET old == Current  new == Current' IN
          /\ old.candidates = new.candidates
          /\ old.excluded \subseteq new.excluded
          /\ Len(old.attempts) <= Len(new.attempts)
          /\ \A e \in DOMAIN old.admitted :
                e \in DOMAIN new.admitted /\ new.admitted[e] = old.admitted[e]]_vars

\* A binding whose failure was recorded as retry-safe is not selected again in
\* the cycle, over restarts and changed configurations, unless the orchestration
\* dispatched its corrective attempt.  An attempt recorded unknown or cancelled
\* excludes nothing: begin may select its binding again (recordFailure).
RetryAvoidsExcluded ==
    pc = "running" /\ ~corrected => binding \notin Current.excluded

\* No attempt follows one that is not settled: a cycle whose last attempt may still
\* be running at its provider is blocked, over restarts.  (The loop of a corrective
\* attempt may record an earlier attempt again: see SwitchIsSafe.)
UnsettledIsNotPassed ==
    pc = "running" /\ ~corrected /\ attempt > 1 =>
        Current.attempts[attempt - 1].settle # "unsettled"

\* A cycle is exhausted, and so never tried again, only when the whole budget was
\* spent and its last attempt is settled.
ExhaustedIsSpent ==
    \A i \in DOMAIN versions : versions[i].state = "exhausted" =>
        /\ Len(versions[i].attempts) = MaxAttempts
        /\ versions[i].attempts[MaxAttempts].settle # "unsettled"

\* "A candidate binding already present in persisted exclusions may not be
\* selected for any later attempt or epoch in the cycle" (retry-10 section 5).
ExcludedNeverRuns == pc = "running" => binding \notin Current.excluded

\* "It must not retry another provider until the failed attempt is known retry-safe"
\* (retry-10 section 4).
SwitchIsSafe ==
    pc = "running" /\ ~corrected =>
        \A n \in 1..(attempt - 1) : Current.attempts[n].settle \in {"retry-safe", "success"}
================================================================================

-------------------------- MODULE SubscriptionControl --------------------------
(* One execution plan in the subscription journal: its revision and progress,  *)
(* the occurrences of its slots, their claims and settlements. Every operation *)
(* is one journal transaction on the newest state, so each is one step         *)
(* (packages/runtime/src/subscriptions/index.ts, packages/core/src/subscription.ts).*)
EXTENDS Integers, FiniteSetsExt

CONSTANTS
    Slots,        \* bound: slots of the schedule that come due
    Limit,        \* maxOccurrences of the policy
    LatePolicy,   \* what becomes of a slot whose time has passed
    BusyPolicy,   \* what becomes of a slot that comes due while tasks run
    MaxRevision,  \* bound: schedule revisions
    Actions,      \* control actions the users take
    Results,      \* how executions end
    NoOccurrence

ASSUME PlanAssumption ==
    /\ Slots \in Nat \ {0} /\ Limit \in Nat \ {0} /\ MaxRevision \in Nat \ {0}
    /\ LatePolicy \in {"run-once", "skip"} /\ BusyPolicy \in {"skip", "idle-reminder"}
    /\ "none" \notin Results

VARIABLES
    plan,         \* the subscription with its pending reminder
    occurrence,   \* the state of every occurrence
    claims,       \* generation of the daemon that claimed it, 0 when nobody has
    settlements   \* the terminal outcome it settled with

planVars == <<plan, occurrence, claims, settlements>>

\* A slot of one revision of the schedule.
Ids == (1 .. MaxRevision) \X (1 .. Slots)
Revision(i) == i[1]
Ordinal(i) == i[2]

ASSUME NoOccurrenceAssumption == NoOccurrence \notin Ids

\* A recovery without an outcome of its own is blocked.
Outcomes == Results \cup {"blocked"}

PlanInit ==
    /\ plan = [state |-> "active", revision |-> 1, ordinal |-> 0, modified |-> 0,
               reminder |-> NoOccurrence]
    /\ occurrence = [i \in Ids |-> "none"]
    /\ claims = [i \in Ids |-> 0]
    /\ settlements = [i \in Ids |-> "none"]

----------------------------------------------------------------------------
\* control

Unclaimed(i) ==
    Revision(i) = plan.revision /\ occurrence[i] \in {"due", "reminder-pending"}

Superseded == {i \in Ids : Unclaimed(i)}

\* The next revision, with the unclaimed occurrences of this one invalidated.
Supersede(next) ==
    /\ plan.revision < MaxRevision
    /\ plan' = [next EXCEPT !.revision = plan.revision + 1,
                            !.reminder = IF @ \in Superseded THEN NoOccurrence ELSE @]
    /\ occurrence' = [i \in Ids |-> IF i \in Superseded THEN "invalidated" ELSE occurrence[i]]
    /\ UNCHANGED <<claims, settlements>>

\* The progress a paused plan keeps: the slots it invalidates are not run again.
PausedOrdinal == Max({plan.ordinal} \cup {Ordinal(i) : i \in Superseded})

Pause ==
    /\ "pause" \in Actions /\ plan.state = "active"
    /\ Supersede([plan EXCEPT !.state = "suspended", !.ordinal = PausedOrdinal])

Resume ==
    /\ "pause" \in Actions /\ plan.state = "suspended"
    /\ plan.revision < MaxRevision
    /\ plan' = [plan EXCEPT !.state = "active", !.revision = @ + 1]
    /\ UNCHANGED <<occurrence, claims, settlements>>

Modify ==
    /\ "modify" \in Actions /\ plan.state \in {"active", "suspended"}
    /\ Supersede([plan EXCEPT !.ordinal = 0, !.modified = plan.revision + 1])

CancelFuture ==
    /\ "cancel" \in Actions /\ plan.state # "cancelled"
    /\ Supersede([plan EXCEPT !.state = "cancelled"])

Control == Pause \/ Resume \/ Modify \/ CancelFuture

----------------------------------------------------------------------------
\* schedule

Recoverable(i) ==
    /\ plan.state = "active" /\ plan.reminder = i
    /\ plan.ordinal < Ordinal(i) /\ Ordinal(i) <= Limit

\* What schedule throws at.
ScheduleRefused(i, busy) ==
    \/ Revision(i) # plan.revision
    \/ /\ occurrence[i] = "none"
       /\ plan.state # "active" \/ Ordinal(i) <= plan.ordinal \/ Ordinal(i) > Limit
    \/ occurrence[i] = "reminder-pending" /\ ~busy /\ ~Recoverable(i)

\* An occurrence schedule decides on: a new one, or a reminder when nothing runs.
Undecided(i, busy) ==
    occurrence[i] = "none" \/ (occurrence[i] = "reminder-pending" /\ ~busy)

Decided(late, busy) ==
    IF late /\ LatePolicy = "skip" THEN "skipped-busy"
    ELSE IF ~busy THEN "due"
    ELSE IF BusyPolicy = "skip" THEN "skipped-busy" ELSE "reminder-pending"

ScheduledState(i, late, busy) ==
    IF Undecided(i, busy) THEN Decided(late, busy) ELSE occurrence[i]

ScheduledReminder(i, state, busy) ==
    IF state = "reminder-pending" THEN i
    ELSE IF occurrence[i] = "reminder-pending" /\ ~busy THEN NoOccurrence
    ELSE plan.reminder

\* A skipped slot is consumed; one that runs after missed ones consumes those.
ScheduledOrdinal(i, state) ==
    IF state = "skipped-busy" THEN Max({plan.ordinal, Ordinal(i)})
    ELSE IF occurrence[i] = "none" /\ LatePolicy = "run-once" /\ Ordinal(i) > plan.ordinal + 1
    THEN Ordinal(i) - 1
    ELSE plan.ordinal

Schedule(i, late, busy) ==
    LET state == ScheduledState(i, late, busy)
        ordinal == ScheduledOrdinal(i, state)
        exhausted == state = "skipped-busy" /\ ordinal >= Limit
    IN  /\ ~ScheduleRefused(i, busy)
        /\ IF Undecided(i, busy)
           THEN /\ occurrence' = [occurrence EXCEPT ![i] = state]
                /\ plan' = [plan EXCEPT !.ordinal = ordinal,
                                        !.reminder = ScheduledReminder(i, state, busy),
                                        !.state = IF exhausted THEN "exhausted" ELSE @]
           ELSE UNCHANGED <<occurrence, plan>>
        /\ UNCHANGED <<claims, settlements>>

----------------------------------------------------------------------------
\* claim and settle

\* Mutant: the revision and the state the tick has read are taken as still true.
ClaimRefusedStale(i) ==
    claims[i] # 0 \/ plan.state # "active" \/ Ordinal(i) <= plan.ordinal \/ Ordinal(i) > Limit

\* The scheduler claims what it has read as unclaimed: a claim it finds now is
\* one of another generation.
ClaimRefused(i) ==
    \/ claims[i] # 0
    \/ plan.state # "active" \/ Revision(i) # plan.revision
    \/ occurrence[i] \notin {"none", "due"}
    \/ Ordinal(i) <= plan.ordinal \/ Ordinal(i) > Limit

Claim(i, generation) ==
    /\ ~ClaimRefused(i)
    /\ claims' = [claims EXCEPT ![i] = generation]
    /\ occurrence' = [occurrence EXCEPT ![i] = "claimed"]
    /\ UNCHANGED <<plan, settlements>>

\* Mutant: the plan that replaced the claim's advances too.
ClaimProgressAlways(i) ==
    LET ordinal == Max({plan.ordinal, Ordinal(i)})
    IN  [plan EXCEPT !.ordinal = ordinal,
                     !.state = IF @ = "active" /\ ordinal >= Limit THEN "exhausted" ELSE @]

\* Progress of a settled claim, unless the plan was replaced after the claim.
ClaimProgress(i) ==
    LET ordinal == Max({plan.ordinal, Ordinal(i)})
    IN  IF plan.modified > Revision(i) THEN plan
        ELSE [plan EXCEPT !.ordinal = ordinal,
                          !.state = IF @ = "active" /\ ordinal >= Limit THEN "exhausted" ELSE @]

SettleRefused(i, outcome) ==
    IF settlements[i] # "none" THEN settlements[i] # outcome
    ELSE claims[i] = 0 \/ occurrence[i] # "claimed"

SettleOccurrence(i, outcome) ==
    /\ ~SettleRefused(i, outcome)
    /\ IF settlements[i] # "none" THEN UNCHANGED <<plan, occurrence, settlements>>
       ELSE /\ settlements' = [settlements EXCEPT ![i] = outcome]
            /\ occurrence' = [occurrence EXCEPT ![i] = "consumed"]
            /\ plan' = ClaimProgress(i)
    /\ UNCHANGED claims
=============================================================================

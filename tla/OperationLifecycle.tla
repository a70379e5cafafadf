-------------------------- MODULE OperationLifecycle --------------------------
(***************************************************************************)
(* The status machine of one tool operation, and the three recovery plans  *)
(* that pick a next status: packages/core/src/tool-execution-lifecycle.ts  *)
(* over the work lifecycle of packages/core/src/lifecycle.ts.              *)
(* No state: every definition here is a table or a function of its         *)
(* arguments, used by the modules that own operation state.                *)
(***************************************************************************)

OperationStatus ==
    {"accepted", "queued", "leased", "running", "settling", "verifying",
     "succeeded", "failed", "blocked", "cancel_requested", "cancelled",
     "reconcile_required"}

OperationBlockedAfter == {"admission", "execution", "verification", "reconcile"}

OperationSideEffectState == {"none", "possible", "confirmed"}

WORK_TRANSITIONS ==
    [created   |-> {"admitted", "cancelled", "failed"},
     admitted  |-> {"running", "settling", "waiting", "blocked", "cancelled",
                    "failed", "unknown"},
     running   |-> {"settling"},
     settling  |-> {"running", "succeeded", "waiting", "blocked", "failed",
                    "cancelled", "stopped", "unknown"},
     waiting   |-> {"admitted", "running", "settling", "blocked", "cancelled",
                    "failed", "stopped"},
     blocked   |-> {"admitted", "waiting", "settling", "failed", "cancelled",
                    "stopped"},
     succeeded |-> {},
     failed    |-> {},
     cancelled |-> {},
     stopped   |-> {},
     unknown   |-> {"admitted", "waiting", "blocked", "failed", "cancelled",
                    "stopped"},
     stale     |-> {}]

OPERATION_STATUS_TRANSITIONS ==
    [accepted           |-> {"queued", "failed", "blocked", "cancel_requested"},
     queued             |-> {"leased", "blocked", "failed", "cancel_requested"},
     leased             |-> {"running", "settling", "blocked", "failed",
                             "cancel_requested"},
     running            |-> {"settling", "blocked", "cancel_requested"},
     settling           |-> {"verifying", "blocked", "failed",
                             "reconcile_required", "cancel_requested"},
     verifying          |-> {"succeeded", "failed", "blocked",
                             "reconcile_required", "cancel_requested"},
     succeeded          |-> {},
     failed             |-> {},
     blocked            |-> {"queued", "verifying", "failed", "cancel_requested"},
     cancel_requested   |-> {"cancelled", "failed", "reconcile_required"},
     cancelled          |-> {},
     reconcile_required |-> {"blocked", "failed", "cancelled"}]

OPERATION_STATUS_LIFECYCLE ==
    [accepted           |-> "admitted",
     queued             |-> "waiting",
     leased             |-> "running",
     running            |-> "running",
     settling           |-> "settling",
     verifying          |-> "settling",
     succeeded          |-> "succeeded",
     failed             |-> "failed",
     blocked            |-> "blocked",
     cancel_requested   |-> "settling",
     cancelled          |-> "cancelled",
     reconcile_required |-> "unknown"]

IsTerminalOperationStatus(s) == s \in {"succeeded", "failed", "cancelled"}

CanTransitionLifecycle(from, to) == to \in WORK_TRANSITIONS[from]

(***************************************************************************)
(* A status move is legal when the status table lists it AND its           *)
(* projection is legal in the work lifecycle.  The second conjunct is not  *)
(* redundant: it refuses leased -> blocked, leased -> failed and           *)
(* running -> blocked, which the status table lists.                       *)
(***************************************************************************)
CanTransitionOperationStatus(from, to) ==
    /\ to \in OPERATION_STATUS_TRANSITIONS[from]
    /\ LET lifeFrom == OPERATION_STATUS_LIFECYCLE[from]
           lifeTo   == OPERATION_STATUS_LIFECYCLE[to]
       IN  lifeFrom = lifeTo \/ CanTransitionLifecycle(lifeFrom, lifeTo)

\* Mutant: a retry is allowed whatever the side effect state.
PlanBlockedRecoveryAnyEffect(blockedAfter, sideEffectState, retryAllowed) ==
    IF blockedAfter = "admission" \/ (blockedAfter = "execution" /\ retryAllowed)
    THEN "queued" ELSE "verifying"

(***************************************************************************)
(* The status a blocked operation is resumed into: "queued" re-executes,   *)
(* "verifying" only verifies the observation already recorded.             *)
(***************************************************************************)
PlanBlockedRecovery(blockedAfter, sideEffectState, retryAllowed) ==
    IF /\ sideEffectState = "none"
       /\ \/ blockedAfter = "admission"
          \/ blockedAfter = "execution" /\ retryAllowed
    THEN "queued"
    ELSE "verifying"

\* Mutant: a confirmed stop cancels whatever the side effect state.
PlanOperationCancellationAnyEffect(stopped, sideEffectState) ==
    IF stopped THEN "cancelled" ELSE "failed"

\* The status a stop receipt settles a cancel_requested operation into.
PlanOperationCancellation(stopped, sideEffectState) ==
    IF sideEffectState \in {"possible", "confirmed"} THEN "reconcile_required"
    ELSE IF stopped THEN "cancelled" ELSE "failed"

ReconcileOutcome == {"recovered", "failed", "cancelled"}

\* The status a reconcile_required operation is resolved into.
PlanReconcileRequiredResolution(outcome) ==
    IF outcome = "recovered" THEN "blocked" ELSE outcome
===============================================================================

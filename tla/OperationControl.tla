--------------------------- MODULE OperationControl ---------------------------
(***************************************************************************)
(* The control record of one tool operation (OperationControlRecord,       *)
(* packages/runtime/src/gateway/ports.ts) and every successor record the   *)
(* gateway and its Hand commit for it.  Scopes, evidence, owners, routes   *)
(* and timestamps are left out: no decision modelled here reads them.      *)
(*                                                                         *)
(* An optional field holds its "absent" value when the object does not     *)
(* carry it, so that every record has the same shape.                      *)
(***************************************************************************)
EXTENDS OperationLifecycle, Naturals

CONSTANTS
    Intents,      \* operation intents callers may submit: [op, key, fp]
    NoIntent      \* the intent of an operation that was never admitted

Ops  == {i.op : i \in Intents}

Lease == [epoch : Nat, state : {"absent", "active", "released"}]
NoLease == [epoch |-> 0, state |-> "absent"]

Observation == [epoch : Nat, effect : OperationSideEffectState \cup {"absent"}]
NoObservation == [epoch |-> 0, effect |-> "absent"]

BlockedState ==
    [after  : OperationBlockedAfter \cup {"absent"},
     effect : OperationSideEffectState \cup {"absent"},
     retry  : BOOLEAN]
NotBlocked == [after |-> "absent", effect |-> "absent", retry |-> FALSE]

OperationControlRecord ==
    [intent      : Intents \cup {NoIntent},
     status      : OperationStatus \cup {"none"},
     epoch       : Nat,
     lease       : Lease,
     observation : Observation,
     blocked     : BlockedState,
     reconcile   : OperationSideEffectState \cup {"absent"},
     result      : {"absent", "succeeded", "failed", "cancelled"},
     invalidated : BOOLEAN]

\* What the journal holds for an operation before its first commit.
NoControl ==
    [intent |-> NoIntent, status |-> "none", epoch |-> 0, lease |-> NoLease,
     observation |-> NoObservation, blocked |-> NotBlocked,
     reconcile |-> "absent", result |-> "absent", invalidated |-> FALSE]

Accepted(i) == [NoControl EXCEPT !.intent = i, !.status = "accepted", !.epoch = 1]

-------------------------------------------------------------------------------
(***************************************************************************)
(* Successors built by the gateway's own handlers (transition + mutate).   *)
(***************************************************************************)
\* Mutant: a settlement leaves the lease active.
ReleaseLeaseKept(lease) == lease

ReleaseLease(lease) ==
    IF lease.state = "absent" THEN lease ELSE [lease EXCEPT !.state = "released"]

Queued(r) == [r EXCEPT !.status = "queued"]

\* A first lease keeps epoch 1; every later lease moves to a fresh epoch.
LeaseEpoch(r) == IF r.lease.state = "absent" THEN r.epoch ELSE r.epoch + 1

Leased(r) ==
    [r EXCEPT !.status = "leased", !.epoch = LeaseEpoch(r),
              !.lease = [epoch |-> LeaseEpoch(r), state |-> "active"]]

Running(r) == [r EXCEPT !.status = "running"]

PermissionDenied(r) == [r EXCEPT !.status = "failed", !.result = "failed"]

ResumeQueued(r) == [r EXCEPT !.status = "queued", !.blocked = NotBlocked]

ResumeVerifying(r) == [r EXCEPT !.status = "verifying", !.blocked = NotBlocked]

CancelRequested(r) == [r EXCEPT !.status = "cancel_requested"]

CancelSettled(r, to, effect) ==
    [r EXCEPT !.status      = to,
              !.invalidated = TRUE,
              !.lease       = ReleaseLease(@),
              !.result      = IF to = "reconcile_required" THEN @ ELSE to,
              !.reconcile   = IF to = "reconcile_required" THEN effect ELSE @]

ReconcileRecovered(r) ==
    [r EXCEPT !.status    = "blocked",
              !.reconcile = "absent",
              !.blocked   = [after |-> "reconcile", effect |-> r.reconcile,
                             retry |-> FALSE]]

ReconcileCancelled(r) ==
    [r EXCEPT !.status = "cancelled", !.result = "cancelled",
              !.reconcile = "absent", !.lease = ReleaseLease(@)]

ReconcileFailed(r) ==
    [r EXCEPT !.status = "failed", !.result = "failed", !.reconcile = "absent"]

-------------------------------------------------------------------------------
(***************************************************************************)
(* Successors emitted by the Hand: the status of the event, then the       *)
(* settlement, which releases the lease.  The verification_started emit    *)
(* carries no settlement.                                                  *)
(***************************************************************************)
HandVerifying(r) == [r EXCEPT !.status = "verifying"]

\* Mutant: the settlement carries no observation.
HandBlockedUnobserved(r, obs, after, effect) ==
    [r EXCEPT !.status = "blocked", !.lease = ReleaseLease(@),
              !.blocked = [after |-> after, effect |-> effect, retry |-> FALSE]]

\* Mutant: the blocked state always reports that no effect happened.
HandBlockedNoEffect(r, obs, after, effect) ==
    [r EXCEPT !.status = "blocked", !.observation = obs,
              !.blocked = [after |-> after, effect |-> "none", retry |-> FALSE],
              !.lease = ReleaseLease(@)]

HandBlocked(r, obs, after, effect) ==
    [r EXCEPT !.status = "blocked", !.observation = obs,
              !.blocked = [after |-> after, effect |-> effect, retry |-> FALSE],
              !.lease = ReleaseLease(@)]

\* Mutant: the settlement carries no reconcile state.
HandReconcileBare(r, obs) ==
    [r EXCEPT !.status = "reconcile_required", !.observation = obs,
              !.lease = ReleaseLease(@)]

HandReconcile(r, obs) ==
    [r EXCEPT !.status = "reconcile_required", !.observation = obs,
              !.reconcile = obs.effect, !.lease = ReleaseLease(@)]

HandFailed(r, obs) ==
    [r EXCEPT !.status = "failed", !.result = "failed",
              !.observation = IF obs = NoObservation THEN @ ELSE obs,
              !.lease = ReleaseLease(@)]

HandSucceeded(r, obs) ==
    [r EXCEPT !.status = "succeeded", !.result = "succeeded",
              !.observation = obs, !.lease = ReleaseLease(@)]

-------------------------------------------------------------------------------
(***************************************************************************)
(* The fence commitSuccessor applies to the record in memory before it     *)
(* asks the journal to commit: an invalidated execution only takes the     *)
(* moves that say so, and a cancelling operation only its settlements.     *)
(***************************************************************************)
Fenced(r, to, allowInvalidated) ==
    \/ r.invalidated /\ ~allowInvalidated
    \/ /\ r.status \in {"cancel_requested", "cancelled"}
       /\ to # r.status
       /\ ~ /\ r.status = "cancel_requested"
            /\ to \in {"cancelled", "reconcile_required", "failed"}

(***************************************************************************)
(* What the journal's commit transaction accepts on top of the newest      *)
(* envelope of the operation: the same identity, and no earlier epoch.     *)
(* It does not look at the status.                                         *)
(***************************************************************************)
JournalAccepts(head, control) ==
    head.status # "none" => /\ control.intent = head.intent
                            /\ control.epoch >= head.epoch
===============================================================================

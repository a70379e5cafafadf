------------------------- MODULE ToolExecutionGateway -------------------------
(***************************************************************************)
(* ToolExecutionGateway and its HandRuntime: concurrent calls of one       *)
(* gateway instance over the operation-control journal, with crashes of    *)
(* the process and faults of the journal.                                  *)
(*                                                                         *)
(* One action is the code between two awaits.  A caller is one call in     *)
(* progress: its pc names the await it is suspended on.  Every mutable     *)
(* operation record is an object in memory that a call may still hold      *)
(* after readControl replaced it in the map: cells[op] is the sequence of  *)
(* the objects published for op, the last one being operations.get(op).    *)
(***************************************************************************)
EXTENDS OperationControl, Sequences, FiniteSets

CONSTANTS
    Callers,       \* calls that may be in progress at once
    Calls,         \* entry points the environment uses in this instance
    ResumeInputs,  \* overrides a resume may carry: [after, effect, retry]
    Faults,        \* journal faults: subset of {"reject", "lostAck", "publish"}
    HydrateFirst,  \* TRUE: a process reads control before its first submit
    MaxEpoch,      \* bound: no lease beyond this execution epoch
    MaxObjects     \* bound: record objects of one operation still in memory

EntryPoints == {"submit", "execute", "resume", "requestCancel", "settle",
                "resolve", "readControl", "crash"}

ASSUME IntentsAssumption ==
    /\ NoIntent \notin Intents
    /\ \A i \in Intents : i = [op |-> i.op, key |-> i.key, fp |-> i.fp]

ASSUME CallsAssumption ==
    /\ Calls \subseteq EntryPoints
    /\ ResumeInputs \subseteq
          [after  : OperationBlockedAfter \cup {"keep"},
           effect : OperationSideEffectState \cup {"keep"},
           retry  : {"keep", "allow", "deny"}]
    /\ Faults \subseteq {"reject", "lostAck", "publish"}
    /\ HydrateFirst \in BOOLEAN
    /\ MaxEpoch \in Nat \ {0} /\ MaxObjects \in Nat \ {0}

VARIABLES
    durable,       \* newest committed control record of each operation
    cells,         \* record objects published in memory, newest last
    locks,         \* FIFO of the callers holding or awaiting the operation lock
    notifyFailed,  \* a publishCommitted failure not yet thrown to a caller
    call,          \* the call each caller is in
    effects,       \* external side effects the executor really performed
    hydrated,      \* this process has read control since it started
    overtaken      \* history: operations a read of the journal has overtaken

vars == <<durable, cells, locks, notifyFailed, call, effects, hydrated, overtaken>>

PC == {"idle", "accept", "commit", "submitted", "lock", "queued", "lease",
       "leased", "prepared", "denied", "execute", "verify", "relock",
       "settled", "stop", "unlock", "hydrate"}

NoView == [o \in Ops |-> NoControl]

Idle ==
    [kind |-> "none", pc |-> "idle", intent |-> NoIntent, ref |-> 0,
     epoch |-> 0, obs |-> NoObservation, succ |-> NoControl, after |-> "idle",
     touched |-> FALSE, halted |-> FALSE, view |-> NoView]

Current(o) == cells[o][Len(cells[o])]
Known(o) == cells[o] # <<>>

CallsOn(o) == {c \in Callers : call[c].intent # NoIntent /\ call[c].intent.op = o}

\* The idempotency and pendingSubmissions maps, and the executions map: each
\* is a function of the published records and of the calls in progress.
KeyBound(k)   == \E o \in Ops : Known(o) /\ Current(o).intent.key = k
\* Mutant: acceptances in progress are not remembered.
KeyPendingNever(k) == FALSE
KeyPending(k) == \E c \in Callers : call[c].kind = "submit" /\ call[c].intent.key = k
Executing(o)  == \E c \in CallsOn(o) : call[c].kind = "execute"

Holds(c, o) == locks[o] # <<>> /\ Head(locks[o]) = c
Released(c, o) == [locks EXCEPT ![o] = IF Holds(c, o) THEN Tail(@) ELSE @]

\* Mutant: the lock is released after the handler, not in a finally block.
AbortKeepsLock(c) ==
    /\ call' = [call EXCEPT ![c] = Idle]
    /\ locks' = IF call[c].pc \in {"unlock", "denied", "settled"}
                THEN Released(c, call[c].intent.op) ELSE locks

\* A handler throws: its lock is released, its maps entries are dropped.
Abort(c) ==
    /\ call' = [call EXCEPT ![c] = Idle]
    /\ locks' = IF call[c].intent = NoIntent THEN locks
                ELSE Released(c, call[c].intent.op)

\* The object a handler goes on reading after the await it continues from.
Continue(frame, after) ==
    [frame EXCEPT !.pc = after, !.succ = NoControl, !.after = "idle",
                  !.ref = IF after \in {"queued", "lease", "leased", "prepared"}
                          THEN @ ELSE 0]

(***************************************************************************)
(* commitSuccessor up to the journal call: fenced successors are dropped   *)
(* and the handler goes on as if they had been committed.                  *)
(***************************************************************************)
CommitSuccessor(c, frame, r, succ, allowInvalidated, after) ==
    call' = [call EXCEPT ![c] =
        IF Fenced(r, succ.status, allowInvalidated)
        THEN Continue(frame, after)
        ELSE [frame EXCEPT !.pc = "commit", !.succ = succ, !.after = after]]

\* transition(): the move from the held record must be legal.
Transition(c, frame, succ, allowInvalidated, after) ==
    LET r == cells[frame.intent.op][frame.ref] IN
    IF CanTransitionOperationStatus(r.status, succ.status)
    THEN /\ CommitSuccessor(c, frame, r, succ, allowInvalidated, after)
         /\ UNCHANGED locks
    ELSE Abort(c)

\* The Hand's emit(): applied to the record now in the map, with no legality
\* check; the journal refuses an event whose epoch is not the record's.
Emit(c, frame, succ, after) ==
    LET o == frame.intent.op IN
    IF Fenced(Current(o), succ.status, FALSE) \/ frame.epoch = succ.epoch
    THEN /\ CommitSuccessor(c, [frame EXCEPT !.ref = Len(cells[o])],
                            Current(o), succ, FALSE, after)
         /\ UNCHANGED locks
    ELSE Abort(c)

-------------------------------------------------------------------------------
Init ==
    /\ durable = [o \in Ops |-> NoControl]
    /\ cells = [o \in Ops |-> <<>>]
    /\ locks = [o \in Ops |-> <<>>]
    /\ notifyFailed = [o \in Ops |-> FALSE]
    /\ call = [c \in Callers |-> Idle]
    /\ effects = [o \in Ops |-> 0]
    /\ hydrated = FALSE
    /\ overtaken = {}

-------------------------------------------------------------------------------
(***************************************************************************)
(* submit                                                                  *)
(***************************************************************************)

\* A submission that is not a replay: a replay, a conflict, or one that
\* waits for the pending acceptance of its own key changes nothing.
Submit(c, i) ==
    /\ "submit" \in Calls
    /\ call[c].pc = "idle"
    /\ HydrateFirst => hydrated
    /\ ~KeyBound(i.key) /\ ~KeyPending(i.key) /\ ~Known(i.op)
    /\ call' = [call EXCEPT ![c] =
                  [Idle EXCEPT !.kind = "submit", !.pc = "accept", !.intent = i]]
    /\ UNCHANGED <<durable, cells, locks, notifyFailed, effects, hydrated, overtaken>>

AdmitGranted(c) ==
    /\ call[c].pc = "accept"
    /\ call' = [call EXCEPT ![c] =
                  [@ EXCEPT !.pc = "commit", !.after = "submitted",
                            !.succ = Accepted(call[c].intent)]]
    /\ UNCHANGED <<durable, cells, locks, notifyFailed, effects, hydrated, overtaken>>

AdmitRejected(c) ==
    /\ call[c].pc = "accept"
    /\ Abort(c)
    /\ UNCHANGED <<durable, cells, notifyFailed, effects, hydrated, overtaken>>

\* The submission returns, or throws the publish failure of its operation.
Submitted(c) ==
    /\ call[c].pc = "submitted"
    /\ notifyFailed' = [notifyFailed EXCEPT ![call[c].intent.op] = FALSE]
    /\ call' = [call EXCEPT ![c] = Idle]
    /\ UNCHANGED <<durable, cells, locks, effects, hydrated, overtaken>>

-------------------------------------------------------------------------------
(***************************************************************************)
(* journal.commit, the assignment of the record and publishCommitted.      *)
(* The append and the assignment are one step: the transaction holds the   *)
(* journal's lock until the turn that assigns.                             *)
(***************************************************************************)
Referenced(o, c) == \E d \in CallsOn(o) \ {c} : call[d].ref # 0

\* operations.set: objects no call in progress holds are forgotten.
Published(c, o, r) == IF Referenced(o, c) THEN Append(cells[o], r) ELSE <<r>>

Commit(c) ==
    LET o == call[c].intent.op
        succ == call[c].succ
    IN  /\ call[c].pc = "commit"
        /\ JournalAccepts(durable[o], succ)
        /\ durable' = [durable EXCEPT ![o] = succ]
        /\ cells' = IF call[c].ref = 0
                    THEN [cells EXCEPT ![o] = Published(c, o, succ)]
                    ELSE [cells EXCEPT ![o][call[c].ref] = succ]
        /\ call' = [call EXCEPT ![c] = Continue(call[c], call[c].after)]
        /\ notifyFailed' \in
              {notifyFailed} \cup
              (IF "publish" \in Faults
               THEN {[notifyFailed EXCEPT ![o] = TRUE]} ELSE {})
        /\ UNCHANGED <<locks, effects, hydrated, overtaken>>

\* Mutant: the record in memory is assigned before the journal answers.
CommitRefusedCached(c) ==
    LET o == call[c].intent.op IN
    /\ call[c].pc = "commit"
    /\ "reject" \in Faults
    /\ Abort(c)
    /\ cells' = IF call[c].ref = 0
                THEN [cells EXCEPT ![o] = Published(c, o, call[c].succ)]
                ELSE [cells EXCEPT ![o][call[c].ref] = call[c].succ]
    /\ UNCHANGED <<durable, notifyFailed, effects, hydrated, overtaken>>

\* The commit rejects and nothing became durable.
CommitRefused(c) ==
    /\ call[c].pc = "commit"
    /\ \/ ~JournalAccepts(durable[call[c].intent.op], call[c].succ)
       \/ "reject" \in Faults
    /\ Abort(c)
    /\ UNCHANGED <<durable, cells, notifyFailed, effects, hydrated, overtaken>>

\* The line was written but the commit rejects (fsync or lock release failed).
CommitUnacknowledged(c) ==
    /\ call[c].pc = "commit"
    /\ "lostAck" \in Faults
    /\ JournalAccepts(durable[call[c].intent.op], call[c].succ)
    /\ durable' = [durable EXCEPT ![call[c].intent.op] = call[c].succ]
    /\ Abort(c)
    /\ UNCHANGED <<cells, notifyFailed, effects, hydrated, overtaken>>

-------------------------------------------------------------------------------
(***************************************************************************)
(* withOperationLock: a FIFO chain of promises per operation.              *)
(***************************************************************************)
StartLocked(c, kind, i) ==
    /\ kind \in Calls
    /\ call[c].pc = "idle"
    /\ kind = "execute" => ~Executing(i.op)
    /\ call' = [call EXCEPT ![c] =
                  [Idle EXCEPT !.kind = kind, !.pc = "lock", !.intent = i]]
    /\ locks' = [locks EXCEPT ![i.op] = Append(@, c)]
    /\ UNCHANGED <<durable, cells, notifyFailed, effects, hydrated, overtaken>>

\* Mutant: a handler does not wait for the handlers ahead of it.
AcquiredAtOnce(c, kind) == call[c].pc = "lock" /\ call[c].kind = kind

\* The caller's turn has come: its handler reads the record now in the map.
Acquired(c, kind) ==
    /\ call[c].pc = "lock" /\ call[c].kind = kind
    /\ Holds(c, call[c].intent.op)

Frame(c) == [call[c] EXCEPT !.ref = Len(cells[call[c].intent.op])]

OperationMissing(c) ==
    /\ call[c].pc = "lock"
    /\ Holds(c, call[c].intent.op)
    /\ ~Known(call[c].intent.op)
    /\ Abort(c)
    /\ UNCHANGED <<durable, cells, notifyFailed, effects, hydrated, overtaken>>

\* The lock is released; a publish failure of the operation is thrown.
Unlock(c) ==
    LET o == call[c].intent.op IN
    /\ \/ call[c].pc \in {"unlock", "denied"}
       \/ call[c].pc = "settled" /\ Holds(c, o)
    /\ Abort(c)
    /\ notifyFailed' = [notifyFailed EXCEPT ![o] = FALSE]
    /\ UNCHANGED <<durable, cells, effects, hydrated, overtaken>>

-------------------------------------------------------------------------------
(***************************************************************************)
(* execute: queue, re-check the grant and the boundary, lease, run.        *)
(***************************************************************************)
ExecuteLocked(c) ==
    /\ Acquired(c, "execute")
    /\ Known(call[c].intent.op)
    /\ LET r == Current(call[c].intent.op) IN
       IF r.status = "accepted"
       THEN Transition(c, Frame(c), Queued(r), FALSE, "queued")
       ELSE /\ call' = [call EXCEPT ![c] = [Frame(c) EXCEPT !.pc = "queued"]]
            /\ UNCHANGED locks
    /\ UNCHANGED <<durable, cells, notifyFailed, effects, hydrated, overtaken>>

ExecuteQueued(c) ==
    /\ call[c].pc = "queued"
    /\ IF cells[call[c].intent.op][call[c].ref].status = "queued"
       THEN /\ call' = [call EXCEPT ![c].pc = "lease"]
            /\ UNCHANGED locks
       ELSE Abort(c)
    /\ UNCHANGED <<durable, cells, notifyFailed, effects, hydrated, overtaken>>

LeaseGranted(c) ==
    LET r == cells[call[c].intent.op][call[c].ref] IN
    /\ call[c].pc = "lease"
    /\ LeaseEpoch(r) <= MaxEpoch
    /\ Transition(c, [call[c] EXCEPT !.epoch = LeaseEpoch(r)], Leased(r), FALSE, "leased")
    /\ UNCHANGED <<durable, cells, notifyFailed, effects, hydrated, overtaken>>

\* The grant was revoked or the boundary shrank since admission.
LeaseDenied(c) ==
    LET r == cells[call[c].intent.op][call[c].ref] IN
    /\ call[c].pc = "lease"
    /\ Transition(c, call[c], PermissionDenied(r), FALSE, "denied")
    /\ UNCHANGED <<durable, cells, notifyFailed, effects, hydrated, overtaken>>

LeaseStarts(c) ==
    LET r == cells[call[c].intent.op][call[c].ref] IN
    /\ call[c].pc = "leased"
    /\ Transition(c, call[c], Running(r), FALSE, "prepared")
    /\ UNCHANGED <<durable, cells, notifyFailed, effects, hydrated, overtaken>>

\* The lock is released and, in the same turn, the executor is invoked
\* unless a publish failure of the operation is thrown instead.
Invoke(c) ==
    LET o == call[c].intent.op IN
    /\ call[c].pc = "prepared"
    /\ locks' = Released(c, o)
    /\ call' = [call EXCEPT ![c] =
                  IF notifyFailed[o] THEN Idle
                  ELSE [@ EXCEPT !.pc = "execute", !.ref = 0]]
    /\ notifyFailed' = [notifyFailed EXCEPT ![o] = FALSE]
    /\ UNCHANGED <<durable, cells, effects, hydrated, overtaken>>

-------------------------------------------------------------------------------
(***************************************************************************)
(* The Hand, which runs without the operation lock after execute and under *)
(* it in a verify-only resume.  The executor, the verifier and the stop    *)
(* settlement are ports: any truthful answer is possible.                  *)
(***************************************************************************)

\* The executor performs its external side effect (at most one per run).  The
\* count stops at two: no property tells more effects apart.
ExecutorEffect(c) ==
    /\ call[c].pc = "execute" /\ ~call[c].touched /\ ~call[c].halted
    /\ call' = [call EXCEPT ![c].touched = TRUE]
    /\ effects' = [effects EXCEPT ![call[c].intent.op] = IF @ < 2 THEN @ + 1 ELSE @]
    /\ UNCHANGED <<durable, cells, locks, notifyFailed, hydrated, overtaken>>

\* The stop settlement port really stops a running executor.
ExecutorStops(c) ==
    /\ call[c].pc = "execute" /\ ~call[c].halted
    /\ \E d \in CallsOn(call[c].intent.op) : call[d].pc = "stop"
    /\ call' = [call EXCEPT ![c].halted = TRUE]
    /\ UNCHANGED <<durable, cells, locks, notifyFailed, effects, hydrated, overtaken>>

ReportedEffects(c) ==
    IF call[c].touched THEN {"possible", "confirmed"} ELSE {"none", "possible"}

ExecutorThrows(c) ==
    /\ call[c].pc = "execute"
    /\ Emit(c, call[c], HandFailed(Current(call[c].intent.op), NoObservation), "relock")
    /\ UNCHANGED <<durable, cells, notifyFailed, effects, hydrated, overtaken>>

ExecutorReturns(c) ==
    LET r == Current(call[c].intent.op) IN
    /\ call[c].pc = "execute"
    /\ \E effect \in ReportedEffects(c) :
         LET obs   == [epoch |-> call[c].epoch, effect |-> effect]
             stale == [obs EXCEPT !.epoch = @ + 1]
             frame == [call[c] EXCEPT !.obs = obs]
         IN  \/ Emit(c, frame, HandVerifying(r), "verify")
             \/ Emit(c, frame, HandBlocked(r, obs, "execution", effect), "relock")
             \/ Emit(c, frame, HandReconcile(r, obs), "relock")
             \/ Emit(c, frame, HandFailed(r, obs), "relock")
             \/ Emit(c, frame, HandBlocked(r, stale, "execution", "possible"), "relock")
    /\ UNCHANGED <<durable, cells, notifyFailed, effects, hydrated, overtaken>>

\* A Hand under the operation lock (verify-only) goes back to its handler.
AfterVerify(c) == IF Holds(c, call[c].intent.op) THEN "unlock" ELSE "relock"

VerifierAnswers(c) ==
    LET r   == Current(call[c].intent.op)
        obs == call[c].obs
    IN  /\ call[c].pc = "verify"
        /\ \/ Emit(c, call[c], HandSucceeded(r, obs), AfterVerify(c))
           \/ Emit(c, call[c], HandFailed(r, obs), AfterVerify(c))
           \/ Emit(c, call[c], HandBlocked(r, obs, "verification", "possible"),
                   AfterVerify(c))
        /\ UNCHANGED <<durable, cells, notifyFailed, effects, hydrated, overtaken>>

\* execute and resume take the lock again only to read a snapshot.
Relock(c) ==
    /\ call[c].pc = "relock"
    /\ call' = [call EXCEPT ![c].pc = "settled"]
    /\ locks' = [locks EXCEPT ![call[c].intent.op] = Append(@, c)]
    /\ UNCHANGED <<durable, cells, notifyFailed, effects, hydrated, overtaken>>

-------------------------------------------------------------------------------
(***************************************************************************)
(* resume, requestCancel, settleCancellation, resolveReconcile             *)
(***************************************************************************)
Overridden(value, input) == IF input = "keep" THEN value ELSE input

Recovery(r, input) ==
    PlanBlockedRecovery(Overridden(r.blocked.after, input.after),
                        Overridden(r.blocked.effect, input.effect),
                        CASE input.retry = "keep"  -> r.blocked.retry
                          [] input.retry = "allow" -> TRUE
                          [] input.retry = "deny"  -> FALSE)

ResumeLocked(c) ==
    /\ Acquired(c, "resume")
    /\ Known(call[c].intent.op)
    /\ LET r == Current(call[c].intent.op)
           verifyFrame ==
             [Frame(c) EXCEPT !.obs = r.observation,
                              !.epoch = IF r.lease.state = "absent"
                                        THEN r.observation.epoch
                                        ELSE r.lease.epoch]
       IN  IF r.status # "blocked" \/ r.blocked = NotBlocked
           THEN Abort(c)
           ELSE \E input \in ResumeInputs :
                  IF Recovery(r, input) = "queued"
                  THEN /\ LeaseEpoch(r) <= MaxEpoch
                       /\ Transition(c, Frame(c), ResumeQueued(r), FALSE, "lease")
                  ELSE IF r.observation = NoObservation
                  THEN Abort(c)
                  ELSE Transition(c, verifyFrame, ResumeVerifying(r), FALSE, "verify")
    /\ UNCHANGED <<durable, cells, notifyFailed, effects, hydrated, overtaken>>

RequestCancelLocked(c) ==
    /\ Acquired(c, "requestCancel")
    /\ Known(call[c].intent.op)
    /\ Transition(c, Frame(c), CancelRequested(Current(call[c].intent.op)), FALSE, "unlock")
    /\ UNCHANGED <<durable, cells, notifyFailed, effects, hydrated, overtaken>>

\* settleCancellation up to the await of the stop settlement port.
SettleLocked(c) ==
    LET r == Current(call[c].intent.op) IN
    /\ Acquired(c, "settle")
    /\ Known(call[c].intent.op)
    /\ IF r.status = "cancel_requested"
       THEN /\ call' = [call EXCEPT ![c] = [Frame(c) EXCEPT !.pc = "stop", !.epoch = r.epoch]]
            /\ UNCHANGED locks
       ELSE Abort(c)
    /\ UNCHANGED <<durable, cells, notifyFailed, effects, hydrated, overtaken>>

\* What a truthful receipt may say about operation o.
StopReceipts(o) ==
    {s \in [stopped : BOOLEAN, effect : OperationSideEffectState] :
        /\ s.effect = "none" => effects[o] = 0
        /\ s.effect = "confirmed" => effects[o] > 0
        /\ s.stopped => \A d \in CallsOn(o) : call[d].pc = "execute" => call[d].halted}

StopSettled(c) ==
    LET o == call[c].intent.op
        r == cells[o][call[c].ref]
    IN  /\ call[c].pc = "stop"
        /\ IF r.status # "cancel_requested" \/ r.epoch # call[c].epoch
           THEN Abort(c)
           ELSE \E s \in StopReceipts(o) :
                  LET to == PlanOperationCancellation(s.stopped, s.effect)
                  IN  Transition(c, call[c], CancelSettled(r, to, s.effect), TRUE, "unlock")
        /\ UNCHANGED <<durable, cells, notifyFailed, effects, hydrated, overtaken>>

\* The port rejects, or its receipt fails assertStopSettlementReceipt.
StopReceiptInvalid(c) ==
    /\ call[c].pc = "stop"
    /\ Abort(c)
    /\ UNCHANGED <<durable, cells, notifyFailed, effects, hydrated, overtaken>>

ResolveLocked(c) ==
    LET r == Current(call[c].intent.op) IN
    /\ Acquired(c, "resolve")
    /\ Known(call[c].intent.op)
    /\ IF r.status # "reconcile_required"
       THEN Abort(c)
       ELSE \E outcome \in ReconcileOutcome :
              CASE PlanReconcileRequiredResolution(outcome) = "blocked" ->
                     IF r.reconcile = "absent"
                     THEN Abort(c)
                     ELSE Transition(c, Frame(c), ReconcileRecovered(r), r.invalidated, "unlock")
                [] PlanReconcileRequiredResolution(outcome) = "cancelled" ->
                     Transition(c, Frame(c), ReconcileCancelled(r), r.invalidated, "unlock")
                [] OTHER ->
                     Transition(c, Frame(c), ReconcileFailed(r), r.invalidated, "unlock")
    /\ UNCHANGED <<durable, cells, notifyFailed, effects, hydrated, overtaken>>

-------------------------------------------------------------------------------
(***************************************************************************)
(* readControl: a lock-free read of the journal, then hydrate replaces     *)
(* every record it returned.  It runs beside the handlers: every tool call *)
(* reads control before it submits, and tool calls run in parallel.        *)
(***************************************************************************)
ReadControl(c) ==
    /\ "readControl" \in Calls
    /\ call[c].pc = "idle"
    /\ call' = [call EXCEPT ![c] =
                  [Idle EXCEPT !.kind = "readControl", !.pc = "hydrate", !.view = durable]]
    /\ UNCHANGED <<durable, cells, locks, notifyFailed, effects, hydrated, overtaken>>

\* The read of c overtakes operation o: it puts back a record the journal has
\* since replaced, or replaces the record of a handler, or of a submission,
\* that has read the map and is about to write it.  Kept as history; no guard
\* reads it.
Overtakes(c, o) ==
    /\ call[c].view[o].status # "none"
    /\ \/ call[c].view[o] # durable[o]
       \/ Referenced(o, c)
       \/ \E d \in CallsOn(o) : call[d].kind = "submit" /\ call[d].pc # "submitted"

Hydrate(c) ==
    /\ call[c].pc = "hydrate"
    /\ \A o \in Ops : Referenced(o, c) => Len(cells[o]) < MaxObjects
    /\ cells' = [o \in Ops |-> IF call[c].view[o].status = "none" THEN cells[o]
                               ELSE Published(c, o, call[c].view[o])]
    /\ call' = [call EXCEPT ![c] = Idle]
    /\ hydrated' = TRUE
    /\ overtaken' = overtaken \cup {o \in Ops : Overtakes(c, o)}
    /\ UNCHANGED <<durable, locks, notifyFailed, effects>>

\* The process dies: only the journal and the world outside survive.
Crash ==
    /\ "crash" \in Calls
    /\ cells' = [o \in Ops |-> <<>>]
    /\ locks' = [o \in Ops |-> <<>>]
    /\ notifyFailed' = [o \in Ops |-> FALSE]
    /\ call' = [c \in Callers |-> Idle]
    /\ hydrated' = FALSE
    /\ UNCHANGED <<durable, effects, overtaken>>

-------------------------------------------------------------------------------
LockedKinds == {"execute", "resume", "requestCancel", "settle", "resolve"}

\* The steps of calls in progress; starting a call is up to the environment.
Step(c) ==
    \/ AdmitGranted(c) \/ AdmitRejected(c) \/ Submitted(c)
    \/ Commit(c) \/ CommitRefused(c) \/ CommitUnacknowledged(c)
    \/ OperationMissing(c) \/ Unlock(c)
    \/ ExecuteLocked(c) \/ ExecuteQueued(c) \/ LeaseGranted(c) \/ LeaseDenied(c)
    \/ LeaseStarts(c) \/ Invoke(c)
    \/ ExecutorThrows(c) \/ ExecutorReturns(c) \/ VerifierAnswers(c) \/ Relock(c)
    \/ ResumeLocked(c) \/ RequestCancelLocked(c) \/ SettleLocked(c)
    \/ StopSettled(c) \/ StopReceiptInvalid(c) \/ ResolveLocked(c)
    \/ Hydrate(c)

Next ==
    \/ \E c \in Callers :
         \/ \E i \in Intents : Submit(c, i)
         \/ \E i \in Intents, kind \in LockedKinds : StartLocked(c, kind, i)
         \/ ReadControl(c) \/ Step(c)
         \/ ExecutorEffect(c) \/ ExecutorStops(c)
    \/ Crash

Spec == Init /\ [][Next]_vars

\* The production stop settlement awaits the executor it stops, under the
\* operation lock.
AwaitsExecutor(c) ==
    /\ call[c].pc = "stop"
    /\ \E d \in CallsOn(call[c].intent.op) : call[d].pc = "execute"

\* The promises of the journal and of the authority settle, so a call whose
\* next step is enabled takes it.  Neither an executor nor a verifier is
\* assumed ever to return, nor a stop settlement that awaits an executor.
FairSpec ==
    /\ Spec
    /\ \A c \in Callers :
         WF_vars(call[c].pc \notin {"execute", "verify"} /\ ~AwaitsExecutor(c) /\ Step(c))
===============================================================================

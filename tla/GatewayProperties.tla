--------------------------- MODULE GatewayProperties ---------------------------
(***************************************************************************)
(* What the tool-execution gateway promises, stated over                   *)
(* ToolExecutionGateway.                                                   *)
(***************************************************************************)
EXTENDS ToolExecutionGateway

CallState ==
    [kind    : EntryPoints \cup {"none"},
     pc      : PC,
     intent  : Intents \cup {NoIntent},
     ref     : Nat,
     epoch   : Nat,
     obs     : Observation,
     succ    : OperationControlRecord,
     after   : PC,
     touched : BOOLEAN,
     halted  : BOOLEAN,
     view    : [Ops -> OperationControlRecord]]

\* Every variable of the gateway holds a value of its type.
TypeOK ==
    /\ durable \in [Ops -> OperationControlRecord]
    /\ cells \in [Ops -> Seq(OperationControlRecord)]
    /\ locks \in [Ops -> Seq(Callers)]
    /\ notifyFailed \in [Ops -> BOOLEAN]
    /\ call \in [Callers -> CallState]
    /\ effects \in [Ops -> Nat]
    /\ hydrated \in BOOLEAN
    /\ overtaken \subseteq Ops

\* However calls, retries, parallel reads, lost acknowledgements, cancellations
\* and crashes interleave, the executor's external effect of one operation
\* happens at most once (gateway.ts leaseAndPrepare, resume;
\* planBlockedRecovery).  Two cases are excepted: an operation that a read has
\* overtaken, whose record may be back at a status from which it runs again,
\* and a resume whose caller overrides the recorded effect with "none"
\* (ResumeInputs).
EffectAtMostOnce == \A o \in Ops \ overtaken : effects[o] <= 1

\* Calls running the Hand of operation o, or committing for it.
InHand(c, o) ==
    /\ c \in CallsOn(o)
    /\ \/ call[c].pc \in {"execute", "verify"}
       \/ call[c].pc = "commit" /\ call[c].after \in {"verify", "relock"}

\* As long as nobody cancels, the executor/verifier of an operation never runs
\* twice at the same time, although only execute() is deduplicated and resume()
\* is not; an operation that a read has overtaken is excepted.
OneHandPerOperation ==
    \A o \in Ops \ overtaken :
        \A c, d \in Callers : InHand(c, o) /\ InHand(d, o) => c = d

\* Without lost acknowledgements, the record in the map is exactly the head of
\* the operation's durable chain, whichever commits failed or were raced, until
\* a read overtakes the operation: a read that began before a commit, or that
\* ends while a handler holds the record, leaves an outdated one in the map.
CacheMatchesJournal ==
    \A o \in Ops \ overtaken : Known(o) => Current(o) = durable[o]

\* An operation at rest has released its lease, so a later lease cannot be
\* confused with one still running (applySettlement, settleCancellation).
LeaseReleasedAtRest ==
    \A o \in Ops :
        durable[o].status \in {"succeeded", "blocked", "cancelled", "reconcile_required"}
          => durable[o].lease.state # "active"

\* The state a recovery call needs is durable with the status that calls for
\* it: resume reads `blocked`, resolveReconcile reads `reconcile`, and a
\* terminal operation carries the matching result.
RecoveryStateIsDurable ==
    \A o \in Ops :
        /\ durable[o].status = "blocked" => durable[o].blocked # NotBlocked
        /\ durable[o].status = "reconcile_required" => durable[o].reconcile # "absent"
        /\ IsTerminalOperationStatus(durable[o].status)
             => durable[o].result = durable[o].status

\* A blocked operation whose execution no stop has invalidated can be resumed
\* by verification: it has an observation to verify (resume throws without
\* one), and its lease has the epoch of the record, so that the Hand resumed
\* under that lease may commit its outcome.
BlockedIsResumable ==
    \A o \in Ops :
        durable[o].status = "blocked" /\ ~durable[o].invalidated =>
            /\ durable[o].observation # NoObservation
            /\ durable[o].lease.state # "absent" => durable[o].lease.epoch = durable[o].epoch

\* "cancelled" reached through a stop receipt means no effect happened.
CancelledIsUntouched ==
    \A o \in Ops : durable[o].status = "cancelled" => effects[o] = 0

\* Two admitted operations never share an idempotency namespace key.
OneOperationPerKey ==
    \A o, p \in Ops :
        /\ durable[o].status # "none" /\ durable[p].status # "none"
        /\ durable[o].intent.key = durable[p].intent.key
        => o = p

-------------------------------------------------------------------------------
\* The executor is only invoked under a lease that is durably running, and
\* holds that lease's epoch, but for an operation that a read has overtaken.
ExecutorFence ==
    [][\A c \in Callers :
         call[c].pc # "execute" /\ call'[c].pc = "execute" =>
            LET o == call[c].intent.op IN
            o \notin overtaken =>
                /\ durable[o].status = "running"
                /\ durable[o].lease = [epoch |-> call'[c].epoch, state |-> "active"]]_vars

\* The executor is never invoked while the durable record of its operation
\* carries the mark of a settled stop, whatever cancels, settles, resolves,
\* resumes, reads control or crashes between the lease and the invocation
\* (leaseAndPrepare; settleCancellation marks the execution invalidated).  The
\* mark itself may be lost to a late outcome: FencedOutcomeIsNeverDurable.
StoppedNeverRuns ==
    [][\A c \in Callers :
         call[c].pc # "execute" /\ call'[c].pc = "execute" =>
            ~durable[call[c].intent.op].invalidated]_vars

\* gateway.ts:1118-1121: "Cancellation fencing and execution invalidation are
\* enforced before the commit so a fenced late outcome is never durable."
FencedOutcomeIsNeverDurable ==
    [][\A o \in Ops : durable'[o] # durable[o] =>
         /\ durable[o].status = "cancel_requested" =>
              durable'[o].status \in {"cancelled", "failed", "reconcile_required"}
         /\ durable[o].status # "cancelled"]_vars

\* gateway.ts:1210-1213: hydrate "never revives a lease, replays an effect, or
\* drops a blocked/reconcile obligation".
HydrateKeepsObligations ==
    [][\A o \in Ops :
         /\ Known(o) /\ Current(o).status \in {"blocked", "reconcile_required"}
         /\ \E c \in Callers : call[c].pc = "hydrate" /\ call'[c].pc = "idle"
                                 /\ cells'[o] # <<>>
         => cells'[o][Len(cells'[o])].status \in {"blocked", "reconcile_required"}
            \/ durable[o].status \notin {"blocked", "reconcile_required"}]_vars

\* A blocked operation can leave that status.  False of a record that a stop has
\* invalidated: after cancel, settle and resolve, every transition of it is
\* dropped (gateway.ts:1128).
BlockedIsNotFinal ==
    \A o \in Ops : durable[o].status = "blocked" => ~durable[o].invalidated

\* A call waiting for the operation lock gets it, whatever the calls ahead of
\* it do and although executors may never return (withOperationLock; the lock
\* is not held while the executor runs), unless a stop settlement that holds
\* the lock awaits an executor for ever.
Awaits(c, o) == c \in CallsOn(o) /\ call[c].pc \in {"lock", "settled"}

StopHeldUp(o) == \E c \in CallsOn(o) : AwaitsExecutor(c)

LockIsServed ==
    \A o \in Ops :
        []<>~StopHeldUp(o) => \A c \in Callers : Awaits(c, o) ~> ~Awaits(c, o)

-------------------------------------------------------------------------------
Contract ==
    INSTANCE OperationContract WITH
        Operations <- Ops,
        status     <- [o \in Ops |-> IF o \in overtaken THEN "void" ELSE durable[o].status],
        epoch      <- [o \in Ops |-> IF o \in overtaken THEN 0 ELSE durable[o].epoch],
        performed  <- [o \in Ops |-> o \notin overtaken /\ effects[o] > 0]

\* Without cancellation, the journal's newest records and the effects of the
\* executors implement the contract, through crashes, retries and commits that
\* fail (ToolExecutionGateway over OperationControlJournal.commit).  The
\* contract of an operation that a read overtakes is void from there on.
ImplementsContract == Contract!Spec
===============================================================================

# A verification project for HumanAgents

HumanAgents is a TypeScript runtime for agents: a brain plans a task, runtimes
take assignments, every tool call an agent makes goes through one gateway that
admits it, leases it, runs it and verifies it, a turn of its model ends with a
checkpoint and a decision, plans run on a schedule, and what
happened is recorded in hash-chained journals, so that a crashed process can tell
what it must still do and what it must never do again. This directory holds
TLA+ models of six parts of it that carry this logic, the TLC runs that check
them on small instances, and TLAPS proofs about them.

`PROJECT.json` lists, in machine-readable form, the components, the runs, the
source lines every definition stands for, the hazards and the theorems.

## Contents

| file | what it is |
|---|---|
| **Operations** | |
| `OperationLifecycle` | status machine of one tool operation and its three recovery plans, as functions |
| `OperationControl` | the control record, every successor record committed for it, the fence, the journal's acceptance rule |
| `ToolExecutionGateway` | the gateway and its Hand as concurrent calls over the journal, with crashes and faults |
| `GatewayProperties` | what the gateway promises |
| `OperationContract` | abstract specification of one durable tool operation |
| `GatewayProofs` | inductive invariants, theorems and the refinement proof of the gateway |
| **Organ journal** | |
| `OrganJournal` | the journal file, its lock file and its cache, used by several processes |
| `JournalProperties` | what the organ journal promises |
| `JournalLog` | abstract specification: a log that only grows |
| `JournalProofs` | inductive invariants, theorems and the refinement proof of the organ journal |
| **Retry cycles** | |
| `RetryCycle`, `RetryProperties` | the retry cycle of an assignment, its journal and the attempt loop that drives it |
| `RetryProofs` | inductive invariant and theorems about retry cycles |
| **Orchestration** | |
| `RuntimePool` | the pool of agent runtimes: acquire, release and dispose |
| `AssignmentDispatch` | the orchestration manager over its assignment graph, composed with the pool |
| `DispatchProperties` | what both promise |
| `DispatchProofs` | inductive invariants and theorems about assignments, runtimes and the clients between them |
| **Events** | |
| `EventJournal` | the transactions of the event journal of one consumer |
| `EventConsumption` | overlapping calls of the event coordinator over that journal |
| `EventProperties` | what the consumption of events promises |
| `EventContract` | abstract specification: events acknowledged one after another, each with one outcome |
| `EventProofs` | inductive invariant, theorems and the refinement proof of the consumption |
| **Scheduled executions** | |
| `SubscriptionControl` | one plan in the subscription journal: controls, schedule, claim, settlement |
| `OccurrenceExecution` | patrols of successive daemons and the durable consumer, over that plan |
| `OccurrenceProperties` | what scheduled executions promise |
| `OccurrenceProofs` | inductive invariant and theorems about them |
| **Turns** | |
| `CheckpointChain` | the checkpoints of one execution: concurrent child calls and the closing turn |
| `TurnClosing` | closing a turn: candidate, recovery record, preparation, checkpoint and closures |
| `BoundarySave` | the five phases of the native save, its intent and its recorded progress |
| `TurnBoundary` | one turn from its calls to its decision, with crashes and the cold start |
| `TurnProperties` | what the end of a turn promises |
| `TurnContract` | abstract specification: frozen once, closed with that, one decision, advance by it |
| `TurnProofs` | inductive invariant, theorems and the refinement proof of the turn |
| **Shared** | |
| `NaturalExtrema` | lemmas on `Min` and `Max` of sets of numbers, for the proofs |
| `MC*` | values and symmetries for TLC |
| `*.cfg` | one configuration per run |

To check: `tlc -config GatewayRecovery.cfg MCGateway`, and so on for every run of
the table below; `tlapm GatewayProofs.tla`, and so on for every proof module.

## Inventory of the system

For each part: its state, its operations, what it talks to, what is hard, and
what makes it correct. Paths are relative to the repository.

### Operations

**Operation lifecycle** (`packages/core/src/tool-execution-lifecycle.ts`,
`lifecycle.ts`). No state. A table of twelve statuses whose every move must also
be legal after projection on the work lifecycle, and three plans: how a blocked
operation is resumed, what a stop receipt settles a cancellation into, what an
outcome resolves a reconcile obligation into. Correct when a plan never
re-executes or calls cancelled what may have had an effect.

**Tool-execution gateway** (`packages/runtime/src/gateway/gateway.ts`). State:
the maps `operations`, `idempotency`, `pendingSubmissions`, `executions`, the
per-operation promise chain `operationLocks`, and `notificationFailures`.
Operations: `submit`, `execute`, `resume`, `requestCancel`, `settleCancellation`,
`resolveReconcile`, `applyExternalLifecycle`, `readControl`. Calls the journal
(every status change is one commit), the permission and boundary ports, the
Hand, the stop-settlement port and the publisher. Hard: calls interleave at
every `await`; the executor runs outside the operation's lock; a commit may
fail, or succeed unacknowledged; the notification of a commit may fail and is
thrown by a later call; a read replaces the cache under calls in progress; the
process may die anywhere. Correct when an operation's effect happens at most
once, its durable chain only moves forward, its cached record is the durable
one, and nothing at rest is leased or unrecoverable.

**Hand runtime** (`hand.ts`). State: none of its own; emits the events of one
execution (verification started, succeeded, failed, blocked, reconcile
required), each of which the gateway commits. Hard: it runs without the lock, so
its events race with cancellation. Correct when one Hand runs per operation.

**Operation-control journal**
(`packages/app/src/operation-control-journal.ts`). State: the newest envelope of every
operation, within the organ journal. Operations: `commit`, `readControl`. Its
transaction re-checks identity and epoch against the newest envelope. Hard: it
does not look at the status, so a stale record of the same epoch is accepted.

**Organ journal** (`packages/adapters/jsonl/src/index.ts`). State: one file of
digest-chained lines, a lock file per journal, a cache of verified contents.
Operations: `append`, `transaction`, `verify`, `recover`. Hard: several
processes; eviction of a dead holder's lock; torn trailing lines; idempotent
append by commit id. Correct when at most one live process writes, no committed
line is lost, and a commit id is written once.

**Tool calls of the provider**
(`packages/app/src/provider-tool-execution.ts`). For each tool call of a model:
read control, submit, execute, and on abort cancel and settle. It is the
environment of the gateway model.

**Parent operations and prepared stop**
(`provider-admission.ts`, `agent-operation.ts`, `prepared-operation-boundary.ts`,
gateway `applyExternalLifecycle`). A provider turn is itself an operation, driven
from outside, whose children are admitted only while it runs. Hard: a stop of
the parent racing with the admission of a child.

### Planning and agents

**Retry cycle** (`packages/runtime/src/orchestration/retry-cycle.ts`,
`packages/app/src/retry-cycle-journal.ts`). State: the versions of one control
record (attempts, exclusions, admissions), each committed under an id derived
from its content. Operations: `begin`, `recordFailure`, `recordSuccess`,
`hydrate`; driven by the attempt loop of the task coordinator. Hard: the process
dies or the journal rejects between any two versions, and the next process, maybe
with another configuration, begins the cycle again. Correct when no provider runs
without a durable admission, no binding whose failure was recorded as retry-safe
is selected again, and nothing is tried past an attempt that may still be running.

**Runtime pool** (`runtime-pool.ts`). State: a map of runtime records with a
lease, a handle and a generation; the flag of the dispose. Operations: `acquire`,
`release`, `dispose`. Calls the factory and the handles, each of which may fail.
Hard: everything interleaves at those awaits. Correct when a runtime serves one
client, the capacity is kept, and a successful dispose leaves nothing.

**Assignment graph, orchestration manager** (`assignment-graph.ts`, `manager.ts`).
State: statuses and bindings of assignments. `dispatch` acquires a runtime from
the pool, executes, accepts, reviews with a second runtime of the same pool,
merges and releases. Hard: many ways out, cleanups that fail after the result was
accepted, and dispatches of the same assignment. Correct when an assignment is
executed once and a settled status is final.

**Task plan revisions, admission** (`task-plan-revisions.ts`,
`runtime/src/admission`). Compare-and-set of plan revisions; task grants with
epochs and revocation.

**Agent loop and turn closure** (`runtime/src/agent-loop/runtime.ts`,
`core/src/turn-closure.ts`, `app/src/ui-runtime/execution-composition.ts`). State:
`turnState` and `pendingClose` in memory; in the closure port the frozen
candidate, the recovery record, the closure of the turn and its alignment.
Operations: `closeTurn`, `recoverTurn`, `alignTurn`, `advanceTurn`, and
`recoverOriginalTurn` of a process that starts. Calls the checkpoint journal, the
closure port and the planner. Hard: every one of these records is a commit of its
own that may fail, or succeed unacknowledged, and the process may die between any
two. Correct when the next call, or the next process, finds what was decided and
carries on with that, and a turn advances only by the decision it was aligned with.

**Checkpoints and boundary save** (`runtime/src/checkpoints`,
`app/src/checkpoint-journal.ts`, `app/src/ui-runtime/child-checkpoint-adapter.ts`,
`adapters/jsonl/src/native-save-progress.ts`). State: a chain of checkpoints per
execution, preparations and closures, the intent and the progress of a save.
Operations: `recallCheckpoint`, `completeCheckpoint`,
`prepareCheckpointClosure`, `submitCheckpoint`, `runNativeBoundarySave`. Hard: the
child calls of a round extend one chain concurrently; a phase is committed and the
record of it lost. Correct when the turn's cut is final and progress is never
claimed without its receipt.

**Event coordinator and event journal** (`runtime/src/events/coordinator.ts`,
`packages/app/src/event-journal.ts`). State: events by stream, receipts, a cursor
per consumer and stream, retry obligations, dead letters, barrier intents,
external operations. `consumeEvents` takes the events after the cursor through
authorization, delivery and commit. Hard: calls overlap; the binding changes
while a handler runs; the three commits of an exhausted delivery are cut by a
crash; a message may be on two streams. Correct when a cursor never skips a
message without a receipt, a receipt is never replaced, and deliveries are bounded.

**Subscription control** (`packages/core/src/subscription.ts`,
`runtime/src/subscriptions/index.ts`). State: a plan with a revision, a progress,
occurrences, claims and settlements, in one journal. Operations: `create`,
`control` (pause, resume, modify, cancel), `schedule`, `claim`,
`settleOccurrence`, each one transaction. Hard: a claim outlives the revision it
was made under. Correct when a slot is run once and progress is earned.

**Scheduler and occurrence consumer** (`app/src/ui-runtime/scheduler.ts`,
`occurrence-consumer.ts`, `occurrence-router.ts`) under the supervisor's lease
(`app/src/supervisor`). State: admissions, terminal checkpoints and receipts in
the consumer's journal; the local variables of a patrol. Hard: a daemon is
replaced, or dies, while it dispatches outside the guard of its lease; its
replacement resumes what it finds claimed. Correct when a child is executed once
and its settlement is its receipt.

**Runtime stop, steering** (`runtime/src/control`). Quiescence of a runtime whose
operations are being cancelled; commands with generations.

**Supervisor and application** (`app/src/supervisor`, `cordis-host.ts`,
`serve-*.ts`). Start, watch and restart processes.

**Explicit brain and intake** (`runtime/src/explicit-brain`, `intake`). Draft
revisions by compare-and-set, and an inbox of requirements.

### Not state machines

Memory, context assembly, observation, review, UI projections, provider codecs,
tool bodies, contracts and validators, configuration and templates: data
transformation, formatting or wiring. They are listed in `PROJECT.json` with the
reason they are left out.

## How the gateway model corresponds to the code

One action of `ToolExecutionGateway` is the code a call runs between two
`await`s. A *caller* is one call in progress, and its `pc` names the `await` it
is suspended on; `pc = "commit"` is the await of `journal.commit`, and `after`
is where the handler goes on.

| variable | code |
|---|---|
| `durable[o]` | newest control record of `o` in the journal |
| `cells[o]` | the record objects of `o`: the last is `operations.get(o)`, earlier ones are still held by calls |
| `locks[o]` | the promise chain of `withOperationLock` |
| `notifyFailed[o]` | `notificationFailures` |
| `call[c]` | the local variables of a handler and its Hand |
| `effects[o]` | the real world: how often the executor really had its effect |
| `hydrated` | this process has read control |
| `overtaken` | history only, no guard reads it: the operations a read has overtaken (below) |

`idempotency`, `pendingSubmissions` and `executions` are functions of that state
(`KeyBound`, `KeyPending`, `Executing`), as the code adds and removes their
entries in the same turns.

Abstractions, and why they lose nothing the properties tell apart:

- Scopes, evidence, routes, owners, timestamps and event ids are left out: no
  modelled decision reads them. Field-level validation is assumed to pass.
- The append to the journal and the assignment of the record in memory are one
  step. The append only touches `durable`; what runs between it and the
  assignment only touches `cells` and `call`, or waits for the journal's lock
  (another commit). A `readControl` in between is the same as one just after.
- Whether a commit's notification fails is decided at the commit. It is only
  looked at when a lock is released.
- The permission and boundary reads before a lease are one question with one
  answer; either read can refuse.
- A submission that is a replay, a conflict, or that joins a pending acceptance
  changes no state and has no action.
- Ports answer, and truthfully: an executor that had an effect reports
  `possible` or `confirmed`; one that had none reports `none` or `possible`; a
  stop receipt that says `stopped` is about an executor that has stopped. The
  stop and verify ports may fail. An executor may never return.
- A resume may override what is recorded only by keeping it or by allowing the
  retry (`MCResumeInputs`): an override that lies about the effect is the
  caller's own statement.
- Record objects that no call holds are forgotten; effects are counted to two.

**Reads.** Every tool call reads control before it submits
(`provider-tool-execution.ts:897`), and tool calls run in parallel
(`agent-driver.ts:984`), so `ReadControl` and `Hydrate` have no guard: a read
starts and ends whatever the handlers are doing. It *overtakes* an operation
(`Overtakes`) when it puts back a record that the journal has replaced since the
read began, or replaces the record of a handler or a submission that has looked
at the map and is about to write. From then on two objects of the operation are
in use, or an old one is served; an operation may run twice, and what the gateway
promises of its record, of its Hand and of its effect no longer holds of that
operation. `overtaken` remembers it, and the properties that name it speak of the
other operations. Those that do not (`OneOperationPerKey`, `BlockedIsResumable`,
`LeaseReleasedAtRest`, `RecoveryStateIsDurable`, `StoppedNeverRuns`,
`CancelledIsUntouched`) are promised of all of them.

Two namespaces of keys and several operations behave independently except
through idempotency keys, so only `recovery` has more than one intent: two
operations that compete for one key.

## How the organ-journal model corresponds to the code

`OrganJournal` is below the gateway: `operation-control-journal.ts` commits by
one `transaction` of the organ journal. The gateway model uses what this one
shows, that a commit is atomic and durable once acknowledged, and may be durable
without being acknowledged (`CommitUnacknowledged`).

One action is one access to the file system with the code up to the next one. A
*caller* is one call of `append`, `transaction`, `recover` or `verify` made in
one process; its `pc` names the access it is about to make.

| variable | code |
|---|---|
| `file` | the journal file: whole lines, whether an incomplete line follows, and the inode |
| `lock` | the `.lock` file: process id and token |
| `guard` | the `.lock.evict` directory |
| `alive` | what `kill(pid, 0)` tells |
| `cache[p]` | the entry of this file in `verifiedJournals` of process `p` |
| `call[c]` | the local variables of a call |

- A record is its commit id, its fact and its sequence number; the digest chain
  is abstracted to contiguous sequence numbers, and validation of scopes,
  checkpoints and memory envelopes is assumed to pass. Appends without a commit
  id differ only in skipping the lookup of the id.
- The cache key (device, inode, size, modification time) is the inode and a size
  that every write moves on. `recover` makes a new inode.
- A write puts a part of its line in the file, then the rest; a failed write or
  sync leaves what is there, and a crash leaves it as well. The loss of unsynced
  data when the machine itself stops is not modelled.
- A fresh token is one that no lock file and no call has.
- Reading the lock file and asking whether its process lives are one step: the
  answer about a dead process can only change when its id is reused, and a lock
  with the expected token has no live owner then either.
- The entry of another call that is still being read is awaited in the code; the
  model reads the file again, at the same time at the latest.
- Temporary files (lock, recovery, stale lock) are private to a call. The
  failures of `link`, `mkdir` and of the removal of the guard are those of
  `GiveUp`; a guard whose removal fails is the one a crash leaves.

## How the retry-cycle model corresponds to the code

`RetryCycle` is one cycle: the manager's methods, the journal port below them and
the caller above. One action is the code up to the next `await` that matters: a
`persistCycle`, the driver, the attempt, its close.

| variable | code |
|---|---|
| `versions` | the committed versions of the control record |
| `config` | the candidate list the live process was configured with |
| `rec`, `then` | the version being persisted, and where the method goes on |
| `attempt`, `epoch`, `binding` | the loop's `attemptNumber`, `attemptEpoch`, `attemptBindingId` |
| `first`, `closure`, `corrected` | what the orchestration needs to decide on its one corrective attempt |

- An epoch is counted from the initial one, so that attempt `n` runs in epoch `n`.
- The port derives the commit id of a version from its content: a version equal to
  an older one is not appended when its evidence is equal, too. Evidence is left
  out, so `Committed` allows either.
- `Correct` is the orchestration, which dispatches an assignment once more with
  attempt number 2 and with the selection of `begin`. The properties that the code
  keeps for its own loop except in such an attempt say `~corrected`.

Things a reader of the code may not expect, all of them in the model: `begin`
after an attempt that ended `unknown`, `cancelled` or even `success` selects
another attempt (only `unsettled` blocks); a cycle that was admitted and has no
attempt when the process dies is refused for good; a corrective attempt may
follow an exhausted cycle whose blocked result could not be published.

## How the orchestration model corresponds to the code

`RuntimePool` is the pool between every two awaits; a client is one acquisition
with its lease. `AssignmentDispatch` extends it: a dispatch is one call of the
manager's `dispatch`, which acquires with its worker, then with its reviewer.

| variable | code |
|---|---|
| `runtimes` | every record ever made, by generation; `mapped`: it is in the map |
| `client[k]` | the local variables of `acquire` and `release` |
| `handles` | handles whose `dispose` was never called |
| `disposed`, `sweep` | the flag of the pool, and the local variables of `dispose` |
| `graph` | the status of each assignment |
| `dispatch[d]` | the local variables of `dispatch` |
| `executions` | the real world: how often an executor was invoked |

- A record is idle, running, spawning, failed or disposed as in the code;
  `settled` is the promise of its startup, `issue` its unreported cleanup error.
- The content of results, reviews and merges is left out: every way a result can
  be judged is a choice. Stages and dependencies between assignments are left
  out; a dispatch is of an assignment whose dependencies hold.
- The remediation of a failed attempt is another assignment (`CanRetry` says
  whether this one's attempt is below the maximum).

What the model shows of the code besides the properties: failed and disposed
records keep taking up capacity; a handle whose `dispose` rejected is not
disposed of again; a dispose during a release can leave a record `idle` though
its runtime is gone, and no client can take it any more; dispatching a
`retryable` assignment again marks it `blocked`.

## How the event model corresponds to the code

`EventJournal` is the journal of one consumer as its readers fold it, one
operation per transaction. `EventConsumption` is `consumeEvents`: a worker is one
call, its `pc` the await it is suspended on.

| variable | code |
|---|---|
| `log[s]` | the events of stream `s` |
| `receipt`, `cursor`, `obligation`, `deadLetters`, `intents`, `operation` | the latest record of each kind |
| `suffixed` | commit ids of the cursor-only commits |
| `binding` | what `decideConsumerDelivery` answers for the registration of now |
| `worker[w]` | the local variables of a call |

- `Leave` ends a call at any await: an error, its limit of events, or the death of
  the process. The time of the next attempt is left out: a pending obligation may
  be due or not.
- The commit id of an obligation has its attempt and state, its content the time:
  two deliveries of one attempt conflict (`RetryConflict`).
- Reading the dead letter and committing it are one step: committing it twice
  changes nothing. An external operation is keyed by its message.

What the model shows of the code besides the properties: no code writes the
`cancelled` state of an obligation, and the duplicate branch that follows a `seen`
answer cannot be reached with this journal; the recovery of a persisted intent
reads the authorization and does not use its decision for a commit or a retry; an
intent whose binding was revoked yields neither a receipt nor an error; a driver
that reports `settled` after `reconciled` meets a conflict; an obligation may
stay pending after the receipt; an operation stays pending after the dead letter.

## How the occurrence model corresponds to the code

`SubscriptionControl` is one plan and its transactions; `OccurrenceExecution` is
the patrol of each daemon over it. One action is the code a patrol runs between
two awaits that matter.

| variable | code |
|---|---|
| `plan`, `occurrence`, `claims`, `settlements` | the subscription, its occurrences, claims and settlements in the subscription journal |
| `admitted`, `checkpoint`, `receipt` | the admission, the terminal checkpoint and the receipt of each occurrence in the consumer's journals |
| `executed` | the real world: how often the child was executed |
| `lease`, `alive` | the generation in the supervisor's lease file, and the processes that run |
| `patrol[d]` | the local variables of a patrol of daemon `d` |
| `clock`, `granted`, `expired` | time, the grants of users, and claims whose lease has expired |

- One plan: plans are patrolled one after another and share nothing but the
  patrol. A slot keeps its time when the plan is modified.
- The list and the clock are read in one step, as are the answer of the admission
  and the first reads of `consumeExecution`.
- The comparison of policy hashes is subsumed by `modified`, the revision of the
  last modification. Reuse of a terminal child is left out.
- Production takes a lease over only when its owner is dead. `LiveTakeover` models
  the option `takeover.allowed`, which is where the fence is needed.
- The ids of the subscription journal's commits are a 32-bit hash of the state;
  collisions are not modelled.

What stays claimed for good in the code, and therefore in the model (`Stuck` lists
it): a claim that expired before its first admission, a dispatch that threw (in
progress until the daemon is replaced, then blocked), and a checkpoint without a
receipt. Each throws at every tick, so that later occurrences and new slots of
the plan wait behind it.

## How the turn model corresponds to the code

`CheckpointChain`, `TurnClosing`, `BoundarySave` and `TurnBoundary` extend one
another: the journal of an execution, the closing of its turn over it, the save
over the closing, and the lifecycle that calls all three. One action is one
durable access, read and commit together, with the code up to the next one.

| variable | code |
|---|---|
| `checkpoints` | the committed checkpoints of the execution's scope, in journal order |
| `child[c]` | the local variables of a child call's `commit` in `child-checkpoint-adapter.ts` |
| `port` | the records of the closure port |
| `facts` | which answer the owners of controls, permissions and blockers would give now |
| `loop` | `turnState`, `pendingClose` (`pending`) and `pendingClose.prepared` of the live `AgentLoopRuntime`; `down` between two processes, `held` when a cold start ends as `unknown-held` |
| `step` | the await of `closeTurn` that is in flight |
| `intent`, `progress` | the intent and the progress of the native save in its journal |
| `receipts` | the receipts of the phases that only the save commits |
| `save` | the local variables of `runNativeBoundarySave` |
| `duty`, `outcome` | the planner's record, and the last answer of `advanceTurn` |

- A checkpoint is its owner, its number, its predecessor and, for a turn, what it
  is closed with. Summaries, evidence and reviews are part of the latter; their
  validation is assumed to pass.
- The adapter of the port refuses another content under an id (`Stores`), and a
  rejected commit may be durable (`Fails`), as the organ-journal model shows.
- Nothing but the drain keeps child calls from the closing turn (`Drained`); a call
  that failed to recall the chain, or lost its append, is over.
- The decision of a plan revision is all that is left of it. Its publication, the
  current state of the task and the commits of review relationships come between
  the alignment and the advance and may fail there: the model may simply not take
  `AdvanceTurn`.
- One turn with one boundary. Resumed segments, stopped and failed turns, and the
  fence of publications have paths of their own and are left out.

What the model shows of the code besides the properties: `closeTurn` carries on
with a preparation only as long as the facts read again are those of the stored
one, so that a fact that changes after an unacknowledged preparation makes every
later close of the turn a conflict; a run of the save that cannot read a phase
marks it `unknown` although an earlier run recorded it as committed, and a last
phase whose commit was not acknowledged stays `failed` in the recorded progress
although the save completes; `exact-pending-boundary` is never reached, because
the intent is saved only after the turn was closed.

## Runs

| run | instance | shows |
|---|---|---|
| `recovery` | 3 calls, two operations for one key; submit, execute, resume, resolve, parallel reads, crash; refused commits, failing notifications | until a read overtakes the operation: one Hand, the cache is the durable record, the gateway implements `OperationContract`; one operation per key |
| `cancellation` | 3 calls; submit, execute, cancel, settle; fairness | `cancelled` means untouched; the executor is fenced by a running lease; every waiter gets the lock |
| `faults` | 2 calls; every entry point with parallel reads; all faults, with lost acknowledgements | one effect per operation until a read overtakes it; a stopped operation is not run; blocked operations can be resumed; leases and recovery state are sound at rest |
| `journal_appends` | 2 calls, 2 processes, three inputs on two ids; transactions, recovery, lock-free verify; failing writes, a crash that may be an evictor's | acknowledged records are durable; the journal implements `JournalLog` |
| `journal_eviction` | 2 calls, 2 processes; two crashes, reused process ids, reads that reject; fairness | mutual exclusion; the lock of a dead process is evicted |
| `retry` | 4 bindings, two configurations, 4 attempts, 3 starts; every fault | admission before execution; no excluded binding and nothing past an unsettled attempt |
| `dispatch` | 2 dispatches of 2 assignments, 4 clients, 2 places, 3 spawned runtimes; every fault, disposes | leases, capacity, dispose, release on every path, one execution, settled is final |
| `events` | 2 calls at a time, 3 in all, two messages on one stream or one on two; one change of binding or report; limit 2 | the consumption implements `EventContract`; effects, retries and dead letters agree with receipts |
| `occurrences` | 2 slots, 3 revisions, pause, modify, cancel; 2 daemons, lost receipts, crashes, grants | settlements are receipts, progress is earned, closed slots never run |
| `occurrence_takeover` | 1 slot, 2 revisions; 2 daemons with live takeover; every fault; fairness | one execution, outcomes of the lease's owner, every claim is settled |
| `turn_close` | 2 child calls, two inputs, two decisions; two facts, 2 crashes; every step fails or is lost | records in their order, the loop acts on what is durable, the cut is final, progress is true; the turn implements `TurnContract` |
| `fenced_outcome` | violation | see Findings |

Bounds. Gateway: two or three concurrent calls (two are enough for every race
found; three let a cancel, a settlement and an executor overlap), execution
epochs up to 2 (a first lease and one retry), two record objects, the one a
handler holds and the one a read published. `recovery` and `faults` stop at the
step in which a read overtakes an operation (the constraint `UntilOvertaken`):
that step, with the state it leads to, is still checked, and what the properties
with the exception say of the other operations is said of the behaviours up to
there. The properties without it are checked up to there too, and proved beyond.
Cancelling and resolving are combined only in
`faults`: after a cancellation whose executor did not stop is resolved as
recovered, the operation is `blocked` for good (see Findings).
`OneOperationPerKey` is checked without lost
acknowledgements, which leave a key unbound in memory until the next read.
Journal: a holder, an evictor and a second evictor meet with two calls, because a
call that gives up may be made again; tokens bound the number of acquisitions, four or five
of them. A reused id makes the lock of a dead process look alive, and
`DeadLockIsEvicted` takes it so. Retry: four attempts are needed for a retry that follows
a retry of a retry, and with two or four bindings a cycle runs out of candidates
or of its budget; three starts are two crashes. With three attempts a property that
is false of the code held. Dispatch: a capacity of two with four clients makes reviewers
wait for workers' runtimes; three generations let a failed runtime be
replaced. Events: a limit of two has one retry and one exhaustion, two calls meet at every
commit, and the third finds what they left. Occurrences: three revisions allow
a pause with its resume or two modifications; two slots an earlier claim that is
settled late. Turn: two children fork the chain and one of them precedes the
turn's checkpoint; two inputs tell a close that was begun from one begun again; one
crash is in the closing and one in the save or the alignment of the process that
took over.

The configurations leave out what the proofs show for every instance: the type
invariants (of the orchestration and of the turn as parts of their inductive
invariants) and `TransactionSeesFile` of the journal, `CycleOnlyGrows` and
`ExhaustedIsSpent` of the retry cycle, `ObligationOnlyAdvances` of the events and
`HistoryIsKept` of the occurrences, and `RunningIsInFlight` of the dispatch. TLC
found each of them to hold on the instances above; without them the runs stay
within minutes.

**Fairness.** In the gateway `FairSpec` has weak fairness of each call's own
steps, except at three awaits whose end the code does not guarantee: an executor
and a verifier may never return, and neither may a stop settlement while an
executor of its operation runs, for the production port aborts that executor and
then awaits it, under the operation lock (`provider-tool-execution.ts:841`). The
promises of the journal and of the authority settle, and the event loop runs what
is ready. Nothing is assumed of the environment: no call has to be made.
`LockIsServed` therefore promises the lock only where no stop settlement awaits an
executor for ever (`StopHeldUp`); executors themselves run without the lock and
may run for ever. Weak
fairness is enough as no step of a call disables another's for good: the lock
chain is FIFO. The organ journal has weak fairness of each call's accesses to the
file system; `DeadLockIsEvicted` is about calls that keep finding the lock held,
so it does not matter when a call gives up at its deadline. The occurrences have
weak fairness of each daemon's patrol: timers fire, and files, transactions and
the child's terminal event answer. Time, grants, crashes and takeovers have none.

**Deadlock** is checked in the gateway and journal runs: at rest they can always
take a call. `retry`, `dispatch`, `events`, `turn_close` and the occurrence runs switch it
off: there the bounded starts, dispatches, calls, crashes and daemons run out, and a system whose
calls have all returned, or whose daemons are all dead, really stops.

## Findings

The violation run shows the code against its own comment.

`fenced_outcome`: the fence in `commitSuccessor` is read before the `await` of the
commit, and the Hand emits without the lock. A cancellation that commits in that
window is overwritten by the outcome.

Further disagreements, which have a definition and no run of their own; each is
reproduced by a configuration derived from one that is here.

| definition | the code against | to reproduce |
|---|---|---|
| `BlockedIsNotFinal` | its own recovery plan: a cancelled execution is marked invalidated; resolved as recovered it is `blocked` with verify-only, and every later transition of it is dropped | `FencedOutcome.cfg` with `Calls = {"submit", "execute", "requestCancel", "settle", "resolve"}` |
| `HydrateKeepsObligations` | the gateway's obligations: `readControl` replaces records by what it read before a commit that finished meanwhile | `FencedOutcome.cfg` with `Calls = {"submit", "execute", "readControl"}`, `MaxObjects = 2` |
| `DeadLockIsEvicted` | the eviction of dead holders: a process that dies between making `.lock.evict` and removing it leaves a directory that nobody removes, and every append times out | `JournalEviction.cfg` with `EvictorsDie = TRUE`, three processes, `PidReuse = FALSE`, `Faults = {}` |
| `ExcludedNeverRuns` | `docs/architecture/retry-10-provider-avoidance-20260928.md` section 5: the corrective attempt runs the first selection again, excluded or not | `RetryCycle.cfg` |
| `SwitchIsSafe` | section 4 of the same document, "unknown/unsettled side effect goes to visible recovery and prevents provider switch": after an attempt that ended `unknown` or `cancelled`, the next start selects and runs another one; only a last attempt that is `unsettled` blocks `begin` | `RetryCycle.cfg` |
| `SlotRunsOnce` | `docs/architecture/mvp-test-path-2026-10-24.md:60`, "pause 不生成新执行" (a pause makes no new execution): a pause keeps the progress of the unclaimed slots it invalidates (`subscription.ts:195`), not of one that is claimed and waits for its grant; after the resume that slot is scheduled and executed again, and the old claim executes when it is granted | `Occurrences.cfg`; one slot, one daemon and pauses are enough |
| `PendingBoundaryIsResumed` | the comment at `agent-loop/runtime.ts:1829` and `mvp-test-path-2026-10-24.md:31`, "恢复继续同一 turn" (recovery continues the same turn): a process that dies after the candidate and before the save intent leaves a turn that the next one holds as `unknown-held` (`execution-composition.ts:623`-`632`) | `TurnClose.cfg` |
| `CheckpointIsRecallable` | `docs/goals/native-reasoning-progress-2026-10-08.md:650`, "未复现brokenpredecessor，不加锁" (no broken predecessor reproduced, no lock): two calls of a round, which run in parallel (`agent-driver.ts:984`), append successors of one checkpoint, and every later recall of the chain fails | `TurnClose.cfg` |
| `DeadLetteredIsNotApplied` | `docs/architecture/agent-communication-and-feedback.md` section 5: an overlapping call applies an event that another one has dead-lettered | `Events.cfg` |
| `DuplicateIsAccepted` | the test of the cross-stream duplicate in `tests/runtime/events/eventbus.test.ts`: the commit id of a cursor-only commit has the receipt's stream, so that duplicates at one sequence of two other streams collide | `Events.cfg` with three streams and `MCOneMessage` |

Consequences of the code that no text of the repository denies, so that no
run refutes anything: a holder that cannot read its own lock file back at the
release leaves a lock nobody may evict while the process lives; and a lock whose
owner's id has been reused is taken for a live one. No production code calls
`recover`: after a torn append every later append is refused until someone does.

## Proofs

Everything below is proved for all values of the constants that satisfy the named
assumptions of the modules, for any sets of processes, callers and faults.

**Gateway** (`GatewayProofs`; from `IntentsAssumption` alone, and what is said of
each theorem). For every entry point and fault, whatever reads run beside the
handlers, and of operations a read has overtaken too: `TypeCorrect`,
`LeaseReleased` (`LeaseReleasedAtRest`), `RecoveryState`
(`RecoveryStateIsDurable`), `BlockedCanResume` (`BlockedIsResumable`) and
`StoppedStaysStopped` (`StoppedNeverRuns`).

None of these is inductive: what becomes durable is what a call decided to
commit several steps ago, from a record object it may have held while another
call replaced it. The invariant `IInv` therefore says that *every* record, the
durable ones, those in memory, those a call is about to commit and those a read
is about to put back, is `Sound`, and that a call refers only to objects that
exist (`FrameOK`): a handler past its first read has a known operation, and one
that still reads its record has a reference within `cells`. Soundness of each
successor is a lemma per constructor of `OperationControl`; each group of
actions has a lemma that it preserves `IInv`; `CommitSuccessorFrame`,
`TransitionStep` and `EmitStep` carry what the three commit paths share, and
`PublishedKeeps` that publishing a record never takes an object from another
call.

The other properties of the gateway need to know more of a call, one fact after
another; each of the invariants uses the earlier ones. `LockInv`: only the first
of an operation's queue is past the lock. `CallInv`: which entry point is where,
and which calls exclude one another. `StatusInv`: what is in memory was committed.
`CacheInv`: it is the newest durable record. `KeyInv`: the
submission about to commit is the only one for its key. `RecoverInv`, `StandInv`,
`CancelInv`, `StopInv` and `FenceInv`: what blocked, resumed, cancelled, stopped
and leased operations look like. `PhaseInv`
sorts the calls that may write to an operation by its status, and says that there
is one at most in each phase, which is what makes a second Hand impossible
although `resume` is not deduplicated. `EffectInv` says that the durable record and
the one about to be committed admit an effect that has happened, but while the
executor that had it has yet to report.

The other theorems hold on conditions. Reads are unrestricted in all of them; what
is proved of an operation whose property has the exception is proved until a read
overtakes it.

| theorem | property | of overtaken operations too | assumes |
|---|---|---|---|
| `CacheIsJournal` | `CacheMatchesJournal` | no | no acknowledgement is lost (false otherwise) |
| `OneKeyOneOperation` | `OneOperationPerKey` | yes | a process reads before it submits, and no acknowledgement is lost (false without either) |
| `CancelledUntouched` | `CancelledIsUntouched` | yes | no reconcile is resolved (false otherwise: a resolution may cancel an operation that had its effect) |
| `ExecutionIsAlone` | `OneHandPerOperation` | no | no `resume` |
| `OneHand` | `OneHandPerOperation` | no | no `requestCancel` (false when the execution is also settled, resolved and resumed), a process reads before it submits, no acknowledgement is lost |
| `ExecutionIsFenced` | `ExecutorFence` | no | no `resume`, no acknowledgement is lost |
| `ResumedExecutionIsFenced` | `ExecutorFence` | no | as `OneHand` |
| `EffectOnce` | `EffectAtMostOnce` | no | as `OneHand`; no resume overrides the recorded effect with `none`, which the code believes. False when a process submits before it has read |
| `GatewayRefines` | `ImplementsContract` | no | as `EffectOnce`; false with cancellations, early submissions and lost acknowledgements |

Where the table says *false*, TLC has a counterexample on two calls. `OneHand` fails
when a stop leaves its executor running, the operation is resolved as recovered
and then resumed: a second Hand verifies while the first still executes, although
the record admits the outcome of neither. The rest of the conditions is what the argument needs: a lost
acknowledgement leaves the phase of an operation in memory behind the durable one,
and a cancellation adds a second writer. On two calls with every entry point TLC
finds `ExecutorFence` to hold with cancellations and with lost acknowledgements,
and `EffectAtMostOnce` likewise (the `faults` run).

**Organ journal** (`JournalProofs`; from `ProcessesAssumption` and
`TokensAssumption`): `TypeCorrect`, `Exclusion` (`MutualExclusion`), `Sees`
(`TransactionSeesFile`), `Durable` (`AcknowledgedIsDurable`) and `Implements`
(`ImplementsLog`, the refinement). Every safety property of the journal that TLC
checks is thus proved.

The argument has two layers. `IInv` is about the lock: tokens of calls differ,
whoever is past `acquireLock` has its token in the lock file, one evictor at a
time is under the guard, and when it is about to rename the lock file no call
holds the lock, because it saw that the owner is dead and only it may remove a
dead lock. `Quiet` steps, which neither take nor give up lock or guard, are dealt
with once in `QuietStep`. `FileInv` adds what a call knows of the file at each
step (`Knows`) and that a cache entry with the file's key has its content
(`TrueEntry`); it is preserved because every write moves the key on (`Grows`) and,
by mutual exclusion, only one call relies on the content. Then every step but
`WriteEnds` leaves the committed lines alone, and `WriteEnds` appends a record
whose id was looked up in those very lines.

**Retry cycles** (`RetryProofs`; from the assumptions of `RetryCycle`):
`TypeCorrect`, `Admitted` (`AdmittedBeforeExecution`), `ExcludedAvoided`
(`RetryAvoidsExcluded`), `NotPassed` (`UnsettledIsNotPassed`),
`SpentWhenExhausted` (`ExhaustedIsSpent`) and `OnlyGrows` (`CycleOnlyGrows`): every
safety property of the cycle that TLC checks. The durable versions form a chain,
and the version being persisted extends the last of them. That is what makes the
silent repetition of `Committed` harmless: a version that is dropped because an
older one equals it adds nothing, and one that admits an attempt or excludes a
binding equals none. A crash then leaves the record that the next start reads.

**Orchestration.** `DispatchProofs` (from `DispatchAssumption`): `OnceExecuted`
(`ExecutedOnce`), `Final` (`SettledIsFinal`) and `RunningHasDispatch`
(`RunningIsInFlight`). `GraphInv` says that a dispatch
knows the status of its assignment at each of its awaits, that no two dispatches
are at one assignment, and that a running one has a dispatch working on it; so
the unguarded marks of cleanups never meet a settled status. `Moves` deals with
the steps that only move an assignment and its dispatch on.

Of the pool (from the assumptions of both modules): `Exclusive`
(`LeaseIsExclusive`) and `Capacity` (`CapacityIsKept`). `PoolInv` says that a
record whose startup is not over is started by one client, leased to nobody and in
the map, that a client holds what is leased to it or gone, that a record leaves
the map only when its runtime is gone, and that the dispose is only ever at
settled records. `ClientTurns` has the condition under which a change of a
record is harmless (a lease is taken from nobody else unless the runtime is gone);
each action is shown to meet it. `NextIdIsFree` is the pigeonhole argument that a
free identity exists.

`DisposedAll` (`DisposedLeavesNothing`) and `RestsUnleased`
(`NothingIsLeasedAtRest`) need the converse, that whatever is left has somebody who
will look after it. `ClaimInv` says so: a record that is not settled has a client
that starts it, one that runs has the client of its lease or one that is rejecting
its handle, an open handle is its client's and the record's, and what the dispose
is past is gone, unless it will report an issue. The records as such are not
enough, because a release writes over what a dispose has left of a record (it may
make a disposed record idle again): `UseOK` is what survives that. `ClaimTurns`
deals with every step of a client that has the runtime to itself (`Alone`),
`ClaimSweeps` with those of the dispose. `CallInv` adds where the two clients of a
dispatch are at each of its awaits; it needs `ClientsAssumption`, that a client is
one acquisition. A dispatch that has returned has no client at a runtime, and so no
runtime has one. Every property of the orchestration that TLC checks is thus
proved.

**Events** (`EventProofs`; from `EventAssumption`): `TypeCorrect`,
`AppliedBehindBarrier` (`AppliedIsSettled`), `FailedHasLetter`
(`FailedIsDeadLettered`), `RetriesBounded` (`RetriesAreBounded`),
`ObligationAdvances` (`ObligationOnlyAdvances`) and `Refinement`
(`ImplementsContract`): every property of the consumption that TLC checks. A call
acts on what it read several awaits ago, while others commit. The journal only
grows (`Grows`), so what a call may rely on is what growth keeps: the receipt it
found, an exhausted obligation, a dead letter, a settled operation, an event at
most one after the cursor. `Sane` lists it per await, `SaneStays` shows that it
outlives every commit of another call, and one lemma per transaction of the
journal shows that the transaction grows it. Whatever the journal refuses is a
step that does not happen.

**Occurrences** (`OccurrenceProofs`; from the assumptions of both modules):
`TypeCorrect`, `Once` (`ExecutedOnce`), `Owners` (`OutcomeIsTheOwners`),
`Receipts` (`SettledIsReceipt`), `Closed` (`ClosedNeverRuns`), `Earned`
(`ProgressIsEarned`) and `History` (`HistoryIsKept`): every safety property that
TLC checks. The invariant ties what a patrol remembers between two awaits to what
is durable: the occurrence it is at has a claim, the outcome it is about to write
or settle is the one on file, and a daemon that dispatches is the one admitted.

**Turns** (`TurnProofs`; from the assumptions of the four modules):
`RecordsOrdered` (`RecordsFollowTheirOrder`), `LoopIsDurable`
(`LoopFollowsRecords`), `ProgressHolds` (`ProgressIsTrue`), `CutIsFinal`
(`ClosingIsFinal`) and `TurnRefinesContract` (`ImplementsContract`): every property
of the turn that TLC checks. The invariant `IInv` says that all records are of one
checkpoint, one of each kind and each with those before it; that the step of
`closeTurn` in flight has the records of the earlier steps; that the loop closes
with the candidate once that is durable; and, what makes the cut final, that no
child is about to append once the turn is frozen. That part is inductive only with
the drain: the closing begins when no child is between its recall and its append,
and no call is made after it, also not by the processes that follow, which are
held. The mapping reads the four facts of the contract off the port; every action
is then one of its four steps or a stutter.

TLC confirmed each invariant on an instance before it was proved.

Model-checked only: `LockIsServed`, `DeadLockIsEvicted` and `ClaimIsSettled`, which
are liveness under fairness, which the prover does not do. Every safety property
that a run checks, and every refinement, is a theorem, under the hypotheses above.

## Not modelled

The models cover the state machines on which the promises of the runtime rest,
which are a small part of its lines. Most of the repository is UI services and
projections, composition, adapters, codecs, validators of contracts and scripts:
they have no protocol of their own, or one that only passes a component's answers
on. The components that are left and do have one:

- **Parent operations and prepared stop**: `applyExternalLifecycle` and the check
  of the parent's status before a child is accepted (`gateway.ts`, which reads it
  before the child's commit) need a second kind of operation in the gateway
  model, whose state space is at its limit.
- **Task grants**: the gateway model has the revocation between admission and
  lease as a choice. **Task plan revisions, steering, draft revisions**: a
  compare-and-set in one transaction, as in subscription control.
- **Supervisor**: only the lease that fences daemons; restarts and the handoff of
  code are not.
- **Runtime stop**: an aggregation over cancellations of the gateway.
- **Nodes, communication, memory, context, sessions**: tables in memory, or data
  transformation over the journals.

Within the modelled components: the capture of stopped and failed turns, resumed
segments, conditional re-entry, the recovery of effect ledgers and the fence of
publications around the turn; the publication of plan revisions and current state
between its alignment and its advance; that a turn advances at all, as a failed
close is retried by whoever drives the boundary and not by the modelled code;
`callChild` and the milestone review of the
manager, stages and dependencies of the assignment graph, `create` and the
calendar of subscriptions, and the validation of envelopes and bindings.

---------------------------- MODULE EventConsumption ----------------------------
(***************************************************************************)
(* The consumption of events (runtime/src/events/coordinator.ts) over the     *)
(* event journal: calls of consumeEvents by one consumer, each of which reads  *)
(* the events after its cursor and takes them one after another through        *)
(* authorization, delivery to the handler or the barrier driver, and commit.   *)
(* A call reads the journal and the consumer's binding at one await and acts   *)
(* at another; calls overlap, and every one of them may throw or die with its  *)
(* process at any await.                                                       *)
(***************************************************************************)
EXTENDS EventJournal

CONSTANTS
    Workers,        \* calls that may be in progress at the same time
    RetryLimit,     \* the consumer's retryLimit
    Publications,   \* bound: the sets of events that are published together
    MaxCalls,       \* bound: calls made
    MaxChanges,     \* bound: changes of the binding and reports on operations
    Bindings,       \* the answers the binding may give: "deliver", "stale", "rejected"
    Barriered,      \* messages for which the driver prepares a barrier
    Results         \* what a handler may answer to the others, and the driver's work

ASSUME EventAssumption ==
    /\ RetryLimit \in Nat \ {0}
    /\ MaxCalls \in Nat /\ MaxChanges \in Nat
    /\ "deliver" \in Bindings /\ Bindings \subseteq {"deliver", "stale", "rejected"}
    /\ Publications \subseteq SUBSET Events
    /\ Barriered \subseteq Messages
    /\ Results \subseteq {"applied", "rejected", "retry"}
    /\ NoStream \notin Streams

VARIABLES
    binding,    \* decideConsumerDelivery of the binding registered now
    worker,
    calls, changes

vars == <<journalVars, binding, worker, calls, changes>>

\* The awaits at which a call can be.
Awaits == {"idle", "open", "event",
           "authorize", "refused", "canonical", "receipt", "obligation", "confirm",
           "prepare", "persist", "execute", "check", "authorizeResult", "authorizeCommit",
           "recovery", "recoverExhausted", "recover", "reconcile", "authorizeRecovery",
           "checkRecovery", "recoveryReceipt", "authorizeRecovered",
           "duplicate", "terminal", "commit", "retry", "deadLetter", "exhausted"}

Idle == [pc |-> "idle", left |-> {}, stream |-> NoStream, at |-> 0, upto |-> 0,
         attempt |-> 0, plan |-> "none", result |-> "none", refusal |-> "none",
         canonical |-> NoStream]

ConsumptionTypeOK ==
    /\ binding \in Bindings
    /\ calls \in 0 .. MaxCalls /\ changes \in 0 .. MaxChanges
    /\ worker \in [Workers ->
           [pc : Awaits, left : SUBSET Streams, stream : Streams \cup {NoStream},
            at : Nat, upto : Nat, attempt : Nat,
            plan : {"none", "duplicate", "exhausted", "wait", "prepare"},
            result : {"none", "applied", "rejected", "retry", "barrier"},
            refusal : {"none", "stale", "rejected"}, canonical : Streams \cup {NoStream}]]

Init ==
    /\ JournalInit
    /\ binding = "deliver"
    /\ worker = [w \in Workers |-> Idle]
    /\ calls = 0 /\ changes = 0

\* The event a call is at.
Message(w) == log[worker[w].stream][worker[w].at]
EventOf(w) == <<worker[w].stream, Message(w)>>

At(w, pc) == worker[w].pc = pc
Become(w, record) == worker' = [worker EXCEPT ![w] = record]
Goto(w, pc) == worker' = [worker EXCEPT ![w].pc = pc]
Counted == UNCHANGED <<binding, calls, changes>>
ReadsOnly == UNCHANGED journalVars /\ Counted

\* The event is handled: the call goes on to the next one of the stream.
Fresh(w, pc, at) ==
    Become(w, [Idle EXCEPT !.pc = pc, !.left = worker[w].left, !.stream = worker[w].stream,
                           !.at = at, !.upto = worker[w].upto])
NextEvent(w) == Fresh(w, "event", worker[w].at + 1)

\* No receipt: the call leaves the stream.
NextStream(w) == Become(w, [Idle EXCEPT !.pc = "open", !.left = worker[w].left])

-------------------------------------------------------------------------------
(* A call: the streams of the binding, one after another. *)

Publish(s, m) ==
    /\ \E P \in Publications : {<<s, m>>} \cup {e \in Events : Published(e[1], e[2])} \subseteq P
    /\ AppendEvent(s, m)
    /\ UNCHANGED <<worker>> /\ Counted

Call(w) ==
    /\ At(w, "idle") /\ calls < MaxCalls
    /\ calls' = calls + 1
    /\ Become(w, [Idle EXCEPT !.pc = "open", !.left = Streams])
    /\ UNCHANGED <<journalVars, binding, changes>>

OpenStream(w) ==
    /\ At(w, "open")
    /\ \E s \in worker[w].left :
          Become(w, [Idle EXCEPT !.pc = "event", !.left = worker[w].left \ {s}, !.stream = s,
                                 !.at = cursor[s] + 1, !.upto = Len(log[s])])
    /\ ReadsOnly

\* The call's end, of its work or by an error or its process's death.
Leave(w) ==
    /\ ~At(w, "idle")
    /\ Become(w, Idle)
    /\ ReadsOnly

ReadIntent(w) ==
    /\ At(w, "event")
    /\ IF worker[w].at > worker[w].upto THEN NextStream(w)
       ELSE Goto(w, IF EventOf(w) \in intents THEN "recovery" ELSE "authorize")
    /\ ReadsOnly

-------------------------------------------------------------------------------
(* An event without a persisted barrier intent. *)

Delivers == binding = "deliver"
Refuse(w, pc) == Become(w, [worker[w] EXCEPT !.pc = pc, !.refusal = binding])

Authorize(w) ==
    /\ At(w, "authorize")
    /\ Goto(w, IF Delivers THEN "receipt" ELSE "refused")
    /\ ReadsOnly

\* A refusal is read twice, and the receipt on record goes with it.
ReauthorizeRefused(w) ==
    /\ At(w, "refused")
    /\ IF Delivers THEN Goto(w, "authorize") ELSE Refuse(w, "canonical")
    /\ ReadsOnly

\* A receipt of the message, if there is one, is the one committed again.
Canonical(m) == IF Receipts(m) = {} THEN {NoStream} ELSE Receipts(m)

ReadCanonical(w) ==
    /\ At(w, "canonical")
    /\ \E r \in Canonical(Message(w)) :
          Become(w, [worker[w] EXCEPT !.pc = "terminal", !.canonical = r])
    /\ ReadsOnly

ReadReceipt(w) ==
    /\ At(w, "receipt")
    /\ \E r \in Canonical(Message(w)) :
          IF r = NoStream THEN Goto(w, "obligation")
          ELSE Become(w, [worker[w] EXCEPT !.pc = "confirm", !.plan = "duplicate", !.canonical = r])
    /\ ReadsOnly

\* A pending obligation may be due or not.
Plans(w) ==
    LET o == obligation[EventOf(w)] IN
    CASE o.state = "exhausted" -> {"exhausted"}
      [] o.state = "pending" -> {"wait", "prepare"}
      [] OTHER -> {"prepare"}

ReadObligation(w) ==
    /\ At(w, "obligation")
    /\ \E p \in Plans(w) :
          Become(w, [worker[w] EXCEPT !.pc = "confirm", !.plan = p,
                         !.attempt = IF p = "prepare" THEN obligation[EventOf(w)].attempt + 1 ELSE 0])
    /\ ReadsOnly

\* The authorization is read again before the plan is carried out; a refusal
\* starts the event over.
Confirm(w) ==
    /\ At(w, "confirm")
    /\ IF ~Delivers THEN Fresh(w, "authorize", worker[w].at)
       ELSE CASE worker[w].plan = "wait" -> NextStream(w)
              [] worker[w].plan = "exhausted" -> Goto(w, "deadLetter")
              [] OTHER -> Goto(w, worker[w].plan)
    /\ ReadsOnly

-------------------------------------------------------------------------------
(* Delivery. *)

\* The handler's result, or what the driver prepares without a barrier.
Handle(w) ==
    /\ At(w, "prepare") /\ Message(w) \notin Barriered
    /\ \E r \in Results : Become(w, [worker[w] EXCEPT !.pc = "authorizeResult", !.result = r])
    /\ ReadsOnly

\* A barrier registers its external operation before it is persisted.
Prepare(w) ==
    /\ At(w, "prepare") /\ Message(w) \in Barriered
    /\ CommitOperation(Message(w), "pending")
    /\ Become(w, [worker[w] EXCEPT !.pc = "persist", !.result = "barrier"])
    /\ Counted

PersistIntent(w) ==
    /\ At(w, "persist")
    /\ CommitIntent(EventOf(w))
    /\ Goto(w, "execute")
    /\ Counted

\* The driver's work on a pending operation: refused, to be retried, or done.
Admit(w, pc, done) ==
    \/ /\ "rejected" \in Results
       /\ CommitOperation(Message(w), "failed")
       /\ Become(w, [worker[w] EXCEPT !.pc = pc, !.result = "rejected"])
    \/ /\ "retry" \in Results
       /\ UNCHANGED journalVars
       /\ Become(w, [worker[w] EXCEPT !.pc = pc, !.result = "retry"])
    \/ /\ CommitOperation(Message(w), "settled")
       /\ Become(w, [worker[w] EXCEPT !.pc = done, !.result = "barrier"])

Execute(w) ==
    /\ At(w, "execute")
    /\ Admit(w, "authorizeResult", "check")
    /\ Counted

\* Mutant: an unknown operation lets its event through.
BarredUnlessUnknown(m) == operation[m] \notin {"settled", "reconciled", "unknown"}

\* An operation that is neither settled nor reconciled ends the call, blocked
\* when it is unknown and with an error otherwise.
Barred(m) == operation[m] \notin {"settled", "reconciled"}

CheckOperation(w) ==
    /\ At(w, "check")
    /\ IF Barred(Message(w)) THEN Become(w, Idle) ELSE Goto(w, "authorizeResult")
    /\ ReadsOnly

AuthorizeResult(w) ==
    /\ At(w, "authorizeResult")
    /\ IF ~Delivers THEN Refuse(w, "terminal")
       ELSE Goto(w, IF worker[w].result = "retry" THEN "retry" ELSE "authorizeCommit")
    /\ ReadsOnly

AuthorizeCommit(w) ==
    /\ At(w, "authorizeCommit")
    /\ IF Delivers THEN Goto(w, "commit") ELSE Refuse(w, "terminal")
    /\ ReadsOnly

-------------------------------------------------------------------------------
(* Recovery of an event whose barrier intent is persisted. *)

ReadRecovery(w) ==
    /\ At(w, "recovery")
    /\ \E p \in Plans(w) :
          CASE p = "exhausted" -> Goto(w, "recoverExhausted")
            [] p = "wait" -> NextStream(w)
            [] OTHER -> Become(w, [worker[w] EXCEPT !.pc = "recover",
                                       !.attempt = obligation[EventOf(w)].attempt + 1])
    /\ ReadsOnly

RecoverExhausted(w) ==
    /\ At(w, "recoverExhausted")
    /\ IF Delivers THEN Goto(w, "deadLetter") ELSE NextStream(w)
    /\ ReadsOnly

Resumed(w, pc, result) == Become(w, [worker[w] EXCEPT !.pc = pc, !.result = result])

\* The driver reads its operation and takes up what is left of it.
Recover(w) ==
    /\ At(w, "recover")
    /\ LET m == Message(w) IN
       \/ operation[m] = "pending" /\ Admit(w, "authorizeRecovery", "reconcile")
       \/ operation[m] = "failed" /\ Resumed(w, "authorizeRecovery", "rejected") /\ UNCHANGED journalVars
       \/ operation[m] = "settled" /\ Resumed(w, "reconcile", "barrier") /\ UNCHANGED journalVars
       \/ operation[m] \in {"unknown", "reconciled"} /\ Resumed(w, "authorizeRecovery", "barrier")
          /\ UNCHANGED journalVars
    /\ Counted

Reconcile(w) ==
    /\ At(w, "reconcile")
    /\ CommitOperation(Message(w), "reconciled")
    /\ Goto(w, "authorizeRecovery")
    /\ Counted

\* The binding is read and its decision is not used.
AuthorizeRecovery(w) ==
    /\ At(w, "authorizeRecovery")
    /\ Goto(w, CASE worker[w].result = "retry" -> "retry"
                 [] worker[w].result = "barrier" -> "checkRecovery"
                 [] OTHER -> "commit")
    /\ ReadsOnly

CheckRecovery(w) ==
    /\ At(w, "checkRecovery")
    /\ IF Barred(Message(w)) THEN Become(w, Idle) ELSE Goto(w, "recoveryReceipt")
    /\ ReadsOnly

ReadRecoveryReceipt(w) ==
    /\ At(w, "recoveryReceipt")
    /\ \E r \in Canonical(Message(w)) :
          Become(w, [worker[w] EXCEPT !.pc = "authorizeRecovered", !.canonical = r])
    /\ ReadsOnly

AuthorizeRecovered(w) ==
    /\ At(w, "authorizeRecovered")
    /\ IF ~Delivers THEN NextStream(w)
       ELSE Goto(w, IF worker[w].canonical = NoStream THEN "commit" ELSE "duplicate")
    /\ ReadsOnly

-------------------------------------------------------------------------------
(* Commits. *)

Commit(w, r, disposition) ==
    /\ CommitConsumer(r, Message(w), worker[w].stream, worker[w].at, disposition)
    /\ NextEvent(w)
    /\ Counted

CommitDuplicate(w) ==
    /\ At(w, "duplicate")
    /\ Commit(w, worker[w].canonical, receipt[<<worker[w].canonical, Message(w)>>])

CommitTerminal(w) ==
    /\ At(w, "terminal")
    /\ Commit(w, IF worker[w].canonical = NoStream THEN worker[w].stream ELSE worker[w].canonical,
              worker[w].refusal)

\* A barrier commits what its intent says.
Disposition(w) == IF worker[w].result = "barrier" THEN "applied" ELSE worker[w].result

CommitResult(w) ==
    /\ At(w, "commit")
    /\ Commit(w, worker[w].stream, Disposition(w))

\* Mutant: one attempt too many.
UpToLimit(attempt) == attempt <= RetryLimit

\* An attempt below the limit leaves an obligation and no receipt.
BelowLimit(attempt) == attempt < RetryLimit

CommitPending(w) ==
    /\ At(w, "retry") /\ BelowLimit(worker[w].attempt)
    /\ CommitRetry(EventOf(w), worker[w].attempt, "pending")
    /\ NextStream(w)
    /\ Counted

\* Mutant: the receipt follows the obligation without a dead letter.
CommitExhaustedBare(w) ==
    /\ At(w, "retry") /\ ~BelowLimit(worker[w].attempt)
    /\ CommitRetry(EventOf(w), worker[w].attempt, "exhausted")
    /\ Goto(w, "exhausted")
    /\ Counted

\* The last attempt is committed as exhausted, then dead-lettered, then given
\* its receipt: three transactions.
CommitExhausted(w) ==
    /\ At(w, "retry") /\ ~BelowLimit(worker[w].attempt)
    /\ CommitRetry(EventOf(w), worker[w].attempt, "exhausted")
    /\ Goto(w, "deadLetter")
    /\ Counted

DeadLetter(w) ==
    /\ At(w, "deadLetter")
    /\ CommitDlq(EventOf(w))
    /\ Goto(w, "exhausted")
    /\ Counted

CommitFailure(w) ==
    /\ At(w, "exhausted")
    /\ Commit(w, worker[w].stream, "terminal-failure")

-------------------------------------------------------------------------------
(* The environment. *)

\* The consumer's registration changes: revoked, or moved to another epoch.
Rebind(decision) ==
    /\ decision \in Bindings \ {binding} /\ changes < MaxChanges
    /\ binding' = decision /\ changes' = changes + 1
    /\ UNCHANGED <<journalVars, worker, calls>>

\* The owner of an external operation reports that its outcome is not known, or
\* reconciles it.
Report(m, state) ==
    /\ changes < MaxChanges
    /\ \/ state = "unknown" /\ operation[m] = "pending"
       \/ state = "reconciled" /\ operation[m] = "unknown"
    /\ CommitOperation(m, state)
    /\ changes' = changes + 1
    /\ UNCHANGED <<binding, worker, calls>>

Deliver(w) == Handle(w) \/ Prepare(w) \/ PersistIntent(w) \/ Execute(w) \/ CheckOperation(w)
              \/ AuthorizeResult(w) \/ AuthorizeCommit(w)
Read(w) == Authorize(w) \/ ReauthorizeRefused(w) \/ ReadCanonical(w) \/ ReadReceipt(w)
           \/ ReadObligation(w) \/ Confirm(w)
Recovery(w) == ReadRecovery(w) \/ RecoverExhausted(w) \/ Recover(w) \/ Reconcile(w)
               \/ AuthorizeRecovery(w) \/ CheckRecovery(w) \/ ReadRecoveryReceipt(w)
               \/ AuthorizeRecovered(w)
Settle(w) == CommitDuplicate(w) \/ CommitTerminal(w) \/ CommitResult(w) \/ CommitPending(w)
             \/ CommitExhausted(w) \/ DeadLetter(w) \/ CommitFailure(w)

Next ==
    \/ \E s \in Streams, m \in Messages : Publish(s, m)
    \/ \E w \in Workers :
          Call(w) \/ OpenStream(w) \/ ReadIntent(w) \/ Leave(w)
          \/ Read(w) \/ Deliver(w) \/ Recovery(w) \/ Settle(w)
    \/ \E d \in Bindings : Rebind(d)
    \/ \E m \in Messages : \E state \in {"unknown", "reconciled"} : Report(m, state)

Spec == Init /\ [][Next]_vars
===============================================================================

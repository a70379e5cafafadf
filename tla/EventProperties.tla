----------------------------- MODULE EventProperties -----------------------------
(* What the consumption of events guarantees. *)
EXTENDS EventConsumption

TypeOK == JournalTypeOK /\ ConsumptionTypeOK

\* Implementation of the contract: whatever calls overlap, throw or die, a
\* stream's cursor moves one event at a time and never over a message without
\* a receipt, and a receipt is never replaced (commitConsumerCommit).
Contract == INSTANCE EventContract WITH
    Outcomes <- Final, NoOutcome <- "none",
    published <- log, acknowledged <- cursor, outcome <- receipt
ImplementsContract == Contract!Spec

\* An effect behind a barrier is receipted as applied only when its operation is
\* settled or reconciled, whoever reported on the operation meanwhile
\* (assertCommitIntent in deliverToHandler and in the recovery).
AppliedIsSettled ==
    \A s \in Streams, m \in Barriered :
       receipt[<<s, m>>] = "applied" => operation[m] \in {"settled", "reconciled"}

\* Deliveries are bounded: no call hands an event to the handler or the driver
\* for an attempt above the limit, and a pending obligation leaves at least one
\* (commitRetry, commitExhaustedReceipt).
RetriesAreBounded ==
    /\ \A w \in Workers : worker[w].attempt <= RetryLimit
    /\ \A e \in Events : obligation[e].state = "pending" => obligation[e].attempt < RetryLimit

\* A dead letter is never lost between the three commits of an exhaustion: the
\* event of an exhausted obligation is not acknowledged as failed without one.
FailedIsDeadLettered ==
    \A e \in Events :
       receipt[e] = "terminal-failure" => e \in deadLetters /\ obligation[e].state = "exhausted"

\* A retry obligation only advances: its attempt grows by one at a time, and an
\* exhausted one stays so, whichever of two overlapping deliveries is late
\* (the commit ids of commitRetryObligation).
ObligationOnlyAdvances ==
    [][\A e \in Events :
          obligation'[e] # obligation[e] =>
             /\ obligation[e].state # "exhausted"
             /\ obligation'[e].attempt = obligation[e].attempt + 1]_obligation

\* "After the limit the obligation becomes exhausted and the receipt says
\* terminal-failure": an event is not both dead-lettered and applied.
DeadLetteredIsNotApplied ==
    \A e \in deadLetters : receipt[e] # "applied"

\* "Cross-stream duplicate advances the second cursor": the commit of a
\* duplicate is never refused by the journal.
DuplicateIsAccepted ==
    \A w \in Workers :
       At(w, "duplicate") =>
          ~CommitConflict(worker[w].canonical, Message(w), worker[w].stream, worker[w].at)
================================================================================

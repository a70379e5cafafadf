------------------------------ MODULE EventJournal ------------------------------
(***************************************************************************)
(* The event journal of one consumer (app/src/event-journal.ts): the events  *)
(* of its streams, its receipts, its cursors, the retry obligations, dead     *)
(* letters and barrier intents of its deliveries, and the external operations  *)
(* they wait for.  The journal is one durable log; what is kept here is what   *)
(* its readers fold from it.  Every operation below is one transaction of the  *)
(* log; a refused operation throws and appends nothing.                        *)
(***************************************************************************)
EXTENDS Naturals, Sequences

CONSTANTS Streams, Messages, NoStream

Events == Streams \X Messages

Final == {"applied", "rejected", "stale", "terminal-failure"}

VARIABLES
    log,          \* the messages of each stream, in sequence
    receipt,      \* disposition of each event, "none" before its receipt
    cursor,       \* last handled sequence of each stream
    suffixed,     \* commit ids of the cursor-only commits: receipt's stream, message, sequence
    obligation,   \* the latest retry obligation of each event
    deadLetters,
    intents,      \* events with a persisted barrier intent
    operation     \* state of each message's external operation

journalVars == <<log, receipt, cursor, suffixed, obligation, deadLetters, intents, operation>>

NoObligation == [attempt |-> 0, state |-> "none"]
OperationStates == {"none", "pending", "settled", "failed", "unknown", "reconciled"}

JournalTypeOK ==
    /\ log \in [Streams -> Seq(Messages)]
    /\ receipt \in [Events -> Final \cup {"none"}]
    /\ cursor \in [Streams -> Nat]
    /\ suffixed \subseteq Events \X Nat
    /\ obligation \in [Events -> [attempt : Nat, state : {"none", "pending", "exhausted"}]]
    /\ deadLetters \subseteq Events /\ intents \subseteq Events
    /\ operation \in [Messages -> OperationStates]

JournalInit ==
    /\ log = [s \in Streams |-> <<>>]
    /\ receipt = [e \in Events |-> "none"]
    /\ cursor = [s \in Streams |-> 0]
    /\ suffixed = {} /\ deadLetters = {} /\ intents = {}
    /\ obligation = [e \in Events |-> NoObligation]
    /\ operation = [m \in Messages |-> "none"]

-------------------------------------------------------------------------------
(* Publication: a message is appended to a stream once. *)

Published(s, m) == \E i \in DOMAIN log[s] : log[s][i] = m

AppendEvent(s, m) ==
    /\ ~Published(s, m)
    /\ log' = [log EXCEPT ![s] = Append(@, m)]
    /\ UNCHANGED <<receipt, cursor, suffixed, obligation, deadLetters, intents, operation>>

-------------------------------------------------------------------------------
(* Receipts and cursors. *)

\* readReceipt looks for the message in every stream of the consumer.
Receipts(m) == {s \in Streams : receipt[<<s, m>>] # "none"}

\* commitConsumerCommit of a receipt of stream r (which may be an earlier one of
\* the same message) with the cursor of stream s.  A receipt on record is
\* never replaced, and the cursor never moves back.
Held(r, m) == receipt[<<r, m>>] # "none"
Settled(r, m, s, seq) == Held(r, m) /\ cursor[s] >= seq

\* The id of a cursor-only commit has the receipt's stream and the sequence, and
\* not the cursor's stream.
CommitId(r, m, seq) == <<<<r, m>>, seq>>
CommitConflict(r, m, s, seq) ==
    /\ Held(r, m) /\ ~Settled(r, m, s, seq)
    /\ CommitId(r, m, seq) \in suffixed

\* Mutant: a later disposition replaces the receipt.
LastReceipt(r, m, disposition) == disposition

KeptReceipt(r, m, disposition) == IF Held(r, m) THEN receipt[<<r, m>>] ELSE disposition

NextCursor(s, seq) == IF cursor[s] > seq THEN cursor[s] ELSE seq

CommitConsumer(r, m, s, seq, disposition) ==
    /\ ~CommitConflict(r, m, s, seq)
    /\ IF Settled(r, m, s, seq) THEN UNCHANGED <<receipt, cursor, suffixed>>
       ELSE /\ receipt' = [receipt EXCEPT ![<<r, m>>] = KeptReceipt(r, m, disposition)]
            /\ cursor' = [cursor EXCEPT ![s] = NextCursor(s, seq)]
            /\ suffixed' = IF Held(r, m) THEN suffixed \cup {CommitId(r, m, seq)} ELSE suffixed
    /\ UNCHANGED <<log, obligation, deadLetters, intents, operation>>

-------------------------------------------------------------------------------
(* Retry obligations and dead letters. *)

\* An obligation's commit id has its attempt and state, its content the time of
\* the next attempt: two deliveries of one attempt conflict.  Attempts follow
\* one another, so every earlier attempt is on record too.
RetryConflict(e, attempt) == attempt <= obligation[e].attempt

CommitRetry(e, attempt, state) ==
    /\ ~RetryConflict(e, attempt)
    /\ obligation' = [obligation EXCEPT ![e] = [attempt |-> attempt, state |-> state]]
    /\ UNCHANGED <<log, receipt, cursor, suffixed, deadLetters, intents, operation>>

CommitDlq(e) ==
    /\ deadLetters' = deadLetters \cup {e}
    /\ UNCHANGED <<log, receipt, cursor, suffixed, obligation, intents, operation>>

-------------------------------------------------------------------------------
(* Barrier intents and external operations. *)

CommitIntent(e) ==
    /\ intents' = intents \cup {e}
    /\ UNCHANGED <<log, receipt, cursor, suffixed, obligation, deadLetters, operation>>

\* The states commitExternalOperation accepts; the same state again is no append.
OperationNext(state) ==
    CASE state = "none" -> {"pending", "settled"}
      [] state = "pending" -> {"pending", "settled", "failed", "unknown"}
      [] state \in {"settled", "unknown"} -> {state, "reconciled"}
      [] OTHER -> {state}

CommitOperation(m, state) ==
    /\ state \in OperationNext(operation[m])
    /\ operation' = [operation EXCEPT ![m] = state]
    /\ UNCHANGED <<log, receipt, cursor, suffixed, obligation, deadLetters, intents>>
===============================================================================

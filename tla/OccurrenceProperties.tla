------------------------- MODULE OccurrenceProperties -------------------------
(* What scheduled executions promise, over restarts, replaced daemons and the  *)
(* controls of their users.                                                    *)
EXTENDS OccurrenceExecution

\* Types of the durable state, of the world and of the ticks.
TypeOK ==
    /\ plan \in [state : {"active", "suspended", "cancelled", "exhausted"},
                 revision : 1 .. MaxRevision, ordinal : 0 .. Slots,
                 modified : 0 .. MaxRevision, reminder : Ids \cup {NoOccurrence}]
    /\ occurrence \in [Ids -> {"none", "due", "claimed", "consumed", "skipped-busy",
                               "reminder-pending", "invalidated"}]
    /\ claims \in [Ids -> 0 .. Generations] /\ admitted \in [Ids -> 0 .. Generations]
    /\ settlements \in [Ids -> Outcomes \cup {"none"}]
    /\ checkpoint \in [Ids -> Outcomes \cup {"none"}]
    /\ receipt \in [Ids -> Outcomes \cup {"none"}]
    /\ executed \in [Ids -> Nat]
    /\ lease \in Daemons /\ alive \subseteq Daemons
    /\ granted \subseteq Ids /\ expired \subseteq Ids

\* The child of an occurrence is executed at most once, whichever daemons
\* resume its claim and however their dispatches end: the admission that
\* guardedAdmission writes is looked up by every later one.
ExecutedOnce == \A i \in Ids : executed[i] <= 1

\* The terminal outcome is written once. A success comes from the daemon that
\* was admitted and has executed the child, and that has the lease still: one
\* that was replaced during its dispatch cannot report it any more.
OutcomeIsTheOwners ==
    [][\A i \in Ids : checkpoint'[i] # checkpoint[i] =>
          /\ checkpoint[i] = "none"
          /\ checkpoint'[i] = "success" => executed[i] = 1 /\ admitted[i] = lease]_vars

\* What an occurrence is settled with is its durable receipt, and that is what
\* its terminal checkpoint says: a settlement never runs ahead of the consumer's
\* journal, whichever daemon reads and settles it.
SettledIsReceipt ==
    \A i \in Ids :
        /\ settlements[i] # "none" => receipt[i] = settlements[i]
        /\ receipt[i] # "none" => checkpoint[i] = receipt[i]

\* A slot that was skipped, or invalidated by a control, stays so: no patrol
\* that had decided to run it before claims, admits or executes it.
ClosedNeverRuns ==
    [][\A i \in Ids : occurrence[i] \in {"skipped-busy", "invalidated"} =>
          /\ occurrence'[i] = occurrence[i]
          /\ claims'[i] = 0 /\ admitted'[i] = 0 /\ executed'[i] = 0]_vars

\* The progress of the plan stands for slots of the policy it has now: a claim
\* made before a modification does not advance the plan that replaced it.
ProgressIsEarned ==
    plan.ordinal > 0 =>
        \E i \in Ids : Revision(i) >= plan.modified /\ Ordinal(i) >= plan.ordinal
                       /\ occurrence[i] # "none"

\* Settled occurrences, receipts and admissions stay what they are, and the
\* plan loses progress only by a modification.
HistoryIsKept ==
    [][/\ \A i \in Ids :
             /\ settlements[i] # "none" => settlements'[i] = settlements[i]
             /\ receipt[i] # "none" => receipt'[i] = receipt[i]
             /\ admitted[i] # 0 => admitted'[i] = admitted[i]
       /\ plan'.ordinal < plan.ordinal => plan'.modified > plan.modified]_vars

\* A slot is executed once while its policy is not modified: pausing and
\* resuming the plan gives it a new revision, but executes nothing again.
SlotRunsOnce ==
    \A i, j \in Ids :
        /\ i # j /\ Ordinal(i) = Ordinal(j)
        /\ Revision(i) >= plan.modified /\ Revision(j) >= plan.modified
        => executed[i] = 0 \/ executed[j] = 0

----------------------------------------------------------------------------
\* An occurrence that no tick of the lease's daemon can finish: its child has no
\* grant, its slot lies ahead, its receipt is missing, its claim expired before
\* it could be used, or its dispatch was given up and this daemon admitted it.
Stuck(i) ==
    /\ occurrence[i] = "claimed" /\ receipt[i] = "none"
    /\ \A d \in alive : ~(Id(d) = i /\ patrol[d].pc \in {"dispatch", "commit", "receipt"})
    /\ \/ Waits /\ i \notin granted
       \/ DueAt(i) > clock
       \/ checkpoint[i] # "none"
       \/ i \in expired /\ admitted[i] \in {0, lease}
       \/ admitted[i] = lease

\* A claimed occurrence is settled, whatever daemons crash or are replaced on
\* the way, unless it or an earlier one ends stuck, or no daemon has the lease.
ClaimIsSettled ==
    \A i \in Ids :
        \/ occurrence[i] = "claimed" ~> occurrence[i] = "consumed"
        \/ <>[](\/ lease \notin alive
                \/ \E j \in Ids : Stuck(j) /\ (i = j \/ Earlier(j, i)))
=============================================================================

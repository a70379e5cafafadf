------------------------------ MODULE BoundarySave -----------------------------
(***************************************************************************)
(* The save of a closed turn's boundary (checkpoints/boundary-save.ts over  *)
(* adapters/jsonl/src/native-save-progress.ts).  The save begins by making  *)
(* its intent durable; then each phase reads its receipt, or commits and    *)
(* has the progress recorded.  The first three phases were committed by the *)
(* closing of the turn; the save reads them back.                           *)
(***************************************************************************)
EXTENDS TurnClosing

VARIABLES
    intent,     \* the native save intent is durable
    receipts,   \* the phases the save committed
    progress,   \* the recorded progress: the state of each phase
    save        \* the run of the live process

saveVars == <<intent, receipts, progress, save>>

PhaseOrder == <<"recovery-assets", "checkpoint", "closure", "context-view",
                "history-publication">>
Phases == {PhaseOrder[i] : i \in DOMAIN PhaseOrder}
PhaseStates == {"not-executed", "committed", "failed", "unknown"}

\* What the owner of a phase reads back.
HasReceipt(p) ==
    \/ p = "recovery-assets" /\ \E r \in port : r.kind = "preparation"
    \/ p = "checkpoint" /\ \E i \in DOMAIN checkpoints : checkpoints[i].owner = Turn
    \/ p = "closure" /\ \E r \in port : r.kind = "closure"
    \/ p \in receipts

NoRun == [next |-> 0, progress |-> [p \in Phases |-> "not-executed"], complete |-> FALSE]

SaveInit ==
    /\ intent = FALSE
    /\ receipts = {}
    /\ progress = [p \in Phases |-> "not-executed"]
    /\ save = NoRun

-------------------------------------------------------------------------------

\* saveBoundary on a closed turn.  The intent is made durable once; the progress
\* is read back.  Either may fail, and an unknown progress holds the run.
BeginSave ==
    /\ loop.phase \in {"awaiting", "aligned"}
    /\ save.next = 0
    /\ \/ /\ intent' = TRUE
          /\ save' = [NoRun EXCEPT !.next = 1, !.progress = progress]
       \/ /\ intent' \in {intent, TRUE}
          /\ save' = NoRun
    /\ UNCHANGED <<receipts, progress, chainVars, closingVars>>

Marked(p, s) == [save.progress EXCEPT ![p] = s]

\* Mutant: the phase whose commit fails is marked like the others.
FailPhaseCommitted(p, s) ==
    /\ progress' \in {progress, Marked(p, "committed")}
    /\ save' = NoRun

\* failPhase: the failure is recorded, or that fails too.
FailPhase(p, s) ==
    /\ progress' \in {progress, Marked(p, s)}
    /\ save' = NoRun

NextPhase(p) ==
    save' = [save EXCEPT !.next = @ + 1, !.progress = Marked(p, "committed")]

\* A receipt that is there is only marked in memory; a commit is recorded before
\* the next phase.  The record may be lost, with or without having been made.
SavePhase ==
    /\ save.next \in DOMAIN PhaseOrder
    /\ LET p == PhaseOrder[save.next] IN
       \/ /\ HasReceipt(p)
          /\ NextPhase(p)
          /\ UNCHANGED <<receipts, progress>>
       \/ /\ FailPhase(p, "unknown")
          /\ UNCHANGED receipts
       \/ /\ ~HasReceipt(p)
          /\ receipts' \in {receipts, receipts \cup {p}}
          /\ FailPhase(p, "failed")
       \/ /\ ~HasReceipt(p)
          /\ receipts' = receipts \cup {p}
          /\ \/ /\ progress' = Marked(p, "committed")
                /\ NextPhase(p)
             \/ /\ progress' \in {progress, Marked(p, "committed")}
                /\ save' = NoRun
    /\ UNCHANGED <<intent, chainVars, closingVars>>

\* exactReceipts: every receipt is read once more.
CompleteSave ==
    /\ save.next > Len(PhaseOrder)
    /\ \/ /\ \A p \in Phases : HasReceipt(p)
          /\ save' = [NoRun EXCEPT !.complete = TRUE]
       \/ save' = NoRun
    /\ UNCHANGED <<intent, receipts, progress, chainVars, closingVars>>
===============================================================================
